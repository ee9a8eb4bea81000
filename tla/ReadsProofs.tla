---------------------------- MODULE ReadsProofs ----------------------------
(***************************************************************************)
(* Theorems about the readers of data that moves under them, for any       *)
(* number of sources, returns, pages, attempts and receipts                *)
(* (EvidenceReads), and of cases, clients, probes and commits, for any     *)
(* bounds of the lag and of a page (ReadReplica).                          *)
(***************************************************************************)
EXTENDS MCReads, FiniteSetTheorems, SequenceTheorems, WellFoundedInduction, TLAPS

-----------------------------------------------------------------------------
(* Sets of numbers, and sets with one element at most *)

LEMMA SmallestOf ==
    ASSUME NEW S \in SUBSET Nat, S # {}
    PROVE  \E x \in S : \A y \in S : x <= y
  <1>1. PICK x \in S : \A y \in S : <<y, x>> \notin OpToRel(<, Nat)
    BY NatLessThanWellFounded, WFMin
  <1>2. \A y \in S : ~(y < x)
    BY <1>1 DEF OpToRel
  <1> QED BY <1>2

LEMMA LargestOf ==
    ASSUME NEW n \in Nat, NEW S \in SUBSET (1..n), S # {}
    PROVE  \E x \in S : \A y \in S : y <= x
  <1> DEFINE T == {n - x : x \in S}
  <1>0. \A x \in S : n - x \in Nat
    OBVIOUS
  <1>1. T \in SUBSET Nat /\ T # {}
    BY <1>0
  <1> HIDE DEF T
  <1>2. PICK t \in T : \A u \in T : t <= u
    BY <1>1, SmallestOf
  <1>3. PICK x \in S : t = n - x
    BY <1>2 DEF T
  <1>4. \A y \in S : n - y \in T
    BY DEF T
  <1>5. \A y \in S : y <= x
    BY <1>2, <1>3, <1>4
  <1> QED BY <1>5

LEMMA AtMostOne ==
    ASSUME NEW S, \A x, y \in S : x = y
    PROVE  IsFiniteSet(S) /\ Cardinality(S) <= 1
  <1>1. CASE S = {}
    BY <1>1, FS_EmptySet
  <1>2. ASSUME NEW x \in S PROVE IsFiniteSet(S) /\ Cardinality(S) <= 1
    <2>1. \A y \in S : y = x
      BY <1>2
    <2>2. S = {x}
      BY <1>2, <2>1
    <2>3. IsFiniteSet({x}) /\ Cardinality({x}) = 1
      BY FS_Singleton
    <2> QED BY <2>2, <2>3
  <1> QED BY <1>1, <1>2

-----------------------------------------------------------------------------
(* Lists and their pages *)

\* A record that moves to the end of its list is there once as before.
LEMMA ToEndKeepsEntries ==
    ASSUME NEW list \in Seq(Returns), NEW k \in DOMAIN list, OneEntryEach(list, Returns)
    PROVE  /\ ToEnd(list, k) \in Seq(Returns)
           /\ Len(ToEnd(list, k)) = Len(list)
           /\ OneEntryEach(ToEnd(list, k), Returns)
           /\ \A j \in DOMAIN list : ToEnd(list, k)[j] # list[k] =>
                 \E i \in DOMAIN list : j <= i /\ list[i] = ToEnd(list, k)[j]
  <1> DEFINE n == Len(list)
             new == ToEnd(list, k)
  <1>1. n \in Nat /\ DOMAIN list = 1..n /\ \A i \in 1..n : list[i] \in Returns
    BY LenProperties
  <1>2. /\ new = [i \in 1..n |-> IF i < k THEN list[i] ELSE IF i < n THEN list[i + 1] ELSE list[k]]
        /\ \A i \in 1..n : new[i] \in Returns
    BY <1>1 DEF ToEnd
  <1>3. new \in Seq(Returns) /\ Len(new) = n /\ DOMAIN new = 1..n
    BY <1>1, <1>2
  <1>4. \A i \in 1..n : new[i] = IF i < k THEN list[i] ELSE IF i < n THEN list[i + 1] ELSE list[k]
    BY <1>2
  <1> HIDE DEF new, n
  <1>5. \A i, j \in 1..n : list[i] = list[j] => i = j
    BY <1>1 DEF OneEntryEach
  <1>6. k \in 1..n
    BY <1>1
  <1>7. \A i, j \in 1..n : new[i] = new[j] => i = j
    BY <1>1, <1>4, <1>5, <1>6
  <1>8. \A j \in 1..n : new[j] # list[k] => \E i \in 1..n : j <= i /\ list[i] = new[j]
    BY <1>1, <1>4, <1>6
  <1> QED BY <1>1, <1>3, <1>7, <1>8 DEF OneEntryEach, new, n

LEMMA AppendKeepsEntries ==
    ASSUME NEW list \in Seq(Returns), NEW n \in Returns,
           OneEntryEach(list, Returns), \A k \in DOMAIN list : list[k] # n
    PROVE  /\ Append(list, n) \in Seq(Returns)
           /\ Len(Append(list, n)) = Len(list) + 1
           /\ OneEntryEach(Append(list, n), Returns)
           /\ \A j \in DOMAIN list : Append(list, n)[j] = list[j]
           /\ Append(list, n)[Len(list) + 1] = n
  <1>1. /\ Len(list) \in Nat /\ DOMAIN list = 1..Len(list)
        /\ \A i \in 1..Len(list) : list[i] \in Returns
    BY LenProperties
  <1>2. /\ Append(list, n) \in Seq(Returns)
        /\ Len(Append(list, n)) = Len(list) + 1
        /\ DOMAIN Append(list, n) = 1..(Len(list) + 1)
        /\ \A j \in 1..Len(list) : Append(list, n)[j] = list[j]
        /\ Append(list, n)[Len(list) + 1] = n
    OBVIOUS
  <1>3. OneEntryEach(Append(list, n), Returns)
    <2> SUFFICES ASSUME NEW i \in 1..(Len(list) + 1), NEW j \in 1..(Len(list) + 1),
                        Append(list, n)[i] = Append(list, n)[j]
                 PROVE  i = j
      BY <1>2 DEF OneEntryEach
    <2>1. CASE i \in 1..Len(list) /\ j \in 1..Len(list)
      BY <2>1, <1>1, <1>2 DEF OneEntryEach
    <2>2. CASE i = Len(list) + 1 \/ j = Len(list) + 1
      BY <2>2, <1>1, <1>2
    <2> QED BY <2>1, <2>2, <1>1
  <1> QED BY <1>1, <1>2, <1>3

LEMMA ListGrows ==
    ASSUME NEW S, NEW list \in Seq(S), NEW new,
           new = list \/ \E e \in S : new = Append(list, e)
    PROVE  /\ new \in Seq(S)
           /\ Len(new) \in Nat /\ Len(list) <= Len(new)
           /\ DOMAIN new = 1..Len(new)
           /\ \A i \in 1..Len(list) : i \in 1..Len(new) /\ new[i] = list[i]
           /\ 0..Len(list) \subseteq 0..Len(new)
  <1>1. Len(list) \in Nat /\ DOMAIN list = 1..Len(list)
    BY LenProperties
  <1>2. CASE new = list
    BY <1>1, <1>2
  <1>3. ASSUME NEW e \in S, new = Append(list, e)
        PROVE  /\ new \in Seq(S) /\ Len(new) = Len(list) + 1
               /\ DOMAIN new = 1..Len(new)
               /\ \A i \in 1..Len(list) : new[i] = list[i]
    <2>1. /\ Append(list, e) \in Seq(S)
          /\ Len(Append(list, e)) = Len(list) + 1
          /\ \A i \in 1..Len(list) : Append(list, e)[i] = list[i]
      BY <1>1, AppendProperties
    <2> QED BY <2>1, <1>3, LenProperties
  <1>4. ASSUME Len(new) = Len(list) + 1
        PROVE  /\ Len(new) \in Nat /\ Len(list) <= Len(new)
               /\ \A i \in 1..Len(list) : i \in 1..Len(new)
               /\ 0..Len(list) \subseteq 0..Len(new)
    BY <1>1, <1>4
  <1> QED BY <1>2, <1>3, <1>4

LEMMA OffsetsAreNumbers ==
    ASSUME NEW k \in Nat
    PROVE  /\ k * PageSize \in Nat
           /\ (k + 1) * PageSize = k * PageSize + PageSize
           /\ PageSize \in Nat \ {0}
  BY ReadsAssumption

\* The page at an offset that the list has reached, or is beyond.
LEMMA PageIsPart ==
    ASSUME NEW k \in Nat, invoices \in Seq(Returns)
    PROVE  /\ Page(k) \in Seq(Returns)
           /\ \A i \in 1..Len(Page(k)) :
                 /\ k * PageSize + i \in 1..Len(invoices)
                 /\ Page(k)[i] = invoices[k * PageSize + i]
           /\ Len(Page(k)) <= PageSize
           /\ ~IsLast(Page(k)) => k * PageSize + PageSize <= Len(invoices)
           /\ IsLast(Page(k)) /\ k * PageSize <= Len(invoices) =>
                 k * PageSize + Len(Page(k)) = Len(invoices)
  <1> DEFINE b == k * PageSize
             n == Len(invoices)
             last == IF b + PageSize < n THEN b + PageSize ELSE n
  <1>1. b \in Nat /\ (k + 1) * PageSize = b + PageSize /\ PageSize \in Nat \ {0}
    BY OffsetsAreNumbers
  <1>2. n \in Nat /\ \A i \in 1..n : invoices[i] \in Returns
    BY LenProperties
  <1>3. Page(k) = SubSeq(invoices, b + 1, last)
    BY <1>1 DEF Page
  <1> HIDE DEF b, n
  <1>4. last \in Nat /\ last <= n /\ \A i \in (b + 1)..last : invoices[i] \in Returns
    BY <1>1, <1>2
  <1>5. b + 1 \in Int /\ last \in Int
    BY <1>1, <1>4
  <1> HIDE DEF last
  <1>6. /\ SubSeq(invoices, b + 1, last) \in Seq(Returns)
        /\ Len(SubSeq(invoices, b + 1, last)) = IF b + 1 <= last THEN last - (b + 1) + 1 ELSE 0
        /\ \A i \in 1..(last - (b + 1) + 1) :
              SubSeq(invoices, b + 1, last)[i] = invoices[b + 1 + i - 1]
    BY <1>4, <1>5, SubSeqProperties
  <1>7. Len(Page(k)) = IF b < last THEN last - b ELSE 0
    BY <1>1, <1>3, <1>4, <1>6
  <1>8. ASSUME NEW i \in 1..Len(Page(k))
        PROVE  b + i \in 1..n /\ Page(k)[i] = invoices[b + i]
    <2>1. b < last /\ i \in 1..(last - b)
      BY <1>7, <1>4, <1>1
    <2>2. b + 1 + i - 1 = b + i /\ i \in 1..(last - (b + 1) + 1) /\ b + i \in 1..n
      BY <2>1, <1>1, <1>2, <1>4
    <2> QED BY <2>2, <1>3, <1>6
  <1>9. /\ Len(Page(k)) <= PageSize
        /\ ~(Len(Page(k)) < PageSize) => b + PageSize <= n
        /\ Len(Page(k)) < PageSize /\ b <= n => b + Len(Page(k)) = n
    BY <1>1, <1>2, <1>7 DEF last
  <1> QED BY <1>3, <1>6, <1>8, <1>9 DEF IsLast, b, n

-----------------------------------------------------------------------------
(* The reads of a case *)

LEMMA InitReads == Init => ReadsInductive
  <1> SUFFICES ASSUME Init PROVE ReadsInductive
    OBVIOUS
  <1>1. PICK n \in 0..MaxReturns : invoices = [i \in 1..n |-> i]
    BY DEF Init
  <1>2. /\ invoices \in Seq(Returns) /\ Len(invoices) = n /\ DOMAIN invoices = 1..n
        /\ \A i \in 1..n : invoices[i] = i
    BY <1>1, ReadsAssumption DEF Returns
  <1>3. OneEntryEach(invoices, Returns)
    BY <1>2 DEF OneEntryEach
  <1>4. MaxPages \in Nat /\ MaxAttempts \in Nat \ {0}
    BY ReadsAssumption
  <1>5. <<>> \in Seq(Returns) /\ <<>> \in Seq(Receipts) /\ Len(<<>>) = 0
    BY EmptySeq
  <1>6. TypeOK
    BY <1>2, <1>4, <1>5 DEF Init, TypeOK, Nothing
  <1>7. AttemptsAreLeft
    BY <1>4 DEF Init, AttemptsAreLeft
  <1>8. PagesAreBehind /\ CountedOnce /\ PostedIsBound
    BY ReadsAssumption DEF Init, PagesAreBehind, CountedOnce, PostedIsBound
  <1> QED BY <1>3, <1>6, <1>7, <1>8 DEF ReadsInductive

\* A receipt that is added changes nothing about a posting.
LEMMA ReceiptsGrow ==
    ASSUME ReadsInductive,
           receipts' = receipts \/ \E r \in Receipts : receipts' = Append(receipts, r),
           UNCHANGED references, stage' = "posted" => stage = "posted"
    PROVE  /\ receipts' \in Seq(Receipts)
           /\ Len(receipts') \in Nat /\ Len(receipts) <= Len(receipts')
           /\ references' \in [Slots -> 0..Len(receipts')]
           /\ PostedIsBound'
  <1>1. /\ receipts \in Seq(Receipts) /\ Len(receipts) \in Nat
        /\ DOMAIN receipts = 1..Len(receipts)
    BY LenProperties DEF ReadsInductive, TypeOK
  <1>2. /\ receipts' \in Seq(Receipts)
        /\ Len(receipts') \in Nat /\ Len(receipts) <= Len(receipts')
        /\ DOMAIN receipts' = 1..Len(receipts')
        /\ \A i \in 1..Len(receipts) : i \in 1..Len(receipts') /\ receipts'[i] = receipts[i]
        /\ 0..Len(receipts) \subseteq 0..Len(receipts')
    BY <1>1, ListGrows
  <1>3. references' \in [Slots -> 0..Len(receipts')]
    <2>1. references \in [Slots -> 0..Len(receipts)] /\ references' = references
      BY DEF ReadsInductive, TypeOK
    <2> QED BY <2>1, <1>2
  <1>4. ASSUME stage' = "posted" PROVE PostedIsBound'
    <2>1. /\ \A slot \in Slots : references[slot] \in 1..Len(receipts)
          /\ ReferencesAgree /\ stage = "posted"
      BY <1>1, <1>4 DEF ReadsInductive, PostedIsBound
    <2>2. \A slot \in Slots :
             /\ references'[slot] \in DOMAIN receipts'
             /\ receipts'[references'[slot]] = receipts[references[slot]]
      <3> TAKE slot \in Slots
      <3>1. references[slot] \in 1..Len(receipts) /\ references' = references
        BY <2>1
      <3> QED BY <3>1, <1>2
    <2>3. {"ORDER", "CONTRACT", "COMMISSION_LEDGER"} \subseteq Slots
      BY DEF Slots
    <2>4. ReferencesAgree'
      BY <2>1, <2>2, <2>3 DEF ReferencesAgree
    <2> QED BY <2>2, <2>4 DEF PostedIsBound
  <1> QED BY <1>2, <1>3, <1>4 DEF PostedIsBound

LEMMA TouchKeeps == ASSUME ReadsInductive, NEW n \in Returns, Touch(n) PROVE ReadsInductive'
  <1> USE DEF ReadsInductive
  <1>1. /\ touched' = touched \cup {n}
        /\ UNCHANGED <<partner, caller, got, pages, receipts, stage, result, attempts, facts,
                       counted, references>>
    BY DEF Touch, run
  <1>2. invoices \in Seq(Returns) /\ got \in Seq(Returns)
    BY DEF TypeOK
  <1>3. /\ Len(invoices) \in Nat /\ DOMAIN invoices = 1..Len(invoices)
        /\ Len(got) \in Nat /\ DOMAIN got = 1..Len(got)
        /\ \A i \in 1..Len(got) : got[i] \in Returns
    BY <1>2, LenProperties
  <1>4. /\ invoices' \in Seq(Returns) /\ DOMAIN invoices' = 1..Len(invoices')
        /\ OneEntryEach(invoices', Returns)
        /\ \A j \in 1..Len(invoices') : invoices'[j] # n =>
              \E i \in 1..Len(invoices) : j <= i /\ invoices[i] = invoices'[j]
    <2>1. ASSUME NEW k \in DOMAIN invoices, invoices[k] = n, invoices' = ToEnd(invoices, k)
          PROVE  /\ invoices' \in Seq(Returns) /\ DOMAIN invoices' = 1..Len(invoices')
                 /\ OneEntryEach(invoices', Returns)
                 /\ \A j \in 1..Len(invoices') : invoices'[j] # n =>
                       \E i \in 1..Len(invoices) : j <= i /\ invoices[i] = invoices'[j]
      <3>1. /\ ToEnd(invoices, k) \in Seq(Returns)
            /\ Len(ToEnd(invoices, k)) = Len(invoices)
            /\ OneEntryEach(ToEnd(invoices, k), Returns)
            /\ \A j \in DOMAIN invoices : ToEnd(invoices, k)[j] # invoices[k] =>
                  \E i \in DOMAIN invoices : j <= i /\ invoices[i] = ToEnd(invoices, k)[j]
        BY <1>2, ToEndKeepsEntries
      <3>2. DOMAIN invoices' = 1..Len(invoices')
        BY <3>1, <2>1, LenProperties
      <3> QED BY <3>1, <3>2, <2>1, <1>3
    <2>2. ASSUME \A k \in DOMAIN invoices : invoices[k] # n, invoices' = Append(invoices, n)
          PROVE  /\ invoices' \in Seq(Returns) /\ DOMAIN invoices' = 1..Len(invoices')
                 /\ OneEntryEach(invoices', Returns)
                 /\ \A j \in 1..Len(invoices') : invoices'[j] # n =>
                       \E i \in 1..Len(invoices) : j <= i /\ invoices[i] = invoices'[j]
      <3>1. /\ Append(invoices, n) \in Seq(Returns)
            /\ Len(Append(invoices, n)) = Len(invoices) + 1
            /\ OneEntryEach(Append(invoices, n), Returns)
            /\ \A j \in DOMAIN invoices : Append(invoices, n)[j] = invoices[j]
            /\ Append(invoices, n)[Len(invoices) + 1] = n
        BY <1>2, <2>2, AppendKeepsEntries
      <3>2. DOMAIN invoices' = 1..Len(invoices')
        BY <3>1, <2>2, LenProperties
      <3>3. \A j \in 1..Len(invoices') : invoices'[j] # n =>
               j <= j /\ j \in 1..Len(invoices) /\ invoices[j] = invoices'[j]
        BY <3>1, <2>2, <1>3
      <3> QED BY <3>1, <3>2, <3>3, <2>2
    <2> QED BY <2>1, <2>2 DEF Touch
  <1>5. PagesAreBehind'
    <2> SUFFICES ASSUME caller = "REFUND_RECORD"
                 PROVE  /\ Len(got) = pages * PageSize
                        /\ OneEntryEach(got, Returns \ touched')
                        /\ \A i \in DOMAIN got, j \in DOMAIN invoices' :
                              got[i] = invoices'[j] /\ got[i] \notin touched' => j <= Len(got)
                        /\ touched' # {}
      BY <1>1 DEF PagesAreBehind
    <2>1. /\ Len(got) = pages * PageSize
          /\ OneEntryEach(got, Returns \ touched)
          /\ \A i \in DOMAIN got, j \in DOMAIN invoices :
                got[i] = invoices[j] /\ got[i] \notin touched => j <= Len(got)
      BY DEF PagesAreBehind
    <2>2. OneEntryEach(got, Returns \ touched')
      BY <1>1, <2>1 DEF OneEntryEach
    <2>3. ASSUME NEW i \in DOMAIN got, NEW j \in DOMAIN invoices',
                 got[i] = invoices'[j], got[i] \notin touched'
          PROVE  j <= Len(got)
      <3>1. j \in 1..Len(invoices') /\ invoices'[j] # n /\ got[i] \notin touched
        BY <1>1, <1>4, <2>3
      <3>2. PICK m \in 1..Len(invoices) : j <= m /\ invoices[m] = invoices'[j]
        BY <1>4, <3>1
      <3>3. m <= Len(got)
        BY <1>3, <2>1, <2>3, <3>1, <3>2
      <3>4. j \in Int /\ m \in Int /\ Len(got) \in Int
        BY <1>3, <1>4, <3>1, <3>2, LenProperties
      <3> QED BY <3>2, <3>3, <3>4
    <2> QED BY <1>1, <2>1, <2>2, <2>3
  <1>6. TypeOK'
    BY <1>1, <1>4 DEF TypeOK
  <1>7. AttemptsAreLeft' /\ CountedOnce'
    BY <1>1 DEF AttemptsAreLeft, CountedOnce, OneEntryEach
  <1>8. PostedIsBound'
    BY <1>1, ReceiptsGrow
  <1> QED BY <1>4, <1>5, <1>6, <1>7, <1>8

LEMMA ReassignKeeps ==
    ASSUME ReadsInductive, NEW p \in Partners, Reassign(p) PROVE ReadsInductive'
  <1> USE DEF ReadsInductive
  <1>1. /\ partner' = p
        /\ UNCHANGED <<invoices, caller, got, pages, touched, receipts, stage, result, attempts,
                       facts, counted, references>>
    BY DEF Reassign, call, run
  <1>2. TypeOK'
    BY <1>1 DEF TypeOK
  <1>3. AttemptsAreLeft' /\ OneEntryEach(invoices', Returns) /\ PagesAreBehind' /\ CountedOnce'
    BY <1>1 DEF AttemptsAreLeft, OneEntryEach, PagesAreBehind, CountedOnce
  <1>4. PostedIsBound'
    BY <1>1, ReceiptsGrow
  <1> QED BY <1>2, <1>3, <1>4

\* The run goes on, or a read apart is recorded.
LEMMA RunMoves ==
    ASSUME ReadsInductive, Begin \/ Collect \/ \E r \in Receipts : ReadApart(r)
    PROVE  ReadsInductive'
  <1> USE DEF ReadsInductive
  <1>1. /\ UNCHANGED <<invoices, partner, caller, got, pages, touched, result, attempts, facts,
                       counted, references>>
        /\ receipts' = receipts \/ \E r \in Receipts : receipts' = Append(receipts, r)
        /\ stage' \in {stage, "batch", "raised", "collected"}
    BY DEF Begin, Collect, ReadApart, erp, call, run
  <1>2. /\ receipts' \in Seq(Receipts)
        /\ Len(receipts') \in Nat /\ Len(receipts) <= Len(receipts')
        /\ references' \in [Slots -> 0..Len(receipts')]
        /\ PostedIsBound'
    BY <1>1, ReceiptsGrow
  <1>3. Len(receipts) \in Nat /\ facts' \in [Slots -> 0..Len(receipts')]
    BY <1>1, <1>2, LenProperties DEF TypeOK
  <1>4. TypeOK'
    BY <1>1, <1>2, <1>3 DEF TypeOK
  <1>5. AttemptsAreLeft' /\ OneEntryEach(invoices', Returns) /\ PagesAreBehind' /\ CountedOnce'
    BY <1>1 DEF AttemptsAreLeft, OneEntryEach, PagesAreBehind, CountedOnce
  <1> QED BY <1>2, <1>4, <1>5

LEMMA EnterKeeps == ASSUME ReadsInductive, NEW s \in Sources, Enter(s) PROVE ReadsInductive'
  <1> USE DEF ReadsInductive
  <1>1. /\ result[s] = "waiting" /\ caller = Nobody
        /\ caller' = s /\ got' = <<>> /\ pages' = 0 /\ touched' = {}
        /\ attempts' = [attempts EXCEPT ![s] = @ + 1]
        /\ UNCHANGED <<invoices, partner, receipts, stage, result, facts, counted, references>>
    BY DEF Enter, erp
  <1>2. attempts[s] < MaxAttempts /\ MaxAttempts \in Nat /\ MaxPages \in Nat
    BY <1>1, ReadsAssumption DEF AttemptsAreLeft
  <1>3. TypeOK'
    <2>1. attempts' \in [Sources -> 0..MaxAttempts]
      BY <1>1, <1>2 DEF TypeOK
    <2>2. <<>> \in Seq(Returns)
      BY EmptySeq
    <2> QED BY <1>1, <1>2, <2>1, <2>2 DEF TypeOK
  <1>4. AttemptsAreLeft'
    <2> SUFFICES ASSUME NEW q \in Sources, result'[q] = "waiting", caller' # q
                 PROVE  attempts'[q] < MaxAttempts
      BY DEF AttemptsAreLeft
    <2>1. q # s /\ attempts'[q] = attempts[q] /\ result[q] = "waiting" /\ caller # q
      BY <1>1, ReadsAssumption DEF TypeOK
    <2> QED BY <2>1 DEF AttemptsAreLeft
  <1>5. OneEntryEach(invoices', Returns) /\ CountedOnce'
    BY <1>1 DEF OneEntryEach, CountedOnce
  <1>6. PagesAreBehind'
    <2>1. Len(got') = 0 /\ DOMAIN got' = {} /\ 0 * PageSize = 0
      BY <1>1, ReadsAssumption
    <2>2. Len(invoices) \in Nat
      BY LenProperties DEF TypeOK
    <2> QED BY <1>1, <2>1, <2>2 DEF PagesAreBehind, OneEntryEach
  <1>7. PostedIsBound'
    BY <1>1, ReceiptsGrow
  <1> QED BY <1>3, <1>4, <1>5, <1>6, <1>7

\* A call leaves the gateway: it may be tried again, or it is done with.
LEMMA LeaveKeeps ==
    ASSUME ReadsInductive, NEW s \in Sources, NEW outcome \in {"waiting", "read", "gap", "raised"},
           Leave(s, outcome), caller = s,
           outcome = "waiting" => attempts[s] < MaxAttempts,
           UNCHANGED <<invoices, partner, stage, references>>,
           receipts' = receipts \/ \E r \in Receipts : receipts' = Append(receipts, r),
           facts' \in [Slots -> 0..Len(receipts')],
           counted'.touched \subseteq Returns,
           {counted'.records, counted'.listed} \subseteq Seq(Returns),
           CountedOnce'
    PROVE  ReadsInductive'
  <1> USE DEF ReadsInductive
  <1>1. /\ result' = [result EXCEPT ![s] = outcome]
        /\ attempts' = IF outcome = "waiting" THEN attempts ELSE [attempts EXCEPT ![s] = 0]
        /\ caller' = Nobody /\ got' = <<>> /\ pages' = 0 /\ touched' = {}
    BY DEF Leave
  <1>2. MaxAttempts \in Nat \ {0} /\ MaxPages \in Nat /\ Nobody # "REFUND_RECORD"
    BY ReadsAssumption
  <1>3. /\ receipts' \in Seq(Receipts)
        /\ references' \in [Slots -> 0..Len(receipts')]
        /\ PostedIsBound'
    BY ReceiptsGrow
  <1>4. TypeOK'
    <2>1. attempts' \in [Sources -> 0..MaxAttempts]
      BY <1>1, <1>2 DEF TypeOK
    <2>2. result' \in [Sources -> {"waiting", "read", "gap", "raised"}]
      BY <1>1 DEF TypeOK
    <2>3. <<>> \in Seq(Returns)
      BY EmptySeq
    <2> QED BY <1>1, <1>2, <1>3, <2>1, <2>2, <2>3 DEF TypeOK
  <1>5. AttemptsAreLeft'
    BY <1>1, <1>2 DEF AttemptsAreLeft, TypeOK
  <1>6. OneEntryEach(invoices', Returns) /\ PagesAreBehind'
    BY <1>1, <1>2 DEF OneEntryEach, PagesAreBehind
  <1> QED BY <1>3, <1>4, <1>5, <1>6

\* What ReadPage changes besides the facts.
LEMMA AnswerKeeps ==
    ASSUME ReadsInductive, NEW s \in Sources, caller = s, Answer(s),
           UNCHANGED <<invoices, partner, stage, references>>,
           counted'.touched \subseteq Returns,
           {counted'.records, counted'.listed} \subseteq Seq(Returns),
           CountedOnce'
    PROVE  ReadsInductive'
  <1>1. receipts \in Seq(Receipts) /\ facts \in [Slots -> 0..Len(receipts)] /\ partner \in Partners
    BY DEF ReadsInductive, TypeOK
  <1>2. /\ Leave(s, "read")
        /\ receipts' = IF s \in Slots THEN Append(receipts, Keys(s)) ELSE receipts
        /\ facts' = [f \in Slots |-> IF f = s THEN Len(receipts') ELSE facts[f]]
    BY DEF Answer
  <1>3. s \in Slots => Keys(s) \in Receipts
    BY <1>1, ReadsAssumption DEF Keys, Receipts, Orders
  <1>4. receipts' = receipts \/ \E r \in Receipts : receipts' = Append(receipts, r)
    BY <1>2, <1>3
  <1>5. Len(receipts') \in Nat /\ 0..Len(receipts) \subseteq 0..Len(receipts')
    BY <1>1, <1>4, ListGrows
  <1>6. facts' \in [Slots -> 0..Len(receipts')]
    BY <1>1, <1>2, <1>5
  <1> QED BY <1>2, <1>4, <1>6, LeaveKeeps

LEMMA FailKeeps ==
    ASSUME ReadsInductive, NEW s \in Sources, caller = s, NEW retryable \in BOOLEAN,
           Fail(s, retryable), UNCHANGED <<invoices, partner, stage, counted, references>>
    PROVE  ReadsInductive'
  <1> DEFINE outcome == IF retryable /\ attempts[s] < MaxAttempts THEN "waiting" ELSE "gap"
  <1>1. Leave(s, outcome) /\ UNCHANGED <<receipts, facts>>
    BY DEF Fail
  <1>2. outcome \in {"waiting", "gap"} /\ (outcome = "waiting" => attempts[s] < MaxAttempts)
    OBVIOUS
  <1> HIDE DEF outcome
  <1>3. /\ counted'.touched \subseteq Returns
        /\ {counted'.records, counted'.listed} \subseteq Seq(Returns)
        /\ facts' \in [Slots -> 0..Len(receipts')]
    BY <1>1 DEF ReadsInductive, TypeOK
  <1>4. result' = [result EXCEPT ![s] = outcome] /\ result \in [Sources -> {"waiting", "read", "gap", "raised"}]
    BY <1>1 DEF Leave, ReadsInductive, TypeOK
  <1>5. result'["REFUND_RECORD"] = "read" => result["REFUND_RECORD"] = "read"
    BY <1>2, <1>4
  <1>6. CountedOnce'
    BY <1>5 DEF ReadsInductive, CountedOnce, OneEntryEach
  <1>7. receipts' = receipts
    BY <1>1
  <1> QED BY <1>1, <1>2, <1>3, <1>6, <1>7, LeaveKeeps

\* The next page goes on where the pages before it ended.
LEMMA PagesJoin ==
    ASSUME ReadsInductive, caller = "REFUND_RECORD"
    PROVE  /\ got \o Page(pages) \in Seq(Returns)
           /\ Len(got \o Page(pages)) = pages * PageSize + Len(Page(pages))
           /\ OneEntryEach(got \o Page(pages), Returns \ touched)
           /\ \A i \in DOMAIN (got \o Page(pages)), j \in DOMAIN invoices :
                 (got \o Page(pages))[i] = invoices[j] /\ (got \o Page(pages))[i] \notin touched
                    => j <= Len(got \o Page(pages))
           /\ touched = {} =>
                 /\ pages * PageSize <= Len(invoices)
                 /\ Len(got \o Page(pages)) <= Len(invoices)
                 /\ \A i \in DOMAIN (got \o Page(pages)) : (got \o Page(pages))[i] = invoices[i]
  <1> DEFINE page == Page(pages)
             b == pages * PageSize
             n == Len(invoices)
             m == Len(page)
             all == got \o page
  <1>1. got \in Seq(Returns) /\ invoices \in Seq(Returns) /\ pages \in Nat
    BY DEF ReadsInductive, TypeOK
  <1>2. b \in Nat
    BY <1>1, OffsetsAreNumbers
  <1>3. /\ Len(got) = b
        /\ OneEntryEach(got, Returns \ touched)
        /\ \A i \in DOMAIN got, j \in DOMAIN invoices :
              got[i] = invoices[j] /\ got[i] \notin touched => j <= Len(got)
        /\ touched = {} => Len(got) <= n /\ \A i \in DOMAIN got : got[i] = invoices[i]
    BY DEF ReadsInductive, PagesAreBehind
  <1>4. /\ page \in Seq(Returns)
        /\ \A i \in 1..m : b + i \in 1..n /\ page[i] = invoices[b + i]
    BY <1>1, PageIsPart
  <1>5. m \in Nat /\ n \in Nat /\ DOMAIN got = 1..b /\ DOMAIN invoices = 1..n
    BY <1>1, <1>3, <1>4, LenProperties
  <1>6. /\ all \in Seq(Returns) /\ Len(all) = b + m /\ DOMAIN all = 1..(b + m)
        /\ \A i \in 1..(b + m) : all[i] = IF i <= b THEN got[i] ELSE page[i - b]
    <2>1. /\ got \o page \in Seq(Returns) /\ Len(got \o page) = Len(got) + Len(page)
          /\ \A i \in 1..(Len(got) + Len(page)) :
                (got \o page)[i] = IF i <= Len(got) THEN got[i] ELSE page[i - Len(got)]
      BY <1>1, <1>4, ConcatProperties
    <2>2. DOMAIN (got \o page) = 1..Len(got \o page)
      BY <2>1, LenProperties
    <2>3. Len(got) = b /\ Len(page) = m
      BY <1>3
    <2> HIDE DEF page, b, n, m
    <2> QED BY <2>1, <2>2, <2>3
  <1> HIDE DEF page, b, n, m, all
  <1>7. \A i \in 1..b : i \in 1..(b + m) /\ all[i] = got[i]
    BY <1>2, <1>5, <1>6
  <1>8. ASSUME NEW i \in 1..(b + m), ~(i <= b) PROVE i \in 1..n /\ all[i] = invoices[i]
    <2>1. i - b \in 1..m /\ b + (i - b) = i
      BY <1>2, <1>5, <1>8
    <2> QED BY <2>1, <1>4, <1>6, <1>8
  <1>9. \A i \in 1..(b + m) : i <= b => i \in 1..b
    BY <1>2, <1>5
  <1>10. \A i, j \in 1..n : invoices[i] = invoices[j] => i = j
    <2>1. \A i \in 1..n : invoices[i] \in Returns
      BY <1>1 DEF n
    <2> QED BY <2>1, <1>5 DEF ReadsInductive, OneEntryEach
  <1>11. ASSUME NEW i \in 1..(b + m), NEW j \in 1..n, all[i] = invoices[j], all[i] \notin touched
         PROVE  j <= b \/ j = i
    <2>1. CASE i <= b
      BY <2>1, <1>3, <1>5, <1>7, <1>9, <1>11
    <2>2. CASE ~(i <= b)
      BY <2>2, <1>8, <1>10, <1>11
    <2> QED BY <2>1, <2>2
  <1>12. OneEntryEach(all, Returns \ touched)
    <2> SUFFICES ASSUME NEW i \in 1..(b + m), NEW j \in 1..(b + m),
                        all[i] = all[j], all[i] \in Returns \ touched
                 PROVE  i = j
      BY <1>6 DEF OneEntryEach
    <2>1. CASE i <= b /\ j <= b
      BY <2>1, <1>3, <1>5, <1>7, <1>9 DEF OneEntryEach
    <2>2. CASE ~(i <= b)
      BY <2>2, <1>2, <1>5, <1>8, <1>11
    <2>3. CASE ~(j <= b)
      BY <2>3, <1>2, <1>5, <1>8, <1>11
    <2> QED BY <2>1, <2>2, <2>3
  <1>13. ASSUME NEW i \in 1..(b + m), NEW j \in 1..n, all[i] = invoices[j], all[i] \notin touched
         PROVE  j <= b + m
    BY <1>2, <1>5, <1>11, <1>13
  <1>14. ASSUME touched = {}
         PROVE  b <= n /\ b + m <= n /\ \A i \in 1..(b + m) : all[i] = invoices[i]
    <2>1. b <= n /\ \A i \in 1..b : got[i] = invoices[i]
      BY <1>3, <1>5, <1>14
    <2>2. \A i \in 1..(b + m) : all[i] = invoices[i]
      BY <2>1, <1>7, <1>8, <1>9
    <2>3. m # 0 => m \in 1..m
      BY <1>5
    <2>4. m # 0 => b + m \in 1..n
      BY <2>3, <1>4
    <2>5. b + m <= n
      BY <2>1, <2>4, <1>2, <1>5
    <2> QED BY <2>1, <2>2, <2>5
  <1>15. \A i \in DOMAIN all, j \in DOMAIN invoices :
            all[i] = invoices[j] /\ all[i] \notin touched => j <= Len(all)
    BY <1>5, <1>6, <1>13
  <1>16. touched = {} =>
            b <= n /\ Len(all) <= n /\ \A i \in DOMAIN all : all[i] = invoices[i]
    BY <1>6, <1>14
  <1>17. all \in Seq(Returns) /\ Len(all) = b + m
    BY <1>6
  <1> QED BY <1>12, <1>15, <1>16, <1>17 DEF all, page, b, n, m

LEMMA ReadPageKeeps == ASSUME ReadsInductive, ReadPage PROVE ReadsInductive'
  <1>1. /\ caller = "REFUND_RECORD" /\ "REFUND_RECORD" \in Sources
        /\ UNCHANGED <<invoices, partner, stage, references>>
    BY ReadsAssumption DEF ReadPage, erp
  <1>2. /\ got \in Seq(Returns) /\ invoices \in Seq(Returns) /\ pages \in Nat
        /\ touched \subseteq Returns
    BY DEF ReadsInductive, TypeOK
  <1>3. /\ Page(pages) \in Seq(Returns)
        /\ Len(Page(pages)) <= PageSize
        /\ IsLast(Page(pages)) /\ pages * PageSize <= Len(invoices) =>
              pages * PageSize + Len(Page(pages)) = Len(invoices)
    BY <1>2, PageIsPart
  <1>4. CASE /\ IsLast(Page(pages))
             /\ Answer(caller)
             /\ counted' = [records |-> got \o Page(pages), touched |-> touched, listed |-> invoices]
    <2>1. /\ counted'.records = got \o Page(pages)
          /\ counted'.touched = touched /\ counted'.listed = invoices
      BY <1>4
    <2>2. /\ counted'.records \in Seq(Returns)
          /\ OneEntryEach(counted'.records, Returns \ counted'.touched)
      BY <1>1, <2>1, PagesJoin
    <2>3. ASSUME touched = {} PROVE got \o Page(pages) = invoices
      <3>1. /\ got \o Page(pages) \in Seq(Returns)
            /\ Len(got \o Page(pages)) = Len(invoices)
            /\ \A i \in DOMAIN (got \o Page(pages)) : (got \o Page(pages))[i] = invoices[i]
        BY <1>1, <1>3, <1>4, <2>3, PagesJoin
      <3>2. DOMAIN (got \o Page(pages)) = 1..Len(got \o Page(pages))
        BY <3>1, LenProperties
      <3>3. \A i \in 1..Len(got \o Page(pages)) : (got \o Page(pages))[i] = invoices[i]
        BY <3>1, <3>2
      <3> HIDE <1>4
      <3> QED BY <3>1, <3>3, <1>2, SeqEqual
    <2>4. CountedOnce'
      BY <2>1, <2>2, <2>3 DEF CountedOnce, OneEntryEach
    <2>5. /\ counted'.touched \subseteq Returns
          /\ {counted'.records, counted'.listed} \subseteq Seq(Returns)
      BY <1>2, <2>1, <2>2
    <2>6. Answer("REFUND_RECORD")
      BY <1>1, <1>4
    <2> QED BY <1>1, <2>4, <2>5, <2>6, AnswerKeeps
  <1>5. CASE /\ ~IsLast(Page(pages)) /\ pages + 1 < MaxPages
             /\ got' = got \o Page(pages) /\ pages' = pages + 1
             /\ UNCHANGED <<caller, touched, receipts, result, attempts, facts, counted>>
    <2>1. Len(Page(pages)) \in Nat /\ PageSize \in Nat /\ MaxPages \in Nat
      BY <1>3, ReadsAssumption, LenProperties
    <2>2. Len(Page(pages)) = PageSize
      BY <2>1, <1>3, <1>5 DEF IsLast
    <2>3. got' \in Seq(Returns) /\ pages' \in 0..MaxPages
      BY <1>1, <1>2, <1>5, <2>1, PagesJoin
    <2>4. TypeOK'
      BY <1>1, <1>5, <2>3 DEF ReadsInductive, TypeOK
    <2>5. Len(got') = pages' * PageSize
      <3>1. Len(got') = pages * PageSize + PageSize
        BY <1>1, <1>5, <2>2, PagesJoin
      <3>2. (pages + 1) * PageSize = pages * PageSize + PageSize
        BY <1>2, OffsetsAreNumbers
      <3> QED BY <3>1, <3>2, <1>5
    <2>6. PagesAreBehind'
      <3>1. /\ OneEntryEach(got', Returns \ touched)
            /\ \A i \in DOMAIN got', j \in DOMAIN invoices :
                  got'[i] = invoices[j] /\ got'[i] \notin touched => j <= Len(got')
            /\ touched = {} =>
                  /\ Len(got') <= Len(invoices)
                  /\ \A i \in DOMAIN got' : got'[i] = invoices[i]
        BY <1>1, <1>5, PagesJoin
      <3> QED BY <1>1, <1>5, <2>5, <3>1 DEF PagesAreBehind, OneEntryEach
    <2>7. AttemptsAreLeft' /\ OneEntryEach(invoices', Returns) /\ CountedOnce'
      BY <1>1, <1>5 DEF ReadsInductive, AttemptsAreLeft, OneEntryEach, CountedOnce
    <2>8. PostedIsBound'
      BY <1>1, <1>5, ReceiptsGrow
    <2> QED BY <2>4, <2>6, <2>7, <2>8 DEF ReadsInductive
  <1>6. CASE Fail(caller, FALSE) /\ UNCHANGED counted
    <2>1. Fail("REFUND_RECORD", FALSE) /\ FALSE \in BOOLEAN
      BY <1>1, <1>6
    <2> QED BY <1>1, <1>6, <2>1, FailKeeps
  <1> QED BY <1>4, <1>5, <1>6 DEF ReadPage

\* A read that is not a list: it is answered, fails, or is torn.
LEMMA ReadsOfOneKeep ==
    ASSUME ReadsInductive, NEW s \in Sources, ReadRecord(s) \/ ReadFails(s) \/ ReadIsTorn(s)
    PROVE  ReadsInductive'
  <1>1. caller = s /\ UNCHANGED <<invoices, partner, stage, counted, references>>
    BY DEF ReadRecord, ReadFails, ReadIsTorn, erp
  <1>2. /\ counted'.touched \subseteq Returns
        /\ {counted'.records, counted'.listed} \subseteq Seq(Returns)
        /\ result \in [Sources -> {"waiting", "read", "gap", "raised"}]
    BY <1>1 DEF ReadsInductive, TypeOK
  <1>3. ASSUME NEW outcome, Leave(s, outcome), s # "REFUND_RECORD" \/ outcome # "read"
        PROVE  CountedOnce'
    <2>1. result' = [result EXCEPT ![s] = outcome]
      BY <1>3 DEF Leave
    <2>2. result'["REFUND_RECORD"] = "read" => result["REFUND_RECORD"] = "read"
      BY <1>2, <1>3, <2>1
    <2> QED BY <1>1, <2>2 DEF ReadsInductive, CountedOnce, OneEntryEach
  <1>4. CASE ReadRecord(s)
    <2>1. Answer(s) /\ s # "REFUND_RECORD" /\ Leave(s, "read")
      BY <1>4 DEF ReadRecord, Answer
    <2>2. CountedOnce'
      BY <1>3, <2>1
    <2> QED BY <1>1, <1>2, <2>1, <2>2, AnswerKeeps
  <1>5. CASE ReadFails(s)
    BY <1>1, <1>5, FailKeeps DEF ReadFails
  <1>6. CASE ReadIsTorn(s)
    <2>1. Leave(s, "raised") /\ receipts' = receipts /\ UNCHANGED facts
      BY <1>6 DEF ReadIsTorn
    <2>2. CountedOnce'
      BY <1>3, <2>1
    <2>3. facts' \in [Slots -> 0..Len(receipts')]
      BY <2>1 DEF ReadsInductive, TypeOK
    <2> QED BY <1>1, <1>2, <2>1, <2>2, <2>3, LeaveKeeps
  <1> QED BY <1>4, <1>5, <1>6

LEMMA RestartKeeps == ASSUME ReadsInductive, Restart PROVE ReadsInductive'
  <1> USE DEF ReadsInductive
  <1>1. /\ stage' = "idle" /\ counted' = Nothing
        /\ result' = [s \in Sources |-> "waiting"]
        /\ attempts' = [s \in Sources |-> 0]
        /\ facts' = [s \in Slots |-> 0]
        /\ caller' = Nobody /\ got' = <<>> /\ pages' = 0 /\ touched' = {}
        /\ UNCHANGED <<invoices, partner, receipts, references>>
    BY DEF Restart, erp
  <1>2. MaxAttempts \in Nat \ {0} /\ MaxPages \in Nat /\ Nobody # "REFUND_RECORD"
    BY ReadsAssumption
  <1>3. Len(receipts) \in Nat /\ <<>> \in Seq(Returns)
    BY LenProperties, EmptySeq DEF TypeOK
  <1>4. TypeOK'
    BY <1>1, <1>2, <1>3 DEF TypeOK, Nothing
  <1>5. AttemptsAreLeft'
    BY <1>1, <1>2 DEF AttemptsAreLeft
  <1>6. OneEntryEach(invoices', Returns) /\ PagesAreBehind' /\ PostedIsBound'
    BY <1>1, <1>2 DEF OneEntryEach, PagesAreBehind, PostedIsBound
  <1>7. CountedOnce'
    BY <1>1, ReadsAssumption DEF CountedOnce
  <1> QED BY <1>4, <1>5, <1>6, <1>7

-----------------------------------------------------------------------------
(* The monitor *)

LEMMA LatestIsOne ==
    ASSUME NEW n \in Nat, NEW some \in SUBSET (1..n), some # {} PROVE Latest(some) \in some
  <1>1. \E i \in some : \A j \in some : j <= i
    BY LargestOf
  <1> QED BY <1>1 DEF Latest

\* Whatever receipts there are, the slots that the monitor fills belong together.
LEMMA SlotsBelongTogether ==
    ASSUME receipts \in Seq(Receipts), \A slot \in Slots : Candidates(slot) # {}
    PROVE  /\ \A slot \in Slots : Latest(Candidates(slot)) \in DOMAIN receipts
           /\ receipts[Latest(Candidates("ORDER"))].order = "this"
           /\ receipts[Latest(Candidates("COMMISSION_LEDGER"))].order = "this"
           /\ receipts[Latest(Candidates("CONTRACT"))].partner
                 \in {receipts[Latest(Candidates("ORDER"))].partner, NoKey}
  <1>1. Len(receipts) \in Nat /\ DOMAIN receipts = 1..Len(receipts)
    BY LenProperties
  <1>2. \A slot : Candidates(slot) \subseteq 1..Len(receipts)
    BY <1>1 DEF Candidates, Bound, CaseOnly, OfThisOrder, Reads
  <1>3. \A slot \in Slots : Latest(Candidates(slot)) \in Candidates(slot)
    BY <1>1, <1>2, LatestIsOne
  <1>4. {"ORDER", "CONTRACT", "COMMISSION_LEDGER"} \subseteq Slots
    BY DEF Slots
  <1>5. \A slot \in {"ORDER", "COMMISSION_LEDGER"} :
           Candidates(slot) # {} => Candidates(slot) = OfThisOrder(slot)
    BY DEF Candidates, Bound, CaseOnly
  <1>6. /\ Candidates("ORDER") = OfThisOrder("ORDER") /\ OfThisOrder("ORDER") # {}
        /\ Candidates("COMMISSION_LEDGER") = OfThisOrder("COMMISSION_LEDGER")
    BY <1>4, <1>5
  <1>7. ExpectedPartner = receipts[Latest(Candidates("ORDER"))].partner
    BY <1>6 DEF ExpectedPartner
  <1>8. \A i \in Candidates("CONTRACT") : receipts[i].partner \in {ExpectedPartner, NoKey}
    BY DEF Candidates, Bound, CaseOnly
  <1>9. \A slot : \A i \in OfThisOrder(slot) : receipts[i].order = "this"
    BY DEF OfThisOrder
  <1> QED BY <1>1, <1>2, <1>3, <1>4, <1>6, <1>7, <1>8, <1>9

LEMMA SubmitKeeps == ASSUME ReadsInductive, Submit PROVE ReadsInductive'
  <1> USE DEF ReadsInductive
  <1>1. /\ UNCHANGED <<invoices, partner, caller, got, pages, touched, receipts, result, attempts,
                       facts, counted>>
        /\ \/ /\ \A slot \in Slots : Candidates(slot) # {}
              /\ references' = [slot \in Slots |-> Latest(Candidates(slot))]
              /\ stage' = "posted"
           \/ stage' = "refused" /\ UNCHANGED references
    BY DEF Submit, erp, call
  <1>2. /\ receipts \in Seq(Receipts) /\ Len(receipts) \in Nat
        /\ DOMAIN receipts = 1..Len(receipts)
    BY LenProperties DEF TypeOK
  <1>3. AttemptsAreLeft' /\ OneEntryEach(invoices', Returns) /\ PagesAreBehind' /\ CountedOnce'
    BY <1>1 DEF AttemptsAreLeft, OneEntryEach, PagesAreBehind, CountedOnce
  <1>4. CASE /\ \A slot \in Slots : Candidates(slot) # {}
             /\ references' = [slot \in Slots |-> Latest(Candidates(slot))]
             /\ stage' = "posted"
    <2>1. /\ \A slot \in Slots : Latest(Candidates(slot)) \in 1..Len(receipts)
          /\ receipts[Latest(Candidates("ORDER"))].order = "this"
          /\ receipts[Latest(Candidates("COMMISSION_LEDGER"))].order = "this"
          /\ receipts[Latest(Candidates("CONTRACT"))].partner
                \in {receipts[Latest(Candidates("ORDER"))].partner, NoKey}
      BY <1>2, <1>4, SlotsBelongTogether
    <2>2. \A i \in 1..Len(receipts) : i \in 0..Len(receipts)
      BY <1>2
    <2>3. references' \in [Slots -> 0..Len(receipts)]
      BY <1>4, <2>1, <2>2
    <2>4. TypeOK'
      BY <1>1, <1>4, <2>3 DEF TypeOK
    <2>5. /\ references'["ORDER"] = Latest(Candidates("ORDER"))
          /\ references'["CONTRACT"] = Latest(Candidates("CONTRACT"))
          /\ references'["COMMISSION_LEDGER"] = Latest(Candidates("COMMISSION_LEDGER"))
          /\ \A slot \in Slots : references'[slot] \in 1..Len(receipts)
      BY <1>4, <2>1 DEF Slots
    <2>6. PostedIsBound'
      BY <1>1, <1>2, <2>1, <2>5 DEF PostedIsBound, ReferencesAgree
    <2> QED BY <1>3, <2>4, <2>6
  <1>5. CASE stage' = "refused" /\ UNCHANGED references
    <2>1. TypeOK'
      BY <1>1, <1>5 DEF TypeOK
    <2>2. PostedIsBound'
      BY <1>5 DEF PostedIsBound
    <2> QED BY <1>3, <2>1, <2>2
  <1> QED BY <1>1, <1>4, <1>5

LEMMA StepOfReads == ReadsInductive /\ [Next]_vars => ReadsInductive'
  <1> SUFFICES ASSUME ReadsInductive, [Next]_vars PROVE ReadsInductive'
    OBVIOUS
  <1>1. CASE \E n \in Returns : Touch(n)
    BY <1>1, TouchKeeps
  <1>2. CASE \E p \in Partners : Reassign(p)
    BY <1>2, ReassignKeeps
  <1>3. CASE Begin \/ Collect \/ \E r \in Receipts : ReadApart(r)
    BY <1>3, RunMoves
  <1>4. CASE ReadPage
    BY <1>4, ReadPageKeeps
  <1>5. CASE Restart
    BY <1>5, RestartKeeps
  <1>6. CASE Submit
    BY <1>6, SubmitKeeps
  <1>7. ASSUME NEW s \in Sources, Enter(s) PROVE ReadsInductive'
    BY <1>7, EnterKeeps
  <1>8. ASSUME NEW s \in Sources, ReadRecord(s) \/ ReadFails(s) \/ ReadIsTorn(s)
        PROVE  ReadsInductive'
    BY <1>8, ReadsOfOneKeep
  <1>9. CASE UNCHANGED vars
    <2>1. UNCHANGED <<invoices, partner, caller, got, pages, touched, receipts, stage, result,
                      attempts, facts, counted, references>>
      BY <1>9 DEF vars, erp, call, run
    <2>2. TypeOK'
      BY <2>1 DEF ReadsInductive, TypeOK
    <2>3. AttemptsAreLeft' /\ OneEntryEach(invoices', Returns) /\ PagesAreBehind' /\ CountedOnce'
      BY <2>1 DEF ReadsInductive, AttemptsAreLeft, OneEntryEach, PagesAreBehind, CountedOnce
    <2>4. PostedIsBound'
      BY <2>1, ReceiptsGrow
    <2> QED BY <2>2, <2>3, <2>4 DEF ReadsInductive
  <1> QED BY <1>1, <1>2, <1>3, <1>4, <1>5, <1>6, <1>7, <1>8, <1>9 DEF Next

\* In every reachable state the pages fetched are behind the offset of the next
\* one, an answered list counts what was not touched once, and a posting names
\* receipts of one business relation (collect_evidence, the ERPNext adapter and
\* the execution reference monitor).
THEOREM ReadsInvariant == Spec => []ReadsInductive
  <1>1. Init => ReadsInductive
    BY InitReads
  <1>2. ReadsInductive /\ [Next]_vars => ReadsInductive'
    BY StepOfReads
  <1> QED BY <1>1, <1>2, PTL DEF Spec

\* However ERPNext changes while its list is read page by page, a refund that
\* nobody touched meanwhile is counted at most once, and a list that nobody
\* touched is read as it is (ERPNextAdapter.list_refunds).
THEOREM RefundsAreCountedOnce == Spec => []UntouchedRefundsCountOnce
  <1>1. ReadsInductive => UntouchedRefundsCountOnce
    <2> SUFFICES ASSUME ReadsInductive, result["REFUND_RECORD"] = "read",
                        NEW n \in Returns \ counted.touched
                 PROVE  /\ Times(n, counted.records) <= 1
                        /\ counted.touched = {} => counted.records = counted.listed
      BY DEF ReadsInductive, CountedOnce, UntouchedRefundsCountOnce
    <2>1. /\ OneEntryEach(counted.records, Returns \ counted.touched)
          /\ counted.touched = {} => counted.records = counted.listed
      BY DEF ReadsInductive, CountedOnce
    <2> DEFINE places == {i \in DOMAIN counted.records : counted.records[i] = n}
    <2>2. \A x, y \in places : x = y
      BY <2>1 DEF OneEntryEach
    <2> HIDE DEF places
    <2>3. Cardinality(places) <= 1
      BY <2>2, AtMostOne
    <2> QED BY <2>1, <2>3 DEF Times, places
  <1> QED BY <1>1, ReadsInvariant, PTL

\* The facts that a posting names are the case's order, a contract of that
\* order's partner or of no recorded one, and that order's ledger, whatever else
\* was read and re-read in the name of the case (ExecutionReferenceMonitor).
THEOREM PostingsNameOneRelation == Spec => []ReferencesAgree
  <1>1. ReadsInductive => ReferencesAgree
    BY DEF ReadsInductive, PostedIsBound, ReferencesAgree
  <1> QED BY <1>1, ReadsInvariant, PTL

-----------------------------------------------------------------------------
(* Rows of the replica's lists, their order, and pages of them *)

LEMMA SameSize == ASSUME NEW S PROVE R!Cardinality(S) = Cardinality(S)
  BY DEF R!Cardinality, Cardinality

Row == [stamp : Int, case : Int]

LEMMA RowsAreOrdered ==
    /\ \A p, q \in Row : p = q \/ R!After(p, q) \/ R!After(q, p)
    /\ \A p, q \in Row : R!After(p, q) => ~R!After(q, p)
    /\ \A p, q, s \in Row : R!After(p, q) /\ R!After(q, s) => R!After(p, s)
  <1>1. \A p, q \in Row : p.stamp = q.stamp /\ p.case = q.case => p = q
    BY DEF Row
  <1>2. \A p \in Row : p.stamp \in Int /\ p.case \in Int
    BY DEF Row
  <1> QED BY <1>1, <1>2 DEF R!After

\* The last row of a set of rows.
LEMMA LastRow ==
    ASSUME NEW rows \in SUBSET [stamp : Nat, case : Nat], rows # {}
    PROVE  /\ R!LastOf(rows) \in rows
           /\ \A q \in rows : q = R!LastOf(rows) \/ R!After(R!LastOf(rows), q)
  <1> DEFINE stamps == {p.stamp : p \in rows}
  <1>1. stamps \in SUBSET Nat /\ stamps # {}
    OBVIOUS
  <1> HIDE DEF stamps
  <1>2. PICK least \in stamps : \A t \in stamps : least <= t
    BY <1>1, SmallestOf
  <1> DEFINE cases == {p.case : p \in {q \in rows : q.stamp = least}}
  <1>3. cases \in SUBSET Nat /\ cases # {}
    BY <1>2 DEF stamps
  <1> HIDE DEF cases
  <1>4. PICK first \in cases : \A c \in cases : first <= c
    BY <1>3, SmallestOf
  <1>5. PICK p \in rows : p.stamp = least /\ p.case = first
    BY <1>4 DEF cases
  <1>6. ASSUME NEW q \in rows PROVE q = p \/ R!After(p, q)
    <2>1. /\ p.stamp \in Nat /\ q.stamp \in Nat /\ p.case \in Nat /\ q.case \in Nat
          /\ (p.stamp = q.stamp /\ p.case = q.case => p = q)
      BY <1>5, <1>6
    <2>2. p.stamp <= q.stamp
      BY <1>2, <1>5 DEF stamps
    <2>3. p.stamp = q.stamp => p.case <= q.case
      BY <1>4, <1>5 DEF cases
    <2> QED BY <2>1, <2>2, <2>3 DEF R!After
  <1> QED BY <1>5, <1>6 DEF R!LastOf

\* What a page holds: the rows before one of its own are its own, and there is
\* one if there are rows at all.
LEMMA PageIsFirst ==
    ASSUME NEW rows \in SUBSET Row, IsFiniteSet(rows)
    PROVE  /\ R!FirstOf(rows) \subseteq rows
           /\ \A p \in R!FirstOf(rows), q \in rows : R!After(p, q) => q \in R!FirstOf(rows)
           /\ rows # {} => R!FirstOf(rows) # {}
  <1> DEFINE Before(p) == {q \in rows : R!After(p, q)}
  <1>1. \A p \in rows :
           IsFiniteSet(Before(p)) /\ Cardinality(Before(p)) \in Nat
    BY FS_Subset, FS_CardinalityType
  <1>2. \A p, q \in rows : R!After(p, q) =>
           /\ Before(q) \subseteq Before(p)
           /\ q \in Before(p) /\ q \notin Before(q)
    BY RowsAreOrdered
  <1>3. \A p, q \in rows : R!After(p, q) =>
           Cardinality(Before(q)) < Cardinality(Before(p))
    <2> TAKE p \in rows, q \in rows
    <2> HAVE R!After(p, q)
    <2>1. /\ IsFiniteSet(Before(p)) /\ Before(q) \in SUBSET Before(p) /\ Before(q) # Before(p)
          /\ Cardinality(Before(p)) \in Nat /\ Cardinality(Before(q)) \in Nat
      BY <1>1, <1>2
    <2> HIDE DEF Before
    <2>2. /\ Cardinality(Before(q)) <= Cardinality(Before(p))
          /\ Cardinality(Before(q)) # Cardinality(Before(p))
      BY <2>1, FS_Subset
    <2> QED BY <2>1, <2>2
  <1>4. R!FirstOf(rows) = {p \in rows : Cardinality(Before(p)) < Limit}
    BY SameSize DEF R!FirstOf
  <1>5. Limit \in Nat \ {0}
    BY ReplicaAssumption
  <1> HIDE DEF Before
  <1>6. ASSUME NEW p \in R!FirstOf(rows), NEW q \in rows, R!After(p, q)
        PROVE  q \in R!FirstOf(rows)
    <2>1. p \in rows /\ Cardinality(Before(p)) < Limit
      BY <1>4
    <2>2. Cardinality(Before(q)) < Cardinality(Before(p))
      BY <1>3, <1>6, <2>1
    <2> QED BY <2>1, <2>2, <1>1, <1>4, <1>5
  <1>7. ASSUME rows # {} PROVE R!FirstOf(rows) # {}
    <2> DEFINE sizes == {Cardinality(Before(p)) : p \in rows}
    <2>1. sizes \in SUBSET Nat /\ sizes # {}
      BY <1>1, <1>7
    <2> HIDE DEF sizes
    <2>2. PICK least \in sizes : \A size \in sizes : least <= size
      BY <2>1, SmallestOf
    <2>3. PICK p \in rows : least = Cardinality(Before(p))
      BY <2>2 DEF sizes
    <2>4. \A q \in rows : ~R!After(p, q)
      <3> SUFFICES ASSUME NEW q \in rows, R!After(p, q) PROVE FALSE
        OBVIOUS
      <3>1. Cardinality(Before(q)) < least
        BY <1>3, <2>3
      <3>2. least <= Cardinality(Before(q))
        BY <2>2 DEF sizes
      <3> QED BY <3>1, <3>2, <1>1, <2>3
    <2>5. Before(p) = {}
      BY <2>4 DEF Before
    <2>6. Cardinality(Before(p)) = 0
      BY <2>5, FS_EmptySet
    <2> QED BY <1>4, <1>5, <2>3, <2>6
  <1> QED BY <1>4, <1>6, <1>7

\* The row of a case is that of its last commit.
LEMMA RowIsLast ==
    ASSUME NEW commits, NEW c, NEW n \in Nat, \E i \in 1..n : commits[i].case = c
    PROVE  /\ R!LastIn(commits, c, n) \in 1..n
           /\ commits[R!LastIn(commits, c, n)].case = c
           /\ \A j \in (R!LastIn(commits, c, n) + 1)..n : commits[j].case # c
  <1> DEFINE its == {i \in 1..n : commits[i].case = c}
  <1>1. its \in SUBSET (1..n) /\ its # {}
    OBVIOUS
  <1> HIDE DEF its
  <1>2. PICK i \in its : \A j \in its : j <= i
    BY <1>1, LargestOf
  <1>3. i \in 1..n /\ commits[i].case = c
    BY <1>2 DEF its
  <1>4. \A j \in (i + 1)..n : j \in 1..n /\ ~(j <= i)
    BY <1>3
  <1>5. \A j \in (i + 1)..n : commits[j].case # c
    BY <1>2, <1>4 DEF its
  <1> QED BY <1>3, <1>5 DEF R!LastIn

\* While nothing happens to a case its row stays, in what is known of the log.
LEMMA RowStays ==
    ASSUME NEW commits, NEW more, NEW c, NEW m \in Nat, NEW n \in Nat, m <= n,
           \A i \in 1..m : more[i] = commits[i],
           \E i \in 1..m : commits[i].case = c,
           \A i \in (m + 1)..n : more[i].case # c
    PROVE  R!RowIn(more, c, n) = R!RowIn(commits, c, m)
  <1>1. \A i \in 1..m : i \in 1..n
    OBVIOUS
  <1>2. \E i \in 1..n : more[i].case = c
    BY <1>1
  <1> DEFINE a == R!LastIn(commits, c, m)
             b == R!LastIn(more, c, n)
  <1>3. a \in 1..m /\ commits[a].case = c /\ \A j \in (a + 1)..m : commits[j].case # c
    BY RowIsLast
  <1>4. b \in 1..n /\ more[b].case = c /\ \A j \in (b + 1)..n : more[j].case # c
    BY <1>2, RowIsLast
  <1> HIDE DEF a, b
  <1>5. b \in 1..m
    <2>1. b \in (m + 1)..n \/ b \in 1..m
      BY <1>4
    <2> QED BY <2>1, <1>4
  <1>6. ~(a < b)
    <2>1. a < b => b \in (a + 1)..m
      BY <1>3, <1>5
    <2> QED BY <2>1, <1>3, <1>4, <1>5
  <1>7. ~(b < a)
    <2>1. b < a => a \in (b + 1)..n
      BY <1>1, <1>3, <1>5
    <2> QED BY <2>1, <1>3, <1>4
  <1>8. a = b
    BY <1>3, <1>5, <1>6, <1>7
  <1> QED BY <1>3, <1>8 DEF R!RowIn, a, b

\* What a page is taken from.
LEMMA RemainingRows ==
    ASSUME R!ReplicaTypeOK, NEW k, NEW n \in 0..Len(log)
    PROVE  /\ R!Remaining(k, n) \in SUBSET [stamp : 0..MaxTime, case : Cases]
           /\ IsFiniteSet(R!Remaining(k, n))
           /\ \A p \in R!Remaining(k, n) : p = R!RowOf(p.case, n) /\ R!IsBeyond(p, k)
           /\ \A c : (\E i \in 1..n : log[i].case = c) /\ R!IsBeyond(R!RowOf(c, n), k)
                       => R!RowOf(c, n) \in R!Remaining(k, n)
  <1>1. log \in Seq(R!Commits) /\ Len(log) \in Nat /\ n \in Nat
    BY LenProperties DEF R!ReplicaTypeOK
  <1>2. \A i \in 1..n : /\ i \in 1..Len(log)
                        /\ log[i].case \in Cases /\ log[i].stamp \in 0..MaxTime
    <2>1. \A i \in 1..n : i \in 1..Len(log)
      BY <1>1
    <2>2. \A i \in 1..Len(log) : log[i] \in R!Commits
      BY <1>1
    <2> QED BY <2>1, <2>2 DEF R!Commits
  <1> DEFINE cases == {log[i].case : i \in 1..n}
             all == {R!RowOf(c, n) : c \in cases}
  <1>3. ASSUME NEW c \in cases
        PROVE  /\ R!RowOf(c, n) \in [stamp : 0..MaxTime, case : Cases]
               /\ R!RowOf(c, n).case = c
    <2>1. \E i \in 1..n : log[i].case = c
      OBVIOUS
    <2>2. R!LastIn(log, c, n) \in 1..n
      BY <1>1, <2>1, RowIsLast
    <2> QED BY <1>2, <2>1, <2>2 DEF R!RowOf, R!RowIn
  <1>4. cases \subseteq Cases
    BY <1>2
  <1>5. IsFiniteSet(cases)
    BY <1>4, ReplicaAssumption, FS_Subset
  <1>6. R!Remaining(k, n) = {p \in all : R!IsBeyond(p, k)}
    BY DEF R!Remaining
  <1>7. IsFiniteSet(all)
    <2> DEFINE f == [c \in cases |-> R!RowOf(c, n)]
    <2>1. f \in Surjection(cases, all)
      BY DEF Surjection
    <2> HIDE DEF f, cases, all
    <2> QED BY <1>5, <2>1, FS_Surjection
  <1>8. IsFiniteSet(R!Remaining(k, n))
    <2>1. R!Remaining(k, n) \in SUBSET all
      BY <1>6
    <2> HIDE DEF all
    <2> QED BY <2>1, <1>7, FS_Subset
  <1>9. R!Remaining(k, n) \in SUBSET [stamp : 0..MaxTime, case : Cases]
    BY <1>3, <1>6
  <1>10. \A p \in R!Remaining(k, n) : p = R!RowOf(p.case, n) /\ R!IsBeyond(p, k)
    BY <1>3, <1>6
  <1>11. \A c : (\E i \in 1..n : log[i].case = c) => c \in cases
    OBVIOUS
  <1>12. \A c : (\E i \in 1..n : log[i].case = c) /\ R!IsBeyond(R!RowOf(c, n), k)
                  => R!RowOf(c, n) \in R!Remaining(k, n)
    BY <1>6, <1>11
  <1> QED BY <1>8, <1>9, <1>10, <1>12

-----------------------------------------------------------------------------
(* The replica's invariant *)

LEMMA ReplicaFacts ==
    ASSUME R!ReplicaInductive
    PROVE  /\ log \in Seq(R!Commits) /\ Len(log) \in Nat
           /\ \A i \in 1..Len(log) :
                 log[i] \in R!Commits /\ log[i].at \in Nat /\ log[i].stamp \in Nat
           /\ now \in Nat /\ now <= MaxTime
           /\ replayed \in Nat /\ replayed <= Len(log)
           /\ cache.at \in Nat
           /\ \A r \in R!Callers : start[r] \in Nat /\ lsn[r] \in Nat
           /\ {MaxLag, MaxBytes, CallTime, Interval, MaxTime} \subseteq Nat /\ Interval >= 1
           /\ Cases \subseteq Nat \ {0}
  <1>1. R!ReplicaTypeOK
    BY DEF R!ReplicaInductive
  <1>2. log \in Seq(R!Commits) /\ Len(log) \in Nat /\ \A i \in 1..Len(log) : log[i] \in R!Commits
    BY <1>1, LenProperties DEF R!ReplicaTypeOK
  <1>3. \A e \in R!Commits : e.at \in Nat /\ e.stamp \in Nat
    BY ReplicaAssumption DEF R!Commits
  <1>4. {MaxLag, MaxBytes, CallTime, Interval, MaxTime} \subseteq Nat /\ Interval >= 1
    BY ReplicaAssumption
  <1>5. /\ now \in Nat /\ now <= MaxTime
        /\ replayed \in Nat /\ replayed <= Len(log)
        /\ cache.at \in Nat
        /\ \A r \in R!Callers : start[r] \in Nat /\ lsn[r] \in Nat
    BY <1>1, <1>2, <1>4 DEF R!ReplicaTypeOK
  <1>6. Cases \subseteq Nat \ {0}
    <2>1. Cardinality(Cases) \in Nat /\ Cases = 1..Cardinality(Cases)
      BY ReplicaAssumption, FS_CardinalityType
    <2> QED BY <2>1
  <1> QED BY <1>2, <1>3, <1>4, <1>5, <1>6

LEMMA InitReplica == R!Init => R!ReplicaInductive
  <1> SUFFICES ASSUME R!Init PROVE R!ReplicaInductive
    OBVIOUS
  <1> USE DEF R!Init
  <1> DEFINE n == Cardinality(Cases)
  <1>1. /\ {MaxLag, MaxBytes, CallTime, Interval, MaxTime} \subseteq Nat
        /\ Interval >= 1 /\ Interval <= MaxTime
        /\ n \in Nat /\ Cases = 1..n
    BY ReplicaAssumption, FS_CardinalityType
  <1> HIDE DEF n
  <1>2. /\ log \in Seq(R!Commits) /\ Len(log) = n
        /\ \A c \in Cases : log[c].case = c /\ log[c].stamp = 0 /\ log[c].at = 0
    <2>1. log = [c \in 1..n |-> [case |-> c, stamp |-> 0, at |-> 0]]
      BY <1>1
    <2>2. \A c \in 1..n : [case |-> c, stamp |-> 0, at |-> 0] \in R!Commits
      BY <1>1 DEF R!Commits
    <2> QED BY <1>1, <2>1, <2>2
  <1>3. R!NoCursor \in [stamp : -1..(MaxTime + 1), case : Nat]
    BY <1>1 DEF R!NoCursor
  <1>4. R!ReplicaTypeOK
    BY <1>1, <1>2, <1>3 DEF R!ReplicaTypeOK
  <1>5. R!LogIsOrdered
    BY <1>1, <1>2 DEF R!LogIsOrdered
  <1>6. R!CacheIsTrue /\ \A r \in R!Callers : R!CallIsTrue(r)
    BY <1>1 DEF R!CacheIsTrue, R!CallIsTrue
  <1>7. ASSUME NEW r \in Readers PROVE R!WalkIsTrue(r)
    <2>1. \A c \in Cases : ~R!Settled(r, c)
      <3> SUFFICES ASSUME NEW c \in Cases, R!Settled(r, c) PROVE FALSE
        OBVIOUS
      <3>1. c \in 1..Len(log) /\ log[c].case = c /\ since[r] = 0
        BY <1>1, <1>2
      <3>2. c <= 0
        BY <3>1 DEF R!Settled
      <3> QED BY <1>1, <3>2
    <2>2. /\ since[r] = 0 /\ cursor[r] = R!NoCursor /\ step[r] = "new" /\ replayed \in Nat
          /\ \A c \in Cases : listed[r][c] = 0
      BY <1>1, <1>2 DEF R!Callers
    <2> QED BY <2>1, <2>2 DEF R!WalkIsTrue
  <1> QED BY <1>4, <1>5, <1>6, <1>7 DEF R!ReplicaInductive

LEMMA CallStays ==
    ASSUME R!ReplicaInductive, NEW q \in R!Callers, UNCHANGED <<now, log, replayed>>,
           step'[q] = step[q], start'[q] = start[q], lsn'[q] = lsn[q], healthy'[q] = healthy[q]
    PROVE  R!CallIsTrue(q)'
  BY DEF R!ReplicaInductive, R!CallIsTrue, R!LacksNothingBefore

LEMMA WalkStays ==
    ASSUME R!ReplicaInductive, NEW q \in Readers, UNCHANGED log,
           replayed' \in Nat, replayed <= replayed',
           step'[q] = step[q] \/ step'[q] # "new",
           cursor'[q] = cursor[q], listed'[q] = listed[q], since'[q] = since[q]
    PROVE  R!WalkIsTrue(q)'
  <1>1. R!WalkIsTrue(q) /\ since[q] \in Nat /\ replayed \in Nat
    BY ReplicaFacts DEF R!ReplicaInductive, R!ReplicaTypeOK
  <1>2. since'[q] <= replayed'
    BY <1>1 DEF R!WalkIsTrue
  <1>3. \A c \in Cases : R!Settled(q, c)' <=> R!Settled(q, c)
    BY DEF R!Settled
  <1>4. \A c \in Cases : R!RowOf(c, Len(log))' = R!RowOf(c, Len(log))
    BY DEF R!RowOf
  <1> QED BY <1>1, <1>2, <1>3, <1>4 DEF R!WalkIsTrue

\* A step of one call leaves the others, and its walk is its own.
LEMMA CallMoves ==
    ASSUME R!ReplicaInductive, NEW r \in R!Callers,
           NEW s \in {"idle", "primary", "replica", "publish", "read"}, R!Goto(r, s),
           UNCHANGED <<now, log, replayed>>,
           cache' \in [healthy : BOOLEAN, at : 0..MaxTime],
           start' \in [R!Callers -> 0..MaxTime],
           lsn' \in [R!Callers -> Nat],
           healthy' \in [R!Callers -> BOOLEAN],
           cursor' \in [Readers -> [stamp : -1..(MaxTime + 1), case : Nat]],
           listed' \in [Readers -> [Cases -> Nat]],
           since' \in [Readers -> Nat],
           \A q \in R!Callers \ {r} :
              start'[q] = start[q] /\ lsn'[q] = lsn[q] /\ healthy'[q] = healthy[q],
           \A q \in Readers \ {r} :
              cursor'[q] = cursor[q] /\ listed'[q] = listed[q] /\ since'[q] = since[q],
           R!CacheIsTrue', R!CallIsTrue(r)', r \in Readers => R!WalkIsTrue(r)'
    PROVE  R!ReplicaInductive'
  <1>1. step' = [step EXCEPT ![r] = s] /\ \A q \in R!Callers \ {r} : step'[q] = step[q]
    BY DEF R!Goto, R!ReplicaInductive, R!ReplicaTypeOK
  <1>2. R!ReplicaTypeOK'
    <2>1. step' \in [R!Callers -> {"new", "idle", "primary", "replica", "publish", "read"}]
      BY <1>1 DEF R!ReplicaInductive, R!ReplicaTypeOK
    <2>2. /\ now' \in Interval..MaxTime /\ log' \in Seq(R!Commits) /\ replayed' \in 0..Len(log')
      BY DEF R!ReplicaInductive, R!ReplicaTypeOK
    <2> QED BY <2>1, <2>2 DEF R!ReplicaTypeOK, R!Callers, R!Commits
  <1>3. R!LogIsOrdered'
    BY DEF R!ReplicaInductive, R!LogIsOrdered
  <1>4. ASSUME NEW q \in R!Callers PROVE R!CallIsTrue(q)'
    <2>1. CASE q = r
      BY <2>1
    <2>2. CASE q # r
      BY <2>2, <1>1, CallStays
    <2> QED BY <2>1, <2>2
  <1>5. ASSUME NEW q \in Readers PROVE R!WalkIsTrue(q)'
    <2>1. CASE q = r
      BY <2>1
    <2>2. CASE q # r
      <3>1. replayed' \in Nat /\ replayed <= replayed' /\ q \in R!Callers
        BY ReplicaFacts DEF R!Callers
      <3> QED BY <2>2, <3>1, <1>1, WalkStays
    <2> QED BY <2>1, <2>2
  <1>6. \A q \in R!Callers : R!CallIsTrue(q)'
    BY <1>4
  <1>7. \A q \in Readers : R!WalkIsTrue(q)'
    BY <1>5
  <1> QED BY <1>2, <1>3, <1>6, <1>7 DEF R!ReplicaInductive, R!Callers

\* A step of one call that neither lists nor begins.
LEMMA CallOnlyMoves ==
    ASSUME R!ReplicaInductive, NEW r \in R!Callers,
           NEW s \in {"idle", "primary", "replica", "publish", "read"}, R!Goto(r, s),
           UNCHANGED <<now, log, replayed, cursor, listed, since>>,
           cache' \in [healthy : BOOLEAN, at : 0..MaxTime],
           start' \in [R!Callers -> 0..MaxTime],
           lsn' \in [R!Callers -> Nat],
           healthy' \in [R!Callers -> BOOLEAN],
           \A q \in R!Callers \ {r} :
              start'[q] = start[q] /\ lsn'[q] = lsn[q] /\ healthy'[q] = healthy[q],
           R!CacheIsTrue', R!CallIsTrue(r)'
    PROVE  R!ReplicaInductive'
  <1>1. step'[r] # "new"
    BY DEF R!Goto, R!ReplicaInductive, R!ReplicaTypeOK
  <1>2. replayed' \in Nat /\ replayed <= replayed'
    BY ReplicaFacts
  <1>3. r \in Readers => R!WalkIsTrue(r)'
    BY <1>1, <1>2, WalkStays
  <1>4. /\ cursor' \in [Readers -> [stamp : -1..(MaxTime + 1), case : Nat]]
        /\ listed' \in [Readers -> [Cases -> Nat]]
        /\ since' \in [Readers -> Nat]
    BY DEF R!ReplicaInductive, R!ReplicaTypeOK
  <1> QED BY <1>3, <1>4, CallMoves

LEMMA TickKeeps == ASSUME R!ReplicaInductive, R!Tick PROVE R!ReplicaInductive'
  <1>1. /\ now < MaxTime /\ now' = now + 1
        /\ \A r \in R!Callers : step[r] \notin {"new", "idle"} => now - start[r] < CallTime
        /\ UNCHANGED <<log, replayed, cache, step, start, lsn, healthy, cursor, listed, since>>
    BY DEF R!Tick, R!call, R!walk
  <1>2. /\ now \in Nat /\ Len(log) \in Nat /\ cache.at \in Nat
        /\ \A i \in 1..Len(log) : log[i].at \in Nat /\ log[i].stamp \in Nat
        /\ \A r \in R!Callers : start[r] \in Nat
        /\ MaxTime \in Nat /\ Interval \in Nat /\ CallTime \in Nat
    BY ReplicaFacts
  <1>3. R!ReplicaTypeOK'
    BY <1>1, <1>2 DEF R!ReplicaInductive, R!ReplicaTypeOK, R!Callers, R!Commits
  <1>4. R!LogIsOrdered'
    BY <1>1, <1>2 DEF R!ReplicaInductive, R!LogIsOrdered
  <1>5. R!CacheIsTrue'
    BY <1>1, <1>2 DEF R!ReplicaInductive, R!CacheIsTrue, R!LacksNothingBefore
  <1>6. ASSUME NEW r \in R!Callers PROVE R!CallIsTrue(r)'
    <2>1. R!CallIsTrue(r)
      BY DEF R!ReplicaInductive
    <2>2. step[r] \notin {"new", "idle"} =>
             start'[r] <= now' /\ now' - start'[r] <= CallTime
      BY <1>1, <1>2, <2>1 DEF R!CallIsTrue
    <2> QED BY <1>1, <2>1, <2>2 DEF R!CallIsTrue, R!LacksNothingBefore
  <1>7. ASSUME NEW r \in Readers PROVE R!WalkIsTrue(r)'
    <2>1. replayed' \in Nat /\ replayed <= replayed'
      BY <1>1, ReplicaFacts
    <2> QED BY <1>1, <2>1, WalkStays
  <1>8. \A r \in R!Callers : R!CallIsTrue(r)'
    BY <1>6
  <1>9. \A r \in Readers : R!WalkIsTrue(r)'
    BY <1>7
  <1> QED BY <1>3, <1>4, <1>5, <1>8, <1>9 DEF R!ReplicaInductive, R!Callers

LEMMA ReplayKeeps == ASSUME R!ReplicaInductive, R!Replay PROVE R!ReplicaInductive'
  <1>1. /\ replayed < Len(log) /\ replayed' = replayed + 1
        /\ UNCHANGED <<now, log, cache, step, start, lsn, healthy, cursor, listed, since>>
    BY DEF R!Replay, R!call, R!walk
  <1>2. replayed \in Nat /\ Len(log) \in Nat
    BY ReplicaFacts
  <1>3. R!ReplicaTypeOK'
    BY <1>1, <1>2 DEF R!ReplicaInductive, R!ReplicaTypeOK, R!Callers, R!Commits
  <1>4. R!LogIsOrdered'
    BY <1>1 DEF R!ReplicaInductive, R!LogIsOrdered
  <1>5. \A i \in (replayed' + 1)..Len(log) : i \in (replayed + 1)..Len(log)
    BY <1>1, <1>2
  <1>6. R!CacheIsTrue'
    BY <1>1, <1>5 DEF R!ReplicaInductive, R!CacheIsTrue, R!LacksNothingBefore
  <1>7. \A r \in R!Callers : R!CallIsTrue(r)'
    BY <1>1, <1>5 DEF R!ReplicaInductive, R!CallIsTrue, R!LacksNothingBefore, R!Callers
  <1>8. \A r \in Readers : R!WalkIsTrue(r)'
    BY <1>1, <1>2, WalkStays
  <1> QED BY <1>3, <1>4, <1>6, <1>7, <1>8 DEF R!ReplicaInductive, R!Callers

\* What commits is as young as it can be, and settles nothing.
LEMMA CommitKeeps ==
    ASSUME R!ReplicaInductive, NEW c \in Cases, R!Commit(c) PROVE R!ReplicaInductive'
  <1> DEFINE n == Len(log)
  <1>1. /\ log \in Seq(R!Commits) /\ n \in Nat
        /\ \A i \in 1..n : log[i] \in R!Commits /\ log[i].at \in Nat /\ log[i].stamp \in Nat
        /\ now \in Nat /\ now <= MaxTime /\ replayed \in Nat /\ replayed <= n
        /\ cache.at \in Nat
        /\ \A r \in R!Callers : start[r] \in Nat /\ lsn[r] \in Nat
        /\ {MaxLag, CallTime, Interval, MaxTime} \subseteq Nat /\ Interval >= 1
    BY ReplicaFacts
  <1>2. R!LogIsOrdered /\ R!CacheIsTrue /\ R!ReplicaTypeOK
    BY DEF R!ReplicaInductive
  <1>3. UNCHANGED <<now, replayed, cache, step, start, lsn, healthy, cursor, listed, since>>
    BY DEF R!Commit, R!call, R!walk
  <1>4. PICK s \in {R!RowOf(c, n).stamp, now} :
           log' = Append(log, [case |-> c, stamp |-> s, at |-> now])
    BY DEF R!Commit
  <1>5. s \in 0..MaxTime /\ s <= now
    <2>1. \E i \in 1..n : log[i].case = c
      BY <1>2 DEF R!LogIsOrdered
    <2>2. R!LastIn(log, c, n) \in 1..n
      BY <1>1, <2>1, RowIsLast
    <2>3. R!RowOf(c, n).stamp = log[R!LastIn(log, c, n)].stamp
      BY DEF R!RowOf, R!RowIn
    <2>4. R!RowOf(c, n).stamp \in Nat /\ R!RowOf(c, n).stamp <= now
      BY <1>1, <1>2, <2>2, <2>3 DEF R!LogIsOrdered
    <2> QED BY <1>1, <1>4, <2>4
  <1>6. [case |-> c, stamp |-> s, at |-> now] \in R!Commits
    BY <1>1, <1>5 DEF R!Commits
  <1>7. /\ log' \in Seq(R!Commits) /\ Len(log') = n + 1
        /\ \A i \in 1..n : log'[i] = log[i]
        /\ log'[n + 1] = [case |-> c, stamp |-> s, at |-> now]
    BY <1>1, <1>4, <1>6, AppendProperties
  <1> HIDE DEF n
  <1>8. log'[n + 1].case = c /\ log'[n + 1].stamp = s /\ log'[n + 1].at = now
    BY <1>7
  <1>9. \A i \in 1..Len(log') : i \in 1..n \/ i = n + 1
    BY <1>1, <1>7
  <1>10. \A i \in 1..n : log[i].at <= now /\ log[i].stamp <= now
    BY <1>2 DEF R!LogIsOrdered, n
  <1>11. R!ReplicaTypeOK'
    <2>1. replayed' \in 0..Len(log')
      BY <1>1, <1>3, <1>7
    <2> QED BY <1>2, <1>3, <1>7, <2>1 DEF R!ReplicaTypeOK, R!Callers, R!Commits
  <1>12. R!LogIsOrdered'
    <2>1. \A i \in 1..Len(log') : log'[i].at <= now /\ log'[i].stamp <= now
      BY <1>1, <1>5, <1>7, <1>8, <1>9, <1>10
    <2>2. ASSUME NEW i \in 1..Len(log'), NEW j \in 1..Len(log'), i <= j
          PROVE  log'[i].at <= log'[j].at
      <3>1. CASE j = n + 1
        BY <3>1, <2>1, <1>8
      <3>2. CASE j \in 1..n
        <4>1. i \in 1..n
          BY <3>2, <2>2, <1>1, <1>7
        <4> QED BY <4>1, <3>2, <2>2, <1>2, <1>7 DEF R!LogIsOrdered, n
      <3> QED BY <3>1, <3>2, <1>9
    <2>3. \A d \in Cases : d \in 1..Len(log') /\ log'[d].case = d
      <3>1. \A i \in 1..n : i \in 1..Len(log')
        BY <1>1, <1>7
      <3> QED BY <3>1, <1>2, <1>7 DEF R!LogIsOrdered, n
    <2> QED BY <1>3, <2>1, <2>2, <2>3 DEF R!LogIsOrdered
  <1>13. ASSUME NEW t \in Int, t <= now, NEW b \in Nat, \A i \in (b + 1)..n : log[i].at >= t
         PROVE  \A i \in (b + 1)..Len(log') : log'[i].at >= t
    <2> TAKE i \in (b + 1)..Len(log')
    <2>1. CASE i = n + 1
      BY <2>1, <1>1, <1>8, <1>13
    <2>2. CASE i # n + 1
      <3>1. i \in 1..n /\ i \in (b + 1)..n
        BY <2>2, <1>1, <1>7
      <3> QED BY <3>1, <1>7, <1>13
    <2> QED BY <2>1, <2>2
  <1>14. R!CacheIsTrue'
    <2>1. cache.at - MaxLag \in Int /\ cache.at - MaxLag <= now
      BY <1>1, <1>2 DEF R!CacheIsTrue
    <2>2. cache.healthy => \A i \in (replayed + 1)..n : log[i].at >= cache.at - MaxLag
      BY <1>2 DEF R!CacheIsTrue, R!LacksNothingBefore, n
    <2>3. cache.healthy => \A i \in (replayed + 1)..Len(log') : log'[i].at >= cache.at - MaxLag
      BY <1>1, <1>13, <2>1, <2>2
    <2> QED BY <1>2, <1>3, <2>3 DEF R!CacheIsTrue, R!LacksNothingBefore
  <1>15. ASSUME NEW r \in R!Callers PROVE R!CallIsTrue(r)'
    <2>1. R!CallIsTrue(r) /\ step[r] \in {"new", "idle", "primary", "replica", "publish", "read"}
      BY <1>2 DEF R!ReplicaInductive, R!ReplicaTypeOK
    <2>2. CASE step[r] \in {"new", "idle", "primary"}
      BY <2>1, <2>2, <1>3 DEF R!CallIsTrue
    <2>3. CASE step[r] \notin {"new", "idle", "primary"}
      <3>1. start[r] \in Nat /\ start[r] <= now /\ now - start[r] <= CallTime /\ lsn[r] \in Nat
        BY <2>1, <2>3, <1>1 DEF R!CallIsTrue
      <3>2. /\ start[r] - MaxLag \in Int /\ start[r] - MaxLag <= now
            /\ start[r] - MaxLag - Interval + 1 \in Int
            /\ start[r] - MaxLag - Interval + 1 <= now
        <4>1. now \in Nat /\ MaxLag \in Nat /\ Interval \in Nat /\ Interval >= 1
          BY <1>1
        <4> QED BY <4>1, <3>1
      <3>3. step[r] = "replica" =>
               lsn[r] <= Len(log') /\ \A i \in (lsn[r] + 1)..Len(log') : log'[i].at >= start[r]
        <4>1. step[r] = "replica" =>
                 lsn[r] <= n /\ \A i \in (lsn[r] + 1)..n : log[i].at >= start[r]
          BY <2>1 DEF R!CallIsTrue, n
        <4>2. lsn[r] <= n => lsn[r] <= Len(log')
          BY <1>1, <1>7, <3>1
        <4>3. start[r] \in Int
          BY <3>1
        <4> QED BY <1>13, <3>1, <4>1, <4>2, <4>3
      <3>4. step[r] = "publish" /\ healthy[r] =>
               \A i \in (replayed + 1)..Len(log') : log'[i].at >= start[r] - MaxLag
        BY <1>1, <1>13, <2>1, <3>2 DEF R!CallIsTrue, R!LacksNothingBefore, n
      <3>5. step[r] = "read" /\ healthy[r] =>
               \A i \in (replayed + 1)..Len(log') : log'[i].at >= start[r] - MaxLag - Interval + 1
        BY <1>1, <1>13, <2>1, <3>2 DEF R!CallIsTrue, R!LacksNothingBefore, n
      <3> QED BY <1>3, <3>1, <3>3, <3>4, <3>5 DEF R!CallIsTrue, R!LacksNothingBefore
    <2> QED BY <2>1, <2>2, <2>3
  <1>16. ASSUME NEW r \in Readers PROVE R!WalkIsTrue(r)'
    <2>1. R!WalkIsTrue(r) /\ since[r] \in Nat
      BY <1>2 DEF R!ReplicaInductive, R!ReplicaTypeOK
    <2>2. since[r] <= replayed
      BY <2>1 DEF R!WalkIsTrue
    <2>3. ASSUME NEW d \in Cases, R!Settled(r, d)'
          PROVE  /\ R!Settled(r, d)
                 /\ R!RowOf(d, Len(log))' = R!RowOf(d, Len(log))
      <3>1. \A i \in 1..Len(log') : log'[i].case = d => i <= since[r]
        BY <2>3, <1>3 DEF R!Settled
      <3>2. d # c
        <4>1. n + 1 \in 1..Len(log') /\ ~(n + 1 <= since[r])
          BY <1>1, <1>7, <2>1, <2>2
        <4> QED BY <3>1, <4>1, <1>8
      <3>3. R!Settled(r, d)
        <4>1. \A i \in 1..n : i \in 1..Len(log')
          BY <1>1, <1>7
        <4> QED BY <4>1, <3>1, <1>7 DEF R!Settled, n
      <3>4. R!RowIn(log', d, n + 1) = R!RowIn(log, d, n)
        <4>1. n \in Nat /\ \A i \in 1..n : log'[i] = log[i]
          BY <1>1, <1>7
        <4>2. PICK m \in Nat : m = n + 1
          BY <4>1
        <4>3. \E i \in 1..n : log[i].case = d
          BY <1>2 DEF R!LogIsOrdered, n
        <4>4. \A i \in (n + 1)..m : log'[i].case # d
          <5>1. \A i \in (n + 1)..m : i = m
            BY <4>1, <4>2
          <5>2. log'[m].case # d
            BY <4>2, <3>2, <1>8
          <5> QED BY <5>1, <5>2
        <4>5. n <= m
          BY <4>1, <4>2
        <4>6. R!RowIn(log', d, m) = R!RowIn(log, d, n)
          BY <4>1, <4>3, <4>4, <4>5, RowStays
        <4> QED BY <4>2, <4>6
      <3> QED BY <3>3, <3>4, <1>7 DEF R!RowOf, n
    <2> QED BY <1>3, <2>1, <2>3 DEF R!WalkIsTrue
  <1>17. \A r \in R!Callers : R!CallIsTrue(r)'
    BY <1>15
  <1>18. \A r \in Readers : R!WalkIsTrue(r)'
    BY <1>16
  <1> QED BY <1>11, <1>12, <1>14, <1>17, <1>18 DEF R!ReplicaInductive, R!Callers

\* A walk starts with the row of no case passed, and none listed.
LEMMA BeginKeeps ==
    ASSUME R!ReplicaInductive, NEW r \in Readers, R!Begin(r) PROVE R!ReplicaInductive'
  <1>1. /\ r \in R!Callers /\ now \in Nat /\ now <= MaxTime /\ cache.at \in Nat
        /\ cache.at <= now /\ replayed \in Nat /\ replayed <= Len(log) /\ Len(log) \in Nat
        /\ {MaxLag, CallTime, Interval, MaxTime} \subseteq Nat /\ Interval >= 1
        /\ \A i \in 1..Len(log) : log[i].at \in Nat
    BY ReplicaFacts DEF R!Callers, R!ReplicaInductive, R!CacheIsTrue
  <1>2. R!ReplicaTypeOK /\ R!CacheIsTrue /\ R!WalkIsTrue(r)
    BY DEF R!ReplicaInductive
  <1>3. /\ start' = [start EXCEPT ![r] = now]
        /\ since' = IF step[r] = "new" THEN [since EXCEPT ![r] = replayed] ELSE since
        /\ UNCHANGED <<now, log, replayed, cache, lsn, cursor, listed>>
    BY DEF R!Begin
  <1>4. /\ start' \in [R!Callers -> 0..MaxTime] /\ start'[r] = now
        /\ \A q \in R!Callers \ {r} : start'[q] = start[q]
    BY <1>1, <1>2, <1>3 DEF R!ReplicaTypeOK
  <1>5. /\ since' \in [Readers -> Nat]
        /\ \A q \in Readers \ {r} : since'[q] = since[q]
        /\ since'[r] = IF step[r] = "new" THEN replayed ELSE since[r]
    BY <1>1, <1>2, <1>3 DEF R!ReplicaTypeOK
  <1>6. /\ lsn' \in [R!Callers -> Nat]
        /\ cursor' \in [Readers -> [stamp : -1..(MaxTime + 1), case : Nat]]
        /\ listed' \in [Readers -> [Cases -> Nat]]
        /\ cache' \in [healthy : BOOLEAN, at : 0..MaxTime]
    BY <1>2, <1>3 DEF R!ReplicaTypeOK
  <1>7. R!CacheIsTrue'
    BY <1>2, <1>3 DEF R!CacheIsTrue, R!LacksNothingBefore
  <1>8. ASSUME step'[r] # "new" PROVE R!WalkIsTrue(r)'
    <2>1. CASE step[r] # "new"
      <3>1. replayed' \in Nat /\ replayed <= replayed'
        BY <1>1, <1>3
      <3> QED BY <2>1, <1>3, <1>5, <1>8, <3>1, WalkStays
    <2>2. CASE step[r] = "new"
      <3>1. /\ cursor'[r] = R!NoCursor /\ since'[r] = replayed
            /\ \A c \in Cases : listed'[r][c] = 0
        BY <2>2, <1>2, <1>3, <1>5 DEF R!WalkIsTrue
      <3>2. ASSUME NEW c \in Cases PROVE R!IsBeyond(R!RowOf(c, Len(log)), R!NoCursor)
        <4>1. \E i \in 1..Len(log) : log[i].case = c
          BY DEF R!ReplicaInductive, R!LogIsOrdered
        <4>2. R!LastIn(log, c, Len(log)) \in 1..Len(log)
          BY <1>1, <4>1, RowIsLast
        <4>3. R!RowOf(c, Len(log)).stamp \in Nat /\ R!RowOf(c, Len(log)).stamp <= now
          BY <4>2, ReplicaFacts DEF R!RowOf, R!RowIn, R!ReplicaInductive, R!LogIsOrdered
        <4>4. R!NoCursor.stamp = MaxTime + 1
          BY DEF R!NoCursor
        <4> QED BY <1>1, <4>3, <4>4 DEF R!IsBeyond, R!After
      <3>3. \A c \in Cases : R!RowOf(c, Len(log))' = R!RowOf(c, Len(log))
        BY <1>3 DEF R!RowOf
      <3>4. R!NoCursor' = R!NoCursor
        BY DEF R!NoCursor
      <3>5. \A c \in Cases :
               listed'[r][c] = IF R!IsBeyond(R!RowOf(c, Len(log))', cursor'[r]) THEN 0 ELSE 1
        BY <3>1, <3>2, <3>3
      <3>6. since'[r] <= replayed'
        BY <3>1, <1>1, <1>3
      <3> QED BY <1>8, <3>1, <3>4, <3>5, <3>6 DEF R!WalkIsTrue
    <2> QED BY <2>1, <2>2
  <1>9. CASE /\ now - cache.at < Interval
             /\ healthy' = [healthy EXCEPT ![r] = cache.healthy]
             /\ R!Goto(r, "read")
    <2>1. /\ healthy' \in [R!Callers -> BOOLEAN] /\ healthy'[r] = cache.healthy
          /\ \A q \in R!Callers \ {r} : healthy'[q] = healthy[q]
      BY <1>1, <1>2, <1>9 DEF R!ReplicaTypeOK
    <2>2. step'[r] = "read"
      BY <1>1, <1>2, <1>9 DEF R!Goto, R!ReplicaTypeOK
    <2>3. ASSUME cache.healthy, NEW i \in (replayed + 1)..Len(log)
          PROVE  log[i].at >= now - MaxLag - Interval + 1
      <3>1. log[i].at >= cache.at - MaxLag
        BY <2>3, <1>2 DEF R!CacheIsTrue, R!LacksNothingBefore
      <3>2. log[i].at \in Nat
        BY <1>1
      <3>3. MaxLag \in Nat /\ Interval \in Nat
        BY <1>1
      <3> QED BY <3>1, <3>2, <3>3, <1>1, <1>9
    <2>4. R!CallIsTrue(r)'
      <3>1. start'[r] <= now' /\ now' - start'[r] <= CallTime
        BY <1>1, <1>3, <1>4
      <3> QED BY <1>3, <1>4, <2>1, <2>2, <2>3, <3>1 DEF R!CallIsTrue, R!LacksNothingBefore
    <2>5. R!WalkIsTrue(r)'
      BY <1>8, <2>2
    <2>6. \A q \in R!Callers \ {r} :
             start'[q] = start[q] /\ lsn'[q] = lsn[q] /\ healthy'[q] = healthy[q]
      BY <1>3, <1>4, <2>1
    <2>7. \A q \in Readers \ {r} :
             cursor'[q] = cursor[q] /\ listed'[q] = listed[q] /\ since'[q] = since[q]
      BY <1>3, <1>5
    <2> QED BY <1>1, <1>3, <1>4, <1>5, <1>6, <1>7, <1>9, <2>1, <2>4, <2>5, <2>6, <2>7, CallMoves
  <1>10. CASE R!Goto(r, "primary") /\ UNCHANGED healthy
    <2>1. step'[r] = "primary"
      BY <1>1, <1>2, <1>10 DEF R!Goto, R!ReplicaTypeOK
    <2>2. R!CallIsTrue(r)'
      <3>1. start'[r] <= now' /\ now' - start'[r] <= CallTime
        BY <1>1, <1>3, <1>4
      <3> QED BY <2>1, <3>1 DEF R!CallIsTrue
    <2>3. R!WalkIsTrue(r)'
      BY <1>8, <2>1
    <2>4. \A q \in R!Callers \ {r} :
             start'[q] = start[q] /\ lsn'[q] = lsn[q] /\ healthy'[q] = healthy[q]
      BY <1>3, <1>4, <1>10
    <2>5. \A q \in Readers \ {r} :
             cursor'[q] = cursor[q] /\ listed'[q] = listed[q] /\ since'[q] = since[q]
      BY <1>3, <1>5
    <2>6. healthy' \in [R!Callers -> BOOLEAN]
      BY <1>2, <1>10 DEF R!ReplicaTypeOK
    <2> QED BY <1>1, <1>3, <1>4, <1>5, <1>6, <1>7, <1>10, <2>2, <2>3, <2>4, <2>5, <2>6, CallMoves
  <1> QED BY <1>9, <1>10 DEF R!Begin

LEMMA ProbeKeeps ==
    ASSUME R!ReplicaInductive, NEW r \in Probers, R!Probe(r) PROVE R!ReplicaInductive'
  <1>1. /\ r \in R!Callers /\ R!Goto(r, "primary") /\ start' = [start EXCEPT ![r] = now]
        /\ UNCHANGED <<now, log, replayed, cache, lsn, healthy, cursor, listed, since>>
    BY DEF R!Probe, R!walk, R!Callers
  <1>2. R!ReplicaTypeOK /\ R!CacheIsTrue
    BY DEF R!ReplicaInductive
  <1>3. now \in Nat /\ now <= MaxTime /\ CallTime \in Nat /\ MaxTime \in Nat
    BY ReplicaFacts
  <1>4. /\ start' \in [R!Callers -> 0..MaxTime] /\ start'[r] = now
        /\ \A q \in R!Callers \ {r} : start'[q] = start[q]
    BY <1>1, <1>2, <1>3 DEF R!ReplicaTypeOK
  <1>5. step'[r] = "primary"
    BY <1>1, <1>2 DEF R!Goto, R!ReplicaTypeOK
  <1>6. R!CallIsTrue(r)'
    <2>1. start'[r] <= now' /\ now' - start'[r] <= CallTime
      BY <1>1, <1>3, <1>4
    <2> QED BY <1>5, <2>1 DEF R!CallIsTrue
  <1>7. R!CacheIsTrue'
    BY <1>1, <1>2 DEF R!CacheIsTrue, R!LacksNothingBefore
  <1>8. /\ lsn' \in [R!Callers -> Nat] /\ healthy' \in [R!Callers -> BOOLEAN]
        /\ cache' \in [healthy : BOOLEAN, at : 0..MaxTime]
        /\ \A q \in R!Callers \ {r} :
              start'[q] = start[q] /\ lsn'[q] = lsn[q] /\ healthy'[q] = healthy[q]
    BY <1>1, <1>2, <1>4 DEF R!ReplicaTypeOK
  <1> QED BY <1>1, <1>4, <1>6, <1>7, <1>8, CallOnlyMoves

\* What the replica lacks of a log as long as the primary had it is no older
\* than the call; else its own last commit is young.
LEMMA HealthIsLag ==
    ASSUME R!ReplicaInductive, NEW r \in R!Callers, step[r] = "replica", R!IsHealthy(lsn[r])
    PROVE  R!LacksNothingBefore(start[r] - MaxLag)
  <1>1. /\ now \in Nat /\ replayed \in Nat /\ Len(log) \in Nat /\ replayed <= Len(log)
        /\ start[r] \in Nat /\ lsn[r] \in Nat
        /\ MaxLag \in Nat
        /\ \A i \in 1..Len(log) : log[i].at \in Nat
    BY ReplicaFacts
  <1>2. R!CallIsTrue(r) /\ R!LogIsOrdered
    BY DEF R!ReplicaInductive
  <1>3. /\ start[r] <= now
        /\ \A i \in (lsn[r] + 1)..Len(log) : log[i].at >= start[r]
    BY <1>2 DEF R!CallIsTrue
  <1>4. SUFFICES ASSUME NEW i \in (replayed + 1)..Len(log) PROVE log[i].at >= start[r] - MaxLag
    BY DEF R!LacksNothingBefore
  <1>5. i \in 1..Len(log) /\ log[i].at \in Nat /\ replayed <= i
    BY <1>1
  <1>6. CASE lsn[r] <= replayed
    <2>1. i \in (lsn[r] + 1)..Len(log)
      BY <1>1, <1>6
    <2>2. log[i].at >= start[r]
      BY <1>3, <2>1
    <2> QED BY <2>2, <1>1, <1>5
  <1>7. CASE replayed > 0 /\ now - log[replayed].at <= MaxLag
    <2>1. replayed \in 1..Len(log)
      BY <1>1, <1>7
    <2>2. log[replayed].at <= log[i].at /\ log[replayed].at \in Nat
      BY <1>1, <1>2, <1>5, <2>1 DEF R!LogIsOrdered
    <2>3. now - log[replayed].at <= MaxLag
      BY <1>7
    <2> QED BY SMTT(30), <2>2, <2>3, <1>1, <1>3, <1>5
  <1> QED BY <1>6, <1>7 DEF R!IsHealthy

\* A measurement goes on, or ends without an answer.
LEMMA MeasuresKeep ==
    ASSUME R!ReplicaInductive, NEW r \in R!Callers,
           R!MeasurePrimary(r) \/ R!MeasureReplica(r) \/ R!CheckFails(r)
    PROVE  R!ReplicaInductive'
  <1>1. /\ step[r] \in {"primary", "replica"}
        /\ UNCHANGED <<now, log, replayed, cache, start, cursor, listed, since>>
    BY DEF R!MeasurePrimary, R!MeasureReplica, R!CheckFails, R!walk
  <1>2. R!ReplicaTypeOK /\ R!CacheIsTrue /\ R!CallIsTrue(r)
    BY DEF R!ReplicaInductive
  <1>3. /\ R!CacheIsTrue'
        /\ cache' \in [healthy : BOOLEAN, at : 0..MaxTime]
        /\ start' \in [R!Callers -> 0..MaxTime]
        /\ start'[r] <= now' /\ now' - start'[r] <= CallTime
    BY <1>1, <1>2 DEF R!CacheIsTrue, R!LacksNothingBefore, R!ReplicaTypeOK, R!CallIsTrue
  <1>4. CASE R!MeasurePrimary(r)
    <2>1. /\ R!Goto(r, "replica") /\ lsn' = [lsn EXCEPT ![r] = Len(log)] /\ UNCHANGED healthy
      BY <1>4 DEF R!MeasurePrimary
    <2>2. Len(log) \in Nat
      BY ReplicaFacts
    <2>3. /\ lsn' \in [R!Callers -> Nat] /\ lsn'[r] = Len(log)
          /\ healthy' \in [R!Callers -> BOOLEAN]
          /\ \A q \in R!Callers \ {r} :
                start'[q] = start[q] /\ lsn'[q] = lsn[q] /\ healthy'[q] = healthy[q]
      BY <1>1, <1>2, <2>1, <2>2 DEF R!ReplicaTypeOK
    <2>4. step'[r] = "replica"
      BY <1>2, <2>1 DEF R!Goto, R!ReplicaTypeOK
    <2>5. /\ lsn'[r] <= Len(log')
          /\ \A i \in (lsn'[r] + 1)..Len(log') : log'[i].at >= start'[r]
      BY <1>1, <2>2, <2>3
    <2>6. R!CallIsTrue(r)'
      BY <1>3, <2>4, <2>5 DEF R!CallIsTrue
    <2> QED BY <1>1, <1>3, <2>1, <2>3, <2>6, CallOnlyMoves
  <1>5. ASSUME NEW b \in BOOLEAN, b => R!LacksNothingBefore(start[r] - MaxLag),
               healthy' = [healthy EXCEPT ![r] = b], lsn' = [lsn EXCEPT ![r] = 0],
               R!Goto(r, "publish")
        PROVE  R!ReplicaInductive'
    <2>1. /\ lsn' \in [R!Callers -> Nat]
          /\ healthy' \in [R!Callers -> BOOLEAN] /\ healthy'[r] = b
          /\ \A q \in R!Callers \ {r} :
                start'[q] = start[q] /\ lsn'[q] = lsn[q] /\ healthy'[q] = healthy[q]
      BY <1>1, <1>2, <1>5 DEF R!ReplicaTypeOK
    <2>2. step'[r] = "publish"
      BY <1>2, <1>5 DEF R!Goto, R!ReplicaTypeOK
    <2>3. R!CallIsTrue(r)'
      BY <1>1, <1>3, <1>5, <2>1, <2>2 DEF R!CallIsTrue, R!LacksNothingBefore
    <2> QED BY <1>1, <1>3, <1>5, <2>1, <2>3, CallOnlyMoves
  <1>6. CASE R!MeasureReplica(r)
    <2>1. /\ step[r] = "replica" /\ R!Goto(r, "publish")
          /\ healthy' = [healthy EXCEPT ![r] = R!IsHealthy(lsn[r])]
          /\ lsn' = [lsn EXCEPT ![r] = 0]
      BY <1>6 DEF R!MeasureReplica
    <2>2. R!IsHealthy(lsn[r]) \in BOOLEAN
      BY DEF R!IsHealthy
    <2>3. R!IsHealthy(lsn[r]) => R!LacksNothingBefore(start[r] - MaxLag)
      BY <2>1, HealthIsLag
    <2> QED BY <1>5, <2>1, <2>2, <2>3
  <1>7. CASE R!CheckFails(r)
    <2>1. /\ R!Goto(r, "publish") /\ healthy' = [healthy EXCEPT ![r] = FALSE]
          /\ lsn' = [lsn EXCEPT ![r] = 0]
      BY <1>7 DEF R!CheckFails
    <2> QED BY <1>5, <2>1
  <1> QED BY <1>4, <1>6, <1>7

\* An answer is published as old as its call, whatever was published before.
LEMMA PublishKeeps ==
    ASSUME R!ReplicaInductive, NEW r \in R!Callers, R!Publish(r) PROVE R!ReplicaInductive'
  <1>1. /\ step[r] = "publish" /\ R!Answer(r)
        /\ cache' = [healthy |-> healthy[r], at |-> start[r]]
        /\ UNCHANGED <<now, log, replayed, lsn, cursor, listed, since>>
    BY DEF R!Publish, R!walk
  <1>2. R!ReplicaTypeOK /\ R!CallIsTrue(r)
    BY DEF R!ReplicaInductive
  <1>3. /\ start[r] \in Nat /\ start[r] <= now /\ now - start[r] <= CallTime
        /\ healthy[r] => R!LacksNothingBefore(start[r] - MaxLag)
        /\ MaxLag \in Nat /\ Interval \in Nat /\ Interval >= 1
        /\ \A i \in 1..Len(log) : log[i].at \in Nat
        /\ replayed \in Nat /\ Len(log) \in Nat
    BY <1>1, <1>2, ReplicaFacts DEF R!CallIsTrue
  <1>4. cache' \in [healthy : BOOLEAN, at : 0..MaxTime]
    BY <1>1, <1>2 DEF R!ReplicaTypeOK
  <1>5. R!CacheIsTrue'
    BY <1>1, <1>3 DEF R!CacheIsTrue, R!LacksNothingBefore
  <1>6. CASE R!Goto(r, "read") /\ UNCHANGED <<start, healthy>>
    <2>1. step'[r] = "read"
      BY <1>2, <1>6 DEF R!Goto, R!ReplicaTypeOK
    <2>2. ASSUME healthy[r], NEW i \in (replayed + 1)..Len(log)
          PROVE  log[i].at >= start[r] - MaxLag - Interval + 1
      <3>1. log[i].at >= start[r] - MaxLag
        BY <2>2, <1>3 DEF R!LacksNothingBefore
      <3>2. log[i].at \in Nat
        BY <1>3
      <3> QED BY <3>1, <3>2, <1>3
    <2>3. R!CallIsTrue(r)'
      BY <1>1, <1>3, <1>6, <2>1, <2>2 DEF R!CallIsTrue, R!LacksNothingBefore
    <2>4. /\ start' \in [R!Callers -> 0..MaxTime] /\ lsn' \in [R!Callers -> Nat]
          /\ healthy' \in [R!Callers -> BOOLEAN]
          /\ \A q \in R!Callers \ {r} :
                start'[q] = start[q] /\ lsn'[q] = lsn[q] /\ healthy'[q] = healthy[q]
      BY <1>1, <1>2, <1>6 DEF R!ReplicaTypeOK
    <2> QED BY <1>1, <1>4, <1>5, <1>6, <2>3, <2>4, CallOnlyMoves
  <1>7. CASE R!End(r)
    <2>1. /\ R!Goto(r, "idle") /\ start' = [start EXCEPT ![r] = 0]
          /\ healthy' = [healthy EXCEPT ![r] = FALSE]
      BY <1>7 DEF R!End
    <2>2. step'[r] = "idle"
      BY <1>2, <2>1 DEF R!Goto, R!ReplicaTypeOK
    <2>3. R!CallIsTrue(r)'
      BY <2>2 DEF R!CallIsTrue
    <2>4. MaxTime \in Nat
      BY ReplicaFacts
    <2>5. /\ start' \in [R!Callers -> 0..MaxTime] /\ lsn' \in [R!Callers -> Nat]
          /\ healthy' \in [R!Callers -> BOOLEAN]
          /\ \A q \in R!Callers \ {r} :
                start'[q] = start[q] /\ lsn'[q] = lsn[q] /\ healthy'[q] = healthy[q]
      BY <1>1, <1>2, <2>1, <2>4 DEF R!ReplicaTypeOK
    <2> QED BY <1>1, <1>4, <1>5, <2>1, <2>3, <2>5, CallOnlyMoves
  <1> QED BY <1>1, <1>6, <1>7 DEF R!Answer

LEMMA NothingIsBeyondTheEnd ==
    \A p \in [stamp : 0..MaxTime, case : Cases] : ~R!IsBeyond(p, R!EndCursor)
  <1> TAKE p \in [stamp : 0..MaxTime, case : Cases]
  <1>1. p.stamp \in Nat /\ R!EndCursor.stamp = -1
    BY ReplicaAssumption DEF R!EndCursor
  <1> QED BY <1>1 DEF R!IsBeyond, R!After

\* A page takes rows from the front of what remains, and its last one is the
\* cursor: beyond it is what the page has not taken.
LEMMA PageTurns ==
    ASSUME NEW rows \in SUBSET [stamp : 0..MaxTime, case : Cases], IsFiniteSet(rows),
           Cases \subseteq Nat, NEW next,
           next = IF rows = R!FirstOf(rows) THEN R!EndCursor ELSE R!LastOf(R!FirstOf(rows))
    PROVE  /\ next \in [stamp : -1..(MaxTime + 1), case : Nat] /\ next # R!NoCursor
           /\ next = R!EndCursor \/ next \in rows
           /\ \A p \in R!FirstOf(rows) : ~R!IsBeyond(p, next)
           /\ \A p \in rows \ R!FirstOf(rows) : R!IsBeyond(p, next)
  <1> DEFINE page == R!FirstOf(rows)
  <1>0. MaxTime \in Nat
    BY ReplicaAssumption
  <1>1. rows \in SUBSET Row /\ rows \in SUBSET [stamp : Nat, case : Nat]
    <2>1. 0..MaxTime \subseteq Nat /\ 0..MaxTime \subseteq Int /\ Cases \subseteq Int
      BY <1>0
    <2>2. \A t \in [stamp : 0..MaxTime, case : Cases] :
             t \in [stamp : Int, case : Int] /\ t \in [stamp : Nat, case : Nat]
      BY <2>1
    <2> QED BY <2>2 DEF Row
  <1>2. /\ page \subseteq rows
        /\ \A p \in page, q \in rows : R!After(p, q) => q \in page
        /\ rows # {} => page # {}
    BY <1>1, PageIsFirst
  <1> HIDE DEF page
  <1>3. CASE rows = page
    <2>1. next = R!EndCursor
      BY <1>3 DEF page
    <2>2. /\ next \in [stamp : -1..(MaxTime + 1), case : Nat]
          /\ next.stamp = -1 /\ R!NoCursor.stamp = MaxTime + 1
      BY <1>0, <2>1 DEF R!EndCursor, R!NoCursor
    <2>3. next # R!NoCursor
      BY <1>0, <2>2
    <2> QED BY <1>3, <2>1, <2>2, <2>3, NothingIsBeyondTheEnd DEF page
  <1>4. CASE rows # page
    <2>1. next = R!LastOf(page)
      BY <1>4 DEF page
    <2>2. page \in SUBSET [stamp : Nat, case : Nat] /\ page # {}
      BY <1>1, <1>2, <1>4
    <2>3. next \in page /\ \A q \in page : q = next \/ R!After(next, q)
      BY <2>1, <2>2, LastRow
    <2>4. next \in rows /\ next \in Row
      BY <2>3, <1>1, <1>2
    <2>5. next \in [stamp : -1..(MaxTime + 1), case : Nat]
      <3>1. \A n \in 0..MaxTime : n \in -1..(MaxTime + 1)
        BY <1>0
      <3> QED BY <2>4, <3>1
    <2>6. next # R!NoCursor
      <3>1. next.stamp \in 0..MaxTime /\ R!NoCursor.stamp = MaxTime + 1
        BY <2>4 DEF R!NoCursor
      <3> QED BY <1>0, <3>1
    <2>7. \A p \in page : ~R!IsBeyond(p, next)
      <3> TAKE p \in page
      <3>1. p \in Row
        BY <1>1, <1>2
      <3> QED BY <2>3, <2>4, <3>1, RowsAreOrdered DEF R!IsBeyond
    <2>8. \A p \in rows \ page : R!IsBeyond(p, next)
      <3> TAKE p \in rows \ page
      <3>1. p \in Row /\ p # next
        BY <1>1, <2>3
      <3>2. ~R!After(next, p)
        BY <1>2, <2>3
      <3> QED BY <2>4, <3>1, <3>2, RowsAreOrdered DEF R!IsBeyond
    <2> QED BY <2>4, <2>5, <2>6, <2>7, <2>8 DEF page
  <1> QED BY <1>3, <1>4

LEMMA ReadKeeps ==
    ASSUME R!ReplicaInductive, NEW r \in Readers, R!Read(r) PROVE R!ReplicaInductive'
  <1> DEFINE n == IF healthy[r] THEN replayed ELSE Len(log)
             rows == R!Remaining(cursor[r], n)
             page == R!FirstOf(rows)
             next == IF rows = page THEN R!EndCursor ELSE R!LastOf(page)
             Its(c) == {p \in page : p.case = c}
  <1>1. /\ R!End(r)
        /\ cursor' = [cursor EXCEPT ![r] = next]
        /\ listed' = [listed EXCEPT ![r] = [c \in Cases |-> @[c] + Cardinality(Its(c))]]
        /\ UNCHANGED <<now, log, replayed, cache, lsn, since>>
    BY SameSize DEF R!Read
  <1>2. /\ r \in R!Callers /\ replayed \in Nat /\ Len(log) \in Nat /\ replayed <= Len(log)
        /\ MaxTime \in Nat /\ Cases \subseteq Nat \ {0}
    BY ReplicaFacts DEF R!Callers
  <1>3. R!ReplicaTypeOK /\ R!CacheIsTrue /\ R!WalkIsTrue(r) /\ R!LogIsOrdered
    BY DEF R!ReplicaInductive
  <1>4. n \in 0..Len(log) /\ replayed <= n /\ n <= Len(log) /\ n \in Nat
    BY <1>2, <1>3 DEF R!ReplicaTypeOK
  <1> HIDE DEF n
  <1>5. /\ rows \in SUBSET [stamp : 0..MaxTime, case : Cases]
        /\ IsFiniteSet(rows)
        /\ \A p \in rows : p = R!RowOf(p.case, n) /\ R!IsBeyond(p, cursor[r])
        /\ \A c : (\E i \in 1..n : log[i].case = c) /\ R!IsBeyond(R!RowOf(c, n), cursor[r])
                    => R!RowOf(c, n) \in rows
    BY <1>3, <1>4, RemainingRows
  <1> HIDE DEF rows
  <1>6. page \subseteq rows
    BY DEF R!FirstOf
  <1>7. /\ next \in [stamp : -1..(MaxTime + 1), case : Nat] /\ next # R!NoCursor
        /\ next = R!EndCursor \/ next \in rows
        /\ \A p \in page : ~R!IsBeyond(p, next)
        /\ \A p \in rows \ page : R!IsBeyond(p, next)
    BY <1>2, <1>5, PageTurns
  <1> HIDE DEF page, next
  <1>8. \A c : IsFiniteSet(Its(c)) /\ Cardinality(Its(c)) \in Nat
    BY <1>5, <1>6, FS_Subset, FS_CardinalityType
  <1> HIDE DEF Its
  <1>9. /\ cursor' \in [Readers -> [stamp : -1..(MaxTime + 1), case : Nat]]
        /\ cursor'[r] = next
        /\ \A q \in Readers \ {r} : cursor'[q] = cursor[q]
    BY <1>1, <1>3, <1>7 DEF R!ReplicaTypeOK
  <1>10. /\ listed' \in [Readers -> [Cases -> Nat]]
         /\ \A c \in Cases : listed'[r][c] = listed[r][c] + Cardinality(Its(c))
         /\ \A q \in Readers \ {r} : listed'[q] = listed[q]
    <2>1. listed \in [Readers -> [Cases -> Nat]]
      BY <1>3 DEF R!ReplicaTypeOK
    <2>2. [c \in Cases |-> listed[r][c] + Cardinality(Its(c))] \in [Cases -> Nat]
      BY <1>8, <2>1
    <2> QED BY <1>1, <2>1, <2>2
  <1>11. /\ R!Goto(r, "idle") /\ start' = [start EXCEPT ![r] = 0]
         /\ healthy' = [healthy EXCEPT ![r] = FALSE]
    BY <1>1 DEF R!End
  <1>12. step'[r] = "idle"
    BY <1>2, <1>3, <1>11 DEF R!Goto, R!ReplicaTypeOK
  <1>13. /\ start' \in [R!Callers -> 0..MaxTime] /\ lsn' \in [R!Callers -> Nat]
         /\ healthy' \in [R!Callers -> BOOLEAN]
         /\ cache' \in [healthy : BOOLEAN, at : 0..MaxTime]
         /\ since' \in [Readers -> Nat]
         /\ \A q \in R!Callers \ {r} :
               start'[q] = start[q] /\ lsn'[q] = lsn[q] /\ healthy'[q] = healthy[q]
    BY <1>1, <1>2, <1>3, <1>11 DEF R!ReplicaTypeOK
  <1>14. R!CallIsTrue(r)'
    BY <1>12 DEF R!CallIsTrue
  <1>15. R!CacheIsTrue'
    BY <1>1, <1>3 DEF R!CacheIsTrue, R!LacksNothingBefore
  <1>16. ASSUME NEW c \in Cases, R!Settled(r, c)
         PROVE  listed'[r][c] = IF R!IsBeyond(R!RowOf(c, Len(log)), next) THEN 0 ELSE 1
    <2> DEFINE p == R!RowOf(c, Len(log))
    <2>1. since[r] \in Nat /\ since[r] <= n
      BY <1>2, <1>3, <1>4 DEF R!ReplicaTypeOK, R!WalkIsTrue
    <2>2. c \in 1..Len(log) /\ log[c].case = c
      BY <1>3 DEF R!LogIsOrdered
    <2>3. c \in 1..n
      <3>1. c <= since[r]
        BY <1>16, <2>2 DEF R!Settled
      <3> QED BY <2>1, <2>2, <3>1, <1>4
    <2>4. p = R!RowOf(c, n)
      <3>1. \A i \in (n + 1)..Len(log) : log[i].case # c
        <4> TAKE i \in (n + 1)..Len(log)
        <4>1. i \in 1..Len(log) /\ ~(i <= since[r])
          BY <1>4, <1>2, <2>1
        <4> QED BY <4>1, <1>16 DEF R!Settled
      <3> QED BY <1>2, <1>4, <2>2, <2>3, <3>1, RowStays DEF R!RowOf
    <2>5. p.case = c /\ p \in [stamp : 0..MaxTime, case : Cases]
      <3>1. R!LastIn(log, c, Len(log)) \in 1..Len(log)
        BY <1>2, <2>2, RowIsLast
      <3>2. log[R!LastIn(log, c, Len(log))].stamp \in 0..MaxTime
        BY <3>1, ReplicaFacts DEF R!Commits
      <3> QED BY <3>2 DEF R!RowOf, R!RowIn
    <2>6. listed[r][c] = IF R!IsBeyond(p, cursor[r]) THEN 0 ELSE 1
      BY <1>3, <1>16 DEF R!WalkIsTrue
    <2> HIDE DEF p
    <2>7. p \in rows <=> R!IsBeyond(p, cursor[r])
      BY <1>5, <2>3, <2>2, <2>4
    <2>8. \A q \in rows : q.case = c => q = p
      BY <1>5, <2>4
    <2>9. CASE p \in page
      <3>1. Its(c) = {p}
        BY <2>5, <2>8, <2>9, <1>6 DEF Its
      <3>2. Cardinality({p}) = 1
        BY FS_Singleton
      <3>3. listed[r][c] = 0
        BY <2>6, <2>7, <2>9, <1>6
      <3>4. ~R!IsBeyond(p, next)
        BY <1>7, <2>9
      <3>5. listed'[r][c] = 0 + 1
        BY <1>10, <3>1, <3>2, <3>3
      <3> QED BY <3>4, <3>5 DEF p
    <2>10. CASE p \notin page
      <3>1. Its(c) = {}
        BY <2>8, <2>10, <1>6 DEF Its
      <3>2. Cardinality({}) = 0
        BY FS_EmptySet
      <3>3. listed'[r][c] = listed[r][c] + 0 /\ listed[r][c] \in Nat
        BY <1>3, <1>10, <3>1, <3>2 DEF R!ReplicaTypeOK
      <3>4. CASE p \in rows
        BY <1>7, <2>6, <2>7, <2>10, <3>3, <3>4 DEF p
      <3>5. CASE p \notin rows
        <4>1. ~R!IsBeyond(p, next)
          <5>1. CASE next = R!EndCursor
            BY <2>5, <5>1, NothingIsBeyondTheEnd
          <5>2. CASE next \in rows
            <6>1. next \in Row /\ p \in Row /\ cursor[r] \in Row
              <7>1. cursor[r] \in [stamp : -1..(MaxTime + 1), case : Nat]
                BY <1>3 DEF R!ReplicaTypeOK
              <7>2. \A m \in 0..MaxTime : m \in Int
                OBVIOUS
              <7>3. \A m \in -1..(MaxTime + 1) : m \in Int
                OBVIOUS
              <7>4. Cases \subseteq Int
                BY <1>2
              <7> QED BY <1>5, <2>5, <5>2, <7>1, <7>2, <7>3, <7>4 DEF Row
            <6>2. R!After(next, cursor[r]) /\ ~R!After(p, cursor[r])
              BY <1>5, <2>7, <3>5, <5>2 DEF R!IsBeyond
            <6> QED BY <6>1, <6>2, RowsAreOrdered DEF R!IsBeyond
          <5> QED BY <5>1, <5>2, <1>7
        <4> QED BY <4>1, <2>6, <2>7, <3>3, <3>5 DEF p
      <3> QED BY <3>4, <3>5
    <2> QED BY <2>9, <2>10
  <1>17. R!WalkIsTrue(r)'
    <2>1. \A c \in Cases : R!Settled(r, c)' <=> R!Settled(r, c)
      BY <1>1 DEF R!Settled
    <2>2. \A c \in Cases : R!RowOf(c, Len(log))' = R!RowOf(c, Len(log))
      BY <1>1 DEF R!RowOf
    <2>3. \A c \in Cases : R!Settled(r, c)' =>
             listed'[r][c] = IF R!IsBeyond(R!RowOf(c, Len(log))', cursor'[r]) THEN 0 ELSE 1
      BY <1>9, <1>16, <2>1, <2>2
    <2>4. since'[r] <= replayed' /\ step'[r] # "new"
      BY <1>1, <1>3, <1>12 DEF R!WalkIsTrue
    <2>5. cursor'[r] # R!NoCursor' 
      BY <1>7, <1>9 DEF R!NoCursor
    <2> QED BY <2>3, <2>4, <2>5 DEF R!WalkIsTrue
  <1>18. \A q \in Readers \ {r} :
            cursor'[q] = cursor[q] /\ listed'[q] = listed[q] /\ since'[q] = since[q]
    BY <1>1, <1>9, <1>10
  <1>19. UNCHANGED <<now, log, replayed>>
    BY <1>1
  <1> QED BY <1>2, <1>9, <1>10, <1>11, <1>13, <1>14, <1>15, <1>17, <1>18, <1>19, CallMoves

LEMMA StepOfReplica == R!ReplicaInductive /\ [R!Next]_(R!vars) => R!ReplicaInductive'
  <1> SUFFICES ASSUME R!ReplicaInductive, [R!Next]_(R!vars) PROVE R!ReplicaInductive'
    OBVIOUS
  <1>1. CASE R!Tick
    BY <1>1, TickKeeps
  <1>2. CASE \E c \in Cases : R!Commit(c)
    BY <1>2, CommitKeeps
  <1>3. CASE R!Replay
    BY <1>3, ReplayKeeps
  <1>4. ASSUME NEW r \in Readers, R!Begin(r) \/ R!Read(r) PROVE R!ReplicaInductive'
    BY <1>4, BeginKeeps, ReadKeeps
  <1>5. CASE \E r \in Probers : R!Probe(r)
    BY <1>5, ProbeKeeps
  <1>6. ASSUME NEW r \in R!Callers,
               R!MeasurePrimary(r) \/ R!MeasureReplica(r) \/ R!CheckFails(r) \/ R!Publish(r)
        PROVE  R!ReplicaInductive'
    BY <1>6, MeasuresKeep, PublishKeeps
  <1>7. CASE UNCHANGED R!vars
    <2>1. UNCHANGED <<now, log, replayed, cache, step, start, lsn, healthy, cursor, listed, since>>
      BY <1>7 DEF R!vars, R!call, R!walk
    <2>2. R!ReplicaTypeOK' /\ R!LogIsOrdered' /\ R!CacheIsTrue'
      BY <2>1 DEF R!ReplicaInductive, R!ReplicaTypeOK, R!Callers, R!Commits, R!LogIsOrdered,
                  R!CacheIsTrue, R!LacksNothingBefore
    <2>3. \A r \in R!Callers : R!CallIsTrue(r)'
      BY <2>1, CallStays
    <2>4. replayed' \in Nat /\ replayed <= replayed'
      BY <2>1, ReplicaFacts
    <2>5. \A r \in Readers : R!WalkIsTrue(r)'
      BY <2>1, <2>4, WalkStays
    <2> QED BY <2>2, <2>3, <2>5 DEF R!ReplicaInductive, R!Callers
  <1> QED BY <1>1, <1>2, <1>3, <1>4, <1>5, <1>6, <1>7 DEF R!Next

\* In every reachable state what the cache and every call believe of the replica
\* is true of it, and a walk has listed what it has passed (postgres_store.py:
\* _conn, _replica_status, list_cases_page).
THEOREM ReplicaInvariant == R!Spec => []R!ReplicaInductive
  <1>1. R!Init => R!ReplicaInductive
    BY InitReplica
  <1>2. R!ReplicaInductive /\ [R!Next]_(R!vars) => R!ReplicaInductive'
    BY StepOfReplica
  <1> QED BY <1>1, <1>2, PTL DEF R!Spec

\* However measurements overlap and publish, a list that the replica serves
\* lacks no commit older than the lag allowed, the life of a cached answer and
\* the time of a call together (_replica_status).
THEOREM ReplicaListsAreRecent == R!Spec => []ReplicaReadsAreRecent
  <1>1. R!ReplicaInductive => ReplicaReadsAreRecent
    <2> SUFFICES ASSUME R!ReplicaInductive, NEW r \in Readers,
                        step[r] = "read", healthy[r],
                        NEW i \in (replayed + 1)..Len(log)
                 PROVE  now - log[i].at < MaxLag + Interval + CallTime
      BY DEF ReplicaReadsAreRecent, R!ReplicaReadsAreRecent
    <2>1. r \in R!Callers
      BY DEF R!Callers
    <2>2. /\ start[r] <= now /\ now - start[r] <= CallTime
          /\ log[i].at >= start[r] - MaxLag - Interval + 1
      BY <2>1 DEF R!ReplicaInductive, R!CallIsTrue, R!LacksNothingBefore
    <2>3. replayed \in Nat /\ Len(log) \in Nat
      BY ReplicaFacts
    <2>4. i \in 1..Len(log)
      BY <2>3
    <2>5. /\ now \in Nat /\ start[r] \in Nat /\ log[i].at \in Nat
          /\ MaxLag \in Nat /\ Interval \in Nat /\ CallTime \in Nat
      BY <2>1, <2>4, ReplicaFacts
    <2>6. \A t, s, at, a, b, d \in Nat :
             t - s <= d /\ at >= s - a - b + 1 => t - at < a + b + d
      OBVIOUS
    <2> QED BY <2>2, <2>5, <2>6
  <1> QED BY <1>1, ReplicaInvariant, PTL

\* A walk through the pages that has come to its end has shown exactly once every
\* case that nothing has happened to since it began, wherever the pages came
\* from and whatever moved around the case (list_cases_page).
THEOREM WalksListSettledCasesOnce == R!Spec => []SettledCasesAreListedOnce
  <1>1. R!ReplicaInductive => SettledCasesAreListedOnce
    <2> SUFFICES ASSUME R!ReplicaInductive, NEW r \in Readers, cursor[r] = R!EndCursor,
                        NEW c \in Cases, \A i \in 1..Len(log) : log[i].case = c => i <= since[r]
                 PROVE  listed[r][c] = 1
      BY DEF SettledCasesAreListedOnce, R!SettledCasesAreListedOnce
    <2>1. R!Settled(r, c)
      BY DEF R!Settled
    <2>2. listed[r][c] = IF R!IsBeyond(R!RowOf(c, Len(log)), R!EndCursor) THEN 0 ELSE 1
      BY <2>1 DEF R!ReplicaInductive, R!WalkIsTrue
    <2>3. R!RowOf(c, Len(log)) \in [stamp : 0..MaxTime, case : Cases]
      <3>1. c \in 1..Len(log) /\ log[c].case = c /\ Len(log) \in Nat
        BY ReplicaFacts DEF R!ReplicaInductive, R!LogIsOrdered
      <3>2. R!LastIn(log, c, Len(log)) \in 1..Len(log)
        BY <3>1, RowIsLast
      <3>3. log[R!LastIn(log, c, Len(log))].stamp \in 0..MaxTime
        BY <3>2, ReplicaFacts DEF R!Commits
      <3> QED BY <3>3 DEF R!RowOf, R!RowIn
    <2> QED BY <2>2, <2>3, NothingIsBeyondTheEnd
  <1> QED BY <1>1, ReplicaInvariant, PTL
=============================================================================
