------------------------ MODULE RuntimeBarrierProofs ------------------------
(***************************************************************************)
(* For any number of requests, runs, workers and cases: the runtime        *)
(* barrier counts its leases, and implements readers and a writer; and     *)
(* while a deployment has closed the API nothing writes.                   *)
(***************************************************************************)
EXTENDS RuntimeBarrier, FiniteSetTheorems, TLAPS

\* The references of a resource.

LEMMA BorrowersAreFinite ==
    ASSUME NEW o
    PROVE  /\ IsFiniteSet(Borrowers(o))
           /\ Cardinality(Borrowers(o)) \in Nat
           /\ Cardinality(Borrowers(o)) = 0 <=> Borrowers(o) = {}
  <1>1. Borrowers(o) \in SUBSET Runs
    BY DEF Borrowers
  <1> QED BY <1>1, RunsAreFinite, FS_Subset, FS_CardinalityType, FS_EmptySet

\* What an action must not do to the references: the part of Inductive that
\* says how they are counted.
Counted == LeasesAreCounted /\ LocksAreHeld /\ RunsAreNotWorkers

LEMMA CountUnchanged ==
    ASSUME Inductive, UNCHANGED <<lock, refs, run, leaseOf>>,
           \A o \in Owners : Holds(o)' = Holds(o)
    PROVE  Counted'
  <1> USE DEF Inductive
  <1>1. \A o \in Owners : Borrowers(o)' = Borrowers(o)
    BY DEF Borrowers
  <1>2. LeasesAreCounted'
    BY <1>1 DEF LeasesAreCounted, Leases
  <1>3. LocksAreHeld' /\ RunsAreNotWorkers'
    BY DEF LocksAreHeld, RunsAreNotWorkers
  <1> QED BY <1>2, <1>3 DEF Counted

LEMMA CountTaken ==
    ASSUME Inductive, NEW o \in Owners, NEW mode \in {"shared", "exclusive"},
           Acquire(o, mode), refs[o] = 0, ~Holds(o), UNCHANGED <<run, leaseOf>>,
           Holds(o)', \A p \in Owners \ {o} : Holds(p)' = Holds(p)
    PROVE  Counted'
  <1> USE DEF Inductive
  <1>1. \A p \in Owners : Borrowers(p)' = Borrowers(p)
    BY DEF Borrowers
  <1>2. Cardinality(Borrowers(o)) = 0
    BY BorrowersAreFinite DEF LeasesAreCounted, Leases
  <1>3. refs'[o] = Leases(o)'
    BY <1>1, <1>2 DEF TypeOK, Acquire, Leases
  <1>4. ASSUME NEW p \in Owners \ {o}
        PROVE  refs'[p] = Leases(p)'
    BY <1>1 DEF TypeOK, Acquire, LeasesAreCounted, Leases
  <1>5. LeasesAreCounted'
    BY <1>3, <1>4 DEF LeasesAreCounted
  <1>6. LocksAreHeld'
    BY DEF TypeOK, Acquire, LocksAreHeld, CanShare, CanOwn
  <1>7. RunsAreNotWorkers'
    BY DEF RunsAreNotWorkers
  <1> QED BY <1>5, <1>6, <1>7 DEF Counted

LEMMA CountReturned ==
    ASSUME Inductive, NEW o \in Owners, CloseLease(o), UNCHANGED <<run, leaseOf>>,
           Holds(o), ~Holds(o)', \A p \in Owners \ {o} : Holds(p)' = Holds(p)
    PROVE  Counted'
  <1> USE DEF Inductive
  <1>1. \A p \in Owners : Borrowers(p)' = Borrowers(p)
    BY DEF Borrowers
  <1>2. refs[o] = 1 + Cardinality(Borrowers(o)) /\ Cardinality(Borrowers(o)) \in Nat
    BY BorrowersAreFinite DEF LeasesAreCounted, Leases
  <1>3. refs'[o] = Leases(o)'
    BY <1>1, <1>2 DEF TypeOK, CloseLease, Leases
  <1>4. ASSUME NEW p \in Owners \ {o}
        PROVE  refs'[p] = Leases(p)'
    BY <1>1 DEF TypeOK, CloseLease, LeasesAreCounted, Leases
  <1>5. LeasesAreCounted'
    BY <1>3, <1>4 DEF LeasesAreCounted
  <1>6. LocksAreHeld'
    BY <1>2 DEF TypeOK, CloseLease, LocksAreHeld
  <1>7. RunsAreNotWorkers'
    BY DEF RunsAreNotWorkers
  <1> QED BY <1>5, <1>6, <1>7 DEF Counted

\* A process dies with a resource that nobody else has a lease of.
LEMMA CountDropped ==
    ASSUME Inductive, NEW o \in Owners, o \notin Requests \cup Runs,
           lock' = [lock EXCEPT ![o] = "free"], refs' = [refs EXCEPT ![o] = 0],
           UNCHANGED <<run, leaseOf>>,
           ~Holds(o)', \A p \in Owners \ {o} : Holds(p)' = Holds(p)
    PROVE  Counted'
  <1> USE DEF Inductive
  <1>1. \A p \in Owners : Borrowers(p)' = Borrowers(p)
    BY DEF Borrowers
  <1>2. Borrowers(o) = {}
    BY DEF RunsAreNotWorkers, Borrowers
  <1>3. refs'[o] = Leases(o)'
    BY <1>1, <1>2, BorrowersAreFinite DEF TypeOK, Leases
  <1>4. ASSUME NEW p \in Owners \ {o}
        PROVE  refs'[p] = Leases(p)'
    BY <1>1 DEF TypeOK, LeasesAreCounted, Leases
  <1>5. LeasesAreCounted'
    BY <1>3, <1>4 DEF LeasesAreCounted
  <1>6. LocksAreHeld'
    BY DEF TypeOK, LocksAreHeld
  <1>7. RunsAreNotWorkers'
    BY DEF RunsAreNotWorkers
  <1> QED BY <1>5, <1>6, <1>7 DEF Counted

\* A run enters with a lease of the resource o: one of its own, or one forked
\* from its request's.
LEMMA CountSpawned ==
    ASSUME Inductive, NEW c \in Cases, NEW r \in Runs, NEW o \in Requests \cup {r},
           Spawn(c, r, o), refs' = [refs EXCEPT ![o] = @ + 1],
           \A p \in Owners : Holds(p)' = Holds(p), LocksAreHeld'
    PROVE  Counted'
  <1> USE DEF Inductive
  <1>1. o \in Owners
    BY DEF Owners
  <1>2. Borrowers(o)' = Borrowers(o) \cup {r} /\ r \notin Borrowers(o)
    BY DEF TypeOK, Spawn, Borrowers
  <1>3. Cardinality(Borrowers(o)') = Cardinality(Borrowers(o)) + 1
    BY <1>2, BorrowersAreFinite, FS_AddElement
  <1>4. refs'[o] = Leases(o)'
    BY <1>1, <1>3, BorrowersAreFinite DEF TypeOK, LeasesAreCounted, Leases
  <1>5. ASSUME NEW p \in Owners \ {o}
        PROVE  refs'[p] = Leases(p)'
    <2>1. Borrowers(p)' = Borrowers(p)
      BY DEF TypeOK, Spawn, Borrowers
    <2> QED BY <2>1 DEF TypeOK, LeasesAreCounted, Leases
  <1>6. LeasesAreCounted'
    BY <1>4, <1>5 DEF LeasesAreCounted
  <1>7. RunsAreNotWorkers'
    BY DEF TypeOK, Spawn, RunsAreNotWorkers
  <1> QED BY <1>6, <1>7 DEF Counted

\* Only a request, a run that is there or the deployment itself holds a lease
\* of the API process, and all of them end with it.
LEMMA CountEnded ==
    ASSUME Inductive, ProcessEnds, op' \notin OpHolds
    PROVE  Counted'
  <1> USE DEF Inductive
  <1>1. \A o \in Owners : Borrowers(o)' = {}
    BY DEF ProcessEnds, Borrowers
  <1>2. ASSUME NEW o \in Owners
        PROVE  refs'[o] = Leases(o)'
    <2>1. Cardinality(Borrowers(o)') = 0
      BY <1>1, FS_EmptySet
    <2>2. CASE o \in Workers
      <3>1. Borrowers(o) = {}
        BY <2>2, PlacesAreDistinct DEF RunsAreNotWorkers, Borrowers
      <3>2. Cardinality(Borrowers(o)) = 0
        BY <3>1, FS_EmptySet
      <3>3. Holds(o)' <=> Holds(o)
        BY <2>2, PlacesAreDistinct DEF Holds, ProcessEnds, workers
      <3>4. refs'[o] = refs[o]
        BY <2>2 DEF ProcessEnds
      <3> QED BY <2>1, <3>2, <3>3, <3>4 DEF LeasesAreCounted, Leases
    <2>3. CASE o \notin Workers
      <3>1. ~Holds(o)'
        BY <2>3, PlacesAreDistinct DEF Holds, ProcessEnds, Owners
      <3>2. refs'[o] = 0
        BY <2>3 DEF ProcessEnds
      <3> QED BY <2>1, <3>1, <3>2 DEF Leases
    <2> QED BY <2>2, <2>3
  <1>3. LeasesAreCounted'
    BY <1>2 DEF LeasesAreCounted
  <1>4. LocksAreHeld' /\ RunsAreNotWorkers'
    BY DEF ProcessEnds, LocksAreHeld, RunsAreNotWorkers
  <1> QED BY <1>3, <1>4 DEF Counted

\* Whoever has a lease of a resource finds it locked.
LEMMA HolderHasLease ==
    ASSUME Inductive, NEW o \in Owners, Holds(o)
    PROVE  refs[o] \in Nat \ {0} /\ lock[o] # "free"
  BY BorrowersAreFinite DEF Inductive, LeasesAreCounted, Leases, LocksAreHeld

\* The resource of an idle worker has no lease, nor has that of a run that
\* is not there.
LEMMA FreeWorkerHasNone ==
    ASSUME Inductive, NEW w \in Workers, worker[w] = "idle"
    PROVE  refs[w] = 0
  <1>1. w \in Owners /\ ~Holds(w) /\ Borrowers(w) = {}
    BY PlacesAreDistinct DEF Inductive, RunsAreNotWorkers, Owners, Holds, Borrowers
  <1> QED BY <1>1, BorrowersAreFinite DEF Inductive, LeasesAreCounted, Leases

LEMMA FreeRunHasNone ==
    ASSUME Inductive, NEW r \in Runs, run[r] = "none"
    PROVE  refs[r] = 0
  <1>1. r \in Owners /\ ~Holds(r) /\ Borrowers(r) = {}
    BY PlacesAreDistinct DEF Inductive, RunsAreNotWorkers, Owners, Holds, Borrowers
  <1> QED BY <1>1, BorrowersAreFinite DEF Inductive, LeasesAreCounted, Leases

LEMMA RunsKeepTheirLock ==
    ASSUME TypeOK', Counted'
    PROVE  (\A r \in Runs : run[r] # "none" => lock[leaseOf[r]] # "free")'
  <1> SUFFICES ASSUME NEW r \in Runs, NEW o \in Owners,
                      run'[r] # "none", leaseOf'[r] = o
               PROVE  lock'[o] # "free"
    BY DEF TypeOK
  <1>1. Borrowers(o)' # {} /\ Borrowers(o)' \in SUBSET Runs
    BY DEF Borrowers
  <1>2. Cardinality(Borrowers(o)') \in Nat \ {0}
    BY <1>1, RunsAreFinite, FS_Subset, FS_CardinalityType, FS_EmptySet
  <1>3. refs'[o] # 0
    BY <1>2 DEF Counted, LeasesAreCounted, Leases
  <1> QED BY <1>3 DEF Counted, LocksAreHeld

-----------------------------------------------------------------------------
\* Requests.

LEMMA AdmitKeeps ==
    ASSUME Inductive, NEW q \in Requests, NEW k \in Kinds, Admit(q, k)
    PROVE  Inductive'
  <1> USE PlacesAreDistinct DEF Inductive, Admit, tasks, workers, deploy
  <1>1. TypeOK'
    BY DEF TypeOK, Owners, Acquire, HttpSteps, Kinds
  <1>2. Counted'
    <2>1. q \in Owners
      BY DEF Owners
    <2>2. ~Holds(q) /\ Holds(q)'
      BY DEF TypeOK, Holds, OpHolds
    <2>3. \A p \in Owners \ {q} : Holds(p)' = Holds(p)
      BY DEF TypeOK, Holds, OpHolds
    <2>4. refs[q] = 0
      BY <2>1 DEF LocksAreHeld, Acquire, CanOwn
    <2> QED BY <2>1, <2>2, <2>3, <2>4, CountTaken
  <1>3. LocksFitTheirUse'
    BY <1>1, <1>2 DEF Counted, TypeOK, LocksFitTheirUse, LocksAreHeld,
       RunsAreNotWorkers, OpHolds, Owners, Acquire, CanShare, CanOwn
  <1>4. StoppedIsSilent'
    BY DEF TypeOK, StoppedIsSilent, OpSteps, OpHolds, Acquire, CanShare, CanOwn
  <1>5. MaintenanceIsClosed'
    BY DEF TypeOK, MaintenanceIsClosed, StoppedIsSilent, LocksFitTheirUse,
       LocksAreHeld, Owners, OpHolds, OpSteps, Acquire, CanShare, CanOwn
  <1> QED BY <1>1, <1>2, <1>3, <1>4, <1>5 DEF Counted

LEMMA CheckFenceKeeps ==
    ASSUME Inductive, NEW q \in Requests, CheckFence(q)
    PROVE  Inductive'
  <1> USE PlacesAreDistinct DEF Inductive, CheckFence, tasks, workers, deploy
  <1>1. TypeOK'
    BY DEF TypeOK, Owners, HttpSteps
  <1>2. Counted'
    <2>1. \A p \in Owners : Holds(p)' = Holds(p)
      BY DEF TypeOK, Holds, OpHolds
    <2> QED BY <2>1, CountUnchanged
  <1>3. LocksFitTheirUse'
    BY <1>1, <1>2 DEF Counted, TypeOK, LocksFitTheirUse, LocksAreHeld,
       RunsAreNotWorkers, OpHolds, Owners
  <1>4. StoppedIsSilent'
    BY DEF TypeOK, StoppedIsSilent, OpSteps, OpHolds
  <1>5. MaintenanceIsClosed'
    BY DEF TypeOK, MaintenanceIsClosed, StoppedIsSilent, LocksFitTheirUse,
       LocksAreHeld, Owners, OpHolds, OpSteps
  <1> QED BY <1>1, <1>2, <1>3, <1>4, <1>5 DEF Counted

LEMMA HandleKeeps ==
    ASSUME Inductive, NEW q \in Requests, Handle(q)
    PROVE  Inductive'
  <1> USE PlacesAreDistinct DEF Inductive, Handle, tasks, workers, deploy
  <1>1. TypeOK'
    BY DEF TypeOK, Owners, HttpSteps, Phases
  <1>2. Counted'
    <2>1. \A p \in Owners : Holds(p)' = Holds(p)
      BY DEF TypeOK, Holds, OpHolds
    <2> QED BY <2>1, CountUnchanged
  <1>3. LocksFitTheirUse'
    BY <1>1, <1>2 DEF Counted, TypeOK, LocksFitTheirUse, LocksAreHeld,
       RunsAreNotWorkers, OpHolds, Owners
  <1>4. StoppedIsSilent'
    BY DEF TypeOK, StoppedIsSilent, OpSteps, OpHolds
  <1>5. MaintenanceIsClosed'
    BY DEF TypeOK, MaintenanceIsClosed, StoppedIsSilent, LocksFitTheirUse,
       LocksAreHeld, Owners, OpHolds, OpSteps
  <1> QED BY <1>1, <1>2, <1>3, <1>4, <1>5 DEF Counted

LEMMA DispatchFailsKeeps ==
    ASSUME Inductive, NEW q \in Requests, NEW c \in Cases, DispatchFails(q, c)
    PROVE  Inductive'
  <1> USE PlacesAreDistinct DEF Inductive, DispatchFails, tasks, workers, deploy
  <1>1. TypeOK'
    BY DEF TypeOK, Owners, HttpSteps, Phases
  <1>2. Counted'
    <2>1. \A p \in Owners : Holds(p)' = Holds(p)
      BY DEF TypeOK, Holds, OpHolds
    <2> QED BY <2>1, CountUnchanged
  <1>3. LocksFitTheirUse'
    BY <1>1, <1>2 DEF Counted, TypeOK, LocksFitTheirUse, LocksAreHeld,
       RunsAreNotWorkers, OpHolds, Owners
  <1>4. StoppedIsSilent'
    BY DEF TypeOK, StoppedIsSilent, OpSteps, OpHolds
  <1>5. MaintenanceIsClosed'
    BY DEF TypeOK, MaintenanceIsClosed, StoppedIsSilent, LocksFitTheirUse,
       LocksAreHeld, Owners, OpHolds, OpSteps
  <1> QED BY <1>1, <1>2, <1>3, <1>4, <1>5 DEF Counted

LEMMA CheckQuietKeeps ==
    ASSUME Inductive, NEW q \in Requests, CheckQuiet(q)
    PROVE  Inductive'
  <1> USE PlacesAreDistinct DEF Inductive, CheckQuiet, tasks, workers, deploy
  <1>1. TypeOK'
    BY DEF TypeOK, Owners, HttpSteps
  <1>2. Counted'
    <2>1. \A p \in Owners : Holds(p)' = Holds(p)
      BY DEF TypeOK, Holds, OpHolds
    <2> QED BY <2>1, CountUnchanged
  <1>3. LocksFitTheirUse'
    BY <1>1, <1>2 DEF Counted, TypeOK, LocksFitTheirUse, LocksAreHeld,
       RunsAreNotWorkers, OpHolds, Owners
  <1>4. StoppedIsSilent'
    BY DEF TypeOK, StoppedIsSilent, OpSteps, OpHolds
  <1>5. MaintenanceIsClosed'
    BY DEF TypeOK, MaintenanceIsClosed, StoppedIsSilent, LocksFitTheirUse,
       LocksAreHeld, Owners, OpHolds, OpSteps
  <1> QED BY <1>1, <1>2, <1>3, <1>4, <1>5 DEF Counted

LEMMA ClearKeeps ==
    ASSUME Inductive, NEW q \in Requests, Clear(q)
    PROVE  Inductive'
  <1> USE PlacesAreDistinct DEF Inductive, Clear, tasks, workers, deploy
  <1>1. TypeOK'
    BY DEF TypeOK, Owners, HttpSteps, Phases
  <1>2. Counted'
    <2>1. \A p \in Owners : Holds(p)' = Holds(p)
      BY DEF TypeOK, Holds, OpHolds
    <2> QED BY <2>1, CountUnchanged
  <1>3. LocksFitTheirUse'
    BY <1>1, <1>2 DEF Counted, TypeOK, LocksFitTheirUse, LocksAreHeld,
       RunsAreNotWorkers, OpHolds, Owners
  <1>4. StoppedIsSilent'
    BY DEF TypeOK, StoppedIsSilent, OpSteps, OpHolds
  <1>5. MaintenanceIsClosed'
    BY DEF TypeOK, MaintenanceIsClosed, StoppedIsSilent, LocksFitTheirUse,
       LocksAreHeld, Owners, OpHolds, OpSteps
  <1> QED BY <1>1, <1>2, <1>3, <1>4, <1>5 DEF Counted

LEMMA RespondKeeps ==
    ASSUME Inductive, NEW q \in Requests, Respond(q)
    PROVE  Inductive'
  <1> USE PlacesAreDistinct DEF Inductive, Respond, tasks, workers, deploy
  <1>1. refs[q] \in Nat \ {0}
    BY HolderHasLease DEF TypeOK, Holds, OpHolds, Owners
  <1>2. TypeOK'
    BY <1>1 DEF TypeOK, Owners, CloseLease, HttpSteps
  <1>3. Counted'
    <2>1. q \in Owners
      BY DEF Owners
    <2>2. Holds(q) /\ ~Holds(q)'
      BY DEF TypeOK, Holds, OpHolds
    <2>3. \A p \in Owners \ {q} : Holds(p)' = Holds(p)
      BY DEF TypeOK, Holds, OpHolds
    <2> QED BY <2>1, <2>2, <2>3, CountReturned
  <1>4. LocksFitTheirUse'
    BY <1>2, <1>3, RunsKeepTheirLock DEF Counted, TypeOK, LocksFitTheirUse,
       LocksAreHeld, RunsAreNotWorkers, OpHolds, Owners, CloseLease
  <1>5. StoppedIsSilent'
    BY DEF TypeOK, StoppedIsSilent, OpSteps, OpHolds, CloseLease
  <1>6. MaintenanceIsClosed'
    BY DEF TypeOK, MaintenanceIsClosed, StoppedIsSilent, LocksFitTheirUse,
       LocksAreHeld, Owners, OpHolds, OpSteps, CloseLease
  <1> QED BY <1>2, <1>3, <1>4, <1>5, <1>6 DEF Counted

\* Replies in the room.

LEMMA DecideKeeps ==
    ASSUME Inductive, NEW c \in Cases, Decide(c)
    PROVE  Inductive'
  <1> USE PlacesAreDistinct DEF Inductive, Decide, places, tasks, workers, deploy
  <1>1. TypeOK'
    BY DEF TypeOK, Owners, Phases
  <1>2. Counted'
    <2>1. \A p \in Owners : Holds(p)' = Holds(p)
      BY DEF TypeOK, Holds, OpHolds
    <2> QED BY <2>1, CountUnchanged
  <1>3. LocksFitTheirUse'
    BY <1>1, <1>2 DEF Counted, TypeOK, LocksFitTheirUse, LocksAreHeld,
       RunsAreNotWorkers, OpHolds, Owners
  <1>4. StoppedIsSilent'
    BY DEF TypeOK, StoppedIsSilent, OpSteps, OpHolds
  <1>5. MaintenanceIsClosed'
    BY DEF TypeOK, MaintenanceIsClosed, StoppedIsSilent, LocksFitTheirUse,
       LocksAreHeld, Owners, OpHolds, OpSteps
  <1> QED BY <1>1, <1>2, <1>3, <1>4, <1>5 DEF Counted

LEMMA DispatchReplyFailsKeeps ==
    ASSUME Inductive, DispatchReplyFails
    PROVE  Inductive'
  <1> USE PlacesAreDistinct DEF Inductive, DispatchReplyFails, places, tasks, workers, deploy
  <1>1. TypeOK'
    BY DEF TypeOK, Owners
  <1>2. Counted'
    <2>1. \A p \in Owners : Holds(p)' = Holds(p)
      BY DEF TypeOK, Holds, OpHolds
    <2> QED BY <2>1, CountUnchanged
  <1>3. LocksFitTheirUse'
    BY <1>1, <1>2 DEF Counted, TypeOK, LocksFitTheirUse, LocksAreHeld,
       RunsAreNotWorkers, OpHolds, Owners
  <1>4. StoppedIsSilent'
    BY DEF TypeOK, StoppedIsSilent, OpSteps, OpHolds
  <1>5. MaintenanceIsClosed'
    BY DEF TypeOK, MaintenanceIsClosed, StoppedIsSilent, LocksFitTheirUse,
       LocksAreHeld, Owners, OpHolds, OpSteps
  <1> QED BY <1>1, <1>2, <1>3, <1>4, <1>5 DEF Counted

LEMMA ReachGateKeeps ==
    ASSUME Inductive, NEW r \in Runs, ReachGate(r)
    PROVE  Inductive'
  <1> USE PlacesAreDistinct DEF Inductive, ReachGate, places, tasks, workers, deploy
  <1>1. TypeOK'
    BY DEF TypeOK, Owners, Phases
  <1>2. Counted'
    <2>1. \A p \in Owners : Holds(p)' = Holds(p)
      BY DEF TypeOK, Holds, OpHolds
    <2> QED BY <2>1, CountUnchanged
  <1>3. LocksFitTheirUse'
    BY <1>1, <1>2 DEF Counted, TypeOK, LocksFitTheirUse, LocksAreHeld,
       RunsAreNotWorkers, OpHolds, Owners
  <1>4. StoppedIsSilent'
    BY DEF TypeOK, StoppedIsSilent, OpSteps, OpHolds
  <1>5. MaintenanceIsClosed'
    BY DEF TypeOK, MaintenanceIsClosed, StoppedIsSilent, LocksFitTheirUse,
       LocksAreHeld, Owners, OpHolds, OpSteps
  <1> QED BY <1>1, <1>2, <1>3, <1>4, <1>5 DEF Counted

\* Runs.

LEMMA DispatchKeeps ==
    ASSUME Inductive, NEW q \in Requests, NEW c \in Cases, NEW r \in Runs,
           Dispatch(q, c, r)
    PROVE  Inductive'
  <1> USE PlacesAreDistinct DEF Inductive, Dispatch, deploy
  <1>1. TypeOK'
    BY DEF TypeOK, Owners, Fork, Spawn, HttpSteps, RunStates, Phases
  <1>2. Counted'
    <2>1. \A p \in Owners : Holds(p)' = Holds(p)
      BY DEF TypeOK, Holds, OpHolds
    <2>2. LocksAreHeld'
      BY DEF TypeOK, LocksAreHeld, Fork, Owners
    <2>3. refs' = [refs EXCEPT ![q] = @ + 1]
      BY DEF Fork
    <2> QED BY <2>1, <2>2, <2>3, CountSpawned
  <1>3. LocksFitTheirUse'
    BY DEF TypeOK, LocksFitTheirUse, OpHolds, Fork, Spawn
  <1>4. StoppedIsSilent'
    BY DEF TypeOK, StoppedIsSilent, OpSteps, OpHolds, Spawn
  <1>5. MaintenanceIsClosed'
    BY DEF TypeOK, MaintenanceIsClosed
  <1> QED BY <1>1, <1>2, <1>3, <1>4, <1>5 DEF Counted

LEMMA DispatchReplyKeeps ==
    ASSUME Inductive, NEW r \in Runs, DispatchReply(r)
    PROVE  Inductive'
  <1> USE PlacesAreDistinct DEF Inductive, DispatchReply, places, workers, deploy
  <1>1. reply \in Cases
    BY DEF TypeOK
  <1>2. refs[r] = 0
    BY FreeRunHasNone DEF Spawn
  <1>3. TypeOK'
    BY <1>1 DEF TypeOK, Owners, Acquire, Spawn, RunStates
  <1>4. Counted'
    <2>1. \A p \in Owners : Holds(p)' = Holds(p)
      BY DEF TypeOK, Holds, OpHolds
    <2>2. LocksAreHeld'
      BY <1>2 DEF TypeOK, LocksAreHeld, Acquire, CanShare, Owners
    <2>3. refs' = [refs EXCEPT ![r] = @ + 1]
      BY <1>2 DEF Acquire, TypeOK
    <2> QED BY <1>1, <2>1, <2>2, <2>3, CountSpawned
  <1>5. LocksFitTheirUse'
    BY DEF TypeOK, LocksFitTheirUse, OpHolds, Acquire, Spawn, CanShare, Owners
  <1>6. StoppedIsSilent'
    BY DEF TypeOK, StoppedIsSilent, OpSteps, OpHolds, Spawn
  <1>7. MaintenanceIsClosed'
    BY DEF TypeOK, MaintenanceIsClosed
  <1> QED BY <1>3, <1>4, <1>5, <1>6, <1>7 DEF Counted

LEMMA FinishKeeps ==
    ASSUME Inductive, NEW r \in Runs, Finish(r)
    PROVE  Inductive'
  <1> USE DEF Inductive, Finish, places, workers, deploy
  <1>1. TypeOK'
    BY DEF TypeOK, RunStates, Phases
  <1>2. LeasesAreCounted'
    <2>1. \A o \in Owners : Borrowers(o)' = Borrowers(o)
      BY DEF TypeOK, Borrowers
    <2>2. \A o \in Owners : Holds(o)' = Holds(o)
      BY DEF Holds
    <2> QED BY <2>1, <2>2 DEF LeasesAreCounted, Leases
  <1>3. LocksAreHeld' /\ RunsAreNotWorkers' /\ LocksFitTheirUse'
    BY DEF TypeOK, LocksAreHeld, RunsAreNotWorkers, LocksFitTheirUse
  <1>4. StoppedIsSilent' /\ MaintenanceIsClosed'
    BY DEF TypeOK, StoppedIsSilent, MaintenanceIsClosed
  <1> QED BY <1>1, <1>2, <1>3, <1>4

\* The run's reference goes, and with the last one the lock.
LEMMA DiscardKeeps ==
    ASSUME Inductive, NEW r \in Runs, Discard(r)
    PROVE  Inductive'
  <1> USE PlacesAreDistinct DEF Inductive, Discard, places, workers, deploy
  <1> DEFINE o == leaseOf[r]
  <1>1. o \in Owners /\ Borrowers(o)' = Borrowers(o) \ {r} /\ r \in Borrowers(o)
    BY DEF TypeOK, Borrowers
  <1>2. /\ Cardinality(Borrowers(o)') = Cardinality(Borrowers(o)) - 1
        /\ Cardinality(Borrowers(o)) \in Nat \ {0}
    BY <1>1, BorrowersAreFinite, FS_RemoveElement
  <1>3. refs[o] \in Nat \ {0} /\ lock[o] # "free"
    BY <1>1, <1>2 DEF LeasesAreCounted, Leases, LocksAreHeld
  <1>4. TypeOK'
    BY <1>1, <1>3 DEF TypeOK, CloseLease, RunStates
  <1>5. LeasesAreCounted'
    <2>1. \A p \in Owners : Holds(p)' = Holds(p)
      BY DEF Holds
    <2>2. refs'[o] = Leases(o)'
      BY <1>1, <1>2, <2>1 DEF TypeOK, CloseLease, LeasesAreCounted, Leases
    <2>3. ASSUME NEW p \in Owners \ {o}
          PROVE  refs'[p] = Leases(p)'
      <3>1. Borrowers(p)' = Borrowers(p)
        BY DEF TypeOK, Borrowers
      <3> QED BY <2>1, <3>1 DEF TypeOK, CloseLease, LeasesAreCounted, Leases
    <2> QED BY <2>2, <2>3 DEF LeasesAreCounted
  <1>6. LocksAreHeld' /\ RunsAreNotWorkers'
    BY <1>1, <1>3 DEF TypeOK, LocksAreHeld, RunsAreNotWorkers, CloseLease
  <1>7. LocksFitTheirUse'
    <2>1. \A p \in Owners : lock'[p] # "free" => lock'[p] = lock[p]
      BY <1>1 DEF TypeOK, CloseLease
    <2>2. ASSUME NEW p \in Owners, Holds(p)
          PROVE  lock'[p] = lock[p]
      <3>1. Borrowers(p)' \in SUBSET Runs
        BY DEF Borrowers
      <3>2. Cardinality(Borrowers(p)') \in Nat
        BY <3>1, RunsAreFinite, FS_Subset, FS_CardinalityType
      <3>3. Holds(p)'
        BY <2>2 DEF Holds
      <3>4. refs'[p] # 0
        BY <3>2, <3>3, <1>5 DEF LeasesAreCounted, Leases
      <3> QED BY <3>4, <2>1, <1>6 DEF LocksAreHeld
    <2>3. \A s \in Runs : run'[s] # "none" => lock'[leaseOf[s]] = lock[leaseOf[s]]
      BY <1>4, <1>5, <1>6, <2>1, RunsKeepTheirLock DEF Counted, TypeOK
    <2>4. \A s \in Runs : run'[s] # "none" => lock'[leaseOf[s]] = "shared"
      BY <2>3 DEF TypeOK, LocksFitTheirUse
    <2>5. /\ \A q \in Requests : http[q] # "idle" => lock'[q] = lock[q]
          /\ \A w \in Workers : worker[w] # "idle" => lock'[w] = lock[w]
          /\ op \in OpHolds => lock'[Operator] = lock[Operator]
      BY <2>2 DEF Owners, Holds
    <2> QED BY <2>4, <2>5 DEF LocksFitTheirUse
  <1>8. StoppedIsSilent' /\ MaintenanceIsClosed'
    BY DEF TypeOK, StoppedIsSilent, MaintenanceIsClosed
  <1> QED BY <1>4, <1>5, <1>6, <1>7, <1>8

\* Workers.

LEMMA TakeTaskKeeps ==
    ASSUME Inductive, NEW w \in Workers, NEW c \in Cases, TakeTask(w, c)
    PROVE  Inductive'
  <1> USE PlacesAreDistinct DEF Inductive, TakeTask, places, tasks, deploy
  <1>1. TypeOK'
    BY DEF TypeOK, Owners, Acquire, WorkerSteps
  <1>2. Counted'
    <2>1. w \in Owners
      BY DEF Owners
    <2>2. ~Holds(w) /\ Holds(w)'
      BY DEF TypeOK, Holds, OpHolds
    <2>3. \A p \in Owners \ {w} : Holds(p)' = Holds(p)
      BY DEF TypeOK, Holds, OpHolds
    <2>4. refs[w] = 0
      BY FreeWorkerHasNone
    <2> QED BY <2>1, <2>2, <2>3, <2>4, CountTaken
  <1>3. LocksFitTheirUse'
    BY <1>1, <1>2 DEF Counted, TypeOK, LocksFitTheirUse, LocksAreHeld,
       RunsAreNotWorkers, OpHolds, Owners, Acquire, CanShare, CanOwn
  <1>4. StoppedIsSilent'
    BY DEF TypeOK, StoppedIsSilent, OpSteps, OpHolds, Acquire, CanShare, CanOwn
  <1>5. MaintenanceIsClosed'
    BY DEF TypeOK, MaintenanceIsClosed, StoppedIsSilent, LocksFitTheirUse,
       LocksAreHeld, Owners, OpHolds, OpSteps, Acquire, CanShare, CanOwn
  <1> QED BY <1>1, <1>2, <1>3, <1>4, <1>5 DEF Counted

LEMMA ClaimTaskKeeps ==
    ASSUME Inductive, NEW w \in Workers, ClaimTask(w)
    PROVE  Inductive'
  <1> USE PlacesAreDistinct DEF Inductive, ClaimTask, places, tasks, deploy
  <1>1. TypeOK'
    BY DEF TypeOK, Owners, WorkerSteps
  <1>2. Counted'
    <2>1. \A p \in Owners : Holds(p)' = Holds(p)
      BY DEF TypeOK, Holds, OpHolds
    <2> QED BY <2>1, CountUnchanged
  <1>3. LocksFitTheirUse'
    BY <1>1, <1>2 DEF Counted, TypeOK, LocksFitTheirUse, LocksAreHeld,
       RunsAreNotWorkers, OpHolds, Owners
  <1>4. StoppedIsSilent'
    BY DEF TypeOK, StoppedIsSilent, OpSteps, OpHolds
  <1>5. MaintenanceIsClosed'
    BY DEF TypeOK, MaintenanceIsClosed, StoppedIsSilent, LocksFitTheirUse,
       LocksAreHeld, Owners, OpHolds, OpSteps
  <1> QED BY <1>1, <1>2, <1>3, <1>4, <1>5 DEF Counted

LEMMA LeaveTaskKeeps ==
    ASSUME Inductive, NEW w \in Workers, LeaveTask(w)
    PROVE  Inductive'
  <1> USE PlacesAreDistinct DEF Inductive, LeaveTask, places, tasks, deploy
  <1>1. refs[w] \in Nat \ {0}
    BY HolderHasLease DEF TypeOK, Holds, OpHolds, Owners
  <1>2. TypeOK'
    BY <1>1 DEF TypeOK, Owners, CloseLease, WorkerSteps
  <1>3. Counted'
    <2>1. w \in Owners
      BY DEF Owners
    <2>2. Holds(w) /\ ~Holds(w)'
      BY DEF TypeOK, Holds, OpHolds
    <2>3. \A p \in Owners \ {w} : Holds(p)' = Holds(p)
      BY DEF TypeOK, Holds, OpHolds
    <2> QED BY <2>1, <2>2, <2>3, CountReturned
  <1>4. LocksFitTheirUse'
    BY <1>2, <1>3, RunsKeepTheirLock DEF Counted, TypeOK, LocksFitTheirUse,
       LocksAreHeld, RunsAreNotWorkers, OpHolds, Owners, CloseLease
  <1>5. StoppedIsSilent'
    BY DEF TypeOK, StoppedIsSilent, OpSteps, OpHolds, CloseLease
  <1>6. MaintenanceIsClosed'
    BY DEF TypeOK, MaintenanceIsClosed, StoppedIsSilent, LocksFitTheirUse,
       LocksAreHeld, Owners, OpHolds, OpSteps, CloseLease
  <1> QED BY <1>2, <1>3, <1>4, <1>5, <1>6 DEF Counted

LEMMA WorkerDiesKeeps ==
    ASSUME Inductive, NEW w \in Workers, WorkerDies(w)
    PROVE  Inductive'
  <1> USE PlacesAreDistinct DEF Inductive, WorkerDies, places, tasks, deploy
  <1>1. TypeOK'
    BY DEF TypeOK, Owners, WorkerSteps
  <1>2. Counted'
    <2>1. w \in Owners
      BY DEF Owners
    <2>2. ~Holds(w)'
      BY DEF TypeOK, Holds, OpHolds
    <2>3. \A p \in Owners \ {w} : Holds(p)' = Holds(p)
      BY DEF TypeOK, Holds, OpHolds
    <2> QED BY <2>1, <2>2, <2>3, CountDropped
  <1>3. LocksFitTheirUse'
    BY <1>1, <1>2 DEF Counted, TypeOK, LocksFitTheirUse, LocksAreHeld,
       RunsAreNotWorkers, OpHolds, Owners
  <1>4. StoppedIsSilent'
    BY DEF TypeOK, StoppedIsSilent, OpSteps, OpHolds
  <1>5. MaintenanceIsClosed'
    BY DEF TypeOK, MaintenanceIsClosed, StoppedIsSilent, LocksFitTheirUse,
       LocksAreHeld, Owners, OpHolds, OpSteps
  <1> QED BY <1>1, <1>2, <1>3, <1>4, <1>5 DEF Counted

\* The deployment.

LEMMA CrashKeeps ==
    ASSUME Inductive, Crash
    PROVE  Inductive'
  <1> USE PlacesAreDistinct DEF Inductive, Crash, workers, deploy
  <1>1. TypeOK'
    BY DEF TypeOK, Owners, ProcessEnds, HttpSteps, RunStates, OpSteps
  <1>2. Counted'
    <2>1. op' \notin OpHolds
      BY DEF OpHolds
    <2> QED BY <2>1, CountEnded
  <1>3. LocksFitTheirUse'
    BY <1>1, <1>2 DEF Counted, TypeOK, LocksFitTheirUse, LocksAreHeld,
       RunsAreNotWorkers, OpHolds, Owners, ProcessEnds
  <1>4. StoppedIsSilent'
    BY DEF TypeOK, StoppedIsSilent, OpSteps, OpHolds, ProcessEnds
  <1>5. MaintenanceIsClosed'
    BY DEF TypeOK, MaintenanceIsClosed, StoppedIsSilent, LocksFitTheirUse,
       LocksAreHeld, Owners, OpHolds, OpSteps, ProcessEnds
  <1> QED BY <1>1, <1>2, <1>3, <1>4, <1>5 DEF Counted

LEMMA QuiesceKeeps ==
    ASSUME Inductive, Quiesce
    PROVE  Inductive'
  <1> USE PlacesAreDistinct DEF Inductive, Quiesce, places, tasks, workers
  <1>1. TypeOK'
    BY DEF TypeOK, Owners, Acquire, OpSteps
  <1>2. Counted'
    <2>1. Operator \in Owners
      BY DEF Owners
    <2>2. ~Holds(Operator) /\ Holds(Operator)'
      BY DEF TypeOK, Holds, OpHolds
    <2>3. \A p \in Owners \ {Operator} : Holds(p)' = Holds(p)
      BY DEF TypeOK, Holds, OpHolds
    <2>4. refs[Operator] = 0
      BY <2>1 DEF LocksAreHeld, Acquire, CanOwn
    <2> QED BY <2>1, <2>2, <2>3, <2>4, CountTaken
  <1>3. LocksFitTheirUse'
    BY <1>1, <1>2 DEF Counted, TypeOK, LocksFitTheirUse, LocksAreHeld,
       RunsAreNotWorkers, OpHolds, Owners, Acquire, CanShare, CanOwn
  <1>4. StoppedIsSilent'
    BY DEF TypeOK, StoppedIsSilent, OpSteps, OpHolds, Acquire, CanShare, CanOwn
  <1>5. MaintenanceIsClosed'
    BY DEF TypeOK, MaintenanceIsClosed, StoppedIsSilent, LocksFitTheirUse,
       LocksAreHeld, Owners, OpHolds, OpSteps, Acquire, CanShare, CanOwn
  <1> QED BY <1>1, <1>2, <1>3, <1>4, <1>5 DEF Counted

LEMMA PrepareFenceKeeps ==
    ASSUME Inductive, PrepareFence
    PROVE  Inductive'
  <1> USE PlacesAreDistinct DEF Inductive, PrepareFence, places, tasks, workers
  <1>1. TypeOK'
    BY DEF TypeOK, Owners, OpSteps
  <1>2. Counted'
    <2>1. \A p \in Owners : Holds(p)' = Holds(p)
      BY DEF TypeOK, Holds, OpHolds
    <2> QED BY <2>1, CountUnchanged
  <1>3. LocksFitTheirUse'
    BY <1>1, <1>2 DEF Counted, TypeOK, LocksFitTheirUse, LocksAreHeld,
       RunsAreNotWorkers, OpHolds, Owners
  <1>4. StoppedIsSilent'
    BY DEF TypeOK, StoppedIsSilent, OpSteps, OpHolds
  <1>5. MaintenanceIsClosed'
    BY DEF TypeOK, MaintenanceIsClosed, StoppedIsSilent, LocksFitTheirUse,
       LocksAreHeld, Owners, OpHolds, OpSteps
  <1> QED BY <1>1, <1>2, <1>3, <1>4, <1>5 DEF Counted

LEMMA StopApiKeeps ==
    ASSUME Inductive, StopApi
    PROVE  Inductive'
  <1> USE PlacesAreDistinct DEF Inductive, StopApi, workers
  <1>1. TypeOK'
    BY DEF TypeOK, Owners, ProcessEnds, HttpSteps, RunStates, OpSteps
  <1>2. Counted'
    <2>1. op' \notin OpHolds
      BY DEF OpHolds
    <2> QED BY <2>1, CountEnded
  <1>3. LocksFitTheirUse'
    BY <1>1, <1>2 DEF Counted, TypeOK, LocksFitTheirUse, LocksAreHeld,
       RunsAreNotWorkers, OpHolds, Owners, ProcessEnds
  <1>4. StoppedIsSilent'
    BY DEF TypeOK, StoppedIsSilent, OpSteps, OpHolds, ProcessEnds
  <1>5. MaintenanceIsClosed'
    BY DEF TypeOK, MaintenanceIsClosed, StoppedIsSilent, LocksFitTheirUse,
       LocksAreHeld, Owners, OpHolds, OpSteps, ProcessEnds
  <1> QED BY <1>1, <1>2, <1>3, <1>4, <1>5 DEF Counted

LEMMA FindStoppedKeeps ==
    ASSUME Inductive, FindStopped
    PROVE  Inductive'
  <1> USE PlacesAreDistinct DEF Inductive, FindStopped, places, tasks, workers
  <1>1. TypeOK'
    BY DEF TypeOK, Owners, OpSteps
  <1>2. Counted'
    <2>1. \A p \in Owners : Holds(p)' = Holds(p)
      BY DEF TypeOK, Holds, OpHolds
    <2> QED BY <2>1, CountUnchanged
  <1>3. LocksFitTheirUse'
    BY <1>1, <1>2 DEF Counted, TypeOK, LocksFitTheirUse, LocksAreHeld,
       RunsAreNotWorkers, OpHolds, Owners
  <1>4. StoppedIsSilent'
    BY DEF TypeOK, StoppedIsSilent, OpSteps, OpHolds
  <1>5. MaintenanceIsClosed'
    BY DEF TypeOK, MaintenanceIsClosed, StoppedIsSilent, LocksFitTheirUse,
       LocksAreHeld, Owners, OpHolds, OpSteps
  <1> QED BY <1>1, <1>2, <1>3, <1>4, <1>5 DEF Counted

LEMMA KeepFenceKeeps ==
    ASSUME Inductive, KeepFence
    PROVE  Inductive'
  <1> USE PlacesAreDistinct DEF Inductive, KeepFence, places, tasks, workers
  <1>1. TypeOK'
    BY DEF TypeOK, Owners, OpSteps
  <1>2. Counted'
    <2>1. \A p \in Owners : Holds(p)' = Holds(p)
      BY DEF TypeOK, Holds, OpHolds
    <2> QED BY <2>1, CountUnchanged
  <1>3. LocksFitTheirUse'
    BY <1>1, <1>2 DEF Counted, TypeOK, LocksFitTheirUse, LocksAreHeld,
       RunsAreNotWorkers, OpHolds, Owners
  <1>4. StoppedIsSilent'
    BY DEF TypeOK, StoppedIsSilent, OpSteps, OpHolds
  <1>5. MaintenanceIsClosed'
    BY DEF TypeOK, MaintenanceIsClosed, StoppedIsSilent, LocksFitTheirUse,
       LocksAreHeld, Owners, OpHolds, OpSteps
  <1> QED BY <1>1, <1>2, <1>3, <1>4, <1>5 DEF Counted

LEMMA TakeForSeedingKeeps ==
    ASSUME Inductive, TakeForSeeding
    PROVE  Inductive'
  <1> USE PlacesAreDistinct DEF Inductive, TakeForSeeding, places, tasks, workers
  <1>1. TypeOK'
    BY DEF TypeOK, Owners, Acquire, OpSteps
  <1>2. Counted'
    <2>1. Operator \in Owners
      BY DEF Owners
    <2>2. ~Holds(Operator) /\ Holds(Operator)'
      BY DEF TypeOK, Holds, OpHolds
    <2>3. \A p \in Owners \ {Operator} : Holds(p)' = Holds(p)
      BY DEF TypeOK, Holds, OpHolds
    <2>4. refs[Operator] = 0
      BY <2>1 DEF LocksAreHeld, Acquire, CanOwn
    <2> QED BY <2>1, <2>2, <2>3, <2>4, CountTaken
  <1>3. LocksFitTheirUse'
    BY <1>1, <1>2 DEF Counted, TypeOK, LocksFitTheirUse, LocksAreHeld,
       RunsAreNotWorkers, OpHolds, Owners, Acquire, CanShare, CanOwn
  <1>4. StoppedIsSilent'
    BY DEF TypeOK, StoppedIsSilent, OpSteps, OpHolds, Acquire, CanShare, CanOwn
  <1>5. MaintenanceIsClosed'
    BY DEF TypeOK, MaintenanceIsClosed, StoppedIsSilent, LocksFitTheirUse,
       LocksAreHeld, Owners, OpHolds, OpSteps, Acquire, CanShare, CanOwn
  <1> QED BY <1>1, <1>2, <1>3, <1>4, <1>5 DEF Counted

LEMMA SeedKeeps ==
    ASSUME Inductive, Seed
    PROVE  Inductive'
  <1> USE PlacesAreDistinct DEF Inductive, Seed, places, tasks, workers
  <1>1. refs[Operator] \in Nat \ {0}
    BY HolderHasLease DEF TypeOK, Holds, OpHolds, Owners
  <1>2. TypeOK'
    BY <1>1 DEF TypeOK, Owners, CloseLease, Phases, OpSteps
  <1>3. Counted'
    <2>1. Operator \in Owners
      BY DEF Owners
    <2>2. Holds(Operator) /\ ~Holds(Operator)'
      BY DEF TypeOK, Holds, OpHolds
    <2>3. \A p \in Owners \ {Operator} : Holds(p)' = Holds(p)
      BY DEF TypeOK, Holds, OpHolds
    <2> QED BY <2>1, <2>2, <2>3, CountReturned
  <1>4. LocksFitTheirUse'
    BY <1>2, <1>3, RunsKeepTheirLock DEF Counted, TypeOK, LocksFitTheirUse,
       LocksAreHeld, RunsAreNotWorkers, OpHolds, Owners, CloseLease
  <1>5. StoppedIsSilent'
    BY DEF TypeOK, StoppedIsSilent, OpSteps, OpHolds, CloseLease
  <1>6. MaintenanceIsClosed'
    BY DEF TypeOK, MaintenanceIsClosed, StoppedIsSilent, LocksFitTheirUse,
       LocksAreHeld, Owners, OpHolds, OpSteps, CloseLease
  <1> QED BY <1>2, <1>3, <1>4, <1>5, <1>6 DEF Counted

LEMMA StartApiKeeps ==
    ASSUME Inductive, StartApi
    PROVE  Inductive'
  <1> USE PlacesAreDistinct DEF Inductive, StartApi, places, tasks, workers
  <1>1. TypeOK'
    BY DEF TypeOK, Owners, OpSteps
  <1>2. Counted'
    <2>1. \A p \in Owners : Holds(p)' = Holds(p)
      BY DEF TypeOK, Holds, OpHolds
    <2> QED BY <2>1, CountUnchanged
  <1>3. LocksFitTheirUse'
    BY <1>1, <1>2 DEF Counted, TypeOK, LocksFitTheirUse, LocksAreHeld,
       RunsAreNotWorkers, OpHolds, Owners
  <1>4. StoppedIsSilent'
    BY DEF TypeOK, StoppedIsSilent, OpSteps, OpHolds
  <1>5. MaintenanceIsClosed'
    BY DEF TypeOK, MaintenanceIsClosed, StoppedIsSilent, LocksFitTheirUse,
       LocksAreHeld, Owners, OpHolds, OpSteps
  <1> QED BY <1>1, <1>2, <1>3, <1>4, <1>5 DEF Counted

LEMMA RecreateKeeps ==
    ASSUME Inductive, Recreate
    PROVE  Inductive'
  <1> USE PlacesAreDistinct DEF Inductive, Recreate, workers, deploy
  <1>1. TypeOK'
    BY DEF TypeOK, Owners, ProcessEnds, HttpSteps, RunStates, OpSteps
  <1>2. Counted'
    <2>1. op' \notin OpHolds
      BY DEF OpHolds
    <2> QED BY <2>1, CountEnded
  <1>3. LocksFitTheirUse'
    BY <1>1, <1>2 DEF Counted, TypeOK, LocksFitTheirUse, LocksAreHeld,
       RunsAreNotWorkers, OpHolds, Owners, ProcessEnds
  <1>4. StoppedIsSilent'
    BY DEF TypeOK, StoppedIsSilent, OpSteps, OpHolds, ProcessEnds
  <1>5. MaintenanceIsClosed'
    BY DEF TypeOK, MaintenanceIsClosed, StoppedIsSilent, LocksFitTheirUse,
       LocksAreHeld, Owners, OpHolds, OpSteps, ProcessEnds
  <1> QED BY <1>1, <1>2, <1>3, <1>4, <1>5 DEF Counted

LEMMA TakeForReleaseKeeps ==
    ASSUME Inductive, TakeForRelease
    PROVE  Inductive'
  <1> USE PlacesAreDistinct DEF Inductive, TakeForRelease, places, tasks, workers
  <1>1. TypeOK'
    BY DEF TypeOK, Owners, Acquire, OpSteps
  <1>2. Counted'
    <2>1. Operator \in Owners
      BY DEF Owners
    <2>2. ~Holds(Operator) /\ Holds(Operator)'
      BY DEF TypeOK, Holds, OpHolds
    <2>3. \A p \in Owners \ {Operator} : Holds(p)' = Holds(p)
      BY DEF TypeOK, Holds, OpHolds
    <2>4. refs[Operator] = 0
      BY <2>1 DEF LocksAreHeld, Acquire, CanOwn
    <2> QED BY <2>1, <2>2, <2>3, <2>4, CountTaken
  <1>3. LocksFitTheirUse'
    BY <1>1, <1>2 DEF Counted, TypeOK, LocksFitTheirUse, LocksAreHeld,
       RunsAreNotWorkers, OpHolds, Owners, Acquire, CanShare, CanOwn
  <1>4. StoppedIsSilent'
    BY DEF TypeOK, StoppedIsSilent, OpSteps, OpHolds, Acquire, CanShare, CanOwn
  <1>5. MaintenanceIsClosed'
    BY DEF TypeOK, MaintenanceIsClosed, StoppedIsSilent, LocksFitTheirUse,
       LocksAreHeld, Owners, OpHolds, OpSteps, Acquire, CanShare, CanOwn
  <1> QED BY <1>1, <1>2, <1>3, <1>4, <1>5 DEF Counted

LEMMA ReleaseFenceKeeps ==
    ASSUME Inductive, ReleaseFence
    PROVE  Inductive'
  <1> USE PlacesAreDistinct DEF Inductive, ReleaseFence, places, tasks, workers
  <1>1. refs[Operator] \in Nat \ {0}
    BY HolderHasLease DEF TypeOK, Holds, OpHolds, Owners
  <1>2. TypeOK'
    <2>1. /\ lock' \in [Owners -> {"free", "shared", "exclusive"}]
          /\ refs' \in [Owners -> Nat]
      BY <1>1 DEF TypeOK, Owners, CloseLease
    <2>2. fence' \in BOOLEAN /\ op' \in OpSteps
      BY Zenon DEF OpSteps
    <2> QED BY <2>1, <2>2, Zenon DEF TypeOK
  <1>3. Counted'
    <2>1. Operator \in Owners
      BY DEF Owners
    <2>2. Holds(Operator) /\ ~Holds(Operator)'
      BY DEF TypeOK, Holds, OpHolds
    <2>3. \A p \in Owners \ {Operator} : Holds(p)' = Holds(p)
      BY DEF TypeOK, Holds, OpHolds
    <2> QED BY <2>1, <2>2, <2>3, CountReturned
  <1>4. LocksFitTheirUse'
    BY <1>2, <1>3, RunsKeepTheirLock DEF Counted, TypeOK, LocksFitTheirUse,
       LocksAreHeld, RunsAreNotWorkers, OpHolds, Owners, CloseLease
  <1>5. StoppedIsSilent'
    BY DEF TypeOK, StoppedIsSilent, OpSteps, OpHolds, CloseLease
  <1>6. MaintenanceIsClosed'
    BY DEF TypeOK, MaintenanceIsClosed, StoppedIsSilent, LocksFitTheirUse,
       LocksAreHeld, Owners, OpHolds, OpSteps, CloseLease
  <1> QED BY <1>2, <1>3, <1>4, <1>5, <1>6 DEF Counted

LEMMA TryReleaseAgainKeeps ==
    ASSUME Inductive, TryReleaseAgain
    PROVE  Inductive'
  <1> USE PlacesAreDistinct DEF Inductive, TryReleaseAgain, places, tasks, workers
  <1>1. refs[Operator] \in Nat \ {0}
    BY HolderHasLease DEF TypeOK, Holds, OpHolds, Owners
  <1>2. TypeOK'
    BY <1>1 DEF TypeOK, Owners, CloseLease, OpSteps
  <1>3. Counted'
    <2>1. Operator \in Owners
      BY DEF Owners
    <2>2. Holds(Operator) /\ ~Holds(Operator)'
      BY DEF TypeOK, Holds, OpHolds
    <2>3. \A p \in Owners \ {Operator} : Holds(p)' = Holds(p)
      BY DEF TypeOK, Holds, OpHolds
    <2> QED BY <2>1, <2>2, <2>3, CountReturned
  <1>4. LocksFitTheirUse'
    BY <1>2, <1>3, RunsKeepTheirLock DEF Counted, TypeOK, LocksFitTheirUse,
       LocksAreHeld, RunsAreNotWorkers, OpHolds, Owners, CloseLease
  <1>5. StoppedIsSilent'
    BY DEF TypeOK, StoppedIsSilent, OpSteps, OpHolds, CloseLease
  <1>6. MaintenanceIsClosed'
    BY DEF TypeOK, MaintenanceIsClosed, StoppedIsSilent, LocksFitTheirUse,
       LocksAreHeld, Owners, OpHolds, OpSteps, CloseLease
  <1> QED BY <1>2, <1>3, <1>4, <1>5, <1>6 DEF Counted

LEMMA AbortKeeps ==
    ASSUME Inductive, Abort
    PROVE  Inductive'
  <1> USE PlacesAreDistinct DEF Inductive, Abort, places, tasks, workers
  <1>1. TypeOK'
    BY DEF TypeOK, Owners, OpSteps
  <1>2. Counted'
    <2>1. Operator \in Owners
      BY DEF Owners
    <2>2. ~Holds(Operator)'
      BY DEF TypeOK, Holds, OpHolds
    <2>3. \A p \in Owners \ {Operator} : Holds(p)' = Holds(p)
      BY DEF TypeOK, Holds, OpHolds
    <2> QED BY <2>1, <2>2, <2>3, CountDropped
  <1>3. LocksFitTheirUse'
    BY <1>1, <1>2 DEF Counted, TypeOK, LocksFitTheirUse, LocksAreHeld,
       RunsAreNotWorkers, OpHolds, Owners
  <1>4. StoppedIsSilent'
    BY DEF TypeOK, StoppedIsSilent, OpSteps, OpHolds
  <1>5. MaintenanceIsClosed'
    BY DEF TypeOK, MaintenanceIsClosed, StoppedIsSilent, LocksFitTheirUse,
       LocksAreHeld, Owners, OpHolds, OpSteps
  <1> QED BY <1>1, <1>2, <1>3, <1>4, <1>5 DEF Counted

-----------------------------------------------------------------------------
LEMMA InitIsInductive == Init => Inductive
  <1> SUFFICES ASSUME Init PROVE Inductive
    OBVIOUS
  <1> USE DEF Init
  <1>1. TypeOK
    BY CasesExist DEF TypeOK, Owners, HttpSteps, Kinds, RunStates, WorkerSteps,
       Phases, OpSteps
  <1>2. LeasesAreCounted
    <2>1. \A o \in Owners : Borrowers(o) = {} /\ ~Holds(o)
      BY DEF Borrowers, Holds, OpHolds
    <2>2. Cardinality({}) = 0
      BY FS_EmptySet
    <2>3. ASSUME NEW o \in Owners
          PROVE  refs[o] = Leases(o)
      <3>1. Leases(o) = 0 + Cardinality({})
        BY <2>1, Zenon DEF Leases
      <3> QED BY <2>2, <3>1
    <2> QED BY <2>3 DEF LeasesAreCounted
  <1>3. LocksAreHeld /\ LocksFitTheirUse /\ RunsAreNotWorkers
    BY DEF LocksAreHeld, LocksFitTheirUse, RunsAreNotWorkers, OpHolds
  <1>4. StoppedIsSilent /\ MaintenanceIsClosed
    BY DEF StoppedIsSilent, MaintenanceIsClosed, OpSteps
  <1> QED BY <1>1, <1>2, <1>3, <1>4 DEF Inductive

LEMMA NextKeeps == Inductive /\ [Next]_vars => Inductive'
  <1> SUFFICES ASSUME Inductive, [Next]_vars PROVE Inductive'
    OBVIOUS
  <1>1. ASSUME NEW q \in Requests, Serve(q) PROVE Inductive'
    BY <1>1, CheckFenceKeeps, HandleKeeps, DispatchFailsKeeps, DispatchKeeps,
       CheckQuietKeeps, ClearKeeps, RespondKeeps DEF Serve
  <1>2. ASSUME NEW q \in Requests, NEW k \in Kinds, Admit(q, k) PROVE Inductive'
    BY <1>2, AdmitKeeps
  <1>3. ASSUME NEW c \in Cases, Decide(c) PROVE Inductive'
    BY <1>3, DecideKeeps
  <1>4. ASSUME NEW r \in Runs,
               DispatchReply(r) \/ ReachGate(r) \/ Finish(r) \/ Discard(r)
        PROVE  Inductive'
    BY <1>4, DispatchReplyKeeps, ReachGateKeeps, FinishKeeps, DiscardKeeps
  <1>5. CASE DispatchReplyFails
    BY <1>5, DispatchReplyFailsKeeps
  <1>6. ASSUME NEW w \in Workers,
               (\E c \in Cases : TakeTask(w, c)) \/ Work(w) \/ WorkerDies(w)
        PROVE  Inductive'
    BY <1>6, TakeTaskKeeps, ClaimTaskKeeps, LeaveTaskKeeps, WorkerDiesKeeps DEF Work
  <1>7. CASE Crash
    BY <1>7, CrashKeeps
  <1>8. CASE Deployment
    BY <1>8, QuiesceKeeps, PrepareFenceKeeps, StopApiKeeps, FindStoppedKeeps,
       KeepFenceKeeps, TakeForSeedingKeeps, SeedKeeps, StartApiKeeps, RecreateKeeps,
       TakeForReleaseKeeps, ReleaseFenceKeeps, TryReleaseAgainKeeps, AbortKeeps
       DEF Deployment
  <1>9. CASE UNCHANGED vars
    <2> USE <1>9 DEF vars, places, tasks, workers, deploy, Inductive
    <2>1. TypeOK' /\ LocksFitTheirUse' /\ StoppedIsSilent' /\ MaintenanceIsClosed'
      BY DEF TypeOK, LocksFitTheirUse, StoppedIsSilent, MaintenanceIsClosed
    <2>2. \A o \in Owners : Holds(o)' = Holds(o)
      BY DEF Holds
    <2> QED BY <2>1, <2>2, CountUnchanged DEF Counted
  <1> QED BY <1>1, <1>2, <1>3, <1>4, <1>5, <1>6, <1>7, <1>8, <1>9 DEF Next

(***************************************************************************)
(* The leases of the API, its runs, the workers and the deployment are     *)
(* counted and their locks fit what they are used for, however requests    *)
(* hand them on and processes die.                                         *)
(***************************************************************************)
THEOREM BarrierInductive == Spec => []Inductive
  <1>1. Init => Inductive
    BY InitIsInductive
  <1>2. Inductive /\ [Next]_vars => Inductive'
    BY NextKeeps
  <1> QED BY <1>1, <1>2, PTL DEF Spec

(***************************************************************************)
(* While the deployment's fence stands no request changes anything, and    *)
(* from the seeding to the release no worker executes.                     *)
(***************************************************************************)
THEOREM MaintenanceStaysClosed == Spec => []MaintenanceIsClosed
  <1>1. Inductive => MaintenanceIsClosed
    BY DEF Inductive
  <1> QED BY <1>1, BarrierInductive, PTL

-----------------------------------------------------------------------------
\* What an actor does, in terms of its own place.

LEMMA DoingIsPlain ==
    /\ \A q \in Requests :
          Doing[q] = IF http[q] = "idle" THEN "idle"
                     ELSE IF kind[q] = "reset" THEN "alone" ELSE "sharing"
    /\ \A r \in Runs : Doing[r] = IF run[r] = "active" THEN "sharing" ELSE "idle"
    /\ \A w \in Workers : Doing[w] = IF worker[w] = "idle" THEN "idle" ELSE "sharing"
    /\ Doing[Operator] = IF op \in OpHolds THEN "alone" ELSE "idle"
    /\ Doing = [a \in Owners |-> Doing[a]]
  BY PlacesAreDistinct DEF Doing, Actors, Owners

LEMMA NextDoingIsPlain ==
    /\ \A q \in Requests :
          Doing'[q] = IF http'[q] = "idle" THEN "idle"
                      ELSE IF kind'[q] = "reset" THEN "alone" ELSE "sharing"
    /\ \A r \in Runs : Doing'[r] = IF run'[r] = "active" THEN "sharing" ELSE "idle"
    /\ \A w \in Workers : Doing'[w] = IF worker'[w] = "idle" THEN "idle" ELSE "sharing"
    /\ Doing'[Operator] = IF op' \in OpHolds THEN "alone" ELSE "idle"
    /\ Doing' = [a \in Owners |-> Doing'[a]]
  BY PlacesAreDistinct DEF Doing, Actors, Owners

\* Who works has the lock: alone means an exclusive one.
LEMMA DoersHaveLocks ==
    ASSUME Inductive
    PROVE  /\ \A a \in Owners : Doing[a] = "alone" => lock[a] = "exclusive"
           /\ CanOwn => \A a \in Owners : Doing[a] = "idle"
           /\ CanShare => \A a \in Owners : Doing[a] # "alone"
  <1>1. \A a \in Owners : Doing[a] = "alone" => lock[a] = "exclusive"
    BY DoingIsPlain DEF Inductive, LocksFitTheirUse, Owners
  <1>2. CanOwn => \A a \in Owners : Doing[a] = "idle"
    BY DoingIsPlain DEF Inductive, TypeOK, RunStates, LocksFitTheirUse, CanOwn, Owners
  <1> QED BY <1>1, <1>2 DEF CanShare

\* A step after which everybody does what they did, or nothing, is a Leave.
LEMMA LeavingIsAllowed ==
    ASSUME \A a \in Owners : Doing'[a] = Doing[a] \/ Doing'[a] = "idle"
    PROVE  [Barrier!Next]_Doing
  <1> DEFINE S == {a \in Owners : Doing'[a] = "idle"}
  <1>1. Doing' = [a \in Owners |-> IF a \in S THEN "idle" ELSE Doing[a]]
    BY NextDoingIsPlain
  <1>2. Barrier!Leave(S) /\ S \in SUBSET Owners
    BY <1>1 DEF Barrier!Leave, Actors
  <1> QED BY <1>2 DEF Barrier!Next, Actors

LEMMA SharingIsAllowed ==
    ASSUME NEW o \in Owners, Doing[o] = "idle", \A a \in Owners : Doing[a] # "alone",
           Doing'[o] = "sharing", \A a \in Owners \ {o} : Doing'[a] = Doing[a]
    PROVE  Barrier!Next
  <1>1. Doing' = [Doing EXCEPT ![o] = "sharing"]
    BY DoingIsPlain, NextDoingIsPlain
  <1>2. Barrier!Share(o)
    BY <1>1 DEF Barrier!Share, Actors
  <1> QED BY <1>2 DEF Barrier!Next, Actors

LEMMA BeingAloneIsAllowed ==
    ASSUME NEW o \in Owners, \A a \in Owners : Doing[a] = "idle",
           Doing'[o] = "alone", \A a \in Owners \ {o} : Doing'[a] = Doing[a]
    PROVE  Barrier!Next
  <1>1. Doing' = [Doing EXCEPT ![o] = "alone"]
    BY DoingIsPlain, NextDoingIsPlain
  <1>2. Barrier!BeAlone(o)
    BY <1>1 DEF Barrier!BeAlone, Actors
  <1> QED BY <1>2 DEF Barrier!Next, Actors

-----------------------------------------------------------------------------
\* One lemma for each way in which somebody begins to work.

LEMMA AdmitIsAllowed ==
    ASSUME Inductive, NEW q \in Requests, NEW k \in Kinds, Admit(q, k)
    PROVE  Barrier!Next
  <1> USE DEF Admit, tasks, workers, deploy
  <1>1. q \in Owners /\ Doing[q] = "idle"
    BY DoingIsPlain DEF Owners
  <1>2. \A a \in Owners \ {q} : Doing'[a] = Doing[a]
    BY PlacesAreDistinct, DoingIsPlain, NextDoingIsPlain DEF Inductive, TypeOK, Owners
  <1>3. CASE k = "reset"
    <2>1. Doing'[q] = "alone"
      BY <1>3, NextDoingIsPlain DEF Inductive, TypeOK
    <2>2. CanOwn
      BY <1>3 DEF Acquire
    <2> QED BY <1>1, <1>2, <2>1, <2>2, DoersHaveLocks, BeingAloneIsAllowed
  <1>4. CASE k # "reset"
    <2>1. Doing'[q] = "sharing"
      BY <1>4, NextDoingIsPlain DEF Inductive, TypeOK
    <2>2. CanShare
      BY <1>4 DEF Acquire
    <2> QED BY <1>1, <1>2, <2>1, <2>2, DoersHaveLocks, SharingIsAllowed
  <1> QED BY <1>3, <1>4

\* The request still shares when its run begins: nobody is alone.
LEMMA DispatchIsAllowed ==
    ASSUME Inductive, NEW q \in Requests, NEW c \in Cases, NEW r \in Runs,
           Dispatch(q, c, r)
    PROVE  Barrier!Next
  <1> USE DEF Dispatch, Spawn, deploy
  <1>1. r \in Owners /\ Doing[r] = "idle" /\ Doing'[r] = "sharing"
    BY DoingIsPlain, NextDoingIsPlain DEF Inductive, TypeOK, Owners
  <1>2. \A a \in Owners \ {r} : Doing'[a] = Doing[a]
    <2>1. /\ \A s \in Runs \ {r} : run'[s] = run[s]
          /\ \A p \in Requests : http'[p] = "idle" <=> http[p] = "idle"
          /\ UNCHANGED <<kind, worker, op>>
      BY DEF Inductive, TypeOK
    <2> QED BY <2>1, PlacesAreDistinct, DoingIsPlain, NextDoingIsPlain DEF Owners
  <1>3. CanShare
    BY DEF Fork, Inductive, LocksAreHeld, CanShare, Owners
  <1> QED BY <1>1, <1>2, <1>3, DoersHaveLocks, SharingIsAllowed

LEMMA DispatchReplyIsAllowed ==
    ASSUME Inductive, NEW r \in Runs, DispatchReply(r)
    PROVE  Barrier!Next
  <1> USE DEF DispatchReply, Spawn, places, workers, deploy
  <1>1. r \in Owners /\ Doing[r] = "idle" /\ Doing'[r] = "sharing"
    BY DoingIsPlain, NextDoingIsPlain DEF Inductive, TypeOK, Owners
  <1>2. \A a \in Owners \ {r} : Doing'[a] = Doing[a]
    BY PlacesAreDistinct, DoingIsPlain, NextDoingIsPlain DEF Inductive, TypeOK, Owners
  <1>3. CanShare
    BY DEF Acquire
  <1> QED BY <1>1, <1>2, <1>3, DoersHaveLocks, SharingIsAllowed

LEMMA TakeTaskIsAllowed ==
    ASSUME Inductive, NEW w \in Workers, NEW c \in Cases, TakeTask(w, c)
    PROVE  Barrier!Next
  <1> USE DEF TakeTask, places, tasks, deploy
  <1>1. w \in Owners /\ Doing[w] = "idle" /\ Doing'[w] = "sharing"
    BY DoingIsPlain, NextDoingIsPlain DEF Inductive, TypeOK, Owners
  <1>2. \A a \in Owners \ {w} : Doing'[a] = Doing[a]
    BY PlacesAreDistinct, DoingIsPlain, NextDoingIsPlain DEF Inductive, TypeOK, Owners
  <1>3. CanShare
    BY DEF Acquire
  <1> QED BY <1>1, <1>2, <1>3, DoersHaveLocks, SharingIsAllowed

LEMMA TakingIsAllowed ==
    ASSUME Inductive, Quiesce \/ TakeForSeeding \/ TakeForRelease
    PROVE  Barrier!Next
  <1> USE DEF Quiesce, TakeForSeeding, TakeForRelease, places, tasks, workers
  <1>1. Operator \in Owners /\ Doing'[Operator] = "alone"
    BY NextDoingIsPlain DEF Owners, OpHolds
  <1>2. \A a \in Owners \ {Operator} : Doing'[a] = Doing[a]
    BY PlacesAreDistinct, DoingIsPlain, NextDoingIsPlain DEF Owners
  <1>3. CanOwn
    BY DEF Acquire
  <1> QED BY <1>1, <1>2, <1>3, DoersHaveLocks, BeingAloneIsAllowed

-----------------------------------------------------------------------------
\* Whatever else happens, people go on or leave.

LEMMA RequestsGoOn ==
    ASSUME Inductive, NEW q \in Requests,
           \/ CheckFence(q) \/ Handle(q) \/ CheckQuiet(q) \/ Clear(q) \/ Respond(q)
           \/ \E c \in Cases : DispatchFails(q, c)
    PROVE  [Barrier!Next]_Doing
  <1> USE DEF CheckFence, Handle, CheckQuiet, Clear, Respond, DispatchFails,
              tasks, workers, deploy
  <1>1. /\ http'[q] = "idle" \/ (http[q] # "idle" /\ kind' = kind)
        /\ \A p \in Requests \ {q} : http'[p] = http[p] /\ kind'[p] = kind[p]
        /\ UNCHANGED <<run, worker, op>>
    BY DEF Inductive, TypeOK
  <1>2. \A a \in Owners : Doing'[a] = Doing[a] \/ Doing'[a] = "idle"
    BY <1>1, PlacesAreDistinct, DoingIsPlain, NextDoingIsPlain DEF Owners
  <1> QED BY <1>2, LeavingIsAllowed

LEMMA OthersGoOn ==
    ASSUME Inductive,
           \/ \E c \in Cases : Decide(c)
           \/ \E r \in Runs : ReachGate(r) \/ Finish(r) \/ Discard(r)
           \/ DispatchReplyFails
           \/ \E w \in Workers : Work(w) \/ WorkerDies(w)
    PROVE  [Barrier!Next]_Doing
  <1> USE DEF Decide, ReachGate, Finish, Discard, DispatchReplyFails, Work,
              ClaimTask, LeaveTask, WorkerDies, places, tasks, workers, deploy
  <1>1. /\ UNCHANGED <<http, kind, op>>
        /\ \A r \in Runs : run'[r] = run[r] \/ run'[r] # "active"
        /\ \A w \in Workers : \/ worker'[w] = "idle"
                              \/ (worker[w] # "idle" /\ worker'[w] # "idle")
                              \/ worker'[w] = worker[w]
    BY DEF Inductive, TypeOK
  <1>2. \A a \in Owners : Doing'[a] = Doing[a] \/ Doing'[a] = "idle"
    BY <1>1, PlacesAreDistinct, DoingIsPlain, NextDoingIsPlain DEF Owners
  <1> QED BY <1>2, LeavingIsAllowed

LEMMA ProcessesEnd ==
    ASSUME Inductive, Crash \/ StopApi \/ Recreate
    PROVE  [Barrier!Next]_Doing
  <1> USE DEF Crash, StopApi, Recreate, ProcessEnds, workers, deploy
  <1>1. /\ \A q \in Requests : http'[q] = "idle"
        /\ \A r \in Runs : run'[r] # "active"
        /\ worker' = worker
        /\ op' = op \/ op' \notin OpHolds
    BY DEF OpHolds
  <1>2. \A a \in Owners : Doing'[a] = Doing[a] \/ Doing'[a] = "idle"
    BY <1>1, PlacesAreDistinct, DoingIsPlain, NextDoingIsPlain DEF Owners
  <1> QED BY <1>2, LeavingIsAllowed

LEMMA DeploymentGoesOn ==
    ASSUME Inductive,
           \/ PrepareFence \/ FindStopped \/ KeepFence \/ Seed \/ StartApi
           \/ ReleaseFence \/ TryReleaseAgain \/ Abort
    PROVE  [Barrier!Next]_Doing
  <1> USE DEF PrepareFence, FindStopped, KeepFence, Seed, StartApi, ReleaseFence,
              TryReleaseAgain, Abort, places, tasks, workers
  <1>1. /\ UNCHANGED <<http, kind, run, worker>>
        /\ op' \in OpHolds => op \in OpHolds
    BY DEF OpHolds
  <1>2. \A a \in Owners : Doing'[a] = Doing[a] \/ Doing'[a] = "idle"
    BY <1>1, PlacesAreDistinct, DoingIsPlain, NextDoingIsPlain DEF Owners
  <1> QED BY <1>2, LeavingIsAllowed

LEMMA StepIsAllowed ==
    ASSUME Inductive, [Next]_vars
    PROVE  [Barrier!Next]_Doing
  <1>1. ASSUME NEW q \in Requests, Serve(q) PROVE [Barrier!Next]_Doing
    BY <1>1, RequestsGoOn, DispatchIsAllowed DEF Serve
  <1>2. ASSUME NEW q \in Requests, NEW k \in Kinds, Admit(q, k)
        PROVE  [Barrier!Next]_Doing
    BY <1>2, AdmitIsAllowed
  <1>3. ASSUME NEW r \in Runs, DispatchReply(r) PROVE [Barrier!Next]_Doing
    BY <1>3, DispatchReplyIsAllowed
  <1>4. ASSUME NEW w \in Workers, NEW c \in Cases, TakeTask(w, c)
        PROVE  [Barrier!Next]_Doing
    BY <1>4, TakeTaskIsAllowed
  <1>5. CASE Deployment
    BY <1>5, TakingIsAllowed, DeploymentGoesOn, ProcessesEnd DEF Deployment
  <1>6. CASE Crash
    BY <1>6, ProcessesEnd
  <1>7. CASE UNCHANGED vars
    <2>1. UNCHANGED Doing
      BY <1>7 DEF vars, places, tasks, workers, deploy, Doing
    <2> QED BY <2>1
  <1>8. CASE \/ \E c \in Cases : Decide(c)
             \/ \E r \in Runs : ReachGate(r) \/ Finish(r) \/ Discard(r)
             \/ DispatchReplyFails
             \/ \E w \in Workers : Work(w) \/ WorkerDies(w)
    BY <1>8, OthersGoOn
  <1> QED BY <1>1, <1>2, <1>3, <1>4, <1>5, <1>6, <1>7, <1>8 DEF Next

(***************************************************************************)
(* The barrier implements readers and a writer, for any number of          *)
(* requests, runs, workers and cases: nothing shares while a reset, a      *)
(* re-preparation or the deployment is alone, whatever is handed over,     *)
(* fails to start or dies.                                                 *)
(***************************************************************************)
THEOREM BarrierImplementsReadersWriter == Spec => ImplementsReadersWriter
  <1>1. Init => Barrier!Init
    <2> SUFFICES ASSUME Init PROVE Barrier!Init
      OBVIOUS
    <2>1. \A a \in Owners : Doing[a] = "idle"
      BY DoingIsPlain DEF Init, OpHolds, Owners
    <2> QED BY <2>1, DoingIsPlain DEF Barrier!Init, Actors
  <1>2. Inductive /\ [Next]_vars => [Barrier!Next]_Doing
    BY StepIsAllowed
  <1> QED BY <1>1, <1>2, BarrierInductive, PTL
          DEF Spec, ImplementsReadersWriter, Barrier!Spec
=============================================================================
