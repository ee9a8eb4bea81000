----------------------------- MODULE ReadReplica -----------------------------
(***************************************************************************)
(* Lists read from a physical replica (postgres_store.py).  A request that *)
(* only lists asks first whether the replica may serve it: the answer is   *)
(* cached for a while, and measured without a lock by whoever finds it too *)
(* old, so measurements overlap and publish in any order.  A client pages  *)
(* through the cases, newest first, each page wherever it is served.       *)
(*                                                                         *)
(* The log of commits is the cases' only; a position in it is its length,  *)
(* and a commit is a byte.  Time is counted in ticks.                      *)
(***************************************************************************)
EXTENDS Integers, Sequences, FiniteSets

CONSTANTS
    Cases,       \* 1..n: pages are ordered by them
    Readers,     \* clients that page through the list
    Probers,     \* other calls that measure: probes of readiness
    MaxLag,      \* REVGUARD_READ_REPLICA_MAX_LAG_SECONDS
    MaxBytes,    \* REVGUARD_READ_REPLICA_MAX_LAG_BYTES
    Interval,    \* REVGUARD_READ_REPLICA_CHECK_INTERVAL_SECONDS
    CallTime,    \* bound on the time of a call, its measurement included
    Limit,       \* cases on a page
    MaxTime,     \* bound on the clock
    MaxCommits   \* bound on the commits

VARIABLES
    now,
    log,        \* commits, as [case, stamp, at]
    replayed,   \* how many of them the replica has
    cache,      \* _replica_status_cache and _replica_status_checked_at
    step, start, lsn, healthy,   \* of a reader's call
    cursor, listed, since        \* of its walk: the last row of the page before,
                                 \* what it got, what the replica had at first

Callers == Readers \cup Probers

call == <<step, start, lsn, healthy>>
walk == <<cursor, listed, since>>
vars == <<now, log, replayed, cache, call, walk>>

NoCursor  == [stamp |-> MaxTime + 1, case |-> 0]
EndCursor == [stamp |-> -1, case |-> 0]

Init ==
    /\ now = Interval
    /\ log = [c \in Cases |-> [case |-> c, stamp |-> 0, at |-> 0]]
    /\ replayed = Len(log)
    /\ cache = [healthy |-> FALSE, at |-> 0]
    /\ step = [r \in Callers |-> "new"]
    /\ start = [r \in Callers |-> 0]
    /\ lsn = [r \in Callers |-> 0]
    /\ healthy = [r \in Callers |-> FALSE]
    /\ cursor = [r \in Readers |-> NoCursor]
    /\ listed = [r \in Readers |-> [c \in Cases |-> 0]]
    /\ since = [r \in Readers |-> 0]

Goto(r, s) == step' = [step EXCEPT ![r] = s]

\* A call returns, and what it knew is gone.
End(r) ==
    /\ Goto(r, "idle")
    /\ start' = [start EXCEPT ![r] = 0]
    /\ healthy' = [healthy EXCEPT ![r] = FALSE]

-----------------------------------------------------------------------------
(* The databases *)

\* A call and its measurement do not take longer than CallTime.
Tick ==
    /\ now < MaxTime
    /\ \A r \in Callers : step[r] \notin {"new", "idle"} => now - start[r] < CallTime
    /\ now' = now + 1
    /\ UNCHANGED <<log, replayed, cache, call, walk>>

\* The row of a case after the first n commits.
LastIn(commits, c, n) ==
    CHOOSE i \in 1..n : commits[i].case = c /\ \A j \in (i + 1)..n : commits[j].case # c

RowIn(commits, c, n) == [stamp |-> commits[LastIn(commits, c, n)].stamp, case |-> c]

RowOf(c, n) == RowIn(log, c, n)

\* A write takes updated_at anew or keeps what its snapshot has.
Commit(c) ==
    /\ Len(log) < MaxCommits
    /\ \E s \in {RowOf(c, Len(log)).stamp, now} :
          log' = Append(log, [case |-> c, stamp |-> s, at |-> now])
    /\ UNCHANGED <<now, replayed, cache, call, walk>>

Replay ==
    /\ replayed < Len(log)
    /\ replayed' = replayed + 1
    /\ UNCHANGED <<now, log, cache, call, walk>>

-----------------------------------------------------------------------------
(* _conn and _replica_status *)

\* The cached answer serves until it is Interval old.
Begin(r) ==
    /\ step[r] \in {"new", "idle"}
    /\ cursor[r] # EndCursor
    /\ start' = [start EXCEPT ![r] = now]
    /\ since' = IF step[r] = "new" THEN [since EXCEPT ![r] = replayed] ELSE since
    /\ \/ /\ now - cache.at < Interval
          /\ healthy' = [healthy EXCEPT ![r] = cache.healthy]
          /\ Goto(r, "read")
       \/ /\ now - cache.at >= Interval
          /\ Goto(r, "primary")
          /\ UNCHANGED healthy
    /\ UNCHANGED <<now, log, replayed, cache, lsn, cursor, listed>>

\* readiness measures whatever the cache says, and lists nothing.
Probe(r) ==
    /\ step[r] \in {"new", "idle"}
    /\ start' = [start EXCEPT ![r] = now]
    /\ Goto(r, "primary")
    /\ UNCHANGED <<now, log, replayed, cache, lsn, healthy, walk>>

MeasurePrimary(r) ==
    /\ step[r] = "primary"
    /\ lsn' = [lsn EXCEPT ![r] = Len(log)]
    /\ Goto(r, "replica")
    /\ UNCHANGED <<now, log, replayed, cache, start, healthy, walk>>

\* Few bytes behind, and either none or the last commit replayed is young.
IsHealthy(position) ==
    /\ position - replayed <= MaxBytes
    /\ \/ position <= replayed
       \/ replayed > 0 /\ now - log[replayed].at <= MaxLag

MeasureReplica(r) ==
    /\ step[r] = "replica"
    /\ healthy' = [healthy EXCEPT ![r] = IsHealthy(lsn[r])]
    /\ lsn' = [lsn EXCEPT ![r] = 0]
    /\ Goto(r, "publish")
    /\ UNCHANGED <<now, log, replayed, cache, start, walk>>

\* No answer in time, an error, or a server that is no replica.
CheckFails(r) ==
    /\ step[r] \in {"primary", "replica"}
    /\ healthy' = [healthy EXCEPT ![r] = FALSE]
    /\ lsn' = [lsn EXCEPT ![r] = 0]
    /\ Goto(r, "publish")
    /\ UNCHANGED <<now, log, replayed, cache, start, walk>>

\* The call goes on to its read, and a probe ends.
Answer(r) ==
    \/ r \in Readers /\ Goto(r, "read") /\ UNCHANGED <<start, healthy>>
    \/ r \in Probers /\ End(r)

\* Mutant: the answer counts as new when it is published.
PublishAsNew(r) ==
    /\ step[r] = "publish"
    /\ cache' = [healthy |-> healthy[r], at |-> now]
    /\ Answer(r)
    /\ UNCHANGED <<now, log, replayed, lsn, walk>>

\* The answer is as old as the call.
Publish(r) ==
    /\ step[r] = "publish"
    /\ cache' = [healthy |-> healthy[r], at |-> start[r]]
    /\ Answer(r)
    /\ UNCHANGED <<now, log, replayed, lsn, walk>>

-----------------------------------------------------------------------------
(* list_cases_page *)

\* ORDER BY updated_at DESC, case_id DESC: p comes after q.
After(p, q) == \/ p.stamp < q.stamp
               \/ p.stamp = q.stamp /\ p.case < q.case

\* Mutant: the cursor is the stamp alone.
IsBeyondStamp(p, k) == p.stamp < k.stamp

IsBeyond(p, k) == After(p, k)

Remaining(k, n) ==
    {p \in {RowOf(c, n) : c \in {log[i].case : i \in 1..n}} : IsBeyond(p, k)}

FirstOf(rows) == {p \in rows : Cardinality({q \in rows : After(p, q)}) < Limit}

LastOf(rows) == CHOOSE p \in rows : \A q \in rows : q = p \/ After(p, q)

\* A page from the replica or the primary, and the cursor if there is more.
Read(r) ==
    /\ step[r] = "read"
    /\ cursor[r] # EndCursor
    /\ LET rows == Remaining(cursor[r], IF healthy[r] THEN replayed ELSE Len(log))
           page == FirstOf(rows)
       IN  /\ cursor' = [cursor EXCEPT ![r] = IF rows = page THEN EndCursor ELSE LastOf(page)]
           /\ listed' = [listed EXCEPT ![r] =
                 [c \in Cases |-> @[c] + Cardinality({p \in page : p.case = c})]]
    /\ End(r)
    /\ UNCHANGED <<now, log, replayed, cache, lsn, since>>

Next ==
    \/ Tick
    \/ \E c \in Cases : Commit(c)
    \/ Replay
    \/ \E r \in Readers : Begin(r) \/ Read(r)
    \/ \E r \in Probers : Probe(r)
    \/ \E r \in Callers :
          MeasurePrimary(r) \/ MeasureReplica(r) \/ CheckFails(r) \/ Publish(r)

Spec == Init /\ [][Next]_vars

-----------------------------------------------------------------------------
(* Properties *)

\* However measurements overlap and publish, a list that is served by the
\* replica lacks no commit older than the lag allowed, the life of a cached
\* answer and the time of a call together.
ReplicaReadsAreRecent ==
    \A r \in Readers : step[r] = "read" /\ healthy[r] =>
        \A i \in (replayed + 1)..Len(log) :
            now - log[i].at < MaxLag + Interval + CallTime

\* A walk through the pages shows a case exactly once if nothing about the
\* case has changed since the replica knew it at the walk's first call,
\* wherever each page came from and whatever moved around it.
SettledCasesAreListedOnce ==
    \A r \in Readers : cursor[r] = EndCursor =>
        \A c \in Cases :
            (\A i \in 1..Len(log) : log[i].case = c => i <= since[r])
                => listed[r][c] = 1

-----------------------------------------------------------------------------
(* The inductive invariant of the proofs *)

Commits == [case : Cases, stamp : 0..MaxTime, at : 0..MaxTime]

ReplicaTypeOK ==
    /\ now \in Interval..MaxTime
    /\ log \in Seq(Commits)
    /\ replayed \in 0..Len(log)
    /\ cache \in [healthy : BOOLEAN, at : 0..MaxTime]
    /\ step \in [Callers -> {"new", "idle", "primary", "replica", "publish", "read"}]
    /\ start \in [Callers -> 0..MaxTime]
    /\ lsn \in [Callers -> Nat]
    /\ healthy \in [Callers -> BOOLEAN]
    /\ cursor \in [Readers -> [stamp : -1..(MaxTime + 1), case : Nat]]
    /\ listed \in [Readers -> [Cases -> Nat]]
    /\ since \in [Readers -> Nat]

\* Commits are in the order of their time, which is not to come, and every case
\* has one.
LogIsOrdered ==
    /\ \A i \in 1..Len(log) : log[i].at <= now /\ log[i].stamp <= now
    /\ \A i, j \in 1..Len(log) : i <= j => log[i].at <= log[j].at
    /\ \A c \in Cases : c \in 1..Len(log) /\ log[c].case = c

\* Nothing that the replica lacks is from before t.
LacksNothingBefore(t) == \A i \in (replayed + 1)..Len(log) : log[i].at >= t

CacheIsTrue ==
    /\ cache.at <= now
    /\ cache.healthy => LacksNothingBefore(cache.at - MaxLag)

\* A measurement counts from the start of its call, wherever it is now.
CallIsTrue(r) ==
    /\ step[r] \notin {"new", "idle"} => start[r] <= now /\ now - start[r] <= CallTime
    /\ step[r] = "replica" =>
          /\ lsn[r] <= Len(log)
          /\ \A i \in (lsn[r] + 1)..Len(log) : log[i].at >= start[r]
    /\ step[r] = "publish" /\ healthy[r] => LacksNothingBefore(start[r] - MaxLag)
    /\ step[r] = "read" /\ healthy[r] => LacksNothingBefore(start[r] - MaxLag - Interval + 1)

\* Nothing has happened to the case since the walk of r began.
Settled(r, c) == \A i \in 1..Len(log) : log[i].case = c => i <= since[r]

\* A settled case is listed once exactly when the walk has passed its row.
WalkIsTrue(r) ==
    /\ since[r] <= replayed
    /\ step[r] = "new" => cursor[r] = NoCursor /\ since[r] = 0
    /\ cursor[r] = NoCursor => \A c \in Cases : listed[r][c] = 0
    /\ \A c \in Cases : Settled(r, c) =>
          listed[r][c] = IF IsBeyond(RowOf(c, Len(log)), cursor[r]) THEN 0 ELSE 1

ReplicaInductive ==
    /\ ReplicaTypeOK /\ LogIsOrdered /\ CacheIsTrue
    /\ \A r \in Callers : CallIsTrue(r)
    /\ \A r \in Readers : WalkIsTrue(r)
=============================================================================
