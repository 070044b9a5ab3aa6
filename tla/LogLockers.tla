----------------------------- MODULE LogLockers -----------------------------
(***************************************************************************)
(* The lockers pool of localLog (src/pkg/storage/logfs, locallog_test.go): *)
(* an lru.ReleasableCache of at most MaxLocks logLockers, one per log ID,  *)
(* that every AppendRecords, QueryRecords and CountRecords leases for its  *)
(* log and releases on return.  AppendRecords also locks the logLocker's   *)
(* mutex for the whole call; the reads take the lease only, so the pool    *)
(* caps how many logs are worked on at a time.                             *)
(*                                                                         *)
(* The cache is not in the repository; it is modelled from the spec (4.3, *)
(* 9): a lease of a cached log takes the entry and counts a reference; an  *)
(* unseen log gets a new logLocker while there is room, else the entry of  *)
(* an unreferenced log is evicted for it, else the caller blocks; Close    *)
(* fails every caller that waits or comes later.  Each logLocker made is   *)
(* numbered, so a logLocker made again for an evicted log is a different   *)
(* mutex.  The work of a call between lease and release is LocalLog's.     *)
(***************************************************************************)
EXTENDS Naturals, FiniteSets

CONSTANTS
    Procs,        \* goroutines calling localLog
    Logs,         \* log IDs they work on
    MaxLocks,     \* Config.MaxLocks, the capacity of the pool
    MaxRequests,  \* bound: calls over a whole behaviour
    None          \* model value: a mutex nobody holds

ASSUME MaxLocks \in Nat \ {0} /\ MaxRequests \in Nat

VARIABLES
    entries,   \* log ID -> [lk |-> its logLocker, refs |-> leases held]
    owner,     \* logLocker -> the goroutine holding its mutex, or None
    nextLk,    \* the number the next logLocker made gets
    closed,    \* lockers.Close was called (localLog.Shutdown)
    requests,  \* calls made so far
    pr         \* goroutine -> [pc, log, kind, lk] of its call

vars == <<entries, owner, nextLk, closed, requests, pr>>

LockerIds == 1..MaxRequests
Idle == [pc |-> "idle", log |-> None, kind |-> "read", lk |-> 0]

\* The goroutine's call got the lease on the logLocker of its log.
Take(p, lk) ==
    pr' = [pr EXCEPT ![p].lk = lk,
                     ![p].pc = IF pr[p].kind = "append" THEN "lock" ELSE "use"]

-----------------------------------------------------------------------------
(* The calls: AppendRecords, and QueryRecords or CountRecords ("read") *)

\* A call for log l starts: lid := request.LogID.
Call(p, l, k) ==
    /\ pr[p].pc = "idle"
    /\ requests < MaxRequests
    /\ requests' = requests + 1
    /\ pr' = [pr EXCEPT ![p] = [Idle EXCEPT !.pc = "lease", !.log = l, !.kind = k]]
    /\ UNCHANGED <<entries, owner, nextLk, closed>>

\* l.lockers.GetOrCreate(ctx, lid) finds the log's logLocker cached.
LeaseHit(p) ==
    LET l == pr[p].log IN
    /\ pr[p].pc = "lease" /\ ~closed
    /\ l \in DOMAIN entries
    /\ entries' = [entries EXCEPT ![l].refs = @ + 1]
    /\ Take(p, entries[l].lk)
    /\ UNCHANGED <<owner, nextLk, closed, requests>>

\* The cache with entry e in place of the one it held for log l, if any.
Put(l, e) == [x \in (DOMAIN entries) \cup {l} |-> IF x = l THEN e ELSE entries[x]]

\* Bug variant: a new logLocker is made whether or not the pool has room.
LeaseCreateUnbounded(p) ==
    LET l == pr[p].log IN
    /\ pr[p].pc = "lease" /\ ~closed
    /\ l \notin DOMAIN entries
    /\ entries' = Put(l, [lk |-> nextLk, refs |-> 1])
    /\ nextLk' = nextLk + 1
    /\ Take(p, nextLk)
    /\ UNCHANGED <<owner, closed, requests>>

\* GetOrCreate for an unseen log while the pool has room: a new logLocker.
LeaseCreate(p) ==
    LET l == pr[p].log IN
    /\ pr[p].pc = "lease" /\ ~closed
    /\ l \notin DOMAIN entries
    /\ Cardinality(DOMAIN entries) < MaxLocks
    /\ entries' = Put(l, [lk |-> nextLk, refs |-> 1])
    /\ nextLk' = nextLk + 1
    /\ Take(p, nextLk)
    /\ UNCHANGED <<owner, closed, requests>>

\* The entries the full pool may evict: those no call holds.
Evictable == {x \in DOMAIN entries : entries[x].refs = 0}

\* GetOrCreate for an unseen log when the pool is full: an unreferenced
\* entry is evicted (which one the LRU order picks is left open) and a new
\* logLocker takes its place.  With no such entry the call blocks here.
LeaseEvict(p) ==
    LET l == pr[p].log IN
    /\ pr[p].pc = "lease" /\ ~closed
    /\ l \notin DOMAIN entries
    /\ Cardinality(DOMAIN entries) = MaxLocks
    /\ \E x \in Evictable :
          entries' = [y \in (DOMAIN entries \ {x}) \cup {l} |->
                        IF y = l THEN [lk |-> nextLk, refs |-> 1] ELSE entries[y]]
    /\ nextLk' = nextLk + 1
    /\ Take(p, nextLk)
    /\ UNCHANGED <<owner, closed, requests>>

\* GetOrCreate returns an error and the call returns "could not obtain the
\* log locker" holding nothing: the pool was closed by Shutdown ...
LeaseClosed(p) ==
    /\ pr[p].pc = "lease" /\ closed
    /\ pr' = [pr EXCEPT ![p] = Idle]
    /\ UNCHANGED <<entries, owner, nextLk, closed, requests>>

\* ... or the call's ctx was canceled while it waited for a slot.
LeaseCanceled(p) ==
    /\ pr[p].pc = "lease"
    /\ pr' = [pr EXCEPT ![p] = Idle]
    /\ UNCHANGED <<entries, owner, nextLk, closed, requests>>

\* Bug variant: AppendRecords goes on without ll.Value().lock.Lock().
LockSkipped(p) ==
    /\ pr[p].pc = "lock"
    /\ pr' = [pr EXCEPT ![p].pc = "append"]
    /\ UNCHANGED <<entries, owner, nextLk, closed, requests>>

\* AppendRecords: ll.Value().lock.Lock(), blocking while another holds it.
Lock(p) ==
    /\ pr[p].pc = "lock"
    /\ owner[pr[p].lk] = None
    /\ owner' = [owner EXCEPT ![pr[p].lk] = p]
    /\ pr' = [pr EXCEPT ![p].pc = "append"]
    /\ UNCHANGED <<entries, nextLk, closed, requests>>

\* AppendRecords returns: its deferred lock.Unlock() runs first.
Unlock(p) ==
    /\ pr[p].pc = "append"
    /\ owner' = [k \in LockerIds |-> IF k = pr[p].lk /\ owner[k] = p THEN None ELSE owner[k]]
    /\ pr' = [pr EXCEPT ![p].pc = "release"]
    /\ UNCHANGED <<entries, nextLk, closed, requests>>

\* Bug variant: the lease is given back without its reference dropped.
ReleasedKept(l, lk) == entries

\* The entries once the lease on logLocker lk of log l is given back.
Released(l, lk) ==
    IF l \in DOMAIN entries /\ entries[l].lk = lk
    THEN [entries EXCEPT ![l].refs = @ - 1]
    ELSE entries

\* Bug variant: QueryRecords and CountRecords return without the deferred
\* Release, so a read keeps its lease.
ReleaseReadsLeak(p) ==
    /\ pr[p].pc \in {"use", "release"}
    /\ entries' = IF pr[p].kind = "read" THEN entries
                  ELSE Released(pr[p].log, pr[p].lk)
    /\ pr' = [pr EXCEPT ![p] = Idle]
    /\ UNCHANGED <<owner, nextLk, closed, requests>>

\* Every call returns through its deferred l.lockers.Release(&ll): a read
\* once its work is done, AppendRecords after the Unlock.
Release(p) ==
    /\ pr[p].pc \in {"use", "release"}
    /\ entries' = Released(pr[p].log, pr[p].lk)
    /\ pr' = [pr EXCEPT ![p] = Idle]
    /\ UNCHANGED <<owner, nextLk, closed, requests>>

\* localLog.Shutdown: l.lockers.Close().
Shutdown ==
    /\ ~closed
    /\ closed' = TRUE
    /\ UNCHANGED <<entries, owner, nextLk, requests, pr>>

\* Every call has returned and no more will be made.
Done ==
    /\ \A p \in Procs : pr[p].pc = "idle"
    /\ requests = MaxRequests \/ closed
    /\ UNCHANGED vars

-----------------------------------------------------------------------------
Init ==
    /\ entries = <<>>
    /\ owner = [k \in LockerIds |-> None]
    /\ nextLk = 1
    /\ closed = FALSE
    /\ requests = 0
    /\ pr = [p \in Procs |-> Idle]

\* The steps a goroutine takes on its own once its call has started.
Step(p) ==
    \/ LeaseHit(p) \/ LeaseCreate(p) \/ LeaseEvict(p) \/ LeaseClosed(p)
    \/ Lock(p) \/ Unlock(p) \/ Release(p)

Next ==
    \/ \E p \in Procs, l \in Logs, k \in {"append", "read"} : Call(p, l, k)
    \/ \E p \in Procs : Step(p) \/ LeaseCanceled(p)
    \/ Shutdown
    \/ Done

\* Goroutines are scheduled: a goroutine whose next step stays enabled
\* takes it (weak fairness).  Calls, cancellations and Shutdown come from
\* outside and are not forced.  A blocked Lock or GetOrCreate is not forced
\* while others keep taking the mutex or the slot; since the calls are
\* bounded, these others run out, and weak fairness then suffices.
Fairness == \A p \in Procs : WF_vars(Step(p))

Spec == Init /\ [][Next]_vars /\ Fairness

-----------------------------------------------------------------------------
TypeOK ==
    /\ DOMAIN entries \subseteq Logs
    /\ Cardinality(DOMAIN entries) <= MaxLocks
    /\ \A l \in DOMAIN entries : entries[l] \in [lk : 1..(nextLk - 1), refs : Nat]
    /\ owner \in [LockerIds -> Procs \cup {None}]
    /\ nextLk \in 1..(MaxRequests + 1)
    /\ closed \in BOOLEAN
    /\ requests \in 0..MaxRequests
    /\ \A p \in Procs :
         /\ pr[p].pc \in {"idle", "lease", "lock", "append", "use", "release"}
         /\ pr[p].kind \in {"append", "read"}
         /\ pr[p].lk \in 0..MaxRequests

\* AppendRecords is atomic per log: never are two AppendRecords calls of the
\* same log between their lock.Lock() and lock.Unlock() at once.  This takes
\* the lease, the mutex and the pool's eviction to agree: an evicted entry
\* still leased would hand a second call a fresh, unlocked logLocker.
AppendsExclusive ==
    \A p, q \in Procs :
        (p # q /\ pr[p].pc = "append" /\ pr[q].pc = "append") => pr[p].log # pr[q].log

\* Every GetOrCreate call blocked on the full pool eventually gets its lease
\* or an error: no lease is leaked by a return path, and the leases of the
\* others are all given back.
LeaseResolves ==
    \A p \in Procs : pr[p].pc = "lease" ~> pr[p].pc # "lease"

====
