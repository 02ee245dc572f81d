-------------------------------- MODULE LockHold --------------------------------
(***************************************************************************)
(* async/synchro/helpers/lock-hold.ts: tasks that acquire several locks in *)
(* the order of their ids, and release them in the reverse order.  A lock  *)
(* serves its waiters in turn; its unlock() may throw.                     *)
(***************************************************************************)
EXTENDS EcmaArray, FiniteSets

CONSTANTS
    Holders, Locks,
    MaxLocks,       \* bound: the locks given to a call
    MaxFailures     \* bound: the calls of unlock() that throw

ASSUME HoldAssumption == IsFiniteSet(Locks) /\ MaxLocks \in Nat

VARIABLES
    lockId,     \* of each lock, 0 if it has none yet
    owner,      \* of each lock, the first one of those it serves
    toLock,     \* of each task: the sorted locks that from() has not come to
    held,       \* the array heldLocks
    phase,      \* "idle", "locking", "trying", "waiting", "holding", "releasing"
    failures,
    unreleased  \* the locks that were left locked after a failure, for good

holdVars == <<lockId, owner, toLock, held, phase, failures, unreleased>>

HoldInit ==
    /\ lockId = [l \in Locks |-> 0]
    /\ owner = [l \in Locks |-> <<>>]
    /\ toLock = [p \in Holders |-> <<>>]
    /\ held = [p \in Holders |-> <<>>]
    /\ phase = [p \in Holders |-> "idle"]
    /\ failures = 0 /\ unreleased = {}

-----------------------------------------------------------------------------
LastId(ids) == Cardinality({l \in Locks : ids[l] > 0})

\* The ids after getLockId() was asked for those of the locks in some order.
\* Nothing is compared, and no id is given, when there is one lock only.
IdsAfter(locks) ==
    IF Len(locks) < 2 THEN {lockId}
    ELSE {ids \in [Locks -> 0..Cardinality(Locks)] :
            /\ \A l \in Locks : lockId[l] > 0 \/ ~Contains(locks, l) => ids[l] = lockId[l]
            /\ {ids[l] : l \in {m \in ToSet(locks) : lockId[m] = 0}}
                = (LastId(lockId) + 1)..LastId(ids)}

Sorted(locks, ids) ==
    {sorted \in {[i \in DOMAIN locks |-> locks[f[i]]] : f \in Bijection(DOMAIN locks, DOMAIN locks)} :
        \A i, j \in DOMAIN locks : i < j => ids[sorted[i]] <= ids[sorted[j]]}

\* Variant: the locks are taken in the order they were given.
FromUnsorted(p, locks, how) ==
    /\ phase[p] = "idle"
    /\ \E ids \in IdsAfter(locks) : lockId' = ids
    /\ toLock' = [toLock EXCEPT ![p] = locks]
    /\ phase' = [phase EXCEPT ![p] = how]
    /\ UNCHANGED <<owner, held, failures, unreleased>>

\* from(locks) and tryFrom(...locks).
From(p, locks, how) ==
    /\ phase[p] = "idle"
    /\ \E ids \in IdsAfter(locks) :
        /\ lockId' = ids
        /\ \E sorted \in Sorted(locks, ids) : toLock' = [toLock EXCEPT ![p] = sorted]
    /\ phase' = [phase EXCEPT ![p] = how]
    /\ UNCHANGED <<owner, held, failures, unreleased>>

\* The next lock(), or tryLock(), or the return of a hold.
Advance(p) ==
    /\ phase[p] \in {"locking", "trying"}
    /\ IF toLock[p] = <<>>
       THEN phase' = [phase EXCEPT ![p] = "holding"] /\ UNCHANGED <<owner, toLock, held>>
       ELSE LET l == Head(toLock[p]) IN
            IF owner[l] = <<>>
            THEN /\ owner' = [owner EXCEPT ![l] = <<p>>]
                 /\ toLock' = [toLock EXCEPT ![p] = Tail(@)]
                 /\ held' = [held EXCEPT ![p] = Append(@, l)]
                 /\ UNCHANGED phase
            ELSE IF phase[p] = "trying"
            THEN /\ phase' = [phase EXCEPT ![p] = "releasing"]
                 /\ toLock' = [toLock EXCEPT ![p] = <<>>]
                 /\ UNCHANGED <<owner, held>>
            ELSE /\ phase' = [phase EXCEPT ![p] = "waiting"]
                 /\ owner' = [owner EXCEPT ![l] = Append(@, p)]
                 /\ UNCHANGED <<toLock, held>>
    /\ UNCHANGED <<lockId, failures, unreleased>>

\* The lock that p awaits serves it, and no earlier call of p.
IsServed(p, l) == Head(owner[l]) = p /\ ~Contains(held[p], l) /\ l \notin unreleased

\* The lock() that p awaits resolves, when p has become the first of its tasks.
Granted(p) ==
    LET l == Head(toLock[p]) IN
    /\ phase[p] = "waiting" /\ IsServed(p, l)
    /\ phase' = [phase EXCEPT ![p] = "locking"]
    /\ toLock' = [toLock EXCEPT ![p] = Tail(@)]
    /\ held' = [held EXCEPT ![p] = Append(@, l)]
    /\ UNCHANGED <<lockId, owner, failures, unreleased>>

\* It rejects: what is held is released, and from() throws.  The call is the
\* last one of p among those that the lock has to serve.
LastCall(p, calls) ==
    CHOOSE i \in DOMAIN calls : calls[i] = p /\ \A j \in DOMAIN calls : calls[j] = p => j <= i

Abort(p) ==
    LET l == Head(toLock[p]) IN
    /\ phase[p] = "waiting" /\ ~IsServed(p, l)
    /\ phase' = [phase EXCEPT ![p] = "releasing"]
    /\ owner' = [owner EXCEPT ![l] = RemoveAt(@, LastCall(p, @))]
    /\ toLock' = [toLock EXCEPT ![p] = <<>>]
    /\ UNCHANGED <<lockId, held, failures, unreleased>>

Unlock(p) ==
    /\ phase[p] = "holding"
    /\ phase' = [phase EXCEPT ![p] = "releasing"]
    /\ UNCHANGED <<lockId, owner, toLock, held, failures, unreleased>>

\* _unlock(): the last lock first; after one that throws the others stay.
Release(p) ==
    /\ phase[p] = "releasing"
    /\ \/ /\ held[p] # <<>>
          /\ held' = [held EXCEPT ![p] = Front(@)]
          /\ owner' = [owner EXCEPT ![Last(held[p])] = Tail(@)]
          /\ UNCHANGED <<phase, failures, unreleased>>
       \/ /\ held[p] # <<>> /\ failures < MaxFailures
          /\ failures' = failures + 1
          /\ unreleased' = unreleased \cup ToSet(held[p])
          /\ held' = [held EXCEPT ![p] = <<>>]
          /\ phase' = [phase EXCEPT ![p] = "idle"]
          /\ UNCHANGED owner
       \/ /\ held[p] = <<>>
          /\ phase' = [phase EXCEPT ![p] = "idle"]
          /\ UNCHANGED <<owner, held, failures, unreleased>>
    /\ UNCHANGED <<lockId, toLock>>

Lists == SeqOf(Locks, MaxLocks) \ {<<>>}

HoldNext ==
    \E p \in Holders :
        \/ \E locks \in Lists, how \in {"locking", "trying"} : From(p, locks, how)
        \/ Advance(p) \/ Granted(p) \/ Abort(p) \/ Unlock(p) \/ Release(p)

HoldSpec == HoldInit /\ [][HoldNext]_holdVars

-----------------------------------------------------------------------------
\* The tasks that wait for one another: each for a lock another of them has.
Stuck(tasks) ==
    \A p \in tasks : phase[p] = "waiting" /\ \E q \in tasks : ToSet(held[q]) \cap {Head(toLock[p])} # {}

(***************************************************************************)
(* Tasks never wait for one another in a circle, but for the one that      *)
(* gave the same lock twice and waits for itself; a hold has its locks for *)
(* itself, and a task that is idle has none, unless an unlock() threw and  *)
(* those after it stayed locked.                                           *)
(***************************************************************************)
HoldsNeverDeadlock ==
    /\ \A tasks \in SUBSET Holders :
        Stuck(tasks) /\ tasks # {} =>
            \E p \in tasks : Contains(held[p], Head(toLock[p]))
    /\ \A l \in Locks : owner[l] # <<>> =>
        l \in unreleased \/ Contains(held[Head(owner[l])], l) \/ phase[Head(owner[l])] = "waiting"
    /\ \A p, q \in Holders : p # q => ToSet(held[p]) \cap ToSet(held[q]) = {}
=============================================================================
