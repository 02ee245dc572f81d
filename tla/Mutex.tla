-------------------------------- MODULE Mutex --------------------------------
(***************************************************************************)
(* The mutex of packages/misc-util/src/async/synchro/mutex.ts.             *)
(*                                                                         *)
(* A task is an asynchronous function that uses the mutex.  JavaScript     *)
(* runs one continuation at a time; between two of them the mutex is in    *)
(* one of the states below.  lock() pushes the resolver of a new promise   *)
(* on "waiters" and awaits the promise; the statement after the await (the *)
(* finally block, then the caller) runs in a later microtask.  Settling a  *)
(* promise and running the code that awaits it are therefore two steps,    *)
(* and the code of another task may run between them.                      *)
(*                                                                         *)
(* A resolver is identified with the task that pushed it: a task has at    *)
(* most one call of lock() under way.  Continuations whose promise is      *)
(* settled run in any order here; the event loop runs them first in first  *)
(* out, so every execution of the code is a behaviour of this module.      *)
(***************************************************************************)
EXTENDS EcmaArray

CONSTANTS
    Tasks,      \* the tasks that use the mutex
    Abortable   \* those that give lock() an AbortSignal

ASSUME AbortableAssumption == Abortable \subseteq Tasks

VARIABLES
    locked,     \* the field locked_
    waiters,    \* the field waiters
    pc,         \* where each task is in its use of the mutex
    ahead       \* history: the tasks already waiting when a task began to

vars == <<locked, waiters, pc, ahead>>

(***************************************************************************)
(* "waiting": inside lock(), its promise pending; "granted": the promise   *)
(* is resolved and the continuation has not run; "aborted": the promise is *)
(* rejected and the continuation has not run; "holding": lock() returned.  *)
(***************************************************************************)
PC == {"idle", "waiting", "granted", "aborted", "holding"}

Waiting == {q \in Tasks : pc[q] = "waiting"}

\* The mutex is task p's, whether or not p's code has been told.
Owns(p) == pc[p] \in {"granted", "holding"}

Init ==
    /\ locked = FALSE
    /\ waiters = <<>>
    /\ pc = [p \in Tasks |-> "idle"]
    /\ ahead = [p \in Tasks |-> {}]

-----------------------------------------------------------------------------
(***************************************************************************)
(* History bookkeeping: a task that stops waiting is ahead of nobody.      *)
(***************************************************************************)
NoLongerAhead(p) == [q \in Tasks |-> IF q = p THEN {} ELSE ahead[q] \ {p}]

\* tryLock() that returns true; the call that returns false changes nothing.
TryLock(p) ==
    /\ pc[p] = "idle"
    /\ ~locked
    /\ locked' = TRUE
    /\ pc' = [pc EXCEPT ![p] = "holding"]
    /\ ahead' = [ahead EXCEPT ![p] = Waiting]
    /\ waiters' = waiters

(***************************************************************************)
(* lock() up to its await.  The resolver goes to the list on the fast path *)
(* too, and stays there until the continuation has run.  A call whose      *)
(* signal is already aborted pushes and removes its resolver without       *)
(* awaiting anything: it changes nothing.                                  *)
(***************************************************************************)
Lock(p) ==
    /\ pc[p] = "idle"
    /\ waiters' = Append(waiters, p)
    /\ \/ /\ ~locked
          /\ locked' = TRUE
          /\ pc' = [pc EXCEPT ![p] = "granted"]
       \/ /\ locked
          /\ locked' = locked
          /\ pc' = [pc EXCEPT ![p] = "waiting"]
    /\ ahead' = [ahead EXCEPT ![p] = Waiting]

\* Variant: a continuation that forgets its resolver on the list.
LockReturnsKeepsResolver(p) ==
    /\ pc[p] = "granted"
    /\ pc' = [pc EXCEPT ![p] = "holding"]
    /\ UNCHANGED <<locked, waiters, ahead>>

\* lock() after its await: the finally block, and the return to the caller.
LockReturns(p) ==
    /\ pc[p] = "granted"
    /\ waiters' = RemoveSafe(waiters, p)
    /\ pc' = [pc EXCEPT ![p] = "holding"]
    /\ UNCHANGED <<locked, ahead>>

\* The signal of a waiting task aborts: handleAbort rejects its promise.
\* Rejecting a promise that is already resolved has no effect.
Abort(p) ==
    /\ p \in Abortable
    /\ pc[p] = "waiting"
    /\ pc' = [pc EXCEPT ![p] = "aborted"]
    /\ ahead' = NoLongerAhead(p)
    /\ UNCHANGED <<locked, waiters>>

\* lock() after its await, when the promise was rejected: only now does the
\* resolver leave the list.
LockRejects(p) ==
    /\ pc[p] = "aborted"
    /\ waiters' = RemoveSafe(waiters, p)
    /\ pc' = [pc EXCEPT ![p] = "idle"]
    /\ UNCHANGED <<locked, ahead>>

\* Variant: the flag is cleared although a waiter is handed the mutex.
UnlockClearsFlag(p) ==
    /\ pc[p] = "holding"
    /\ locked' = FALSE
    /\ \/ /\ waiters = <<>>
          /\ pc' = [pc EXCEPT ![p] = "idle"]
          /\ UNCHANGED <<waiters, ahead>>
       \/ /\ waiters # <<>>
          /\ waiters' = Tail(waiters)
          /\ LET w == Head(waiters) IN
             /\ pc' = [pc EXCEPT ![p] = "idle",
                                 ![w] = IF @ = "waiting" THEN "granted" ELSE @]
             /\ ahead' = [q \in Tasks |-> ahead[q] \ {w}]

\* Variant: a mutex whose first waiter aborted is set free.
UnlockSkipsWaiters(p) ==
    /\ pc[p] = "holding"
    /\ waiters' = IF waiters = <<>> THEN waiters ELSE Tail(waiters)
    /\ IF waiters # <<>> /\ pc[Head(waiters)] = "waiting"
       THEN /\ pc' = [pc EXCEPT ![p] = "idle", ![Head(waiters)] = "granted"]
            /\ ahead' = [q \in Tasks |-> ahead[q] \ {Head(waiters)}]
            /\ locked' = locked
       ELSE /\ pc' = [pc EXCEPT ![p] = "idle"]
            /\ locked' = FALSE
            /\ ahead' = ahead

\* Variant: the last waiter is served first (pop for shift).
UnlockPops(p) ==
    /\ pc[p] = "holding"
    /\ \/ /\ waiters = <<>>
          /\ locked' = FALSE
          /\ pc' = [pc EXCEPT ![p] = "idle"]
          /\ UNCHANGED <<waiters, ahead>>
       \/ /\ waiters # <<>>
          /\ waiters' = Front(waiters)
          /\ LET w == Last(waiters) IN
             /\ pc' = [pc EXCEPT ![p] = "idle",
                                 ![w] = IF @ = "waiting" THEN "granted" ELSE @]
             /\ ahead' = [q \in Tasks |-> ahead[q] \ {w}]
          /\ locked' = locked

(***************************************************************************)
(* unlock() by the task that holds the mutex: the first resolver is called *)
(* and the mutex stays locked for it, or the mutex is unlocked.  Calling   *)
(* the resolver of a promise that was rejected has no effect.              *)
(***************************************************************************)
Unlock(p) ==
    /\ pc[p] = "holding"
    /\ \/ /\ waiters = <<>>
          /\ locked' = FALSE
          /\ pc' = [pc EXCEPT ![p] = "idle"]
          /\ UNCHANGED <<waiters, ahead>>
       \/ /\ waiters # <<>>
          /\ waiters' = Tail(waiters)
          /\ LET w == Head(waiters) IN
             IF pc[w] = "waiting"
             THEN /\ pc' = [pc EXCEPT ![p] = "idle", ![w] = "granted"]
                  /\ ahead' = [q \in Tasks |-> ahead[q] \ {w}]
             ELSE /\ pc' = [pc EXCEPT ![p] = "idle"]
                  /\ ahead' = ahead
          /\ locked' = locked

Next ==
    \E p \in Tasks :
        \/ TryLock(p)
        \/ Lock(p)
        \/ LockReturns(p)
        \/ Abort(p)
        \/ LockRejects(p)
        \/ Unlock(p)

(***************************************************************************)
(* The event loop runs every continuation whose promise is settled, and a  *)
(* task that holds the mutex unlocks it (the "must" of every caller, which *)
(* unlocks in a finally block).  Nobody has to lock, or to abort.          *)
(***************************************************************************)
Fairness ==
    \A p \in Tasks :
        /\ WF_vars(LockReturns(p))
        /\ WF_vars(LockRejects(p))
        /\ WF_vars(Unlock(p))

Spec == Init /\ [][Next]_vars
FairSpec == Spec /\ Fairness

-----------------------------------------------------------------------------
\* The fields have the types the class gives them, and a resolver is on the
\* list once at most.
TypeOK ==
    /\ locked \in BOOLEAN
    /\ waiters \in Seq(Tasks)
    /\ Distinct(waiters)
    /\ pc \in [Tasks -> PC]
    /\ ahead \in [Tasks -> SUBSET Tasks]

(***************************************************************************)
(* At most one task owns the mutex, counting a task that was handed it and *)
(* has not run yet, and the mutex is locked while one does: tryLock() of a *)
(* third task between the hand-off and the continuation must fail          *)
(* (mutex.ts, tryLock, lock and unlock).                                   *)
(***************************************************************************)
MutualExclusion ==
    /\ \A p, q \in Tasks : Owns(p) /\ Owns(q) => p = q
    /\ \A p \in Tasks : Owns(p) => locked

(***************************************************************************)
(* Nobody waits for a mutex that is free: there is no interleaving of      *)
(* unlock(), lock(), tryLock() and aborts in which the last unlock() skips *)
(* a task that is waiting (mutex.ts, unlock).                              *)
(***************************************************************************)
NoWaitOnFreeLock == Waiting # {} => locked

(***************************************************************************)
(* "The order of lock acquisition is guaranteed to be FIFO": a task that   *)
(* owns the mutex has overtaken nobody that was waiting when it began to,  *)
(* whatever was aborted in between, and tryLock() takes a free mutex only  *)
(* when nobody waits (mutex.ts:11).                                        *)
(***************************************************************************)
FifoAcquisition ==
    \A p \in Tasks : Owns(p) => ahead[p] = {}

(***************************************************************************)
(* A mutex that is locked is owned: it was not handed to a task that will  *)
(* never unlock it (mutex.ts, unlock and the abort listener of lock).      *)
(***************************************************************************)
LockedIsOwned == locked => \E p \in Tasks : Owns(p)

(***************************************************************************)
(* The code keeps this with one exception: a mutex that is owned stays     *)
(* owned or becomes free, unless unlock() hands it to a waiter that has    *)
(* aborted and whose continuation has not run (mutex.ts:62).               *)
(***************************************************************************)
LostToAbortedOnly ==
    [][LockedIsOwned =>
         LockedIsOwned' \/ (waiters # <<>> /\ pc[Head(waiters)] = "aborted")]_vars

(***************************************************************************)
(* Every task that waits gets the mutex or aborts, as long as the mutex is *)
(* not lost that way (mutex.ts, lock and unlock).                          *)
(***************************************************************************)
EveryLockReturns ==
    []LockedIsOwned => \A p \in Tasks : pc[p] = "waiting" ~> pc[p] # "waiting"
=============================================================================
