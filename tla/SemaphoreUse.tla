----------------------------- MODULE SemaphoreUse -----------------------------
(***************************************************************************)
(* Tasks that share the permits of a Semaphore: each acquires some, maybe  *)
(* with tryAcquire() or with a signal that aborts, and gives them back.    *)
(* Somebody may release permits that nobody acquired.                      *)
(***************************************************************************)
EXTENDS Semaphore

CONSTANTS
    Abortable,      \* the tasks that give acquire() an AbortSignal
    TryAcquirers,   \* those that may use tryAcquire()
    Counts,         \* the numbers of permits the tasks ask for
    Posts,          \* the numbers of permits released without an acquire
    MaxIssued       \* bound: the permits that are ever created

ASSUME TaskAssumption == Abortable \subseteq Tasks /\ TryAcquirers \subseteq Tasks
ASSUME CountAssumption == Counts \subseteq Nat \ {0} /\ Posts \subseteq Nat \ {0}
ASSUME BoundAssumption == MaxIssued \in Nat

VARIABLES
    held,       \* the permits each task has and knows of
    issued,     \* history: the permits there are, taken or not
    lost,       \* history: those taken for calls that were aborted
    ahead,      \* history: the tasks already waiting when a task began to
    barged,     \* history: the tasks that took theirs with tryAcquire()
    skipped     \* history: the head aborted, and no handler has run since

history == <<lost, ahead, skipped>>
vars == <<semVars, held, issued, barged, history>>

Init ==
    /\ SemInit
    /\ held = [p \in Tasks |-> 0]
    /\ issued = InitialValue
    /\ lost = 0
    /\ ahead = [p \in Tasks |-> {}]
    /\ barged = {}
    /\ skipped = FALSE

-----------------------------------------------------------------------------
TryTake(p, count) ==
    /\ p \in TryAcquirers
    /\ pc[p] = "idle" /\ held[p] = 0
    /\ TryAcquire(count)
    /\ held' = [held EXCEPT ![p] = count]
    /\ barged' = barged \cup {p}
    /\ issued' = issued

Take(p, count) ==
    /\ held[p] = 0
    /\ Acquire(p, count)
    /\ UNCHANGED <<held, barged, issued>>

TakeSettles(p) ==
    /\ AcquireSettles(p)
    /\ held' = [held EXCEPT ![p] = IF Granted(p) THEN need[p] ELSE 0]
    /\ UNCHANGED <<barged, issued>>

Abort(p) ==
    /\ p \in Abortable
    /\ AbortAcquire(p)
    /\ UNCHANGED <<held, barged, issued>>

GiveBack(p) ==
    /\ held[p] > 0
    /\ Release(held[p])
    /\ held' = [held EXCEPT ![p] = 0]
    /\ barged' = barged \ {p}
    /\ issued' = issued

Post(count) ==
    /\ issued + count <= MaxIssued
    /\ Release(count)
    /\ issued' = issued + count
    /\ UNCHANGED <<held, barged>>

HandlerRuns ==
    /\ RunResolves \/ RunEnds
    /\ UNCHANGED <<held, barged, issued>>

(***************************************************************************)
(* The history.  A rejected call that leaves the queue without having gone *)
(* on was served by the handler.                                           *)
(***************************************************************************)
Served(q) == Contains(pending, q) /\ ~Contains(pending', q)

Remember ==
    /\ lost' = lost + SumOf(
          {q \in Tasks : Served(q) /\ promise[q] = "rejected" /\ pc'[q] # "idle"}, need)
    /\ ahead' = [q \in Tasks |->
          IF pc'[q] = "idle" /\ held'[q] = 0 THEN {}
          ELSE (IF pc[q] = "idle" /\ held[q] = 0 THEN Waiting ELSE ahead[q])
               \cap Waiting']
    /\ skipped' =
          /\ ~(run # "running" /\ run' = "running")
          /\ \/ skipped
             \/ /\ pending # <<>>
                /\ pc[Head(pending)] # "idle" /\ pc'[Head(pending)] = "idle"

Next ==
    /\ \/ \E p \in Tasks, count \in Counts : TryTake(p, count)
       \/ \E p \in Tasks, count \in Counts : Take(p, count)
       \/ \E p \in Tasks : TakeSettles(p)
       \/ \E p \in Tasks : Abort(p)
       \/ \E p \in Tasks : GiveBack(p)
       \/ \E count \in Posts : Post(count)
       \/ HandlerRuns
    /\ Remember

(***************************************************************************)
(* The event loop runs the continuations; the tasks release what they      *)
(* acquired.                                                               *)
(***************************************************************************)
Fairness ==
    /\ WF_vars(HandlerRuns /\ Remember)
    /\ \A p \in Tasks :
          /\ WF_vars(TakeSettles(p) /\ Remember)
          /\ WF_vars(GiveBack(p) /\ Remember)

Spec == Init /\ [][Next]_vars
FairSpec == Spec /\ Fairness

-----------------------------------------------------------------------------
\* The permits stay within bounds, and a call is pending once at most.
TypeOK ==
    /\ SemTypeOK
    /\ held \in [Tasks -> Counts \cup {0}]
    /\ issued \in Nat
    /\ lost \in Nat
    /\ ahead \in [Tasks -> SUBSET Tasks]
    /\ barged \subseteq Tasks
    /\ skipped \in BOOLEAN

Has(p) == Granted(p) \/ held[p] > 0

(***************************************************************************)
(* "The order of permit acquisition is guaranteed to be FIFO": a task that *)
(* got its permits from acquire() overtook nobody that was waiting when it *)
(* asked for them, whatever was aborted in between (semaphore.ts:20).      *)
(* tryAcquire() makes no such promise: it does not look at the queue.      *)
(***************************************************************************)
FifoAcquisition ==
    \A p \in Tasks \ barged : Has(p) => ahead[p] = {}

(***************************************************************************)
(* No permit is made up, and none is lost but those that                   *)
(* handlePendingAcquisitions takes for calls that were aborted: every      *)
(* other one is available or has an owner (semaphore.ts:158).              *)
(***************************************************************************)
Owned == [p \in Tasks |-> held[p] + (IF Granted(p) THEN need[p] ELSE 0)]

PermitsConserved == issued = value + lost + SumOf(Tasks, Owned)

(***************************************************************************)
(* "Each acquire call blocks if necessary until a permit is available, and *)
(* then takes it": once no run of the handler is under way, the first call *)
(* of the queue waits only because the permits do not suffice, unless the  *)
(* one before it was aborted, which runs no handler (semaphore.ts:13, 134).*)
(***************************************************************************)
NoPermitIdle ==
    run = "none" /\ pending # <<>> /\ ~skipped
    => \/ value < need[Head(pending)]
       \/ promise[Head(pending)] = "rejected"

(***************************************************************************)
(* Every call of acquire() returns when the tasks release what they have   *)
(* and ask for no more than there is, provided no call aborts, no task     *)
(* barges and nobody releases permits in excess, which would make the      *)
(* release() of a task throw (semaphore.ts:145, 158).                      *)
(***************************************************************************)
EveryAcquireReturns ==
    []( /\ \A p \in Tasks : promise[p] # "rejected" /\ need[p] <= issued
        /\ barged = {}
        /\ issued <= MaxValue )
    => \A p \in Tasks : p \in Waiting ~> p \notin Waiting

(***************************************************************************)
(* No permit is lost or left idle and no call is overtaken, however runs   *)
(* of the queue handler, aborts and releases fall together                 *)
(* (semaphore.ts:20, 134, 158).                                            *)
(***************************************************************************)
PermitsGoInOrder ==
    /\ TypeOK
    /\ PermitsConserved
    /\ FifoAcquisition
    /\ NoPermitIdle
=============================================================================
