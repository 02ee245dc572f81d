-------------------------------- MODULE Signal --------------------------------
(***************************************************************************)
(* The signal of async/synchro/signal.ts, for tasks that wait for it and   *)
(* others that raise and reset it.                                         *)
(*                                                                         *)
(* Nobody holds waitersLock across an await: what a call does under it is  *)
(* one step, taken when it gets the lock.  signal() and wait() do not      *)
(* serve the queue, but ask for a run of handleWaiters, which itself       *)
(* awaits the lock before it looks at the signal (see Semaphore for        *)
(* serializeQueueNext).  As there, continuations run in any order.         *)
(***************************************************************************)
EXTENDS EcmaArray

CONSTANTS
    Tasks,
    Abortable,      \* the tasks that give wait() an AbortSignal
    Modes,          \* autoReset, the constructor's argument, is one of these
    MaxSignals      \* bound: the times it is raised, the first state included

ASSUME SignalAssumption ==
    /\ Abortable \subseteq Tasks
    /\ Modes \subseteq BOOLEAN
    /\ MaxSignals \in Nat \ {0}

VARIABLES
    autoReset,
    signaled,   \* the field signaled_
    waiters,    \* the tasks whose resolvers are queued
    pc,         \* where each call of wait() is
    promise,    \* its promise: "pending", "resolved" or "rejected"
    run,        \* the run of handleWaiters that is not over
    queued,     \* is another one requested?
    signals,    \* the calls of signal() so far
    released,   \* history: the waiters a signal that resets itself released
    ahead       \* history: the tasks that waited when one began to

signalVars == <<autoReset, signaled, waiters, pc, promise, run, queued>>
vars == <<signalVars, signals, released, ahead>>

(***************************************************************************)
(* "entering" and "leaving" calls await waitersLock; "current" and "next"  *)
(* ones a run of the handler; "deferred" ones their own promise.           *)
(***************************************************************************)
PC == {"idle", "entering", "current", "next", "deferred", "leaving"}

Waiting(p) == Contains(waiters, p) /\ promise[p] = "pending"

Init ==
    /\ autoReset \in Modes
    /\ signaled \in BOOLEAN
    /\ waiters = <<>>
    /\ pc = [p \in Tasks |-> "idle"]
    /\ promise = [p \in Tasks |-> "pending"]
    /\ run = "none"
    /\ queued = FALSE
    /\ signals = IF signaled THEN 1 ELSE 0
    /\ released = 0
    /\ ahead = [p \in Tasks |-> {}]

-----------------------------------------------------------------------------
\* handleWaitersSqn(): a run starts, up to its await, or the next is requested.
RequestRun ==
    \/ /\ run = "none"
       /\ run' = "locking"
       /\ queued' = FALSE
    \/ /\ run # "none"
       /\ run' = run
       /\ queued' = TRUE

\* signal()
Raise ==
    /\ signals < MaxSignals
    /\ signals' = signals + 1
    /\ signaled' = TRUE
    /\ RequestRun
    /\ UNCHANGED <<autoReset, waiters, pc, promise, released, ahead>>

\* reset()
Reset ==
    /\ signaled
    /\ signaled' = FALSE
    /\ UNCHANGED <<autoReset, waiters, pc, promise, run, queued, signals,
                   released, ahead>>

-----------------------------------------------------------------------------
\* wait() up to waitersLock.lock().
Wait(p) ==
    /\ pc[p] = "idle"
    /\ pc' = [pc EXCEPT ![p] = "entering"]
    /\ UNCHANGED <<autoReset, signaled, waiters, promise, run, queued, signals,
                   released, ahead>>

\* Variant: the handler is not asked to look at the new waiter.
WaitEntersSilently(p) ==
    /\ pc[p] = "entering" /\ promise[p] = "pending"
    /\ waiters' = Append(waiters, p)
    /\ ahead' = [ahead EXCEPT ![p] = {q \in Tasks : Waiting(q)}]
    /\ pc' = [pc EXCEPT ![p] = "deferred"]
    /\ UNCHANGED <<autoReset, signaled, promise, run, queued, signals, released>>

(***************************************************************************)
(* With the lock, the resolver is queued and the handler asked for; if the *)
(* AbortSignal has aborted by then, the call goes on to its cleanup.       *)
(***************************************************************************)
WaitEnters(p) ==
    /\ pc[p] = "entering"
    /\ waiters' = Append(waiters, p)
    /\ ahead' = [ahead EXCEPT ![p] = {q \in Tasks : Waiting(q)}]
    /\ \/ /\ promise[p] = "pending"
          /\ pc' = [pc EXCEPT ![p] = IF run = "none" THEN "current" ELSE "next"]
          /\ RequestRun
       \/ /\ promise[p] = "rejected"
          /\ pc' = [pc EXCEPT ![p] = "leaving"]
          /\ UNCHANGED <<run, queued>>
    /\ UNCHANGED <<autoReset, signaled, promise, signals, released>>

\* The AbortSignal of a call aborts: handleAbort rejects its promise.
Abort(p) ==
    /\ p \in Abortable
    /\ pc[p] \in {"entering", "current", "next", "deferred"}
    /\ promise[p] = "pending"
    /\ promise' = [promise EXCEPT ![p] = "rejected"]
    /\ ahead' = [q \in Tasks |-> ahead[q] \ {p}]
    /\ UNCHANGED <<autoReset, signaled, waiters, pc, run, queued, signals,
                   released>>

\* wait() after both awaits, up to the lock of its cleanup.
WaitSettles(p) ==
    /\ pc[p] = "deferred" /\ promise[p] # "pending"
    /\ pc' = [pc EXCEPT ![p] = "leaving"]
    /\ UNCHANGED <<autoReset, signaled, waiters, promise, run, queued, signals,
                   released, ahead>>

\* With the lock, the resolver leaves the queue, and wait() returns or throws.
WaitReturns(p) ==
    /\ pc[p] = "leaving"
    /\ waiters' = RemoveSafe(waiters, p)
    /\ pc' = [pc EXCEPT ![p] = "idle"]
    /\ promise' = [promise EXCEPT ![p] = "pending"]
    /\ ahead' = [ahead EXCEPT ![p] = {}]
    /\ UNCHANGED <<autoReset, signaled, run, queued, signals, released>>

-----------------------------------------------------------------------------
\* The resolvers of the tasks in "served" are called.
Release(served) ==
    /\ promise' = [p \in Tasks |-> IF Contains(served, p) /\ promise[p] = "pending"
                                   THEN "resolved" ELSE promise[p]]
    /\ ahead' = [p \in Tasks |-> ahead[p] \ ToSet(served)]
    /\ released' = released + (IF autoReset THEN Len(served) ELSE 0)

\* Variant: the signal is reset whether or not there is a waiter.
HandleWaitersResetsFirst ==
    /\ run = "locking"
    /\ run' = "handled"
    /\ LET n == IF ~signaled \/ waiters = <<>> THEN 0
                ELSE IF autoReset THEN 1 ELSE Len(waiters) IN
       /\ waiters' = SubSeq(waiters, n + 1, Len(waiters))
       /\ Release(SubSeq(waiters, 1, n))
    /\ signaled' = (signaled /\ ~autoReset)
    /\ UNCHANGED <<autoReset, pc, queued, signals>>

(***************************************************************************)
(* handleWaiters with the lock: one waiter takes a signal that resets      *)
(* itself, aborted or not; all take one that does not.                     *)
(***************************************************************************)
HandleWaiters ==
    /\ run = "locking"
    /\ run' = "handled"
    /\ LET n == IF ~signaled \/ waiters = <<>> THEN 0
                ELSE IF autoReset THEN 1 ELSE Len(waiters) IN
       /\ waiters' = SubSeq(waiters, n + 1, Len(waiters))
       /\ Release(SubSeq(waiters, 1, n))
       /\ signaled' = (signaled /\ ~(autoReset /\ n > 0))
    /\ UNCHANGED <<autoReset, pc, queued, signals>>

\* The promise of the run is resolved: the calls that await it go on.
RunResolves ==
    /\ run = "handled"
    /\ run' = "resolved"
    /\ pc' = [p \in Tasks |-> IF pc[p] = "current" THEN "deferred" ELSE pc[p]]
    /\ UNCHANGED <<autoReset, signaled, waiters, promise, queued, signals,
                   released, ahead>>

\* Variant: a request made during a run is forgotten.
RunEndsForgetsRequest ==
    /\ run = "resolved"
    /\ run' = "none"
    /\ queued' = FALSE
    /\ pc' = [p \in Tasks |-> IF pc[p] = "next" THEN "deferred" ELSE pc[p]]
    /\ UNCHANGED <<autoReset, signaled, waiters, promise, signals, released,
                   ahead>>

\* The run is over; the next one starts, up to its await.
RunEnds ==
    /\ run = "resolved"
    /\ run' = IF queued THEN "locking" ELSE "none"
    /\ queued' = FALSE
    /\ pc' = [p \in Tasks |-> IF pc[p] = "next" THEN "current" ELSE pc[p]]
    /\ UNCHANGED <<autoReset, signaled, waiters, promise, signals, released,
                   ahead>>

Next ==
    \/ Raise
    \/ Reset
    \/ \E p \in Tasks : Wait(p)
    \/ \E p \in Tasks : WaitEnters(p)
    \/ \E p \in Tasks : Abort(p)
    \/ \E p \in Tasks : WaitSettles(p)
    \/ \E p \in Tasks : WaitReturns(p)
    \/ HandleWaiters
    \/ RunResolves
    \/ RunEnds

\* The event loop runs every continuation; nobody has to raise the signal.
Fairness ==
    /\ WF_vars(HandleWaiters) /\ WF_vars(RunResolves) /\ WF_vars(RunEnds)
    /\ \A p \in Tasks :
          /\ WF_vars(WaitEnters(p))
          /\ WF_vars(WaitSettles(p))
          /\ WF_vars(WaitReturns(p))

Spec == Init /\ [][Next]_vars
FairSpec == Spec /\ Fairness

-----------------------------------------------------------------------------
\* A resolver is queued once at most, and only while its call is under way.
TypeOK ==
    /\ autoReset \in Modes /\ signaled \in BOOLEAN
    /\ waiters \in Seq(Tasks)
    /\ Distinct(waiters)
    /\ pc \in [Tasks -> PC]
    /\ promise \in [Tasks -> {"pending", "resolved", "rejected"}]
    /\ \A p \in Tasks : pc[p] \in {"idle", "entering"} => ~Contains(waiters, p)
    /\ run \in {"none", "locking", "handled", "resolved"}
    /\ queued \in BOOLEAN
    /\ signals \in 0..MaxSignals /\ released \in Nat
    /\ ahead \in [Tasks -> SUBSET Tasks]

(***************************************************************************)
(* No task waits beside a signal that is raised once the handler is done:  *)
(* a signal() or a wait() during a run is not forgotten, although the run  *)
(* may already have looked (signal.ts:100, 143, 164).                      *)
(***************************************************************************)
NoWaitBesideSignal ==
    run = "none" /\ signaled => \A p \in Tasks : ~Waiting(p)

(***************************************************************************)
(* "Acting like a binary semaphore": a signal that resets itself releases  *)
(* one waiter at most for each time it was raised, whatever runs of the    *)
(* handler and resets fall between (signal.ts:16, 165).                    *)
(***************************************************************************)
OneWaiterPerSignal ==
    autoReset => released + (IF signaled THEN 1 ELSE 0) <= signals

(***************************************************************************)
(* "Waiters are released in FIFO order": a task that was released overtook *)
(* nobody that was queued when it came to the queue (signal.ts:11, 164).   *)
(***************************************************************************)
FifoRelease ==
    \A p \in Tasks : promise[p] = "resolved" => ahead[p] = {}

(***************************************************************************)
(* A signal is used up by a task that waits for it, with one exception:    *)
(* the first of the queue has aborted and not left it (signal.ts:164).     *)
(***************************************************************************)
SignalLostToAbortedOnly ==
    [][HandleWaiters /\ signaled /\ ~signaled' =>
         \/ \E p \in Tasks : promise[p] = "pending" /\ promise'[p] = "resolved"
         \/ waiters # <<>> /\ promise[Head(waiters)] = "rejected"]_vars

(***************************************************************************)
(* "When the signal is in the signaled state, calls to `wait` will resolve *)
(* immediately": if it stays so, every call returns (signal.ts:9, 143).    *)
(***************************************************************************)
EveryWaitReturns ==
    <>[]signaled => \A p \in Tasks : pc[p] # "idle" ~> pc[p] = "idle"

(***************************************************************************)
(* Raised signals and waiters find each other, one to one if the signal    *)
(* resets itself, first come first served, whatever runs of the handler,   *)
(* resets and aborts fall between (signal.ts:11, 16, 164).                 *)
(***************************************************************************)
WaitersReleased ==
    /\ TypeOK
    /\ NoWaitBesideSignal
    /\ OneWaiterPerSignal
    /\ FifoRelease
=============================================================================
