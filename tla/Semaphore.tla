------------------------------ MODULE Semaphore ------------------------------
(***************************************************************************)
(* The counting semaphore of async/synchro/semaphore.ts: its state and the *)
(* steps of its calls.  Modules SemaphoreUse and BlockingQueue add the     *)
(* tasks that call it.                                                     *)
(*                                                                         *)
(* acquire() and release() do not serve the queue themselves: they ask for *)
(* a run of handlePendingAcquisitions through serializeQueueNext, which    *)
(* runs it at once, or once more after the run that is under way.  The     *)
(* function that runs is synchronous; the run is over some microtasks      *)
(* later, and requests made until then share the next one.  acquire()      *)
(* awaits that run, then its own promise.                                  *)
(*                                                                         *)
(* As in Mutex, the continuations of settled promises run in any order.    *)
(***************************************************************************)
EXTENDS EcmaArray, FiniteSets

CONSTANTS
    Tasks,
    MaxValue,       \* the constructor's arguments
    InitialValue

ASSUME ValueAssumption == MaxValue \in Nat /\ InitialValue \in 0..MaxValue

VARIABLES
    value,      \* the field value_
    pending,    \* the field pendingAcquisitions: the tasks, in order
    need,       \* the count of each task's call of acquire()
    promise,    \* its promise: "pending", "resolved" or "rejected"
    pc,         \* what it awaits
    run,        \* the run of handlePendingAcquisitions that is not over
    queued      \* is another one requested (nextDeferred)?

semVars == <<value, pending, need, promise, pc, run, queued>>

(***************************************************************************)
(* "current" and "next": acquire() awaits the run under way, or the next;  *)
(* "deferred": it awaits its own promise.                                  *)
(***************************************************************************)
PC == {"idle", "current", "next", "deferred"}

SemInit ==
    /\ value = InitialValue
    /\ pending = <<>>
    /\ need = [p \in Tasks |-> 0]
    /\ promise = [p \in Tasks |-> "pending"]
    /\ pc = [p \in Tasks |-> "idle"]
    /\ run = "none"
    /\ queued = FALSE

-----------------------------------------------------------------------------
\* The permits of some tasks, numbered for each, and how many they are.
Permits(tasks, counts) == UNION {{q} \X (1..counts[q]) : q \in tasks}
SumOf(tasks, counts) == Cardinality(Permits(tasks, counts))

\* Variant: the calls the permits suffice for are served, in any position.
HandleWhateverFits(list, permits, needs, promises) ==
    LET fits == SelectSeq(list, LAMBDA q : needs[q] <= permits)
        served == IF fits = <<>> THEN <<>> ELSE <<Head(fits)>>
    IN  /\ value' = permits - SumOf(ToSet(served), needs)
        /\ pending' = SelectSeq(list, LAMBDA q : ~Contains(served, q))
        /\ promise' = [q \in Tasks |->
                         IF Contains(served, q) /\ promises[q] = "pending"
                         THEN "resolved" ELSE promises[q]]

(***************************************************************************)
(* handlePendingAcquisitions on the queue "list" with "permits" available: *)
(* it serves the longest prefix of the queue the permits suffice for.  The *)
(* permits of a call that was rejected meanwhile are taken all the same.   *)
(***************************************************************************)
HandlePendingAcquisitions(list, permits, needs, promises) ==
    LET first(k) == ToSet(SubSeq(list, 1, k))
        n == CHOOSE k \in 0..Len(list) :
               /\ SumOf(first(k), needs) <= permits
               /\ k < Len(list) => SumOf(first(k + 1), needs) > permits
        served == first(n)
    IN  /\ value' = permits - SumOf(served, needs)
        /\ pending' = SubSeq(list, n + 1, Len(list))
        /\ promise' = [q \in Tasks |->
                         IF q \in served /\ promises[q] = "pending"
                         THEN "resolved" ELSE promises[q]]

(***************************************************************************)
(* A call of handlePendingAcquisitionsSqn: a run starts now, or the next   *)
(* one is requested.                                                       *)
(***************************************************************************)
RequestRun(list, permits, needs, promises) ==
    \/ /\ run = "none"
       /\ run' = "running"
       /\ queued' = FALSE
       /\ HandlePendingAcquisitions(list, permits, needs, promises)
    \/ /\ run # "none"
       /\ run' = run
       /\ queued' = TRUE
       /\ value' = permits
       /\ pending' = list
       /\ promise' = promises

-----------------------------------------------------------------------------
\* tryAcquire(count) that returns true; it does not look at the queue.
TryAcquire(count) ==
    /\ value >= count
    /\ value' = value - count
    /\ UNCHANGED <<pending, need, promise, pc, run, queued>>

\* acquire(count, signal) up to its first await.
Acquire(p, count) ==
    /\ pc[p] = "idle"
    /\ need' = [need EXCEPT ![p] = count]
    /\ pc' = [pc EXCEPT ![p] = IF run = "none" THEN "current" ELSE "next"]
    /\ RequestRun(Append(pending, p), value, need', promise)

\* The signal of a call aborts: handleAbort rejects its promise.
AbortAcquire(p) ==
    /\ pc[p] # "idle"
    /\ promise[p] = "pending"
    /\ promise' = [promise EXCEPT ![p] = "rejected"]
    /\ UNCHANGED <<value, pending, need, pc, run, queued>>

(***************************************************************************)
(* acquire() after both awaits: the finally block, and the return, or the  *)
(* throw if the promise was rejected.  The call's own data are no longer   *)
(* anybody's then, and are reset.                                          *)
(***************************************************************************)
AcquireSettles(p) ==
    /\ pc[p] = "deferred"
    /\ promise[p] # "pending"
    /\ pending' = RemoveSafe(pending, p)
    /\ pc' = [pc EXCEPT ![p] = "idle"]
    /\ promise' = [promise EXCEPT ![p] = "pending"]
    /\ need' = [need EXCEPT ![p] = 0]
    /\ UNCHANGED <<value, run, queued>>

\* release(count); one that would exceed MaxValue throws and changes nothing.
Release(count) ==
    /\ value + count <= MaxValue
    /\ RequestRun(pending, value + count, need, promise)
    /\ UNCHANGED <<need, pc>>

\* The promise of the run is resolved: the calls that await it go on.
RunResolves ==
    /\ run = "running"
    /\ run' = "resolved"
    /\ pc' = [q \in Tasks |-> IF pc[q] = "current" THEN "deferred" ELSE pc[q]]
    /\ UNCHANGED <<value, pending, need, promise, queued>>

\* Variant: a request made during a run is forgotten.
RunEndsForgetsRequest ==
    /\ run = "resolved"
    /\ run' = "none"
    /\ queued' = FALSE
    /\ pc' = [q \in Tasks |-> IF pc[q] = "next" THEN "deferred" ELSE pc[q]]
    /\ UNCHANGED <<value, pending, need, promise>>

\* The run is over (the finally of serializeQueueNext): the next one starts.
RunEnds ==
    /\ run = "resolved"
    /\ \/ /\ queued
          /\ run' = "running"
          /\ HandlePendingAcquisitions(pending, value, need, promise)
          /\ pc' = [q \in Tasks |-> IF pc[q] = "next" THEN "current" ELSE pc[q]]
       \/ /\ ~queued
          /\ run' = "none"
          /\ UNCHANGED <<value, pending, promise, pc>>
    /\ queued' = FALSE
    /\ need' = need

-----------------------------------------------------------------------------
\* The permits stay within bounds, and a call is pending once at most.
SemTypeOK ==
    /\ value \in 0..MaxValue
    /\ pending \in Seq(Tasks)
    /\ Distinct(pending)
    /\ need \in [Tasks -> Nat]
    /\ promise \in [Tasks -> {"pending", "resolved", "rejected"}]
    /\ pc \in [Tasks -> PC]
    /\ run \in {"none", "running", "resolved"}
    /\ queued \in BOOLEAN

\* The permits of p's call are p's, although its acquire() has not returned.
Granted(p) == pc[p] # "idle" /\ promise[p] = "resolved"

Waiting == {q \in Tasks : pc[q] # "idle" /\ promise[q] = "pending"}
=============================================================================
