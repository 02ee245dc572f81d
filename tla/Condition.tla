------------------------------ MODULE Condition ------------------------------
(***************************************************************************)
(* The condition variable of async/synchro/condition.ts, used with a Mutex *)
(* the way RwLock and Channel use it: a task takes the mutex, waits,       *)
(* signals or broadcasts, awaiting each call, and unlocks the mutex.       *)
(*                                                                         *)
(* wait() unlocks the mutex BEFORE it puts its resolver on the queue, and  *)
(* the queue has a mutex of its own.  Whether a signal can slip into that  *)
(* gap depends on the order in which the event loop runs continuations, so *)
(* this module has the loop's queue: "jobs" is the microtask queue, every  *)
(* await of the code is one job, and jobs run first in first out.  The     *)
(* tasks' own code may run between any two jobs.                           *)
(***************************************************************************)
EXTENDS EcmaArray

CONSTANTS
    Tasks,
    WaitAbortable,  \* the tasks that give wait() an AbortSignal
    TryLockers      \* the tasks that may take the mutex with tryLock()

ASSUME WaitAbortableAssumption == WaitAbortable \subseteq Tasks
ASSUME TryLockersAssumption == TryLockers \subseteq Tasks

VARIABLES
    mx,         \* the two mutexes: the user's, and waitersLock
    waiters,    \* the queue of resolvers
    at,         \* what each task awaits
    why,        \* what each task called Mutex.lock for
    jobs,       \* the microtask queue: the tasks whose await is over
    failed,     \* the tasks whose wait was aborted and has not returned
    asleep,     \* history: the tasks in wait(), in the order they called it
    barged      \* history: the tasks that took the mutex with tryLock()

vars == <<mx, waiters, at, why, jobs, failed, asleep, barged>>

(***************************************************************************)
(* "blocked", "granted", "locked": in Mutex.lock with its promise pending, *)
(* resolved, and with the call returning.  "unlocked": wait() after        *)
(* unlock().  "suspended", "settled": wait() with its own promise pending  *)
(* and settled.  "returned": wait(), signal() or broadcast() returning.    *)
(***************************************************************************)
Await == {"outside", "inside", "unlocked", "blocked", "granted", "locked",
          "suspended", "settled", "returned"}
Purpose == {"enter", "enqueue", "remove", "relock", "signal", "broadcast"}
MutexName == {"mutex", "waitersLock"}

MutexOf(purpose) ==
    IF purpose \in {"enter", "relock"} THEN "mutex" ELSE "waitersLock"

Init ==
    /\ mx = [m \in MutexName |-> [locked |-> FALSE, waiters |-> <<>>]]
    /\ waiters = <<>>
    /\ at = [p \in Tasks |-> "outside"]
    /\ why = [p \in Tasks |-> "enter"]
    /\ jobs = <<>>
    /\ failed = {}
    /\ asleep = <<>>
    /\ barged = {}

-----------------------------------------------------------------------------
(***************************************************************************)
(* The synchronous calls one job makes, as functions on the part of the    *)
(* state they change: c = [mx, at, why, jobs].                             *)
(***************************************************************************)
Now == [mx |-> mx, at |-> at, why |-> why, jobs |-> jobs]

Become(c) ==
    /\ mx' = c.mx
    /\ at' = c.at
    /\ why' = c.why
    /\ jobs' = c.jobs

\* An await of p that is over: p is at "place" and its continuation queued.
Queued(c, p, place) ==
    [c EXCEPT !.at[p] = place, !.jobs = Append(@, p)]

\* The call lock() by p up to its await (mutex.ts).
Locking(c, p, purpose) ==
    LET m == MutexOf(purpose)
        pushed == [c EXCEPT !.mx[m].waiters = Append(@, p),
                            !.why[p] = purpose]
    IN  IF c.mx[m].locked
        THEN [pushed EXCEPT !.at[p] = "blocked"]
        ELSE Queued([pushed EXCEPT !.mx[m].locked = TRUE], p, "granted")

\* The call unlock() (mutex.ts).
Unlocking(c, m) ==
    IF c.mx[m].waiters = <<>>
    THEN [c EXCEPT !.mx[m].locked = FALSE]
    ELSE Queued([c EXCEPT !.mx[m].waiters = Tail(@)],
                Head(c.mx[m].waiters), "granted")

\* The calls of the resolvers of the tasks in the sequence "woken": a promise
\* that was rejected stays so.
Resolving(c, woken) ==
    LET live == SelectSeq(woken, LAMBDA q : c.at[q] = "suspended")
    IN  [c EXCEPT !.at = [q \in Tasks |-> IF Contains(live, q)
                                          THEN "settled" ELSE @[q]],
                  !.jobs = @ \o live]

-----------------------------------------------------------------------------
(***************************************************************************)
(* The user's code.                                                        *)
(***************************************************************************)
Enter(p) ==
    /\ at[p] = "outside"
    /\ Become(Locking(Now, p, "enter"))
    /\ UNCHANGED <<waiters, failed, asleep, barged>>

TryEnter(p) ==
    /\ p \in TryLockers
    /\ at[p] = "outside"
    /\ ~mx["mutex"].locked
    /\ mx' = [mx EXCEPT !["mutex"].locked = TRUE]
    /\ at' = [at EXCEPT ![p] = "inside"]
    /\ barged' = barged \cup {p}
    /\ UNCHANGED <<waiters, why, jobs, failed, asleep>>

Leave(p) ==
    /\ at[p] = "inside"
    /\ Become(Unlocking([Now EXCEPT !.at[p] = "outside"], "mutex"))
    /\ failed' = failed \ {p}
    /\ barged' = barged \ {p}
    /\ UNCHANGED <<waiters, asleep>>

\* wait() up to its first await: the mutex is unlocked, nothing is queued yet.
Wait(p) ==
    /\ at[p] = "inside"
    /\ Become(Queued(Unlocking(Now, "mutex"), p, "unlocked"))
    /\ asleep' = Append(asleep, p)
    /\ failed' = failed \ {p}
    /\ barged' = barged \ {p}
    /\ UNCHANGED waiters

\* signal() and broadcast() up to their first await.
Notify(p) ==
    /\ at[p] = "inside"
    /\ \E purpose \in {"signal", "broadcast"} :
          Become(Locking(Now, p, purpose))
    /\ UNCHANGED <<waiters, failed, asleep, barged>>

\* The signal of a suspended task aborts: handleAbort rejects the promise.
AbortWait(p) ==
    /\ p \in WaitAbortable
    /\ at[p] = "suspended"
    /\ Become(Queued(Now, p, "settled"))
    /\ failed' = failed \cup {p}
    /\ UNCHANGED <<waiters, asleep, barged>>

-----------------------------------------------------------------------------
(***************************************************************************)
(* The jobs.  Runs(p, place): the job at the head of the queue is p's, and *)
(* p is at "place"; Popped is the state without that job.                  *)
(***************************************************************************)
Runs(p, place) ==
    /\ jobs # <<>>
    /\ p = Head(jobs)
    /\ at[p] = place

LockedFor(p, purpose) == Runs(p, "locked") /\ why[p] = purpose

Popped == [Now EXCEPT !.jobs = Tail(@)]

\* Mutex.lock after its await: its resolver leaves the mutex's list.
LockContinues(p) ==
    /\ Runs(p, "granted")
    /\ LET m == MutexOf(why[p]) IN
       Become(Queued([Popped EXCEPT !.mx[m].waiters = RemoveSafe(@, p)],
                     p, "locked"))
    /\ UNCHANGED <<waiters, failed, asleep, barged>>

\* The user's await of lock(), wait(), signal() or broadcast() is over.
UserContinues(p) ==
    /\ LockedFor(p, "enter") \/ Runs(p, "returned")
    /\ Become([Popped EXCEPT !.at[p] = "inside", !.why[p] = "enter"])
    /\ UNCHANGED <<waiters, failed, asleep, barged>>

\* Variant: one more await between the unlocking and the enqueuing.
WaitUnlockedLater(p) ==
    /\ Runs(p, "unlocked")
    /\ \/ why[p] # "enqueue" /\ Become([Queued(Popped, p, "unlocked")
                                     EXCEPT !.why[p] = "enqueue"])
       \/ why[p] = "enqueue" /\ Become(Locking(Popped, p, "enqueue"))
    /\ UNCHANGED <<waiters, failed, asleep, barged>>

\* wait() after unlock() of the mutex.
WaitUnlocked(p) ==
    /\ Runs(p, "unlocked")
    /\ Become(Locking(Popped, p, "enqueue"))
    /\ UNCHANGED <<waiters, failed, asleep, barged>>

\* wait() with waitersLock: it enqueues its resolver, unlocks and suspends,
\* or throws at once because its signal is already aborted.
WaitEnqueues(p) ==
    /\ LockedFor(p, "enqueue")
    /\ waiters' = Append(waiters, p)
    /\ LET c == Unlocking(Popped, "waitersLock") IN
       \/ /\ Become([c EXCEPT !.at[p] = "suspended"])
          /\ failed' = failed
       \/ /\ p \in WaitAbortable
          /\ Become(Locking(c, p, "remove"))
          /\ failed' = failed \cup {p}
    /\ UNCHANGED <<asleep, barged>>

\* wait() after its suspension.
WaitResumes(p) ==
    /\ Runs(p, "settled")
    /\ Become(Locking(Popped, p, "remove"))
    /\ UNCHANGED <<waiters, failed, asleep, barged>>

\* wait() with waitersLock: its resolver leaves the queue if it is still
\* there, and the mutex is locked again.
WaitRemoves(p) ==
    /\ LockedFor(p, "remove")
    /\ waiters' = RemoveSafe(waiters, p)
    /\ Become(Locking(Unlocking(Popped, "waitersLock"), p, "relock"))
    /\ asleep' = RemoveSafe(asleep, p)
    /\ UNCHANGED <<failed, barged>>

WaitRelocked(p) ==
    /\ LockedFor(p, "relock")
    /\ Become(Queued(Popped, p, "returned"))
    /\ UNCHANGED <<waiters, failed, asleep, barged>>

\* Variant: the last resolver is dequeued.
SignalRunsLast(p) ==
    /\ LockedFor(p, "signal")
    /\ LET taken == IF waiters = <<>> THEN <<>> ELSE <<Last(waiters)>>
           c == Unlocking(Popped, "waitersLock")
       IN  /\ Become(Queued(Resolving(c, taken), p, "returned"))
           /\ waiters' = IF waiters = <<>> THEN <<>> ELSE Front(waiters)
           /\ asleep' = SelectSeq(asleep, LAMBDA q : ~Contains(taken, q))
    /\ UNCHANGED <<failed, barged>>

\* signal() with waitersLock: it dequeues a resolver, unlocks and calls it.
SignalRuns(p) ==
    /\ LockedFor(p, "signal")
    /\ LET taken == IF waiters = <<>> THEN <<>> ELSE <<Head(waiters)>>
           c == Unlocking(Popped, "waitersLock")
       IN  /\ Become(Queued(Resolving(c, taken), p, "returned"))
           /\ waiters' = IF waiters = <<>> THEN <<>> ELSE Tail(waiters)
           /\ asleep' = SelectSeq(asleep, LAMBDA q : ~Contains(taken, q))
    /\ UNCHANGED <<failed, barged>>

\* broadcast() with waitersLock: it takes all resolvers, unlocks, calls them.
BroadcastRuns(p) ==
    /\ LockedFor(p, "broadcast")
    /\ LET c == Unlocking(Popped, "waitersLock")
       IN  /\ Become(Queued(Resolving(c, waiters), p, "returned"))
           /\ asleep' = SelectSeq(asleep, LAMBDA q : ~Contains(waiters, q))
    /\ waiters' = <<>>
    /\ UNCHANGED <<failed, barged>>

User(p) ==
    \/ Enter(p)
    \/ TryEnter(p)
    \/ Leave(p)
    \/ Wait(p)
    \/ Notify(p)
    \/ AbortWait(p)

Job(p) ==
    \/ LockContinues(p)
    \/ UserContinues(p)
    \/ WaitUnlocked(p)
    \/ WaitEnqueues(p)
    \/ WaitResumes(p)
    \/ WaitRemoves(p)
    \/ WaitRelocked(p)
    \/ SignalRuns(p)
    \/ BroadcastRuns(p)

Next == \E p \in Tasks : User(p) \/ Job(p)

Spec == Init /\ [][Next]_vars

-----------------------------------------------------------------------------
(***************************************************************************)
(* Where a task is, seen as a user of the monitor: it has been asleep      *)
(* since it called wait(), whatever wait() has done by then.               *)
(***************************************************************************)
PlaceOf(p) ==
    CASE at[p] = "outside" -> "outside"
      [] at[p] \in {"inside", "returned"} -> "inside"
      [] at[p] \in {"unlocked", "suspended"} -> "sleeping"
      [] at[p] = "settled" -> IF p \in failed THEN "quitting" ELSE "woken"
      [] at[p] \in {"blocked", "granted", "locked"} ->
           CASE why[p] \in {"signal", "broadcast"} -> "inside"
             [] why[p] = "enqueue" -> "sleeping"
             [] why[p] = "remove" ->
                  IF p \in failed THEN "quitting" ELSE "woken"
             [] at[p] # "blocked" -> "inside"
             [] why[p] = "enter" -> "entering"
             [] why[p] = "relock" -> "returning"

(***************************************************************************)
(* The gap between unlocking and enqueuing cannot be observed: the code    *)
(* implements the monitor, in which waiting is one step (condition.ts:77). *)
(***************************************************************************)
M == INSTANCE Monitor WITH
        EntryAbortable <- {},
        locked <- mx["mutex"].locked,
        entry <- SelectSeq(mx["mutex"].waiters,
                           LAMBDA q : at[q] = "blocked"),
        sleepers <- asleep,
        at <- [p \in Tasks |-> PlaceOf(p)]

ImplementsMonitor == M!MonitorSpec

(***************************************************************************)
(* "Signal one waiting task, if any", "broadcast to all waiting tasks":    *)
(* when signal() calls a resolver and tasks are asleep, one of them wakes  *)
(* up; when broadcast() does, all of them (condition.ts:38, 52).  The code *)
(* keeps this with two exceptions: signal() meets a wait that aborted and  *)
(* has not left the queue yet, and the task that signals took the mutex    *)
(* with tryLock(), which can be in the gap of wait().                      *)
(***************************************************************************)
Asleep == {q \in Tasks : PlaceOf(q) = "sleeping"}

SignalWakesATask ==
    [][\A p \in Tasks \ barged :
         /\ SignalRuns(p) /\ Asleep # {} =>
               \/ Asleep' # Asleep
               \/ waiters # <<>> /\ PlaceOf(Head(waiters)) = "quitting"
         /\ BroadcastRuns(p) => Asleep' = {}]_vars
=============================================================================
