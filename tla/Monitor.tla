------------------------------- MODULE Monitor -------------------------------
(***************************************************************************)
(* A mutex and a condition variable as their users may think of them: a    *)
(* task that waits gives up the mutex and goes to sleep in one step, so no *)
(* signal sent after the mutex was given up is missed.                     *)
(*                                                                         *)
(* This is what Condition (condition.ts) and Mutex (mutex.ts) promise      *)
(* together.  Module Condition has the steps the code takes and is checked *)
(* to implement this one; module RwLock is built on it.                    *)
(*                                                                         *)
(* Aborts are part of the promise as the code keeps it: a task that aborts *)
(* stays on its list until its own continuation runs, and a hand-off or a  *)
(* signal sent to it meanwhile is lost.                                    *)
(***************************************************************************)
EXTENDS EcmaArray

CONSTANTS
    Tasks,          \* the tasks that use the monitor
    EntryAbortable, \* those that give lock() an AbortSignal
    WaitAbortable   \* those that give wait() an AbortSignal

ASSUME EntryAbortableAssumption == EntryAbortable \subseteq Tasks
ASSUME WaitAbortableAssumption == WaitAbortable \subseteq Tasks

VARIABLES
    locked,     \* is the mutex taken?
    entry,      \* the tasks queued for the mutex
    sleepers,   \* the tasks queued for a signal
    at,         \* where each task is
    failed      \* the tasks whose wait was aborted and has not returned

monitorVars == <<locked, entry, sleepers, at, failed>>

(***************************************************************************)
(* "entering" and "returning" tasks are queued for the mutex, from outside *)
(* and out of wait(); an "inside" task owns it.  A "sleeping" task waits   *)
(* for a signal, a "woken" one has had it and a "quitting" one aborted,    *)
(* but neither has left the queue yet.                                     *)
(***************************************************************************)
Place == {"outside", "entering", "rejected", "inside",
          "sleeping", "woken", "quitting", "returning"}

MonitorInit ==
    /\ locked = FALSE
    /\ entry = <<>>
    /\ sleepers = <<>>
    /\ at = [p \in Tasks |-> "outside"]
    /\ failed = {}

-----------------------------------------------------------------------------
\* Mutex.lock: take the mutex or queue for it.
Take(p, queued) ==
    \/ /\ ~locked
       /\ locked' = TRUE
       /\ at' = [at EXCEPT ![p] = "inside"]
       /\ entry' = entry
    \/ /\ locked
       /\ at' = [at EXCEPT ![p] = queued]
       /\ entry' = Append(entry, p)
       /\ locked' = locked

\* Mutex.unlock by p, which is then at "next": the head of the queue gets the
\* mutex, or it is free.  A head that aborted takes the mutex with it.
Give(p, next) ==
    \/ /\ entry = <<>>
       /\ locked' = FALSE
       /\ at' = [at EXCEPT ![p] = next]
       /\ entry' = entry
    \/ /\ entry # <<>>
       /\ entry' = Tail(entry)
       /\ LET w == Head(entry) IN
          at' = [at EXCEPT
                  ![p] = next,
                  ![w] = IF @ = "rejected" THEN @ ELSE "inside"]
       /\ locked' = locked

Enter(p) ==
    /\ at[p] = "outside"
    /\ Take(p, "entering")
    /\ UNCHANGED <<sleepers, failed>>

\* The signal of a task queued in lock(signal) aborts.
AbortEntry(p) ==
    /\ p \in EntryAbortable
    /\ at[p] = "entering"
    /\ at' = [at EXCEPT ![p] = "rejected"]
    /\ UNCHANGED <<locked, entry, sleepers, failed>>

\* Its lock() throws.
EntryRejects(p) ==
    /\ at[p] = "rejected"
    /\ entry' = RemoveSafe(entry, p)
    /\ at' = [at EXCEPT ![p] = "outside"]
    /\ UNCHANGED <<locked, sleepers, failed>>

Leave(p) ==
    /\ at[p] = "inside"
    /\ Give(p, "outside")
    /\ failed' = failed \ {p}
    /\ UNCHANGED sleepers

\* Condition.wait up to its suspension.
Wait(p) ==
    /\ at[p] = "inside"
    /\ Give(p, "sleeping")
    /\ sleepers' = Append(sleepers, p)
    /\ failed' = failed \ {p}

\* The places after the deferred promises of the tasks in "who" are resolved:
\* resolving one that was rejected has no effect.
Woken(who) ==
    [q \in Tasks |-> IF q \in who /\ at[q] = "sleeping" THEN "woken" ELSE at[q]]

\* Condition.signal
Signal(p) ==
    /\ at[p] = "inside"
    /\ sleepers # <<>>
    /\ sleepers' = Tail(sleepers)
    /\ at' = Woken({Head(sleepers)})
    /\ UNCHANGED <<locked, entry, failed>>

\* Condition.broadcast
Broadcast(p) ==
    /\ at[p] = "inside"
    /\ sleepers # <<>>
    /\ sleepers' = <<>>
    /\ at' = Woken(ToSet(sleepers))
    /\ UNCHANGED <<locked, entry, failed>>

\* The signal of a task suspended in wait(lock, signal) aborts.
AbortWait(p) ==
    /\ p \in WaitAbortable
    /\ at[p] = "sleeping"
    /\ at' = [at EXCEPT ![p] = "quitting"]
    /\ failed' = failed \cup {p}
    /\ UNCHANGED <<locked, entry, sleepers>>

\* Condition.wait resumes: it leaves the queue and locks the mutex again, with
\* no AbortSignal.
Return(p) ==
    /\ at[p] \in {"woken", "quitting"}
    /\ sleepers' = RemoveSafe(sleepers, p)
    /\ Take(p, "returning")
    /\ UNCHANGED failed

MonitorNext ==
    \E p \in Tasks :
        \/ Enter(p)
        \/ AbortEntry(p)
        \/ EntryRejects(p)
        \/ Leave(p)
        \/ Wait(p)
        \/ Signal(p)
        \/ Broadcast(p)
        \/ AbortWait(p)
        \/ Return(p)

MonitorSpec == MonitorInit /\ [][MonitorNext]_monitorVars

-----------------------------------------------------------------------------
\* The two queues hold a task once at most.
MonitorTypeOK ==
    /\ Distinct(entry)
    /\ Distinct(sleepers)
    /\ locked \in BOOLEAN
    /\ entry \in Seq(Tasks)
    /\ sleepers \in Seq(Tasks)
    /\ at \in [Tasks -> Place]
    /\ failed \subseteq Tasks

(***************************************************************************)
(* One task at most is inside the monitor, and the mutex is locked then.   *)
(***************************************************************************)
MonitorExclusion ==
    /\ \A p, q \in Tasks : at[p] = "inside" /\ at[q] = "inside" => p = q
    /\ \A p \in Tasks : at[p] = "inside" => locked

(***************************************************************************)
(* A task that sleeps is on the queue a signal takes from, and a task that *)
(* queues for the mutex is on the mutex's: none is forgotten.              *)
(***************************************************************************)
NobodyForgotten ==
    \A p \in Tasks :
        /\ at[p] = "sleeping" => Contains(sleepers, p)
        /\ at[p] \in {"entering", "returning"} => locked /\ Contains(entry, p)
=============================================================================
