------------------------------- MODULE RwLock -------------------------------
(***************************************************************************)
(* The read-write lock of async/synchro/rw-lock.ts: two counters and a     *)
(* flag, guarded by a mutex and a condition variable.  It is built on the  *)
(* monitor that Condition and Mutex implement (module Monitor): every step *)
(* of an operation runs inside the monitor, so nothing but an abort or a   *)
(* new call comes between two of them.                                     *)
(*                                                                         *)
(* Tasks follow the protocol of the documentation: a task that holds the   *)
(* lock for reading or for writing releases, upgrades or downgrades it,    *)
(* one that does not hold it acquires it, and a task awaits one operation  *)
(* before the next.  The LockNotAcquiredError of an operation is for the   *)
(* tasks that do not; AcceptsProtocol says the others never meet it.       *)
(***************************************************************************)
EXTENDS Monitor, FiniteSetsExt

CONSTANTS
    Ops,            \* the operations the tasks use
    AbortableOps    \* those they give an AbortSignal that may abort

Acquiring == {"readLock", "writeLock", "readToWriteLock"}
Releasing == {"writeToReadLock", "readUnlock", "writeUnlock"}

ASSUME OpsAssumption == Ops \subseteq Acquiring \cup Releasing
ASSUME AbortableOpsAssumption == AbortableOps \subseteq Ops \cap Acquiring

VARIABLES
    readers,        \* the fields of the class
    writer,
    writersWaiting,
    op,             \* the operation each task awaits, or "none"
    phase,          \* how far the operation is
    holds,          \* what each task may do: "none", "read" or "write"
    upset           \* history: the events that happened of those below

lockVars == <<readers, writer, writersWaiting>>
taskVars == <<op, phase, holds>>
vars == <<monitorVars, lockVars, taskVars, upset>>

(***************************************************************************)
(* The code does not keep its promises after some legal events; "upset"    *)
(* remembers which of them took place, for the properties to say so.       *)
(***************************************************************************)
Event == {"abort", "upgradeAborted", "downgrade"}

Phase == {"start", "loop", "signal", "broadcast", "notified"}

Init ==
    /\ MonitorInit
    /\ readers = 0
    /\ writer = FALSE
    /\ writersWaiting = 0
    /\ op = [p \in Tasks |-> "none"]
    /\ phase = [p \in Tasks |-> "start"]
    /\ holds = [p \in Tasks |-> "none"]
    /\ upset = {}

-----------------------------------------------------------------------------
(***************************************************************************)
(* What a task must hold to call an operation, and what it may rely on     *)
(* while it awaits it.  A task that upgrades is, meanwhile, not a reader:  *)
(* another upgrade may become the writer first.                            *)
(***************************************************************************)
Needs(o) ==
    CASE o \in {"readLock", "writeLock"} -> "none"
      [] o \in {"readToWriteLock", "readUnlock"} -> "read"
      [] o \in {"writeToReadLock", "writeUnlock"} -> "write"

Meanwhile(o) == IF o = "writeToReadLock" THEN "read" ELSE "none"

\* What the task holds when the operation throws.
OnError(o) == IF o = "readToWriteLock" THEN "read" ELSE "none"

Call(p, o) ==
    /\ op[p] = "none"
    /\ holds[p] = Needs(o)
    /\ Enter(p)
    /\ op' = [op EXCEPT ![p] = o]
    /\ holds' = [holds EXCEPT ![p] = Meanwhile(o)]
    /\ UNCHANGED <<lockVars, phase>>

\* The operation of p, which is inside the monitor, ends: mutex.unlock() and
\* the return to the caller.
Finish(p, held) ==
    /\ Leave(p)
    /\ op' = [op EXCEPT ![p] = "none"]
    /\ phase' = [phase EXCEPT ![p] = "start"]
    /\ holds' = [holds EXCEPT ![p] = held]

\* It goes on, still inside the monitor.
GoOn(p, next) ==
    /\ phase' = [phase EXCEPT ![p] = next]
    /\ UNCHANGED <<monitorVars, op, holds>>

\* It waits for the condition.
Suspend(p) ==
    /\ Wait(p)
    /\ phase' = [phase EXCEPT ![p] = "loop"]
    /\ UNCHANGED <<op, holds>>

RunsIn(p, o, phases) ==
    /\ at[p] = "inside"
    /\ op[p] = o
    /\ phase[p] \in phases

\* tryReadLock() and tryWriteLock() that return true: they lock and unlock the
\* mutex in one go.
TryReadLock(p) ==
    /\ op[p] = "none" /\ holds[p] = "none"
    /\ ~locked
    /\ ~writer /\ writersWaiting = 0
    /\ readers' = readers + 1
    /\ holds' = [holds EXCEPT ![p] = "read"]
    /\ UNCHANGED <<monitorVars, writer, writersWaiting, op, phase>>

TryWriteLock(p) ==
    /\ op[p] = "none" /\ holds[p] = "none"
    /\ ~locked
    /\ ~writer /\ readers = 0
    /\ writer' = TRUE
    /\ holds' = [holds EXCEPT ![p] = "write"]
    /\ UNCHANGED <<monitorVars, readers, writersWaiting, op, phase>>

-----------------------------------------------------------------------------
\* readLock(): the loop, the increment and the finally block.
ReadLock(p) ==
    /\ RunsIn(p, "readLock", {"start", "loop"})
    /\ \/ /\ p \in failed
          /\ Finish(p, "none")
          /\ readers' = readers
       \/ /\ p \notin failed
          /\ writer \/ writersWaiting > 0
          /\ Suspend(p)
          /\ readers' = readers
       \/ /\ p \notin failed
          /\ ~writer /\ writersWaiting = 0
          /\ readers' = readers + 1
          /\ Finish(p, "read")
    /\ UNCHANGED <<writer, writersWaiting>>

\* Variant: writeLock() tests its condition once ("if" for "while").
WriteLockTestsOnce(p) ==
    /\ RunsIn(p, "writeLock", {"start", "loop"})
    /\ LET waiting == writersWaiting + (IF phase[p] = "start" THEN 1 ELSE 0) IN
       \/ /\ p \in failed
          /\ Finish(p, "none")
          /\ writersWaiting' = waiting - 1
          /\ writer' = writer
       \/ /\ phase[p] = "start"
          /\ writer \/ readers > 0
          /\ Suspend(p)
          /\ writersWaiting' = waiting
          /\ writer' = writer
       \/ /\ p \notin failed
          /\ phase[p] = "loop" \/ (~writer /\ readers = 0)
          /\ Finish(p, "write")
          /\ writersWaiting' = waiting - 1
          /\ writer' = TRUE
    /\ readers' = readers

\* writeLock(): it counts as waiting from its first run in the monitor on.
WriteLock(p) ==
    /\ RunsIn(p, "writeLock", {"start", "loop"})
    /\ LET waiting == writersWaiting + (IF phase[p] = "start" THEN 1 ELSE 0) IN
       \/ /\ p \in failed
          /\ Finish(p, "none")
          /\ writersWaiting' = waiting - 1
          /\ writer' = writer
       \/ /\ p \notin failed
          /\ writer \/ readers > 0
          /\ Suspend(p)
          /\ writersWaiting' = waiting
          /\ writer' = writer
       \/ /\ p \notin failed
          /\ ~writer /\ readers = 0
          /\ Finish(p, "write")
          /\ writersWaiting' = waiting - 1
          /\ writer' = TRUE
    /\ readers' = readers

\* readToWriteLock() up to its loop: the read lock is given up first.
UpgradeBegins(p) ==
    /\ RunsIn(p, "readToWriteLock", {"start"})
    /\ writersWaiting' = writersWaiting + 1
    /\ readers' = readers - 1
    /\ writer' = writer
    /\ GoOn(p, IF readers = 1 THEN "signal" ELSE "notified")

\* Its loop; when wait() throws, the count of readers is restored.
Upgrade(p) ==
    /\ RunsIn(p, "readToWriteLock", {"loop", "notified"})
    /\ \/ /\ p \in failed
          /\ Finish(p, "read")
          /\ readers' = readers + 1
          /\ writersWaiting' = writersWaiting - 1
          /\ writer' = writer
       \/ /\ p \notin failed
          /\ writer \/ readers > 0
          /\ Suspend(p)
          /\ UNCHANGED lockVars
       \/ /\ p \notin failed
          /\ ~writer /\ readers = 0
          /\ Finish(p, "write")
          /\ writer' = TRUE
          /\ writersWaiting' = writersWaiting - 1
          /\ readers' = readers

\* writeToReadLock() up to its broadcast.
DowngradeBegins(p) ==
    /\ RunsIn(p, "writeToReadLock", {"start"})
    /\ writer' = FALSE
    /\ readers' = readers + 1
    /\ GoOn(p, "broadcast")
    /\ UNCHANGED writersWaiting

\* Variant: the last reader signals nobody.
ReadUnlockBeginsSilently(p) ==
    /\ RunsIn(p, "readUnlock", {"start"})
    /\ readers' = readers - 1
    /\ GoOn(p, "notified")
    /\ UNCHANGED <<writer, writersWaiting>>

\* readUnlock(): the last reader signals.
ReadUnlockBegins(p) ==
    /\ RunsIn(p, "readUnlock", {"start"})
    /\ readers' = readers - 1
    /\ GoOn(p, IF readers = 1 THEN "signal" ELSE "notified")
    /\ UNCHANGED <<writer, writersWaiting>>

\* writeUnlock(): all tasks that wait are woken.
WriteUnlockBegins(p) ==
    /\ RunsIn(p, "writeUnlock", {"start"})
    /\ writer' = FALSE
    /\ GoOn(p, "broadcast")
    /\ UNCHANGED <<readers, writersWaiting>>

\* The await of cond.signal() or cond.broadcast(), the mutex held throughout.
Notify(p) ==
    /\ at[p] = "inside"
    /\ \/ phase[p] = "signal" /\ Signal(p)
       \/ phase[p] = "broadcast" /\ Broadcast(p)
       \/ /\ phase[p] \in {"signal", "broadcast"}
          /\ sleepers = <<>>
          /\ UNCHANGED monitorVars
    /\ phase' = [phase EXCEPT ![p] = "notified"]
    /\ UNCHANGED <<lockVars, op, holds>>

\* The finally block of the operations that release.
ReleaseEnds(p) ==
    /\ \E o \in Releasing : RunsIn(p, o, {"notified"})
    /\ Finish(p, holds[p])
    /\ UNCHANGED lockVars

-----------------------------------------------------------------------------
\* The signal of an operation aborts, in mutex.lock or in cond.wait.
Abort(p) ==
    /\ op[p] \in AbortableOps
    /\ AbortEntry(p) \/ AbortWait(p)
    /\ UNCHANGED <<lockVars, taskVars>>

\* mutex.lock throws, outside the try of every operation.
CallRejects(p) ==
    /\ EntryRejects(p)
    /\ op' = [op EXCEPT ![p] = "none"]
    /\ holds' = [holds EXCEPT ![p] = OnError(op[p])]
    /\ UNCHANGED <<lockVars, phase>>

WaitReturns(p) ==
    /\ Return(p)
    /\ UNCHANGED <<lockVars, taskVars>>

\* The history: a call that aborts, an upgrade that does, a downgrade.
Gives(p, place) == at[p] # place /\ at'[p] = place

Happens(e) ==
    \E p \in Tasks :
        CASE e = "abort" -> Gives(p, "rejected") \/ Gives(p, "quitting")
          [] e = "upgradeAborted" ->
               op[p] = "readToWriteLock" /\ Gives(p, "quitting")
          [] e = "downgrade" ->
               op[p] = "writeToReadLock" /\ writer /\ ~writer'

Remember == upset' = upset \cup {e \in Event : Happens(e)}

Next ==
    /\ \E p \in Tasks :
           \/ \E o \in Ops : Call(p, o)
           \/ TryReadLock(p)
           \/ TryWriteLock(p)
           \/ ReadLock(p)
           \/ WriteLock(p)
           \/ UpgradeBegins(p)
           \/ Upgrade(p)
           \/ DowngradeBegins(p)
           \/ ReadUnlockBegins(p)
           \/ WriteUnlockBegins(p)
           \/ Notify(p)
           \/ ReleaseEnds(p)
           \/ Abort(p)
           \/ CallRejects(p)
           \/ WaitReturns(p)
    /\ Remember

Spec == Init /\ [][Next]_vars

-----------------------------------------------------------------------------
\* The counters stay natural numbers, whatever is aborted.
TypeOK ==
    /\ MonitorTypeOK
    /\ readers \in Nat
    /\ writer \in BOOLEAN
    /\ writersWaiting \in Nat
    /\ op \in [Tasks -> Acquiring \cup Releasing \cup {"none"}]
    /\ phase \in [Tasks -> Phase]
    /\ holds \in [Tasks -> {"none", "read", "write"}]
    /\ upset \subseteq Event

(***************************************************************************)
(* "Allows multiple concurrent readers or exclusive access for a single    *)
(* writer": a task that holds the lock for writing is alone, provided no   *)
(* upgrade was aborted: an aborted upgrade takes its read lock back        *)
(* whoever writes meanwhile (rw-lock.ts:9, 138).                           *)
(***************************************************************************)
WriterExcludesAll ==
    "upgradeAborted" \notin upset =>
        \A p, q \in Tasks :
            p # q /\ holds[p] = "write" => holds[q] = "none"

(***************************************************************************)
(* A task that keeps the protocol never gets a LockNotAcquiredError: the   *)
(* counters still know of its lock when its operation enters the monitor,  *)
(* even after an aborted upgrade (rw-lock.ts:124, 157, 178, 200).          *)
(***************************************************************************)
AcceptsProtocol ==
    \A p \in Tasks : at[p] = "inside" /\ phase[p] = "start" =>
        /\ op[p] \in {"readToWriteLock", "readUnlock"} => readers > 0
        /\ op[p] \in {"writeToReadLock", "writeUnlock"} => writer

(***************************************************************************)
(* writersWaiting counts the writers that wait, no more and no less: one   *)
(* left behind by an abort would keep all readers out (rw-lock.ts:59, 66,  *)
(* 121, 145).                                                              *)
(***************************************************************************)
CountsWaitingWriters ==
    writersWaiting =
        Cardinality({p \in Tasks :
            /\ op[p] \in {"writeLock", "readToWriteLock"}
            /\ phase[p] # "start"})

\* Nothing is on its way: every task is outside, or waits for a signal.
Quiet == \A p \in Tasks : at[p] \in {"outside", "sleeping"} /\ ~locked

(***************************************************************************)
(* While tasks wait, somebody holds the lock, or something is on its way:  *)
(* it does not happen that all wait for one another (rw-lock.ts:13).       *)
(***************************************************************************)
SomebodyHoldsIt ==
    Quiet /\ (\E p \in Tasks : at[p] = "sleeping")
    => \E p \in Tasks : holds[p] # "none"

(***************************************************************************)
(* The code keeps this until a call aborts, which may take a signal with   *)
(* it, or a writer downgrades: the signal of the last reader then goes to  *)
(* one task, which may be a reader (rw-lock.ts:131, 163, 183).             *)
(***************************************************************************)
DeadlockNeedsUpset ==
    upset \cap {"abort", "downgrade"} = {} => SomebodyHoldsIt

(***************************************************************************)
(* "Multiple readers may hold the lock concurrently unless a writer is     *)
(* waiting or active": when nothing is on its way, a reader waits only     *)
(* because of a writer, provided no call was aborted: a writer that gives  *)
(* up wakes nobody (rw-lock.ts:32, 66).                                    *)
(***************************************************************************)
ReadersWaitForWriters ==
    /\ "abort" \notin upset
    /\ Quiet
    /\ \E p \in Tasks : at[p] = "sleeping" /\ op[p] = "readLock"
    => \E q \in Tasks :
          \/ holds[q] = "write"
          \/ /\ at[q] = "sleeping"
             /\ op[q] \in {"writeLock", "readToWriteLock"}

(***************************************************************************)
(* The counters are right whoever gives up or is woken in vain, and a task *)
(* waits only for one that can still end its wait (rw-lock.ts:13, 32, 66). *)
(***************************************************************************)
WaitsAreJustified ==
    /\ TypeOK
    /\ AcceptsProtocol
    /\ CountsWaitingWriters
    /\ DeadlockNeedsUpset
    /\ ReadersWaitForWriters

\* For TLC: tasks are alike.
Symmetry == Permutations(Tasks)
=============================================================================
