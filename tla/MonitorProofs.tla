---------------------------- MODULE MonitorProofs ----------------------------
(***************************************************************************)
(* Proofs about the abstract monitor, which Condition implements, and of   *)
(* the safety properties of what is built on it: RwLock, for any set of    *)
(* tasks, any operations and any aborts, and Channel, for any tasks and    *)
(* capacities, any aborts and close().  The monitor's invariant, IInv, is  *)
(* a part of the other two.                                                *)
(***************************************************************************)
EXTENDS RwLock, Channel, EcmaArrayProofs, FiniteSetTheorems

-----------------------------------------------------------------------------
(***************************************************************************)
(* What the queues say of the tasks, both ways: whoever is on the mutex's  *)
(* queue came to lock it, and whoever is on the condition's came to wait   *)
(* and has had no signal; and nobody who queues or sleeps is missing.      *)
(***************************************************************************)
QueueInv ==
    \A p \in Tasks :
        /\ at[p] = "sleeping" => On(sleepers, p)
        /\ at[p] \in {"entering", "returning"} => locked /\ On(entry, p)
        /\ On(entry, p) => at[p] \in {"entering", "returning", "rejected"}
        /\ On(sleepers, p) => at[p] \in {"sleeping", "quitting"}

IInv ==
    /\ MonitorTypeOK
    /\ MonitorExclusion
    /\ QueueInv

-----------------------------------------------------------------------------
(***************************************************************************)
(* The initial state satisfies the inductive invariant.                    *)
(***************************************************************************)
LEMMA InitIInv == MonitorInit => IInv
<1> SUFFICES ASSUME MonitorInit PROVE IInv
  OBVIOUS
<1>1. /\ entry \in Seq(Tasks) /\ Len(entry) = 0
      /\ sleepers \in Seq(Tasks) /\ Len(sleepers) = 0
  BY EmptySeq DEF MonitorInit
<1>2. MonitorTypeOK
  <2>1. at \in [Tasks -> Place]
    BY DEF MonitorInit, Place
  <2>2. Distinct(entry) /\ Distinct(sleepers)
    BY <1>1 DEF Distinct
  <2>3. locked \in BOOLEAN /\ failed \subseteq Tasks
    BY DEF MonitorInit
  <2> QED
    BY <1>1, <2>1, <2>2, <2>3 DEF MonitorTypeOK
<1> QED
  BY <1>1, <1>2
  DEF MonitorInit, IInv, MonitorExclusion, QueueInv, On

(***************************************************************************)
(* Locking by a task that is on no queue of the mutex: what it leaves      *)
(* (mutex.ts:31).                                                          *)
(***************************************************************************)
LEMMA TakeFacts ==
    ASSUME IInv, NEW p \in Tasks, NEW queued \in {"entering", "returning"},
           ~On(entry, p), Take(p, queued)
    PROVE  /\ entry' \in Seq(Tasks) /\ Distinct(entry')
           /\ locked' = TRUE
           /\ at' = [at EXCEPT ![p] = at'[p]]
           /\ at'[p] \in {"inside", queued}
           /\ at'[p] = "inside" => ~locked /\ entry' = entry
           /\ at'[p] = queued =>
                \A q : On(entry', q) <=> On(entry, q) \/ q = p
<1>1. /\ entry \in Seq(Tasks) /\ Distinct(entry) /\ locked \in BOOLEAN
      /\ at \in [Tasks -> Place]
  BY DEF IInv, MonitorTypeOK
<1>2. CASE ~locked
  BY <1>1, <1>2 DEF Take
<1>3. CASE locked
  <2>1. /\ locked' = locked
        /\ at' = [at EXCEPT ![p] = queued]
        /\ entry' = Append(entry, p)
    BY <1>3 DEF Take
  <2>2. /\ entry' \in Seq(Tasks) /\ Distinct(entry')
        /\ \A q : On(entry', q) <=> On(entry, q) \/ q = p
    BY <1>1, <2>1, PushFacts
  <2> QED
    BY <1>1, <1>3, <2>1, <2>2
<1> QED
  BY <1>2, <1>3

(***************************************************************************)
(* Unlocking by the task that is inside: the mutex is free and nobody      *)
(* queues, or the head of the queue has left it, inside or rejected        *)
(* (mutex.ts:57).                                                          *)
(***************************************************************************)
LEMMA GiveFacts ==
    ASSUME IInv, NEW p \in Tasks, at[p] = "inside",
           NEW next \in {"outside", "sleeping"}, Give(p, next)
    PROVE  /\ entry' \in Seq(Tasks) /\ Distinct(entry')
           /\ locked' \in BOOLEAN
           /\ at' \in [Tasks -> Place]
           /\ at'[p] = next
           /\ \A q \in Tasks : On(entry', q) => On(entry, q)
           /\ \A q \in Tasks : q # p /\ at'[q] # at[q] =>
                /\ at'[q] = "inside" /\ locked'
                /\ On(entry, q) /\ ~On(entry', q)
           /\ \A q, r \in Tasks : at'[q] = "inside" /\ at'[r] = "inside" => q = r
           /\ \A q \in Tasks : at'[q] \in {"entering", "returning"} =>
                locked' /\ On(entry', q)
<1>1. /\ entry \in Seq(Tasks) /\ Distinct(entry) /\ locked \in BOOLEAN
      /\ at \in [Tasks -> Place]
      /\ \A q \in Tasks : at[q] = "inside" => q = p
      /\ locked
      /\ ~On(entry, p)
      /\ \A q \in Tasks : at[q] \in {"entering", "returning"} => On(entry, q)
  BY DEF IInv, MonitorTypeOK, MonitorExclusion, QueueInv
<1>2. CASE entry = <<>>
  <2>1. \A q : ~On(entry, q)
    BY <1>2 DEF On
  <2> QED
    BY <1>1, <1>2, <2>1 DEF Give, Place
<1>3. CASE entry # <<>>
  <2> DEFINE w == Head(entry)
  <2>1. /\ entry' = Tail(entry) /\ locked' = locked
        /\ at' = [at EXCEPT ![p] = next,
                            ![w] = IF @ = "rejected" THEN @ ELSE "inside"]
    BY <1>3 DEF Give
  <2>2. /\ w \in Tasks /\ On(entry, w)
        /\ Tail(entry) \in Seq(Tasks) /\ Distinct(Tail(entry))
        /\ \A q : On(Tail(entry), q) <=> On(entry, q) /\ q # w
    BY <1>1, <1>3, ShiftFacts
  <2>3. w # p
    BY <1>1, <2>2
  <2> HIDE DEF w
  <2>4. /\ at'[p] = next
        /\ at'[w] = IF at[w] = "rejected" THEN "rejected" ELSE "inside"
        /\ \A q \in Tasks : q # p /\ q # w => at'[q] = at[q]
        /\ at' \in [Tasks -> Place]
    BY <1>1, <2>1, <2>2, <2>3 DEF Place
  <2>5. /\ entry' \in Seq(Tasks) /\ Distinct(entry') /\ locked'
        /\ \A q : On(entry', q) <=> On(entry, q) /\ q # w
    BY <1>1, <2>1, <2>2
  <2> QED
    BY <1>1, <2>2, <2>3, <2>4, <2>5
<1> QED
  BY <1>2, <1>3

-----------------------------------------------------------------------------
(***************************************************************************)
(* Every step keeps the inductive invariant.                               *)
(***************************************************************************)
LEMMA NextIInv == IInv /\ [MonitorNext]_monitorVars => IInv'
<1> SUFFICES ASSUME IInv, [MonitorNext]_monitorVars PROVE IInv'
  OBVIOUS
<1> USE DEF IInv, Place
<1>0. /\ entry \in Seq(Tasks) /\ Distinct(entry)
      /\ sleepers \in Seq(Tasks) /\ Distinct(sleepers)
      /\ at \in [Tasks -> Place]
  BY DEF MonitorTypeOK
<1>1. ASSUME NEW p \in Tasks, Enter(p) PROVE IInv'
  <2>1. /\ at[p] = "outside" /\ Take(p, "entering")
        /\ sleepers' = sleepers /\ failed' = failed
    BY <1>1 DEF Enter
  <2>2. ~On(entry, p)
    BY <2>1 DEF QueueInv
  <2>3. /\ entry' \in Seq(Tasks) /\ Distinct(entry') /\ locked' = TRUE
        /\ at' = [at EXCEPT ![p] = at'[p]]
        /\ at'[p] \in {"inside", "entering"}
        /\ at'[p] = "inside" => ~locked /\ entry' = entry
        /\ at'[p] = "entering" => \A q : On(entry', q) <=> On(entry, q) \/ q = p
    BY <2>1, <2>2, TakeFacts
  <2> QED
    BY <1>0, <2>1, <2>3 DEF MonitorTypeOK, MonitorExclusion, QueueInv
<1>2. ASSUME NEW p \in Tasks, AbortEntry(p) PROVE IInv'
  BY <1>0, <1>2 DEF AbortEntry, MonitorTypeOK, MonitorExclusion, QueueInv
<1>3. ASSUME NEW p \in Tasks, EntryRejects(p) PROVE IInv'
  <2>1. /\ at[p] = "rejected" /\ at' = [at EXCEPT ![p] = "outside"]
        /\ entry' = RemoveSafe(entry, p)
        /\ UNCHANGED <<locked, sleepers, failed>>
    BY <1>3 DEF EntryRejects
  <2>2. /\ entry' \in Seq(Tasks) /\ Distinct(entry')
        /\ \A q : On(entry', q) <=> On(entry, q) /\ q # p
    BY <1>0, <2>1, RemoveSafeFacts
  <2> QED
    BY <1>0, <2>1, <2>2 DEF MonitorTypeOK, MonitorExclusion, QueueInv
<1>4. ASSUME NEW p \in Tasks, Leave(p) PROVE IInv'
  <2>1. /\ at[p] = "inside" /\ Give(p, "outside")
        /\ failed' = failed \ {p} /\ sleepers' = sleepers
    BY <1>4 DEF Leave
  <2>2. /\ entry' \in Seq(Tasks) /\ Distinct(entry') /\ locked' \in BOOLEAN
        /\ at' \in [Tasks -> Place] /\ at'[p] = "outside"
        /\ \A q \in Tasks : On(entry', q) => On(entry, q)
        /\ \A q \in Tasks : q # p /\ at'[q] # at[q] =>
              /\ at'[q] = "inside" /\ locked'
              /\ On(entry, q) /\ ~On(entry', q)
        /\ \A q, r \in Tasks : at'[q] = "inside" /\ at'[r] = "inside" => q = r
        /\ \A q \in Tasks : at'[q] \in {"entering", "returning"} =>
              locked' /\ On(entry', q)
    BY <2>1, GiveFacts
  <2>3. MonitorTypeOK'
    BY <2>1, <2>2 DEF MonitorTypeOK
  <2>4. MonitorExclusion'
    BY <2>1, <2>2 DEF MonitorExclusion
  <2>5. QueueInv'
    BY <2>1, <2>2 DEF QueueInv
  <2> QED
    BY <2>3, <2>4, <2>5
<1>5. ASSUME NEW p \in Tasks, Wait(p) PROVE IInv'
  <2>1. /\ at[p] = "inside" /\ Give(p, "sleeping")
        /\ sleepers' = Append(sleepers, p) /\ failed' = failed \ {p}
    BY <1>5 DEF Wait
  <2>2. /\ entry' \in Seq(Tasks) /\ Distinct(entry') /\ locked' \in BOOLEAN
        /\ at' \in [Tasks -> Place] /\ at'[p] = "sleeping"
        /\ \A q \in Tasks : On(entry', q) => On(entry, q)
        /\ \A q \in Tasks : q # p /\ at'[q] # at[q] =>
              /\ at'[q] = "inside" /\ locked'
              /\ On(entry, q) /\ ~On(entry', q)
        /\ \A q, r \in Tasks : at'[q] = "inside" /\ at'[r] = "inside" => q = r
        /\ \A q \in Tasks : at'[q] \in {"entering", "returning"} =>
              locked' /\ On(entry', q)
    BY <2>1, GiveFacts
  <2>3. ~On(sleepers, p)
    BY <2>1 DEF QueueInv
  <2>4. /\ sleepers' \in Seq(Tasks) /\ Distinct(sleepers')
        /\ \A q : On(sleepers', q) <=> On(sleepers, q) \/ q = p
    BY <1>0, <2>1, <2>3, PushFacts
  <2>5. MonitorTypeOK'
    BY <2>1, <2>2, <2>4 DEF MonitorTypeOK
  <2>6. MonitorExclusion'
    BY <2>1, <2>2 DEF MonitorExclusion
  <2>7. QueueInv'
    BY <2>1, <2>2, <2>4 DEF QueueInv
  <2> QED
    BY <2>5, <2>6, <2>7
<1>6. ASSUME NEW p \in Tasks, Signal(p) PROVE IInv'
  <2>1. /\ sleepers # <<>> /\ sleepers' = Tail(sleepers)
        /\ at' = Woken({Head(sleepers)})
        /\ UNCHANGED <<locked, entry, failed>>
    BY <1>6 DEF Signal
  <2>2. /\ sleepers' \in Seq(Tasks) /\ Distinct(sleepers')
        /\ \A q : On(sleepers', q) <=> On(sleepers, q) /\ q # Head(sleepers)
    BY <1>0, <2>1, ShiftFacts
  <2>3. \A q \in Tasks :
           at'[q] = IF q = Head(sleepers) /\ at[q] = "sleeping" THEN "woken" ELSE at[q]
    BY <1>0, <2>1 DEF Woken
  <2>4. at' \in [Tasks -> Place]
    BY <1>0, <2>1 DEF Woken
  <2> QED
    BY <1>0, <2>1, <2>2, <2>3, <2>4 DEF MonitorTypeOK, MonitorExclusion, QueueInv
<1>7. ASSUME NEW p \in Tasks, Broadcast(p) PROVE IInv'
  <2>1. /\ sleepers' = <<>> /\ at' = Woken(ToSet(sleepers))
        /\ UNCHANGED <<locked, entry, failed>>
    BY <1>7 DEF Broadcast
  <2>2. /\ sleepers' \in Seq(Tasks) /\ Distinct(sleepers')
        /\ \A q : ~On(sleepers', q)
    BY <2>1, EmptySeq DEF Distinct, On
  <2>3. \A q \in Tasks : On(sleepers, q) <=> q \in ToSet(sleepers)
    BY DEF On, ToSet
  <2>4. \A q \in Tasks :
           at'[q] = IF On(sleepers, q) /\ at[q] = "sleeping" THEN "woken" ELSE at[q]
    BY <1>0, <2>1, <2>3 DEF Woken
  <2>5. at' \in [Tasks -> Place]
    BY <1>0, <2>1 DEF Woken
  <2> QED
    BY <1>0, <2>1, <2>2, <2>4, <2>5 DEF MonitorTypeOK, MonitorExclusion, QueueInv
<1>8. ASSUME NEW p \in Tasks, AbortWait(p) PROVE IInv'
  BY <1>0, <1>8 DEF AbortWait, MonitorTypeOK, MonitorExclusion, QueueInv
<1>9. ASSUME NEW p \in Tasks, Return(p) PROVE IInv'
  <2>1. /\ at[p] \in {"woken", "quitting"} /\ Take(p, "returning")
        /\ sleepers' = RemoveSafe(sleepers, p) /\ failed' = failed
    BY <1>9 DEF Return
  <2>2. ~On(entry, p)
    BY <2>1 DEF QueueInv
  <2>3. /\ entry' \in Seq(Tasks) /\ Distinct(entry') /\ locked' = TRUE
        /\ at' = [at EXCEPT ![p] = at'[p]]
        /\ at'[p] \in {"inside", "returning"}
        /\ at'[p] = "inside" => ~locked /\ entry' = entry
        /\ at'[p] = "returning" => \A q : On(entry', q) <=> On(entry, q) \/ q = p
    BY <2>1, <2>2, TakeFacts
  <2>4. /\ sleepers' \in Seq(Tasks) /\ Distinct(sleepers')
        /\ \A q : On(sleepers', q) <=> On(sleepers, q) /\ q # p
    BY <1>0, <2>1, RemoveSafeFacts
  <2> QED
    BY <1>0, <2>1, <2>3, <2>4 DEF MonitorTypeOK, MonitorExclusion, QueueInv
<1>10. CASE UNCHANGED monitorVars
  BY <1>10 DEF monitorVars, MonitorTypeOK, MonitorExclusion, QueueInv
<1> QED
  BY <1>1, <1>2, <1>3, <1>4, <1>5, <1>6, <1>7, <1>8, <1>9, <1>10 DEF MonitorNext

-----------------------------------------------------------------------------
(***************************************************************************)
(* The inductive invariant holds in every reachable state.                 *)
(***************************************************************************)
THEOREM Invariance == MonitorSpec => []IInv
<1>1. MonitorInit => IInv
  BY InitIInv
<1>2. IInv /\ [MonitorNext]_monitorVars => IInv'
  BY NextIInv
<1> QED
  BY <1>1, <1>2, PTL DEF MonitorSpec

(***************************************************************************)
(* One task at most is inside, however tasks wait, signal and abort        *)
(* (condition.ts:112).                                                     *)
(***************************************************************************)
THEOREM ExclusiveInside == MonitorSpec => []MonitorExclusion
<1>1. IInv => MonitorExclusion
  BY DEF IInv
<1> QED
  BY <1>1, Invariance, PTL

(***************************************************************************)
(* Every task that sleeps can be reached by a signal, and every task that  *)
(* queues for the mutex by an unlock (condition.ts:84, mutex.ts:45).       *)
(***************************************************************************)
THEOREM NoneForgotten == MonitorSpec => []NobodyForgotten
<1>1. IInv => NobodyForgotten
  BY DEF IInv, QueueInv, NobodyForgotten, On, Contains
<1> QED
  BY <1>1, Invariance, PTL

-----------------------------------------------------------------------------
(***************************************************************************)
(* The tasks the counters stand for.  An operation that gives a lock up    *)
(* has it until its first step in the monitor, one that downgrades is a    *)
(* reader from then on, and one that upgrades is not, until it ends.       *)
(***************************************************************************)
Reads(p) ==
    \/ op[p] = "none" /\ holds[p] = "read"
    \/ op[p] \in {"readToWriteLock", "readUnlock"} /\ phase[p] = "start"
    \/ op[p] = "writeToReadLock" /\ phase[p] # "start"

Writes(p) ==
    \/ op[p] = "none" /\ holds[p] = "write"
    \/ op[p] \in {"writeToReadLock", "writeUnlock"} /\ phase[p] = "start"

WaitsToWrite(p) == op[p] \in {"writeLock", "readToWriteLock"} /\ phase[p] # "start"

ReadingTasks == {p \in Tasks : Reads(p)}
WritersToBe == {p \in Tasks : WaitsToWrite(p)}

(***************************************************************************)
(* Where a task may be at each phase of each operation.                    *)
(***************************************************************************)
PlaceOf(p) ==
    /\ op[p] = "none" <=> at[p] = "outside"
    /\ at[p] \in {"outside", "entering", "rejected"} => phase[p] = "start"
    /\ at[p] \in {"sleeping", "woken", "quitting", "returning"} => phase[p] = "loop"
    /\ at[p] = "rejected" => op[p] \in Acquiring
    /\ phase[p] = "loop" => op[p] \in Acquiring
    /\ phase[p] = "signal" => op[p] \in {"readToWriteLock", "readUnlock"}
    /\ phase[p] = "broadcast" => op[p] \in {"writeToReadLock", "writeUnlock"}
    /\ phase[p] = "notified" => op[p] \in Releasing \cup {"readToWriteLock"}
    /\ op[p] # "none" => holds[p] = Meanwhile(op[p])
    /\ p \in failed => at[p] \in {"quitting", "returning", "inside"} /\ phase[p] = "loop"

PlaceInv == \A p \in Tasks : PlaceOf(p)

(***************************************************************************)
(* The counters count, and the flag tells of the one writer there is.      *)
(***************************************************************************)
CountInv ==
    /\ IsFiniteSet(ReadingTasks) /\ readers = Cardinality(ReadingTasks)
    /\ IsFiniteSet(WritersToBe) /\ writersWaiting = Cardinality(WritersToBe)
    /\ writer <=> \E p \in Tasks : Writes(p)
    /\ \A p, q \in Tasks : Writes(p) /\ Writes(q) => p = q

(***************************************************************************)
(* What the history says of the aborts.                                    *)
(***************************************************************************)
AbortInv ==
    /\ \A p \in Tasks : at[p] \in {"rejected", "quitting"} => "abort" \in upset
    /\ failed # {} => "abort" \in upset
    /\ \A p \in failed : op[p] = "readToWriteLock" => "upgradeAborted" \in upset
    /\ "upgradeAborted" \in upset => "abort" \in upset

(***************************************************************************)
(* A writer and readers exclude one another, unless an upgrade aborted.    *)
(***************************************************************************)
ExclusionInv == "upgradeAborted" \notin upset => ~(writer /\ readers > 0)

(***************************************************************************)
(* Why a task may sleep.  The first of the sleepers is a writer as long as *)
(* there are readers, so that the signal of the last one goes to a writer; *)
(* and when there are none, a writer that is awake will run.               *)
(***************************************************************************)
Running(ph) == \E p \in Tasks : at[p] = "inside" /\ phase[p] = ph

WriterAwake == \E p \in Tasks : WaitsToWrite(p) /\ at[p] # "sleeping"

ReaderSleeps == \E p \in Tasks : at[p] = "sleeping" /\ op[p] = "readLock"

ReaderInv ==
    "abort" \notin upset /\ ReaderSleeps =>
        writer \/ writersWaiting > 0 \/ Running("broadcast")

WakeInv ==
    upset \cap {"abort", "downgrade"} = {} =>
        /\ Running("signal") \/ Running("broadcast") => readers = 0 /\ ~writer
        /\ readers > 0 => \A p \in Tasks :
               WaitsToWrite(p) /\ phase[p] = "loop" => at[p] = "sleeping"
        /\ ~writer /\ sleepers # <<>> =>
             \/ Running("broadcast")
             \/ (readers > 0 \/ Running("signal")) /\ WaitsToWrite(Head(sleepers))
             \/ readers = 0 /\ WriterAwake

LockInv ==
    /\ IInv
    /\ TypeOK
    /\ PlaceInv
    /\ CountInv
    /\ AbortInv
    /\ ExclusionInv
    /\ ReaderInv
    /\ WakeInv

-----------------------------------------------------------------------------
\* A step of Next, but for the history.
Acts(p) ==
    \/ \E o \in Ops : Call(p, o)
    \/ TryReadLock(p) \/ TryWriteLock(p)
    \/ ReadLock(p) \/ WriteLock(p)
    \/ UpgradeBegins(p) \/ Upgrade(p)
    \/ DowngradeBegins(p) \/ ReadUnlockBegins(p) \/ WriteUnlockBegins(p)
    \/ Notify(p) \/ ReleaseEnds(p)
    \/ Abort(p) \/ CallRejects(p) \/ WaitReturns(p)

(***************************************************************************)
(* Every step of the lock is a step of the monitor, or leaves it alone.    *)
(***************************************************************************)
LEMMA MonitorStep ==
    ASSUME NEW p \in Tasks, Acts(p)
    PROVE  [MonitorNext]_monitorVars
<1> USE DEF MonitorNext
<1>1. CASE \E o \in Ops : Call(p, o)
  BY <1>1 DEF Call
<1>2. CASE TryReadLock(p) \/ TryWriteLock(p)
  BY <1>2 DEF TryReadLock, TryWriteLock
<1>3. CASE ReadLock(p) \/ WriteLock(p) \/ Upgrade(p) \/ ReleaseEnds(p)
  BY <1>3 DEF ReadLock, WriteLock, Upgrade, ReleaseEnds, Finish, Suspend
<1>4. CASE \/ UpgradeBegins(p) \/ DowngradeBegins(p) \/ ReadUnlockBegins(p)
           \/ WriteUnlockBegins(p)
  BY <1>4 DEF UpgradeBegins, DowngradeBegins, ReadUnlockBegins,
              WriteUnlockBegins, GoOn
<1>5. CASE Notify(p)
  BY <1>5 DEF Notify
<1>6. CASE Abort(p) \/ CallRejects(p) \/ WaitReturns(p)
  BY <1>6 DEF Abort, CallRejects, WaitReturns
<1> QED
  BY <1>1, <1>2, <1>3, <1>4, <1>5, <1>6 DEF Acts

-----------------------------------------------------------------------------
(***************************************************************************)
(* What a step of p may do to the other tasks: an unlock lets one in, and  *)
(* a notification wakes sleepers.                                          *)
(***************************************************************************)
Frame(p) ==
    /\ at' \in [Tasks -> Place]
    /\ op' \in [Tasks -> Acquiring \cup Releasing \cup {"none"}]
    /\ phase' \in [Tasks -> Phase]
    /\ holds' \in [Tasks -> {"none", "read", "write"}]
    /\ \A q \in Tasks \ {p} :
        /\ op'[q] = op[q] /\ phase'[q] = phase[q] /\ holds'[q] = holds[q]
        /\ \/ at'[q] = at[q]
           \/ at[q] \in {"entering", "returning", "rejected"} /\ at'[q] = "inside"
           \/ at[q] = "sleeping" /\ at'[q] = "woken"

\* Whoever leaves the monitor or falls asleep in it moves no other task, but
\* for the one the mutex is handed to.
LEMMA GiveMoves ==
    ASSUME IInv, NEW p \in Tasks, at[p] = "inside",
           NEW next \in {"outside", "sleeping"}, Give(p, next)
    PROVE  /\ at' \in [Tasks -> Place]
           /\ at'[p] = next
           /\ \A q \in Tasks \ {p} :
                \/ at'[q] = at[q]
                \/ at[q] \in {"entering", "returning", "rejected"} /\ at'[q] = "inside"
<1>1. /\ at' \in [Tasks -> Place]
      /\ at'[p] = next
      /\ \A q \in Tasks : q # p /\ at'[q] # at[q] =>
            at'[q] = "inside" /\ locked' /\ On(entry, q) /\ ~On(entry', q)
  BY GiveFacts
<1>2. \A q \in Tasks : On(entry, q) => at[q] \in {"entering", "returning", "rejected"}
  BY DEF IInv, QueueInv
<1> QED
  BY <1>1, <1>2

(***************************************************************************)
(* The operation of p begins: it is inside, or queues for the mutex.       *)
(***************************************************************************)
LEMMA CallEffect ==
    ASSUME IInv, TypeOK, NEW p \in Tasks, NEW o \in Ops, Call(p, o)
    PROVE  /\ Frame(p)
           /\ op[p] = "none" /\ holds[p] = Needs(o) /\ at[p] = "outside"
           /\ at'[p] \in {"inside", "entering"}
           /\ op'[p] = o /\ phase' = phase /\ holds'[p] = Meanwhile(o)
           /\ o \in Acquiring \cup Releasing
           /\ \A q \in Tasks \ {p} : at'[q] = at[q]
           /\ UNCHANGED <<lockVars, sleepers, failed>>
<1>1. o \in Acquiring \cup Releasing
  BY OpsAssumption
<1>2. Meanwhile(o) \in {"none", "read", "write"}
  BY DEF Meanwhile
<1> QED
  BY <1>1, <1>2 DEF Call, Enter, Take, Frame, TypeOK, MonitorTypeOK, Place, lockVars

(***************************************************************************)
(* The operation of p ends inside the monitor.                             *)
(***************************************************************************)
LEMMA FinishEffect ==
    ASSUME IInv, TypeOK, NEW p \in Tasks, NEW held \in {"none", "read", "write"},
           Finish(p, held)
    PROVE  /\ Frame(p)
           /\ at[p] = "inside" /\ at'[p] = "outside"
           /\ op'[p] = "none" /\ phase'[p] = "start" /\ holds'[p] = held
           /\ failed' = failed \ {p} /\ sleepers' = sleepers
           /\ \A q \in Tasks \ {p} : at'[q] # at[q] => at'[q] = "inside"
<1>1. at[p] = "inside" /\ Give(p, "outside")
  BY DEF Finish, Leave
<1>2. /\ at' \in [Tasks -> Place]
      /\ at'[p] = "outside"
      /\ \A q \in Tasks \ {p} :
            \/ at'[q] = at[q]
            \/ at[q] \in {"entering", "returning", "rejected"} /\ at'[q] = "inside"
  BY <1>1, GiveMoves
<1> QED
  BY <1>1, <1>2 DEF Finish, Leave, Frame, TypeOK, Phase

(***************************************************************************)
(* It waits for the condition, behind those who sleep already.             *)
(***************************************************************************)
LEMMA SuspendEffect ==
    ASSUME IInv, TypeOK, NEW p \in Tasks, Suspend(p)
    PROVE  /\ Frame(p)
           /\ at[p] = "inside" /\ at'[p] = "sleeping"
           /\ op' = op /\ phase'[p] = "loop" /\ holds' = holds
           /\ failed' = failed \ {p} /\ sleepers' = Append(sleepers, p)
           /\ \A q \in Tasks \ {p} : at'[q] # at[q] => at'[q] = "inside"
<1>1. at[p] = "inside" /\ Give(p, "sleeping")
  BY DEF Suspend, Wait
<1>2. /\ at' \in [Tasks -> Place]
      /\ at'[p] = "sleeping"
      /\ \A q \in Tasks \ {p} :
            \/ at'[q] = at[q]
            \/ at[q] \in {"entering", "returning", "rejected"} /\ at'[q] = "inside"
  BY <1>1, GiveMoves
<1> QED
  BY <1>1, <1>2 DEF Suspend, Wait, Frame, TypeOK, Phase

(***************************************************************************)
(* It goes on inside.                                                      *)
(***************************************************************************)
LEMMA GoOnEffect ==
    ASSUME TypeOK, NEW p \in Tasks, NEW next \in Phase, GoOn(p, next)
    PROVE  /\ Frame(p)
           /\ at' = at /\ op' = op /\ phase'[p] = next /\ holds' = holds
           /\ failed' = failed /\ sleepers' = sleepers
BY DEF GoOn, Frame, TypeOK, MonitorTypeOK, monitorVars

(***************************************************************************)
(* It signals the first of the sleepers, or all of them.                   *)
(***************************************************************************)
LEMMA NotifyEffect ==
    ASSUME IInv, TypeOK, NEW p \in Tasks, Notify(p)
    PROVE  /\ Frame(p)
           /\ at[p] = "inside" /\ at'[p] = "inside"
           /\ phase[p] \in {"signal", "broadcast"} /\ phase'[p] = "notified"
           /\ op' = op /\ holds' = holds /\ failed' = failed
           /\ \A q \in Tasks \ {p} : at'[q] # at[q] => at'[q] = "woken"
           /\ UNCHANGED lockVars
           /\ \/ sleepers' = <<>>
              \/ /\ phase[p] = "signal" /\ sleepers # <<>>
                 /\ Head(sleepers) \in Tasks
                 /\ at[Head(sleepers)] = "sleeping" => at'[Head(sleepers)] = "woken"
<1>1. /\ at[p] = "inside" /\ phase[p] \in {"signal", "broadcast"}
      /\ phase' = [phase EXCEPT ![p] = "notified"]
      /\ UNCHANGED <<lockVars, op, holds>>
  BY DEF Notify
<1>2. CASE Signal(p)
  <2>1. /\ sleepers # <<>> /\ at' = Woken({Head(sleepers)})
        /\ failed' = failed
    BY <1>2 DEF Signal
  <2>2. Head(sleepers) \in Tasks
    BY <2>1 DEF TypeOK, MonitorTypeOK
  <2>3. CASE phase[p] = "signal"
    BY <1>1, <2>1, <2>2, <2>3 DEF Woken, Frame, TypeOK, MonitorTypeOK, Place, Phase
  <2>4. CASE phase[p] = "broadcast"
    BY <1>1, <2>1, <2>4 DEF Notify, Broadcast, Woken, Frame, TypeOK, MonitorTypeOK,
                            Place, Phase
  <2> QED
    BY <1>1, <2>3, <2>4
<1>3. CASE Broadcast(p)
  <2>1. /\ sleepers' = <<>> /\ at' = Woken(ToSet(sleepers))
        /\ failed' = failed
    BY <1>3 DEF Broadcast
  <2> QED
    BY <1>1, <2>1 DEF Woken, Frame, TypeOK, MonitorTypeOK, Place, Phase
<1>4. CASE sleepers = <<>> /\ UNCHANGED monitorVars
  BY <1>1, <1>4 DEF Frame, TypeOK, MonitorTypeOK, Place, Phase, monitorVars
<1> QED
  BY <1>2, <1>3, <1>4 DEF Notify

(***************************************************************************)
(* Its signal aborts, while it queues for the mutex or sleeps.             *)
(***************************************************************************)
LEMMA AbortEffect ==
    ASSUME IInv, TypeOK, NEW p \in Tasks, Abort(p)
    PROVE  /\ Frame(p)
           /\ op[p] \in Acquiring
           /\ UNCHANGED <<lockVars, taskVars, sleepers>>
           /\ \A q \in Tasks \ {p} : at'[q] = at[q]
           /\ \/ at[p] = "entering" /\ at'[p] = "rejected" /\ failed' = failed
              \/ at[p] = "sleeping" /\ at'[p] = "quitting" /\ failed' = failed \cup {p}
<1>1. op[p] \in Acquiring
  BY AbortableOpsAssumption DEF Abort
<1> QED
  BY <1>1 DEF Abort, AbortEntry, AbortWait, Frame, TypeOK, MonitorTypeOK, Place, taskVars

(***************************************************************************)
(* Its mutex.lock() throws.                                                *)
(***************************************************************************)
LEMMA RejectEffect ==
    ASSUME IInv, TypeOK, NEW p \in Tasks, CallRejects(p)
    PROVE  /\ Frame(p)
           /\ at[p] = "rejected" /\ at'[p] = "outside"
           /\ op'[p] = "none" /\ phase' = phase /\ holds'[p] = OnError(op[p])
           /\ UNCHANGED <<lockVars, sleepers, failed>>
           /\ \A q \in Tasks \ {p} : at'[q] = at[q]
<1>1. OnError(op[p]) \in {"none", "read", "write"}
  BY DEF OnError
<1> QED
  BY <1>1 DEF CallRejects, EntryRejects, Frame, TypeOK, MonitorTypeOK, Place

(***************************************************************************)
(* Its cond.wait() goes on, to lock the mutex again.                       *)
(***************************************************************************)
LEMMA ReturnEffect ==
    ASSUME IInv, TypeOK, NEW p \in Tasks, WaitReturns(p)
    PROVE  /\ Frame(p)
           /\ at[p] \in {"woken", "quitting"} /\ at'[p] \in {"inside", "returning"}
           /\ UNCHANGED <<lockVars, taskVars, failed>>
           /\ sleepers' = RemoveSafe(sleepers, p)
           /\ \A q \in Tasks \ {p} : at'[q] = at[q]
BY DEF WaitReturns, Return, Take, Frame, TypeOK, MonitorTypeOK, Place, taskVars

-----------------------------------------------------------------------------
(***************************************************************************)
(* Every step keeps the places: first of the tasks that do not act, then   *)
(* of the one that does.                                                   *)
(***************************************************************************)
LEMMA OthersPlaced ==
    ASSUME PlaceInv, TypeOK, NEW p \in Tasks, Frame(p), failed' \subseteq failed \cup {p}
    PROVE  \A q \in Tasks \ {p} : PlaceOf(q)'
BY DEF PlaceInv, PlaceOf, Frame, TypeOK

\* Every step keeps the places that go with each phase of each operation.
LEMMA PlaceStep ==
    ASSUME IInv, TypeOK, PlaceInv, NEW p \in Tasks, Acts(p)
    PROVE  PlaceInv'
<1> USE DEF PlaceOf, Acquiring, Releasing, Phase, Meanwhile
<1> SUFFICES /\ \A q \in Tasks \ {p} : PlaceOf(q)'
             /\ PlaceOf(p)'
  BY DEF PlaceInv
<1>0. PlaceOf(p)
  BY DEF PlaceInv
<1>1. CASE \E o \in Ops : Call(p, o)
  <2> PICK o \in Ops : Call(p, o)
    BY <1>1
  <2> QED
    BY <1>0, CallEffect, OthersPlaced
<1>2. CASE TryReadLock(p) \/ TryWriteLock(p)
  <2>1. /\ op' = op /\ phase' = phase /\ at' = at /\ failed' = failed
        /\ op[p] = "none"
        /\ \A q \in Tasks \ {p} : holds'[q] = holds[q]
    BY <1>2 DEF TryReadLock, TryWriteLock, TypeOK, monitorVars
  <2> QED
    BY <1>0, <2>1 DEF PlaceInv
<1>3. ASSUME NEW held \in {"none", "read", "write"}, Finish(p, held)
      PROVE  /\ \A q \in Tasks \ {p} : PlaceOf(q)'
             /\ PlaceOf(p)'
  BY <1>3, FinishEffect, OthersPlaced
<1>4. ASSUME Suspend(p), op[p] \in Acquiring
      PROVE  /\ \A q \in Tasks \ {p} : PlaceOf(q)'
             /\ PlaceOf(p)'
  BY <1>0, <1>4, SuspendEffect, OthersPlaced
<1>5. ASSUME at[p] = "inside", NEW next \in Phase \ {"start", "loop"}, GoOn(p, next),
             next = "signal" => op[p] \in {"readToWriteLock", "readUnlock"},
             next = "broadcast" => op[p] \in {"writeToReadLock", "writeUnlock"},
             next = "notified" => op[p] \in Releasing \cup {"readToWriteLock"},
             phase[p] = "start"
      PROVE  /\ \A q \in Tasks \ {p} : PlaceOf(q)'
             /\ PlaceOf(p)'
  BY <1>0, <1>5, GoOnEffect, OthersPlaced
<1>6. CASE ReadLock(p) \/ WriteLock(p) \/ Upgrade(p)
  <2>1. \/ \E held \in {"none", "read", "write"} : Finish(p, held)
        \/ Suspend(p) /\ op[p] \in Acquiring
    BY <1>6 DEF ReadLock, WriteLock, Upgrade, RunsIn
  <2> QED
    BY <1>3, <1>4, <2>1
<1>7. CASE ReleaseEnds(p)
  BY <1>3, <1>7 DEF ReleaseEnds, TypeOK
<1>8. CASE \/ UpgradeBegins(p) \/ DowngradeBegins(p) \/ ReadUnlockBegins(p)
           \/ WriteUnlockBegins(p)
  <2>1. \E next \in Phase \ {"start", "loop"} :
          /\ GoOn(p, next) /\ at[p] = "inside" /\ phase[p] = "start"
          /\ next = "signal" => op[p] \in {"readToWriteLock", "readUnlock"}
          /\ next = "broadcast" => op[p] \in {"writeToReadLock", "writeUnlock"}
          /\ next = "notified" => op[p] \in Releasing \cup {"readToWriteLock"}
    BY <1>8 DEF UpgradeBegins, DowngradeBegins, ReadUnlockBegins, WriteUnlockBegins, RunsIn
  <2> QED
    BY <1>5, <2>1
<1>9. CASE Notify(p)
  BY <1>0, <1>9, NotifyEffect, OthersPlaced
<1>10. CASE Abort(p)
  BY <1>0, <1>10, AbortEffect, OthersPlaced DEF taskVars
<1>11. CASE CallRejects(p)
  BY <1>0, <1>11, RejectEffect, OthersPlaced
<1>12. CASE WaitReturns(p)
  BY <1>0, <1>12, ReturnEffect, OthersPlaced DEF taskVars
<1> QED
  BY <1>1, <1>2, <1>6, <1>7, <1>8, <1>9, <1>10, <1>11, <1>12 DEF Acts

-----------------------------------------------------------------------------
(***************************************************************************)
(* What a step of p does to the counters, when it does it right.           *)
(***************************************************************************)
Bit(b) == IF b THEN 1 ELSE 0

Tallies(p) ==
    /\ readers' = readers + Bit(Reads(p)') - Bit(Reads(p))
    /\ writersWaiting' = writersWaiting + Bit(WaitsToWrite(p)') - Bit(WaitsToWrite(p))
    /\ writer' \in BOOLEAN
    /\ Bit(writer') = Bit(writer) + Bit(Writes(p)') - Bit(Writes(p))

\* A step that moves no task into or out of those that are counted leaves the
\* counts right.
LEMMA CountKept ==
    ASSUME CountInv, NEW p \in Tasks, Frame(p), Tallies(p), writer \in BOOLEAN
    PROVE  /\ CountInv'
           /\ readers' \in Nat /\ writersWaiting' \in Nat
<1>0. \A q \in Tasks \ {p} : /\ Reads(q)' <=> Reads(q)
                             /\ WaitsToWrite(q)' <=> WaitsToWrite(q)
                             /\ Writes(q)' <=> Writes(q)
  BY DEF Frame, Reads, WaitsToWrite, Writes
<1>1. /\ IsFiniteSet(ReadingTasks)' /\ readers' = Cardinality(ReadingTasks')
      /\ readers' \in Nat
  <2>1. ReadingTasks' \ {p} = ReadingTasks \ {p}
    BY <1>0 DEF ReadingTasks
  <2>2. /\ p \in ReadingTasks <=> Reads(p)
        /\ p \in ReadingTasks' <=> Reads(p)'
    BY DEF ReadingTasks
  <2>3. /\ IsFiniteSet(ReadingTasks) /\ readers = Cardinality(ReadingTasks)
        /\ readers' = readers + Bit(Reads(p)') - Bit(Reads(p))
    BY DEF CountInv, Tallies
  <2> QED
    BY <2>1, <2>2, <2>3, Recount DEF Bit
<1>2. /\ IsFiniteSet(WritersToBe)' /\ writersWaiting' = Cardinality(WritersToBe')
      /\ writersWaiting' \in Nat
  <2>1. WritersToBe' \ {p} = WritersToBe \ {p}
    BY <1>0 DEF WritersToBe
  <2>2. /\ p \in WritersToBe <=> WaitsToWrite(p)
        /\ p \in WritersToBe' <=> WaitsToWrite(p)'
    BY DEF WritersToBe
  <2>3. /\ IsFiniteSet(WritersToBe) /\ writersWaiting = Cardinality(WritersToBe)
        /\ writersWaiting' = writersWaiting + Bit(WaitsToWrite(p)') - Bit(WaitsToWrite(p))
    BY DEF CountInv, Tallies
  <2> QED
    BY <2>1, <2>2, <2>3, Recount DEF Bit
<1>3. /\ writer' <=> \E q \in Tasks : Writes(q)'
      /\ \A q, r \in Tasks : Writes(q)' /\ Writes(r)' => q = r
  <2>1. /\ writer <=> \E q \in Tasks : Writes(q)
        /\ \A q, r \in Tasks : Writes(q) /\ Writes(r) => q = r
    BY DEF CountInv
  <2>2. /\ writer' \in BOOLEAN
        /\ Bit(writer') = Bit(writer) + Bit(Writes(p)') - Bit(Writes(p))
    BY DEF Tallies
  <2>3. \/ (writer' <=> writer) /\ (Writes(p)' <=> Writes(p))
        \/ ~writer /\ writer' /\ ~Writes(p) /\ Writes(p)'
        \/ writer /\ ~writer' /\ Writes(p) /\ ~Writes(p)'
    BY <2>2 DEF Bit
  <2> QED
    BY <1>0, <2>1, <2>3
<1> QED
  BY <1>1, <1>2, <1>3 DEF CountInv

(***************************************************************************)
(* What a task must hold to call an operation.                             *)
(***************************************************************************)
LEMMA NeedsFacts ==
    ASSUME NEW o \in Acquiring \cup Releasing
    PROVE  /\ Needs(o) = "read" <=> o \in {"readToWriteLock", "readUnlock"}
           /\ Needs(o) = "write" <=> o \in {"writeToReadLock", "writeUnlock"}
<1>1. CASE o \in {"readLock", "writeLock"}
  <2>1. o \notin {"readToWriteLock", "readUnlock", "writeToReadLock", "writeUnlock"}
    BY <1>1
  <2>2. Needs(o) = "none"
    BY <1>1, <2>1, Zenon DEF Needs
  <2> QED
    BY <2>1, <2>2
<1>2. CASE o \in {"readToWriteLock", "readUnlock"}
  <2>1. o \notin {"readLock", "writeLock", "writeToReadLock", "writeUnlock"}
    BY <1>2
  <2>2. Needs(o) = "read"
    BY <1>2, <2>1, Zenon DEF Needs
  <2> QED
    BY <1>2, <2>1, <2>2
<1>3. CASE o \in {"writeToReadLock", "writeUnlock"}
  <2>1. o \notin {"readToWriteLock", "readUnlock", "readLock", "writeLock"}
    BY <1>3
  <2>2. Needs(o) = "write"
    BY <1>3, <2>1, Zenon DEF Needs
  <2> QED
    BY <1>3, <2>1, <2>2
<1> QED
  BY <1>1, <1>2, <1>3 DEF Acquiring, Releasing

(***************************************************************************)
(* Every step counts right (rw-lock.ts:46, 59, 66, 121, 145).              *)
(***************************************************************************)
LEMMA TallyStep ==
    ASSUME IInv, TypeOK, PlaceInv, CountInv, NEW p \in Tasks, Acts(p)
    PROVE  Tallies(p) /\ Frame(p)
<1> USE DEF Tallies, Bit, Reads, Writes, WaitsToWrite, Acquiring, Releasing
<1>0. /\ PlaceOf(p)
      /\ readers \in Nat /\ writersWaiting \in Nat /\ writer \in BOOLEAN
      /\ op[p] \in Acquiring \cup Releasing \cup {"none"}
      /\ phase[p] \in Phase
  BY DEF PlaceInv, TypeOK
<1> USE DEF PlaceOf, lockVars, taskVars
<1>1. CASE \E o \in Ops : Call(p, o)
  <2> PICK o \in Ops : Call(p, o)
    BY <1>1
  <2>1. /\ Frame(p) /\ op[p] = "none" /\ holds[p] = Needs(o) /\ phase[p] = "start"
        /\ op'[p] = o /\ phase'[p] = "start" /\ o \in Acquiring \cup Releasing
        /\ UNCHANGED lockVars
    BY <1>0, CallEffect
  <2>2. /\ Needs(o) = "read" <=> o \in {"readToWriteLock", "readUnlock"}
        /\ Needs(o) = "write" <=> o \in {"writeToReadLock", "writeUnlock"}
    BY <2>1, NeedsFacts
  <2> QED
    BY <1>0, <2>1, <2>2
<1>2. CASE TryReadLock(p)
  <2>1. Frame(p) /\ op' = op /\ phase' = phase /\ holds'[p] = "read"
    BY <1>2 DEF TryReadLock, Frame, TypeOK, MonitorTypeOK, monitorVars
  <2> QED
    BY <1>0, <1>2, <2>1 DEF TryReadLock
<1>3. CASE TryWriteLock(p)
  <2>1. Frame(p) /\ op' = op /\ phase' = phase /\ holds'[p] = "write"
    BY <1>3 DEF TryWriteLock, Frame, TypeOK, MonitorTypeOK, monitorVars
  <2> QED
    BY <1>0, <1>3, <2>1 DEF TryWriteLock
<1>4. ASSUME NEW held \in {"none", "read", "write"}, Finish(p, held)
      PROVE  Frame(p) /\ op'[p] = "none" /\ phase'[p] = "start" /\ holds'[p] = held
  BY <1>4, FinishEffect
<1>5. ASSUME Suspend(p)
      PROVE  Frame(p) /\ op' = op /\ phase'[p] = "loop" /\ holds' = holds
  BY <1>5, SuspendEffect
<1>6. CASE ReadLock(p)
  BY <1>0, <1>4, <1>5, <1>6 DEF ReadLock, RunsIn
<1>7. CASE WriteLock(p)
  <2>1. op[p] = "writeLock" /\ phase[p] \in {"start", "loop"} /\ readers' = readers
    BY <1>7 DEF WriteLock, RunsIn
  <2> DEFINE waiting == writersWaiting + (IF phase[p] = "start" THEN 1 ELSE 0)
  <2>2. CASE Finish(p, "none") /\ writersWaiting' = waiting - 1 /\ writer' = writer
    BY <1>0, <1>4, <2>1, <2>2
  <2>3. CASE Suspend(p) /\ writersWaiting' = waiting /\ writer' = writer
    BY <1>0, <1>5, <2>1, <2>3
  <2>4. CASE /\ ~writer /\ Finish(p, "write")
             /\ writersWaiting' = waiting - 1 /\ writer' = TRUE
    BY <1>0, <1>4, <2>1, <2>4
  <2> QED
    BY <1>7, <2>2, <2>3, <2>4 DEF WriteLock
<1>8. CASE Upgrade(p)
  <2>1. op[p] = "readToWriteLock" /\ phase[p] \in {"loop", "notified"}
    BY <1>8 DEF Upgrade, RunsIn
  <2>2. CASE /\ Finish(p, "read") /\ readers' = readers + 1
             /\ writersWaiting' = writersWaiting - 1 /\ writer' = writer
    BY <1>0, <1>4, <2>1, <2>2
  <2>3. CASE Suspend(p) /\ UNCHANGED lockVars
    BY <1>0, <1>5, <2>1, <2>3
  <2>4. CASE /\ ~writer /\ Finish(p, "write") /\ readers' = readers
             /\ writersWaiting' = writersWaiting - 1 /\ writer' = TRUE
    BY <1>0, <1>4, <2>1, <2>4
  <2> QED
    BY <1>8, <2>2, <2>3, <2>4 DEF Upgrade
<1>9. ASSUME NEW next \in Phase, GoOn(p, next)
      PROVE  Frame(p) /\ op' = op /\ phase'[p] = next /\ holds' = holds
  BY <1>9, GoOnEffect
<1>10. CASE UpgradeBegins(p)
  <2>1. /\ op[p] = "readToWriteLock" /\ phase[p] = "start"
        /\ readers' = readers - 1 /\ writersWaiting' = writersWaiting + 1
        /\ writer' = writer
    BY <1>10 DEF UpgradeBegins, RunsIn
  <2>2. Frame(p) /\ op' = op /\ phase'[p] \in {"signal", "notified"} /\ holds' = holds
    BY <1>9, <1>10 DEF UpgradeBegins, Phase
  <2> QED
    BY <1>0, <2>1, <2>2
<1>11. CASE DowngradeBegins(p)
  <2>1. Writes(p) /\ writer = TRUE
    BY <1>0, <1>11 DEF DowngradeBegins, RunsIn, CountInv
  <2>2. Frame(p) /\ op' = op /\ phase'[p] = "broadcast" /\ holds' = holds
    BY <1>9, <1>11 DEF DowngradeBegins, Phase
  <2>3. /\ op[p] = "writeToReadLock" /\ phase[p] = "start"
        /\ readers' = readers + 1 /\ writersWaiting' = writersWaiting
        /\ writer' = FALSE
    BY <1>11 DEF DowngradeBegins, RunsIn
  <2>4. /\ ~Writes(p)' /\ ~Reads(p) /\ ~WaitsToWrite(p) /\ ~WaitsToWrite(p)'
        /\ Reads(p)'
    BY <2>2, <2>3
  <2>5. writer' \in BOOLEAN /\ Bit(writer) = 1 /\ Bit(writer') = 0
    BY <2>1, <2>3
  <2>6. Bit(Writes(p)) = 1 /\ Bit(Writes(p)') = 0
    BY <2>1, <2>4
  <2> HIDE DEF Reads, Writes, WaitsToWrite
  <2>7. /\ readers' = readers + Bit(Reads(p)') - Bit(Reads(p))
        /\ writersWaiting' = writersWaiting + Bit(WaitsToWrite(p)') - Bit(WaitsToWrite(p))
    BY <1>0, <2>3, <2>4
  <2> HIDE DEF Bit
  <2> QED
    BY <2>2, <2>5, <2>6, <2>7
<1>12. CASE ReadUnlockBegins(p)
  BY <1>0, <1>9, <1>12 DEF ReadUnlockBegins, RunsIn, Phase
<1>13. CASE WriteUnlockBegins(p)
  <2>1. Writes(p) /\ writer = TRUE
    BY <1>0, <1>13 DEF WriteUnlockBegins, RunsIn, CountInv
  <2>2. Frame(p) /\ op' = op /\ phase'[p] = "broadcast" /\ holds' = holds
    BY <1>9, <1>13 DEF WriteUnlockBegins, Phase
  <2>3. /\ op[p] = "writeUnlock" /\ phase[p] = "start"
        /\ readers' = readers /\ writersWaiting' = writersWaiting
        /\ writer' = FALSE
    BY <1>13 DEF WriteUnlockBegins, RunsIn
  <2>4. /\ ~Writes(p)' /\ ~Reads(p) /\ ~WaitsToWrite(p) /\ ~WaitsToWrite(p)'
        /\ ~Reads(p)'
    BY <2>2, <2>3
  <2>5. writer' \in BOOLEAN /\ Bit(writer) = 1 /\ Bit(writer') = 0
    BY <2>1, <2>3
  <2>6. Bit(Writes(p)) = 1 /\ Bit(Writes(p)') = 0
    BY <2>1, <2>4
  <2> HIDE DEF Reads, Writes, WaitsToWrite
  <2>7. /\ readers' = readers + Bit(Reads(p)') - Bit(Reads(p))
        /\ writersWaiting' = writersWaiting + Bit(WaitsToWrite(p)') - Bit(WaitsToWrite(p))
    BY <1>0, <2>3, <2>4
  <2> HIDE DEF Bit
  <2> QED
    BY <2>2, <2>5, <2>6, <2>7
<1>14. CASE Notify(p)
  <2>1. /\ Frame(p) /\ phase[p] \in {"signal", "broadcast"} /\ phase'[p] = "notified"
        /\ op' = op /\ holds' = holds /\ UNCHANGED lockVars
    BY <1>14, NotifyEffect
  <2> QED
    BY <1>0, <2>1
<1>15. CASE ReleaseEnds(p)
  <2>1. holds[p] \in {"none", "read", "write"} /\ holds[p] = Meanwhile(op[p])
    BY <1>0, <1>15 DEF ReleaseEnds, RunsIn, TypeOK
  <2>2. /\ Finish(p, holds[p]) /\ op[p] \in Releasing /\ phase[p] = "notified"
        /\ UNCHANGED lockVars
    BY <1>15 DEF ReleaseEnds, RunsIn
  <2> QED
    BY <1>0, <1>4, <2>1, <2>2 DEF Meanwhile
<1>16. CASE Abort(p)
  <2>1. Frame(p) /\ UNCHANGED <<lockVars, taskVars>>
    BY <1>16, AbortEffect
  <2> QED
    BY <1>0, <2>1
<1>17. CASE CallRejects(p)
  <2>1. /\ Frame(p) /\ at[p] = "rejected" /\ op'[p] = "none" /\ phase' = phase
        /\ holds'[p] = OnError(op[p]) /\ UNCHANGED lockVars
    BY <1>17, RejectEffect
  <2> QED
    BY <1>0, <2>1 DEF OnError
<1>18. CASE WaitReturns(p)
  <2>1. Frame(p) /\ UNCHANGED <<lockVars, taskVars>>
    BY <1>18, ReturnEffect
  <2> QED
    BY <1>0, <2>1
<1> QED
  BY <1>1, <1>2, <1>3, <1>6, <1>7, <1>8, <1>10, <1>11, <1>12, <1>13, <1>14, <1>15,
     <1>16, <1>17, <1>18 DEF Acts

-----------------------------------------------------------------------------
(***************************************************************************)
(* What a step adds to the history.                                        *)
(***************************************************************************)
LEMMA HistoryFacts ==
    ASSUME Remember, upset \subseteq Event
    PROVE  /\ upset \subseteq upset' /\ upset' \subseteq Event
           /\ \A q \in Tasks :
                /\ Gives(q, "rejected") \/ Gives(q, "quitting") => "abort" \in upset'
                /\ op[q] = "readToWriteLock" /\ Gives(q, "quitting")
                     => "upgradeAborted" \in upset'
                /\ op[q] = "writeToReadLock" /\ writer /\ ~writer'
                     => "downgrade" \in upset'
           /\ "upgradeAborted" \in upset' =>
                "upgradeAborted" \in upset \/ \E q \in Tasks : Gives(q, "quitting")
<1>1. upset' = upset \cup {e \in Event : Happens(e)}
  BY DEF Remember
<1>2. "abort" # "upgradeAborted" /\ "abort" # "downgrade" /\ "upgradeAborted" # "downgrade"
  OBVIOUS
<1>3. Happens("abort") <=> \E q \in Tasks : Gives(q, "rejected") \/ Gives(q, "quitting")
  BY <1>2, Zenon DEF Happens
<1>4. Happens("upgradeAborted") <=>
        \E q \in Tasks : op[q] = "readToWriteLock" /\ Gives(q, "quitting")
  BY <1>2, Zenon DEF Happens
<1>5. Happens("downgrade") <=>
        \E q \in Tasks : op[q] = "writeToReadLock" /\ writer /\ ~writer'
  BY <1>2, Zenon DEF Happens
<1>6. /\ "abort" \in upset' <=> "abort" \in upset \/ Happens("abort")
      /\ "upgradeAborted" \in upset'
            <=> "upgradeAborted" \in upset \/ Happens("upgradeAborted")
      /\ "downgrade" \in upset' <=> "downgrade" \in upset \/ Happens("downgrade")
  BY <1>1 DEF Event
<1>7. upset \subseteq upset' /\ upset' \subseteq Event
  BY <1>1
<1> QED
  BY <1>3, <1>4, <1>5, <1>6, <1>7

(***************************************************************************)
(* A wait fails only when it is aborted, and its operation goes on then.   *)
(***************************************************************************)
LEMMA FailedMoves ==
    ASSUME IInv, TypeOK, PlaceInv, NEW p \in Tasks, Acts(p)
    PROVE  /\ failed' \subseteq failed \cup {p}
           /\ p \in failed' => op'[p] = op[p]
           /\ p \in failed' \ failed => at[p] = "sleeping" /\ at'[p] = "quitting"
<1>1. CASE \E o \in Ops : Call(p, o)
  BY <1>1, CallEffect DEF PlaceInv, PlaceOf
<1>2. CASE TryReadLock(p) \/ TryWriteLock(p)
  BY <1>2 DEF TryReadLock, TryWriteLock, monitorVars
<1>3. CASE ReadLock(p) \/ WriteLock(p) \/ Upgrade(p) \/ ReleaseEnds(p)
  <2>1. \/ \E held \in {"none", "read", "write"} : Finish(p, held)
        \/ Suspend(p)
    BY <1>3 DEF ReadLock, WriteLock, Upgrade, ReleaseEnds, TypeOK
  <2> QED
    BY <2>1, FinishEffect, SuspendEffect
<1>4. CASE \/ UpgradeBegins(p) \/ DowngradeBegins(p) \/ ReadUnlockBegins(p)
           \/ WriteUnlockBegins(p)
  BY <1>4 DEF UpgradeBegins, DowngradeBegins, ReadUnlockBegins,
              WriteUnlockBegins, GoOn, monitorVars
<1>5. CASE Notify(p)
  BY <1>5, NotifyEffect
<1>6. CASE Abort(p)
  BY <1>6, AbortEffect DEF taskVars
<1>7. CASE CallRejects(p)
  BY <1>7, RejectEffect DEF PlaceInv, PlaceOf
<1>8. CASE WaitReturns(p)
  BY <1>8, ReturnEffect DEF taskVars
<1> QED
  BY <1>1, <1>2, <1>3, <1>4, <1>5, <1>6, <1>7, <1>8 DEF Acts

\* Every step keeps what the history says of the aborts.
LEMMA AbortStep ==
    ASSUME LockInv, NEW p \in Tasks, Acts(p), Remember
    PROVE  AbortInv'
<1> USE DEF LockInv
<1>1. /\ failed' \subseteq failed \cup {p}
      /\ p \in failed' => op'[p] = op[p]
      /\ p \in failed' \ failed => at[p] = "sleeping" /\ at'[p] = "quitting"
  BY FailedMoves
<1>2. Frame(p)
  BY TallyStep
<1>3. /\ upset \subseteq upset'
      /\ \A q \in Tasks :
            /\ Gives(q, "rejected") \/ Gives(q, "quitting") => "abort" \in upset'
            /\ op[q] = "readToWriteLock" /\ Gives(q, "quitting")
                 => "upgradeAborted" \in upset'
      /\ "upgradeAborted" \in upset' =>
            "upgradeAborted" \in upset \/ \E q \in Tasks : Gives(q, "quitting")
  BY HistoryFacts DEF TypeOK
<1>4. failed \subseteq Tasks
  BY DEF TypeOK, MonitorTypeOK
<1> QED
  BY <1>1, <1>2, <1>3, <1>4 DEF AbortInv, Frame, Gives

-----------------------------------------------------------------------------
(***************************************************************************)
(* The exclusion is kept: whoever becomes a reader sees no writer, and     *)
(* whoever becomes a writer sees neither, but for an upgrade that aborts   *)
(* (rw-lock.ts:46, 63, 84, 138).                                           *)
(***************************************************************************)
LEMMA ExclusionStep ==
    ASSUME LockInv, NEW p \in Tasks, Acts(p), Remember
    PROVE  ExclusionInv'
<1> USE DEF LockInv
<1>1. /\ readers \in Nat /\ writer \in BOOLEAN /\ upset \subseteq upset'
  BY HistoryFacts DEF TypeOK
<1>2. CASE UNCHANGED lockVars
  BY <1>1, <1>2 DEF ExclusionInv, lockVars
<1>3. CASE ~writer' \/ (readers' <= readers /\ writer' = writer)
              \/ (readers' = readers /\ readers = 0)
  <2>1. readers' \in Nat
    BY <1>1, TallyStep, CountKept
  <2> QED
    BY <1>1, <1>3, <2>1 DEF ExclusionInv
<1>4. CASE p \in failed /\ op[p] = "readToWriteLock"
  BY <1>1, <1>4 DEF ExclusionInv, AbortInv
<1>5. \/ UNCHANGED lockVars
      \/ ~writer' \/ (readers' <= readers /\ writer' = writer)
      \/ readers' = readers /\ readers = 0
      \/ p \in failed /\ op[p] = "readToWriteLock"
  <2>1. CASE \/ \E o \in Ops : Call(p, o)
             \/ Notify(p) \/ ReleaseEnds(p)
             \/ Abort(p) \/ CallRejects(p) \/ WaitReturns(p)
    BY <2>1 DEF Call, Notify, ReleaseEnds, Abort, CallRejects, WaitReturns
  <2>2. CASE TryReadLock(p) \/ TryWriteLock(p)
    BY <2>2, <1>1 DEF TryReadLock, TryWriteLock
  <2>3. CASE ReadLock(p)
    BY <2>3, <1>1 DEF ReadLock
  <2>4. CASE WriteLock(p)
    BY <2>4, <1>1 DEF WriteLock
  <2>5. CASE Upgrade(p)
    BY <2>5, <1>1 DEF Upgrade, RunsIn
  <2>6. CASE UpgradeBegins(p) \/ ReadUnlockBegins(p)
    BY <2>6, <1>1 DEF UpgradeBegins, ReadUnlockBegins
  <2>7. CASE DowngradeBegins(p) \/ WriteUnlockBegins(p)
    BY <2>7 DEF DowngradeBegins, WriteUnlockBegins
  <2> QED
    BY <2>1, <2>2, <2>3, <2>4, <2>5, <2>6, <2>7 DEF Acts
<1> QED
  BY <1>2, <1>3, <1>4, <1>5

-----------------------------------------------------------------------------
\* Every step keeps the invariant of the monitor and the types of the lock.
LEMMA TypeStep ==
    ASSUME LockInv, NEW p \in Tasks, Acts(p), Remember
    PROVE  IInv' /\ TypeOK'
<1> USE DEF LockInv
<1>1. IInv'
  BY MonitorStep, NextIInv
<1>2. Frame(p) /\ Tallies(p)
  BY TallyStep
<1>3. writer \in BOOLEAN
  BY DEF TypeOK
<1>4. readers' \in Nat /\ writersWaiting' \in Nat
  BY <1>2, <1>3, CountKept
<1>5. writer' \in BOOLEAN
  BY <1>2 DEF Tallies
<1>6. upset' \subseteq Event
  BY HistoryFacts DEF TypeOK
<1>7. MonitorTypeOK'
  BY <1>1 DEF IInv
<1> QED
  BY <1>1, <1>2, <1>4, <1>5, <1>6, <1>7 DEF TypeOK, Frame

-----------------------------------------------------------------------------
(***************************************************************************)
(* A task that notifies does nothing else, and the steps of the others     *)
(* leave it where it is.                                                   *)
(***************************************************************************)
LEMMA Notifying ==
    ASSUME PlaceInv, NEW p \in Tasks, Acts(p),
           at[p] = "inside", phase[p] \in {"signal", "broadcast"}
    PROVE  Notify(p)
<1>1. PlaceOf(p)
  BY DEF PlaceInv
<1>2. /\ ~\E o \in Ops : Call(p, o)
      /\ ~(TryReadLock(p) \/ TryWriteLock(p))
  BY <1>1 DEF PlaceOf, Call, TryReadLock, TryWriteLock
<1>3. /\ ~(ReadLock(p) \/ WriteLock(p) \/ Upgrade(p) \/ ReleaseEnds(p))
      /\ ~\/ UpgradeBegins(p) \/ DowngradeBegins(p) \/ ReadUnlockBegins(p)
          \/ WriteUnlockBegins(p)
  BY DEF ReadLock, WriteLock, Upgrade, ReleaseEnds, UpgradeBegins, DowngradeBegins,
         ReadUnlockBegins, WriteUnlockBegins, RunsIn
<1>4. ~(Abort(p) \/ CallRejects(p) \/ WaitReturns(p))
  BY DEF Abort, AbortEntry, AbortWait, CallRejects, EntryRejects, WaitReturns, Return
<1> QED
  BY <1>2, <1>3, <1>4 DEF Acts

\* A task that is about to notify the sleepers stays so until it does.
LEMMA RunningOn ==
    ASSUME PlaceInv, NEW p \in Tasks, Acts(p), Frame(p),
           NEW ph \in {"signal", "broadcast"}, Running(ph)
    PROVE  Running(ph)' \/ (phase[p] = ph /\ Notify(p))
<1>1. PICK r \in Tasks : at[r] = "inside" /\ phase[r] = ph
  BY DEF Running
<1>2. CASE r = p
  BY <1>1, <1>2, Notifying
<1>3. CASE r # p
  BY <1>1, <1>3 DEF Frame, Running
<1> QED
  BY <1>2, <1>3

(***************************************************************************)
(* A task goes to sleep in the loop of its operation, for the condition it *)
(* has just read.                                                          *)
(***************************************************************************)
LEMMA FallsAsleep ==
    ASSUME IInv, TypeOK, PlaceInv, NEW p \in Tasks, Acts(p), at'[p] = "sleeping"
    PROVE  /\ Suspend(p)
           /\ \/ /\ ReadLock(p) /\ op[p] = "readLock"
                 /\ writer \/ writersWaiting > 0
                 /\ UNCHANGED lockVars
              \/ (WriteLock(p) \/ Upgrade(p)) /\ (writer \/ readers > 0)
<1>0. PlaceOf(p) /\ at[p] \in Place
  BY DEF PlaceInv, TypeOK, MonitorTypeOK
<1>1. ~\E o \in Ops : Call(p, o)
  BY CallEffect
<1>2. ~(TryReadLock(p) \/ TryWriteLock(p))
  BY <1>0 DEF PlaceOf, TryReadLock, TryWriteLock, monitorVars
<1>3. \A held \in {"none", "read", "write"} : ~Finish(p, held)
  BY FinishEffect
<1>4. ~ReleaseEnds(p)
  BY <1>3 DEF ReleaseEnds, TypeOK
<1>5. ~\/ UpgradeBegins(p) \/ DowngradeBegins(p) \/ ReadUnlockBegins(p)
       \/ WriteUnlockBegins(p)
  BY DEF UpgradeBegins, DowngradeBegins, ReadUnlockBegins, WriteUnlockBegins,
         RunsIn, GoOn, monitorVars
<1>6. ~Notify(p)
  BY NotifyEffect
<1>7. ~(Abort(p) \/ CallRejects(p) \/ WaitReturns(p))
  BY AbortEffect, RejectEffect, ReturnEffect
<1>8. ReadLock(p) \/ WriteLock(p) \/ Upgrade(p)
  BY <1>1, <1>2, <1>4, <1>5, <1>6, <1>7 DEF Acts
<1> QED
  BY <1>3, <1>8 DEF ReadLock, WriteLock, Upgrade, RunsIn, lockVars

(***************************************************************************)
(* What a reader sleeps for ends by a broadcast, or by a lock, as long as  *)
(* no call aborts (rw-lock.ts:32, 163, 200).                               *)
(***************************************************************************)
LEMMA CausesEnd ==
    ASSUME TypeOK, NEW p \in Tasks, Acts(p), p \notin failed
    PROVE  /\ writer => writer' \/ (at'[p] = "inside" /\ phase'[p] = "broadcast")
           /\ writersWaiting > 0 => writersWaiting' > 0 \/ writer'
<1>0. writer \in BOOLEAN /\ writersWaiting \in Nat /\ phase \in [Tasks -> Phase]
  BY DEF TypeOK
<1>1. CASE UNCHANGED <<writer, writersWaiting>>
  BY <1>1
<1>2. CASE WriteLock(p) \/ Upgrade(p)
  <2>1. \/ writer' = TRUE
        \/ writer' = writer /\ writersWaiting' = writersWaiting
        \/ writer' = writer /\ writersWaiting' = writersWaiting + 1
    BY <1>0, <1>2 DEF WriteLock, Upgrade, lockVars
  <2> QED
    BY <1>0, <2>1
<1>3. CASE UpgradeBegins(p)
  BY <1>0, <1>3 DEF UpgradeBegins
<1>4. CASE DowngradeBegins(p) \/ WriteUnlockBegins(p)
  BY <1>0, <1>4 DEF DowngradeBegins, WriteUnlockBegins, GoOn, RunsIn, monitorVars
<1>5. CASE TryWriteLock(p)
  BY <1>5 DEF TryWriteLock
<1>6. CASE \/ \E o \in Ops : Call(p, o)
           \/ TryReadLock(p) \/ ReadLock(p) \/ ReadUnlockBegins(p)
           \/ Notify(p) \/ ReleaseEnds(p)
           \/ Abort(p) \/ CallRejects(p) \/ WaitReturns(p)
  BY <1>1, <1>6 DEF Call, TryReadLock, ReadLock, ReadUnlockBegins, Notify, ReleaseEnds,
                    Abort, CallRejects, WaitReturns, lockVars
<1> QED
  BY <1>2, <1>3, <1>4, <1>5, <1>6 DEF Acts

\* Every step keeps a reason for the readers that sleep.
LEMMA ReaderStep ==
    ASSUME LockInv, NEW p \in Tasks, Acts(p), Remember
    PROVE  ReaderInv'
<1> USE DEF LockInv
<1> SUFFICES ASSUME "abort" \notin upset',
                    NEW q \in Tasks, at'[q] = "sleeping", op'[q] = "readLock"
             PROVE  writer' \/ writersWaiting' > 0 \/ Running("broadcast")'
  BY DEF ReaderInv, ReaderSleeps
<1>1. upset \subseteq upset' /\ Frame(p)
  BY HistoryFacts, TallyStep DEF TypeOK
<1>2. p \notin failed
  BY <1>1 DEF AbortInv
<1>3. /\ writer => writer' \/ (at'[p] = "inside" /\ phase'[p] = "broadcast")
      /\ writersWaiting > 0 => writersWaiting' > 0 \/ writer'
  BY <1>2, CausesEnd
<1>4. CASE writer \/ writersWaiting > 0
  BY <1>3, <1>4 DEF Running
<1>5. CASE ~(writer \/ writersWaiting > 0)
  <2>1. CASE q = p
    <3>1. /\ Suspend(p)
          /\ \/ ReadLock(p) /\ (writer \/ writersWaiting > 0)
             \/ (WriteLock(p) \/ Upgrade(p))
      BY <2>1, FallsAsleep
    <3>2. op[p] = "readLock"
      BY <2>1, <3>1 DEF Suspend
    <3> QED
      BY <1>5, <3>1, <3>2 DEF WriteLock, Upgrade, RunsIn
  <2>2. CASE q # p
    <3>1. at[q] = "sleeping" /\ op[q] = "readLock"
      BY <1>1, <2>2 DEF Frame
    <3>2. Running("broadcast")
      BY <1>1, <1>5, <3>1 DEF ReaderInv, ReaderSleeps
    <3>3. CASE Running("broadcast")'
      BY <3>3
    <3>4. CASE phase[p] = "broadcast" /\ Notify(p)
      <4>1. sleepers' = <<>>
        BY <3>4, NotifyEffect
      <4>2. IInv'
        BY TypeStep
      <4> QED
        BY <4>1, <4>2 DEF IInv, QueueInv, On
    <3> QED
      BY <1>1, <3>2, <3>3, <3>4, RunningOn
  <2> QED
    BY <2>1, <2>2
<1> QED
  BY <1>4, <1>5

-----------------------------------------------------------------------------
(***************************************************************************)
(* As long as no call aborts and no writer downgrades, those on the queue  *)
(* of the condition sleep, and no wait fails.                              *)
(***************************************************************************)
Calm == upset \cap {"abort", "downgrade"} = {}

\* What holds as long as the lock is calm.
LEMMA CalmFacts ==
    ASSUME LockInv, Calm
    PROVE  /\ failed = {}
           /\ \A q \in Tasks : at[q] \notin {"rejected", "quitting"}
           /\ ~(writer /\ readers > 0)
           /\ \A q \in Tasks : On(sleepers, q) <=> at[q] = "sleeping"
           /\ sleepers # <<>> => Head(sleepers) \in Tasks /\ at[Head(sleepers)] = "sleeping"
           /\ writersWaiting = 0 => \A q \in Tasks : ~WaitsToWrite(q)
           /\ writer <=> \E q \in Tasks : Writes(q)
<1> USE DEF LockInv
<1>1. "abort" \notin upset /\ "upgradeAborted" \notin upset
  BY DEF Calm, AbortInv
<1>2. failed = {} /\ \A q \in Tasks : at[q] \notin {"rejected", "quitting"}
  BY <1>1 DEF AbortInv
<1>3. ~(writer /\ readers > 0)
  BY <1>1 DEF ExclusionInv
<1>4. \A q \in Tasks : On(sleepers, q) <=> at[q] = "sleeping"
  BY <1>2 DEF IInv, QueueInv
<1>5. sleepers # <<>> => Head(sleepers) \in Tasks /\ On(sleepers, Head(sleepers))
  BY ShiftFacts DEF TypeOK, MonitorTypeOK
<1>6. writersWaiting = 0 => WritersToBe = {}
  BY FS_EmptySet DEF CountInv
<1>7. writer <=> \E q \in Tasks : Writes(q)
  BY DEF CountInv
<1> QED
  BY <1>2, <1>3, <1>4, <1>5, <1>6, <1>7 DEF WritersToBe

(***************************************************************************)
(* What the steps do then.                                                 *)
(***************************************************************************)
GetsRead(p) ==
    /\ TryReadLock(p) \/ ReadLock(p)
    /\ ~writer /\ writersWaiting = 0 /\ readers' = readers + 1

GetsWrite(p) ==
    /\ TryWriteLock(p) \/ WriteLock(p) \/ Upgrade(p)
    /\ ~writer /\ readers = 0 /\ writer' = TRUE /\ readers' = 0

SleepsToRead(p) ==
    /\ Suspend(p) /\ op[p] = "readLock"
    /\ writer \/ writersWaiting > 0
    /\ UNCHANGED lockVars

SleepsToWrite(p) ==
    /\ WriteLock(p) \/ Upgrade(p)
    /\ Suspend(p)
    /\ writer \/ readers > 0
    /\ UNCHANGED <<readers, writer>>

EndsReading(p) ==
    /\ UpgradeBegins(p) \/ ReadUnlockBegins(p)
    /\ GoOn(p, IF readers = 1 THEN "signal" ELSE "notified")
    /\ at[p] = "inside"
    /\ readers > 0 /\ ~writer /\ readers' = readers - 1 /\ ~writer'

EndsWriting(p) ==
    /\ GoOn(p, "broadcast") /\ at[p] = "inside"
    /\ readers = 0 /\ ~writer' /\ UNCHANGED <<readers, writersWaiting>>

CalmAct(p) ==
    \/ \E o \in Ops : Call(p, o)
    \/ GetsRead(p) \/ GetsWrite(p)
    \/ SleepsToRead(p) \/ SleepsToWrite(p)
    \/ EndsReading(p) \/ EndsWriting(p)
    \/ Notify(p)
    \/ ReleaseEnds(p)
    \/ WaitReturns(p) /\ at[p] = "woken"

\* A step after which the lock is calm leaves a calm one, and is none of those
\* that follow an abort.
LEMMA CalmActs ==
    ASSUME LockInv, NEW p \in Tasks, Acts(p), Remember, Calm'
    PROVE  Calm /\ CalmAct(p)
<1> USE DEF LockInv
<1>1. /\ upset \subseteq upset'
      /\ \A q \in Tasks :
            /\ Gives(q, "rejected") \/ Gives(q, "quitting") => "abort" \in upset'
            /\ op[q] = "writeToReadLock" /\ writer /\ ~writer' => "downgrade" \in upset'
  BY HistoryFacts DEF TypeOK
<1>2. Calm
  BY <1>1 DEF Calm
<1> SUFFICES CalmAct(p)
  BY <1>2
<1>3. /\ failed = {}
      /\ \A q \in Tasks : at[q] \notin {"rejected", "quitting"}
      /\ ~(writer /\ readers > 0)
      /\ \A q \in Tasks : Writes(q) => writer
  BY <1>2, CalmFacts
<1>4. /\ readers \in Nat /\ writer \in BOOLEAN /\ writersWaiting \in Nat
      /\ \A q \in Tasks : Reads(q) => readers > 0
  <2>1. \A q \in Tasks : Reads(q) => ReadingTasks # {}
    BY DEF ReadingTasks
  <2>2. ReadingTasks # {} => readers # 0
    BY FS_EmptySet DEF CountInv
  <2> QED
    BY <2>1, <2>2 DEF TypeOK
<1>5. CASE TryReadLock(p) \/ ReadLock(p)
  BY <1>3, <1>5 DEF CalmAct, GetsRead, SleepsToRead, TryReadLock, ReadLock, RunsIn, lockVars
<1>6. CASE TryWriteLock(p) \/ WriteLock(p) \/ Upgrade(p)
  BY <1>3, <1>4, <1>6
  DEF CalmAct, GetsWrite, SleepsToWrite, TryWriteLock, WriteLock, Upgrade, RunsIn, lockVars
<1>7. CASE UpgradeBegins(p) \/ ReadUnlockBegins(p)
  <2>1. Reads(p)
    BY <1>7 DEF UpgradeBegins, ReadUnlockBegins, RunsIn, Reads
  <2>2. readers > 0 /\ ~writer
    BY <1>3, <1>4, <2>1
  <2> QED
    BY <1>7, <2>2 DEF CalmAct, EndsReading, UpgradeBegins, ReadUnlockBegins, RunsIn
<1>8. CASE DowngradeBegins(p)
  <2>1. op[p] = "writeToReadLock" /\ Writes(p) /\ ~writer'
    BY <1>8 DEF DowngradeBegins, RunsIn, Writes
  <2> QED
    BY <1>1, <1>3, <2>1 DEF Calm
<1>9. CASE WriteUnlockBegins(p)
  <2>1. Writes(p)
    BY <1>9 DEF WriteUnlockBegins, RunsIn, Writes
  <2>2. writer /\ readers = 0
    BY <1>3, <1>4, <2>1
  <2> QED
    BY <1>9, <2>2 DEF CalmAct, EndsWriting, WriteUnlockBegins, RunsIn
<1>10. CASE Abort(p) \/ CallRejects(p)
  BY <1>1, <1>3, <1>10, AbortEffect, RejectEffect DEF Calm, Gives
<1>11. CASE WaitReturns(p)
  BY <1>3, <1>11, ReturnEffect DEF CalmAct
<1>12. CASE (\E o \in Ops : Call(p, o)) \/ Notify(p) \/ ReleaseEnds(p)
  BY <1>12 DEF CalmAct
<1> QED
  BY <1>5, <1>6, <1>7, <1>8, <1>9, <1>10, <1>11, <1>12 DEF Acts

(***************************************************************************)
(* The task inside the monitor is the only one that runs, and it is at one *)
(* phase.                                                                  *)
(***************************************************************************)
LEMMA OneRuns ==
    ASSUME IInv, PlaceInv, NEW p \in Tasks, at[p] = "inside",
           NEW ph \in {"signal", "broadcast"}, Running(ph)
    PROVE  phase[p] = ph
BY DEF IInv, MonitorExclusion, Running

(***************************************************************************)
(* Who notifies has left nobody with the lock (rw-lock.ts:130, 163, 182,   *)
(* 200).                                                                   *)
(***************************************************************************)
LEMMA NotifyWhenFree ==
    ASSUME LockInv, NEW p \in Tasks, Acts(p), Remember, Calm',
           NEW ph \in {"signal", "broadcast"}, Running(ph)'
    PROVE  readers' = 0 /\ ~writer'
<1> USE DEF LockInv
<1>1. /\ Calm /\ CalmAct(p) /\ Frame(p) /\ PlaceInv /\ PlaceOf(p)
      /\ readers \in Nat /\ op[p] \in Acquiring \cup Releasing \cup {"none"}
  BY CalmActs, TallyStep DEF PlaceInv, TypeOK
<1>2. PICK r \in Tasks : at'[r] = "inside" /\ phase'[r] = ph
  BY DEF Running
<1>3. CASE r # p
  <2>1. phase[r] = ph /\ at[r] \in Place
    BY <1>1, <1>2, <1>3 DEF Frame, TypeOK, MonitorTypeOK
  <2>2. at[r] = "inside"
    BY <2>1 DEF PlaceInv, PlaceOf, Place
  <2>3. at[p] # "inside" /\ locked
    BY <1>3, <2>2 DEF IInv, MonitorExclusion
  <2>4. readers = 0 /\ ~writer
    BY <1>1, <2>1, <2>2 DEF WakeInv, Running, Calm
  <2>5. UNCHANGED lockVars
    <3>1. ~(GetsRead(p) \/ GetsWrite(p))
      BY <2>3 DEF GetsRead, GetsWrite, TryReadLock, TryWriteLock, ReadLock, WriteLock,
                  Upgrade, RunsIn
    <3>2. ~(SleepsToRead(p) \/ SleepsToWrite(p))
      BY <2>3, SuspendEffect DEF SleepsToRead, SleepsToWrite
    <3>3. ~(EndsReading(p) \/ EndsWriting(p))
      BY <2>3 DEF EndsReading, EndsWriting
    <3> QED
      BY <1>1, <3>1, <3>2, <3>3 DEF CalmAct, Call, Notify, ReleaseEnds, WaitReturns
  <2> QED
    BY <2>4, <2>5 DEF lockVars
<1>4. CASE r = p
  <2>1. ~\E o \in Ops : Call(p, o)
    BY <1>1, <1>2, <1>4, CallEffect DEF PlaceOf
  <2>2. \A held \in {"none", "read", "write"} : ~Finish(p, held)
    BY <1>2, <1>4, FinishEffect
  <2>3. ~(TryReadLock(p) \/ TryWriteLock(p))
    BY <1>1, <1>2, <1>4 DEF TryReadLock, TryWriteLock, PlaceOf, monitorVars
  <2>4. ~Suspend(p)
    BY <1>2, <1>4, SuspendEffect
  <2>5. ~Notify(p)
    BY <1>2, <1>4, NotifyEffect
  <2>6. ~WaitReturns(p)
    BY <1>1, <1>2, <1>4, ReturnEffect DEF PlaceOf, taskVars
  <2>7. ~(GetsRead(p) \/ GetsWrite(p))
    <3>1. ~GetsRead(p)
      BY <1>1, <2>2, <2>3, <2>4 DEF GetsRead, ReadLock, lockVars
    <3>2. ~GetsWrite(p)
      BY <1>1, <2>2, <2>3, <2>4 DEF GetsWrite, WriteLock, Upgrade
    <3> QED
      BY <3>1, <3>2
  <2>8. ~ReleaseEnds(p)
    BY <2>2 DEF ReleaseEnds, TypeOK
  <2>9. EndsReading(p) \/ EndsWriting(p)
    BY <1>1, <2>1, <2>4, <2>5, <2>6, <2>7, <2>8
    DEF CalmAct, SleepsToRead, SleepsToWrite
  <2>10. CASE EndsReading(p)
    <3>1. phase'[p] = IF readers = 1 THEN "signal" ELSE "notified"
      BY <2>10 DEF EndsReading, GoOn, TypeOK
    <3> QED
      BY <1>1, <1>2, <1>4, <2>10, <3>1 DEF EndsReading
  <2>11. CASE EndsWriting(p)
    BY <2>11 DEF EndsWriting
  <2> QED
    BY <2>9, <2>10, <2>11
<1> QED
  BY <1>3, <1>4

(***************************************************************************)
(* While there are readers, a writer that has slept once sleeps again: a   *)
(* signal comes only when the last of them is gone (rw-lock.ts:63, 138).   *)
(***************************************************************************)
LEMMA WritersSleepOn ==
    ASSUME LockInv, NEW p \in Tasks, Acts(p), Remember, Calm', readers' > 0,
           NEW q \in Tasks, WaitsToWrite(q)', phase'[q] = "loop"
    PROVE  at'[q] = "sleeping"
<1> USE DEF LockInv
<1>1. /\ Calm /\ CalmAct(p) /\ Frame(p) /\ PlaceOf(p)
      /\ readers \in Nat
  BY CalmActs, TallyStep DEF PlaceInv, TypeOK
<1>2. CASE Suspend(p) /\ q = p
  BY <1>2, SuspendEffect
<1>3. CASE ~(Suspend(p) /\ q = p)
  <2>1. WaitsToWrite(q) /\ phase[q] = "loop"
    <3>1. CASE q # p
      BY <1>1, <3>1 DEF Frame, WaitsToWrite
    <3>2. CASE q = p
      <4>1. ~\E o \in Ops : Call(p, o)
        BY <1>1, <3>2, CallEffect DEF PlaceOf
      <4>2. \A held \in {"none", "read", "write"} : ~Finish(p, held)
        BY <3>2, FinishEffect
      <4>3. ~ReleaseEnds(p)
        BY <4>2 DEF ReleaseEnds, TypeOK
      <4>4. ~(EndsReading(p) \/ EndsWriting(p))
        BY <3>2 DEF EndsReading, EndsWriting, GoOn, TypeOK
      <4>5. ~Notify(p)
        BY <3>2, NotifyEffect
      <4>6. CASE TryReadLock(p) \/ TryWriteLock(p)
        BY <3>2, <4>6 DEF TryReadLock, TryWriteLock, WaitsToWrite
      <4>7. CASE WaitReturns(p)
        BY <3>2, <4>7 DEF WaitReturns, WaitsToWrite, taskVars
      <4> QED
        BY <1>1, <1>3, <3>2, <4>1, <4>2, <4>3, <4>4, <4>5, <4>6, <4>7
        DEF CalmAct, GetsRead, GetsWrite, SleepsToRead, SleepsToWrite, ReadLock, WriteLock,
            Upgrade
    <3> QED
      BY <3>1, <3>2
  <2>2. readers > 0
    <3>1. ~GetsRead(p)
      BY <1>1, <2>1, CalmFacts DEF GetsRead
    <3> QED
      BY <1>1, <3>1
      DEF CalmAct, Call, GetsWrite, SleepsToRead, SleepsToWrite, EndsReading, EndsWriting,
          Notify, ReleaseEnds, WaitReturns, lockVars
  <2>3. at[q] = "sleeping"
    BY <1>1, <2>1, <2>2 DEF WakeInv, Calm
  <2>4. ~Notify(p)
    <3>1. ~Running("signal") /\ ~Running("broadcast")
      BY <1>1, <2>2 DEF WakeInv, Calm
    <3> QED
      BY <3>1, NotifyEffect DEF Running
  <2>5. q # p
    <3>1. CASE WaitReturns(p) /\ at[p] = "woken"
      BY <2>3, <3>1
    <3>2. CASE at[p] \in {"inside", "outside"}
      BY <2>3, <3>2
    <3> QED
      BY <1>1, <2>4, <3>1, <3>2, CallEffect, SuspendEffect
      DEF CalmAct, GetsRead, GetsWrite, SleepsToRead, SleepsToWrite, EndsReading, EndsWriting,
          ReleaseEnds, TryReadLock, TryWriteLock, ReadLock, WriteLock, Upgrade, RunsIn, PlaceOf
  <2>6. at'[q] # "woken"
    <3>1. CASE TryReadLock(p) \/ TryWriteLock(p)
      BY <2>3, <3>1 DEF TryReadLock, TryWriteLock, monitorVars
    <3>2. CASE \E held \in {"none", "read", "write"} : Finish(p, held)
      BY <2>3, <2>5, <3>2, FinishEffect
    <3>3. CASE Suspend(p)
      BY <2>3, <2>5, <3>3, SuspendEffect
    <3>4. CASE EndsReading(p) \/ EndsWriting(p)
      BY <2>3, <3>4 DEF EndsReading, EndsWriting, GoOn, monitorVars
    <3>5. CASE (\E o \in Ops : Call(p, o)) \/ WaitReturns(p)
      BY <2>3, <2>5, <3>5, CallEffect, ReturnEffect
    <3>6. CASE ReleaseEnds(p)
      BY <3>2, <3>6 DEF ReleaseEnds, TypeOK
    <3>7. CASE GetsRead(p) \/ GetsWrite(p)
      BY <3>1, <3>2, <3>3, <3>7 DEF GetsRead, GetsWrite, ReadLock, WriteLock, Upgrade
    <3> QED
      BY <1>1, <2>4, <3>3, <3>4, <3>5, <3>6, <3>7 DEF CalmAct, SleepsToRead, SleepsToWrite
  <2> QED
    BY <1>1, <2>3, <2>5, <2>6 DEF Frame
<1> QED
  BY <1>2, <1>3

(***************************************************************************)
(* The wake-ups, one kind of step at a time.                               *)
(***************************************************************************)
SleepersServed ==
    ~writer /\ sleepers # <<>> =>
        \/ Running("broadcast")
        \/ (readers > 0 \/ Running("signal")) /\ WaitsToWrite(Head(sleepers))
        \/ readers = 0 /\ WriterAwake

\* A step that takes no lock and leaves the sleepers as they are.
LEMMA ServedOn ==
    ASSUME LockInv, Calm, NEW p \in Tasks, Acts(p), Frame(p),
           UNCHANGED <<readers, writer, sleepers>>, ~Notify(p),
           WaitsToWrite(p) => WaitsToWrite(p)', at'[p] # "sleeping",
           at[p] # "sleeping"
    PROVE  SleepersServed'
<1> USE DEF LockInv
<1>1. SleepersServed /\ PlaceInv
  BY DEF WakeInv, Calm, SleepersServed
<1>2. /\ Running("broadcast") => Running("broadcast")'
      /\ Running("signal") => Running("signal")'
  BY RunningOn
<1>3. \A q \in Tasks : WaitsToWrite(q) => WaitsToWrite(q)'
  BY DEF Frame, WaitsToWrite
<1>4. WriterAwake => WriterAwake'
  BY <1>3 DEF WriterAwake, Frame
<1>5. sleepers # <<>> => Head(sleepers) \in Tasks
  BY CalmFacts
<1>6. sleepers # <<>> /\ WaitsToWrite(Head(sleepers)) => WaitsToWrite(Head(sleepers))'
  BY <1>3, <1>5
<1> QED
  BY <1>1, <1>2, <1>4, <1>6 DEF SleepersServed

\* The sleepers are still served when one more task joins them.
LEMMA ServedWhenSleeping ==
    ASSUME LockInv, Calm, NEW p \in Tasks, Acts(p), Frame(p),
           SleepsToRead(p) \/ SleepsToWrite(p)
    PROVE  SleepersServed'
<1> USE DEF LockInv
<1> SUFFICES ASSUME ~writer' PROVE SleepersServed'
  BY DEF SleepersServed
<1>1. /\ ~writer /\ UNCHANGED <<readers, writer>> /\ readers \in Nat
      /\ at[p] = "inside" /\ at'[p] = "sleeping" /\ op' = op /\ phase'[p] = "loop"
      /\ sleepers' = Append(sleepers, p) /\ sleepers \in Seq(Tasks)
      /\ phase[p] \notin {"signal", "broadcast"}
      /\ ~Running("signal") /\ ~Running("broadcast")
  <2>1. Suspend(p) /\ UNCHANGED <<readers, writer>>
    BY DEF SleepsToRead, SleepsToWrite, lockVars
  <2>2. phase[p] \notin {"signal", "broadcast"} /\ at[p] = "inside"
    BY <2>1, NotifyEffect, SuspendEffect, Notifying
  <2> QED
    BY <2>1, <2>2, SuspendEffect, OneRuns DEF TypeOK, MonitorTypeOK
<1>2. CASE sleepers # <<>>
  <2>1. /\ Head(sleepers') = Head(sleepers) /\ sleepers' # <<>>
        /\ Head(sleepers) \in Tasks /\ at[Head(sleepers)] = "sleeping"
    BY <1>1, <1>2, CalmFacts
  <2>2. \/ readers > 0 /\ WaitsToWrite(Head(sleepers))
        \/ readers = 0 /\ WriterAwake
    BY <1>1, <1>2 DEF WakeInv, Calm
  <2>3. CASE readers > 0 /\ WaitsToWrite(Head(sleepers))
    <3>1. WaitsToWrite(Head(sleepers))'
      BY <1>1, <2>1, <2>3 DEF WaitsToWrite, Frame
    <3> QED
      BY <1>1, <2>1, <2>3, <3>1 DEF SleepersServed
  <2>4. CASE readers = 0 /\ WriterAwake
    <3>1. PICK q \in Tasks : WaitsToWrite(q) /\ at[q] # "sleeping"
      BY <2>4 DEF WriterAwake
    <3>2. op[p] = "readLock"
      BY <1>1, <2>4 DEF SleepsToRead, SleepsToWrite
    <3>3. q # p
      BY <3>1, <3>2 DEF WaitsToWrite
    <3>4. WaitsToWrite(q)' /\ at'[q] # "sleeping"
      BY <3>1, <3>3 DEF WaitsToWrite, Frame
    <3> QED
      BY <1>1, <2>4, <3>4 DEF SleepersServed, WriterAwake
  <2> QED
    BY <2>2, <2>3, <2>4
<1>3. CASE sleepers = <<>>
  <2>1. sleepers' # <<>> /\ Head(sleepers') = p
    BY <1>1, <1>3
  <2>2. CASE SleepsToWrite(p)
    <3>1. WaitsToWrite(p)' /\ readers' > 0
      BY <1>1, <2>2 DEF SleepsToWrite, WriteLock, Upgrade, RunsIn, WaitsToWrite
    <3> QED
      BY <2>1, <3>1 DEF SleepersServed
  <2>3. CASE SleepsToRead(p)
    <3>1. writersWaiting > 0 /\ op[p] = "readLock"
      BY <1>1, <2>3 DEF SleepsToRead
    <3>2. WritersToBe # {}
      BY <3>1, FS_EmptySet DEF CountInv
    <3>3. PICK q \in Tasks : WaitsToWrite(q)
      BY <3>2 DEF WritersToBe
    <3>4. q # p
      BY <3>1, <3>3 DEF WaitsToWrite
    <3>5. at[q] # "sleeping"
      BY <1>3, CalmFacts DEF On
    <3>6. at[q] # "inside"
      BY <1>1, <3>4 DEF IInv, MonitorExclusion
    <3>7. phase[q] = "loop"
      BY <3>3, <3>5, <3>6, CalmFacts DEF PlaceInv, PlaceOf, WaitsToWrite, TypeOK,
                                         MonitorTypeOK, Place
    <3>8. readers = 0
      BY <1>1, <3>3, <3>5, <3>7 DEF WakeInv, Calm
    <3>9. WaitsToWrite(q)' /\ at'[q] # "sleeping"
      BY <3>3, <3>4, <3>5 DEF WaitsToWrite, Frame
    <3> QED
      BY <1>1, <3>8, <3>9 DEF SleepersServed, WriterAwake
  <2> QED
    BY <2>2, <2>3
<1> QED
  BY <1>2, <1>3

\* The sleepers are served when a lock is given up: its task will notify them.
LEMMA ServedWhenReleasing ==
    ASSUME LockInv, Calm, NEW p \in Tasks, Acts(p), Frame(p),
           EndsReading(p) \/ EndsWriting(p)
    PROVE  SleepersServed'
<1> USE DEF LockInv
<1>1. at'[p] = "inside" /\ UNCHANGED <<at, op, sleepers>>
  BY DEF EndsReading, EndsWriting, GoOn, monitorVars
<1>2. CASE EndsWriting(p)
  <2>1. phase'[p] = "broadcast"
    BY <1>2 DEF EndsWriting, GoOn, TypeOK
  <2> QED
    BY <1>1, <2>1 DEF SleepersServed, Running
<1>3. CASE EndsReading(p)
  <2>1. /\ phase'[p] = IF readers = 1 THEN "signal" ELSE "notified"
        /\ readers \in Nat /\ readers > 0 /\ ~writer /\ readers' = readers - 1
    BY <1>3 DEF EndsReading, GoOn, TypeOK
  <2>2. ~Running("signal") /\ ~Running("broadcast")
    BY <2>1 DEF WakeInv, Calm
  <2>3. readers' > 0 \/ Running("signal")'
    BY <1>1, <2>1 DEF Running
  <2>4. sleepers # <<>> => Head(sleepers) \in Tasks /\ WaitsToWrite(Head(sleepers))
    BY <2>1, <2>2, CalmFacts DEF WakeInv, Calm
  <2>5. \A q \in Tasks : WaitsToWrite(q) => WaitsToWrite(q)'
    BY <1>1, <2>1 DEF WaitsToWrite, Frame
  <2> QED
    BY <1>1, <2>3, <2>4, <2>5 DEF SleepersServed
<1> QED
  BY <1>2, <1>3

\* The sleepers that a notification leaves are served by the one it wakes.
LEMMA ServedWhenNotified ==
    ASSUME LockInv, Calm, NEW p \in Tasks, Notify(p)
    PROVE  SleepersServed'
<1> USE DEF LockInv
<1>1. /\ Frame(p) /\ at[p] = "inside" /\ at'[p] = "inside"
      /\ phase[p] \in {"signal", "broadcast"} /\ phase'[p] = "notified"
      /\ op' = op /\ UNCHANGED lockVars
      /\ \A q \in Tasks \ {p} : at'[q] # at[q] => at'[q] = "woken"
      /\ \/ sleepers' = <<>>
         \/ /\ phase[p] = "signal" /\ sleepers # <<>>
            /\ Head(sleepers) \in Tasks
            /\ at[Head(sleepers)] = "sleeping" => at'[Head(sleepers)] = "woken"
  BY NotifyEffect
<1>2. readers = 0 /\ ~writer
  BY <1>1 DEF WakeInv, Calm, Running
<1>3. \A q \in Tasks : WaitsToWrite(q) => WaitsToWrite(q)'
  BY <1>1 DEF WaitsToWrite, Frame
<1>4. CASE sleepers' = <<>>
  BY <1>4 DEF SleepersServed
<1>5. CASE phase[p] = "signal" /\ sleepers # <<>>
           /\ (at[Head(sleepers)] = "sleeping" => at'[Head(sleepers)] = "woken")
  <2>1. ~Running("broadcast")
    BY <1>1, <1>5, OneRuns
  <2>2. Head(sleepers) \in Tasks /\ at'[Head(sleepers)] = "woken"
    BY <1>5, CalmFacts
  <2>3. WaitsToWrite(Head(sleepers)) \/ WriterAwake
    BY <1>2, <1>5, <2>1 DEF WakeInv, Calm
  <2>4. WriterAwake'
    BY <1>1, <1>3, <2>2, <2>3 DEF WriterAwake
  <2> QED
    BY <1>1, <1>2, <2>4 DEF SleepersServed, lockVars
<1> QED
  BY <1>1, <1>4, <1>5

\* Every step leaves somebody who will serve the sleepers.
LEMMA ServedStep ==
    ASSUME LockInv, NEW p \in Tasks, Acts(p), Remember, Calm'
    PROVE  SleepersServed'
<1> USE DEF LockInv
<1>1. /\ Calm /\ CalmAct(p) /\ Frame(p) /\ PlaceOf(p) /\ PlaceInv
  BY CalmActs, TallyStep DEF PlaceInv
<1>2. CASE \E o \in Ops : Call(p, o)
  <2>1. /\ UNCHANGED <<readers, writer, sleepers>>
        /\ at[p] = "outside" /\ at'[p] # "sleeping" /\ op[p] = "none"
    BY <1>2, CallEffect DEF lockVars
  <2> QED
    BY <1>1, <2>1, ServedOn, NotifyEffect DEF WaitsToWrite
<1>3. CASE GetsRead(p)
  <2>1. ~writer /\ \A q \in Tasks : ~WaitsToWrite(q)
    BY <1>1, <1>3, CalmFacts DEF GetsRead
  <2>2. ~Running("broadcast")
    <3>1. CASE TryReadLock(p)
      BY <3>1 DEF TryReadLock, Running, IInv, MonitorExclusion
    <3>2. CASE ReadLock(p)
      BY <1>1, <3>2, OneRuns DEF ReadLock, RunsIn
    <3> QED
      BY <1>3, <3>1, <3>2 DEF GetsRead
  <2>3. sleepers = <<>>
    BY <1>1, <2>1, <2>2, CalmFacts DEF WakeInv, Calm, WriterAwake
  <2>4. sleepers' = sleepers
    BY <1>1, <1>3, <2>1, FinishEffect, CalmFacts
    DEF GetsRead, TryReadLock, ReadLock, monitorVars
  <2> QED
    BY <2>3, <2>4 DEF SleepersServed
<1>4. CASE GetsWrite(p)
  BY <1>4 DEF GetsWrite, SleepersServed
<1>5. CASE SleepsToRead(p) \/ SleepsToWrite(p)
  BY <1>1, <1>5, ServedWhenSleeping
<1>6. CASE EndsReading(p) \/ EndsWriting(p)
  BY <1>1, <1>6, ServedWhenReleasing
<1>7. CASE Notify(p)
  BY <1>1, <1>7, ServedWhenNotified
<1>8. CASE ReleaseEnds(p)
  <2>1. Finish(p, holds[p]) /\ holds[p] \in {"none", "read", "write"} /\ UNCHANGED lockVars
        /\ op[p] \in Releasing /\ phase[p] = "notified"
    BY <1>8 DEF ReleaseEnds, RunsIn, TypeOK
  <2>2. at[p] = "inside" /\ at'[p] = "outside" /\ sleepers' = sleepers
    BY <2>1, FinishEffect
  <2> QED
    BY <1>1, <2>1, <2>2, ServedOn, NotifyEffect DEF WaitsToWrite, Releasing, lockVars
<1>9. CASE WaitReturns(p) /\ at[p] = "woken"
  <2>1. /\ UNCHANGED <<lockVars, taskVars>> /\ at'[p] \in {"inside", "returning"}
        /\ sleepers' = RemoveSafe(sleepers, p)
    BY <1>9, ReturnEffect
  <2>2. ~On(sleepers, p) /\ sleepers \in Seq(Tasks)
    BY <1>1, <1>9, CalmFacts DEF TypeOK, MonitorTypeOK
  <2>3. sleepers' = sleepers
    BY <2>1, <2>2, RemoveSafeShape DEF On
  <2> QED
    BY <1>1, <1>9, <2>1, <2>3, ServedOn, NotifyEffect DEF WaitsToWrite, lockVars, taskVars
<1> QED
  BY <1>1, <1>2, <1>3, <1>4, <1>5, <1>6, <1>7, <1>8, <1>9 DEF CalmAct

\* Every step keeps what holds of the wake-ups.
LEMMA WakeStep ==
    ASSUME LockInv, NEW p \in Tasks, Acts(p), Remember
    PROVE  WakeInv'
<1>1. ASSUME Calm' PROVE SleepersServed'
  BY <1>1, ServedStep
<1>2. ASSUME Calm', Running("signal")' \/ Running("broadcast")'
      PROVE  readers' = 0 /\ ~writer'
  BY <1>2, NotifyWhenFree
<1>3. ASSUME Calm', readers' > 0, NEW q \in Tasks, WaitsToWrite(q)', phase'[q] = "loop"
      PROVE  at'[q] = "sleeping"
  BY <1>3, WritersSleepOn
<1> QED
  BY <1>1, <1>2, <1>3 DEF WakeInv, SleepersServed, Calm

-----------------------------------------------------------------------------
\* Nobody has called the lock at the start.
LEMMA InitLockInv == Init => LockInv
<1> SUFFICES ASSUME Init PROVE LockInv
  OBVIOUS
<1>1. IInv
  BY InitIInv DEF Init
<1>2. TypeOK
  BY <1>1 DEF Init, TypeOK, IInv, Phase
<1>3. PlaceInv
  BY DEF Init, MonitorInit, PlaceInv, PlaceOf
<1>4. CountInv
  <2>1. \A p \in Tasks : ~Reads(p) /\ ~Writes(p) /\ ~WaitsToWrite(p)
    BY DEF Init, Reads, Writes, WaitsToWrite
  <2>2. ReadingTasks = {} /\ WritersToBe = {}
    BY <2>1 DEF ReadingTasks, WritersToBe
  <2>3. readers = 0 /\ writersWaiting = 0 /\ ~writer
    BY DEF Init
  <2> QED
    BY <2>1, <2>2, <2>3, FS_EmptySet DEF CountInv
<1>5. AbortInv
  BY DEF Init, MonitorInit, AbortInv
<1>6. ExclusionInv
  BY DEF Init, ExclusionInv
<1>7. ReaderInv
  BY DEF Init, MonitorInit, ReaderInv, ReaderSleeps
<1>8. WakeInv
  BY DEF Init, MonitorInit, WakeInv, Running
<1> QED
  BY <1>1, <1>2, <1>3, <1>4, <1>5, <1>6, <1>7, <1>8 DEF LockInv

\* The invariant is inductive, each conjunct by the lemma about it.
LEMMA NextLockInv == LockInv /\ [Next]_vars => LockInv'
<1> SUFFICES ASSUME LockInv, [Next]_vars PROVE LockInv'
  OBVIOUS
<1>1. CASE UNCHANGED vars
  BY <1>1
  DEF LockInv, vars, monitorVars, lockVars, taskVars, IInv, MonitorTypeOK, MonitorExclusion,
      QueueInv, TypeOK, PlaceInv, PlaceOf, CountInv, ReadingTasks, WritersToBe, Reads, Writes,
      WaitsToWrite, AbortInv, ExclusionInv, ReaderInv, ReaderSleeps, WakeInv, WriterAwake,
      Running
<1>2. CASE Next
  <2>1. Remember /\ \E p \in Tasks : Acts(p)
    BY <1>2, Zenon DEF Next, Acts
  <2>2. PICK p \in Tasks : Acts(p)
    BY <2>1
  <2>3. IInv' /\ TypeOK'
    BY <2>1, <2>2, TypeStep
  <2>4. PlaceInv'
    BY <2>2, PlaceStep DEF LockInv
  <2>5. CountInv'
    BY <2>2, TallyStep, CountKept DEF LockInv, TypeOK
  <2>6. AbortInv'
    BY <2>1, <2>2, AbortStep
  <2>7. ExclusionInv'
    BY <2>1, <2>2, ExclusionStep
  <2>8. ReaderInv'
    BY <2>1, <2>2, ReaderStep
  <2>9. WakeInv'
    BY <2>1, <2>2, WakeStep
  <2> QED
    BY <2>3, <2>4, <2>5, <2>6, <2>7, <2>8, <2>9 DEF LockInv
<1> QED
  BY <1>1, <1>2

(***************************************************************************)
(* The inductive invariant holds in every reachable state, for every set   *)
(* of tasks and whatever they call and abort.                              *)
(***************************************************************************)
THEOREM LockInvariance == Spec => []LockInv
BY InitLockInv, NextLockInv, PTL DEF Spec

-----------------------------------------------------------------------------
(***************************************************************************)
(* "Allows multiple concurrent readers or exclusive access for a single    *)
(* writer" (rw-lock.ts:9), whatever is woken in vain, as long as no        *)
(* upgrade aborts.                                                         *)
(***************************************************************************)
THEOREM WriterIsAlone == Spec => []WriterExcludesAll
<1>1. LockInv => WriterExcludesAll
  <2> SUFFICES ASSUME LockInv, "upgradeAborted" \notin upset,
                      NEW p \in Tasks, NEW q \in Tasks, p # q, holds[p] = "write"
               PROVE  holds[q] = "none"
    BY DEF WriterExcludesAll
  <2>1. PlaceOf(p) /\ PlaceOf(q)
    BY DEF LockInv, PlaceInv
  <2>2. Writes(p)
    BY <2>1 DEF PlaceOf, Meanwhile, Writes
  <2>3. ~Writes(q) /\ ~Reads(q)
    <3>1. ~Writes(q) /\ writer
      BY <2>2 DEF LockInv, CountInv
    <3>2. ~(readers > 0) /\ readers \in Nat
      BY <3>1 DEF LockInv, ExclusionInv, TypeOK
    <3>3. ReadingTasks = {}
      BY <3>2, FS_EmptySet DEF LockInv, CountInv
    <3> QED
      BY <3>1, <3>3 DEF ReadingTasks
  <2>4. holds[q] \in {"none", "read", "write"}
    BY DEF LockInv, TypeOK
  <2>5. op[q] = "none" => holds[q] = "none"
    BY <2>3, <2>4 DEF Reads, Writes
  <2>6. op[q] # "none" => holds[q] = "none"
    BY <2>1, <2>3 DEF PlaceOf, Meanwhile, Reads, Writes
  <2> QED
    BY <2>5, <2>6
<1> QED
  BY <1>1, LockInvariance, PTL

(***************************************************************************)
(* When nothing is on its way, whom the counters stand for.                *)
(***************************************************************************)
LEMMA QuietFacts ==
    ASSUME LockInv, Quiet
    PROVE  /\ ~Running("signal") /\ ~Running("broadcast")
           /\ writer => \E q \in Tasks : holds[q] = "write"
           /\ readers > 0 => \E q \in Tasks : holds[q] = "read"
           /\ \A q \in Tasks : WaitsToWrite(q) => at[q] = "sleeping"
<1> USE DEF LockInv
<1>1. ~Running("signal") /\ ~Running("broadcast")
  BY DEF Quiet, Running
<1>2. \A q \in Tasks : PlaceOf(q) /\ at[q] \in {"outside", "sleeping"}
  BY DEF PlaceInv, Quiet
<1>3. \A q \in Tasks : /\ Writes(q) => holds[q] = "write"
                       /\ Reads(q) => holds[q] = "read"
                       /\ WaitsToWrite(q) => at[q] = "sleeping"
  BY <1>2 DEF PlaceOf, Writes, Reads, WaitsToWrite, Acquiring
<1>4. writer => \E q \in Tasks : holds[q] = "write"
  BY <1>3 DEF CountInv
<1>5. readers > 0 => \E q \in Tasks : holds[q] = "read"
  <2>1. readers > 0 => ReadingTasks # {}
    BY FS_EmptySet DEF CountInv
  <2> QED
    BY <1>3, <2>1 DEF ReadingTasks
<1> QED
  BY <1>1, <1>3, <1>4, <1>5

\* Each operation finds the lock in the state it requires.
LEMMA Accepting == LockInv => AcceptsProtocol
<1> SUFFICES ASSUME LockInv, NEW p \in Tasks, phase[p] = "start"
             PROVE  /\ op[p] \in {"readToWriteLock", "readUnlock"} => readers > 0
                    /\ op[p] \in {"writeToReadLock", "writeUnlock"} => writer
  BY DEF AcceptsProtocol
<1>1. ASSUME op[p] \in {"readToWriteLock", "readUnlock"} PROVE readers > 0
  <2>1. ReadingTasks # {}
    BY <1>1 DEF ReadingTasks, Reads
  <2> QED
    BY <2>1, FS_EmptySet DEF LockInv, CountInv, TypeOK
<1>2. ASSUME op[p] \in {"writeToReadLock", "writeUnlock"} PROVE writer
  BY <1>2 DEF LockInv, CountInv, Writes
<1> QED
  BY <1>1, <1>2

\* A task sleeps beside a lock that nobody holds only after an abort or a
\* downgrade.
LEMMA NoDeadlock == LockInv => DeadlockNeedsUpset
<1> SUFFICES ASSUME LockInv, Calm, Quiet, NEW p \in Tasks, at[p] = "sleeping"
             PROVE  \E q \in Tasks : holds[q] # "none"
  BY DEF DeadlockNeedsUpset, SomebodyHoldsIt, Calm
<1>1. sleepers # <<>>
  BY CalmFacts DEF On
<1>2. ~WriterAwake
  BY QuietFacts DEF WriterAwake
<1>3. readers \in Nat /\ writer \in BOOLEAN
  BY DEF LockInv, TypeOK
<1>4. writer \/ readers > 0
  BY <1>1, <1>2, <1>3, QuietFacts DEF LockInv, WakeInv, Calm
<1> QED
  BY <1>4, QuietFacts

\* A reader sleeps, when nothing is on its way, because of a writer.
LEMMA ReadersJustified == LockInv => ReadersWaitForWriters
<1> SUFFICES ASSUME LockInv, "abort" \notin upset, Quiet, ReaderSleeps
             PROVE  \E q \in Tasks :
                      \/ holds[q] = "write"
                      \/ /\ at[q] = "sleeping"
                         /\ op[q] \in {"writeLock", "readToWriteLock"}
  BY DEF ReadersWaitForWriters, ReaderSleeps
<1>1. writer \/ writersWaiting > 0
  BY QuietFacts DEF LockInv, ReaderInv
<1>2. CASE writer
  BY <1>2, QuietFacts
<1>3. CASE writersWaiting > 0
  <2>1. WritersToBe # {}
    BY <1>3, FS_EmptySet DEF LockInv, CountInv
  <2> QED
    BY <2>1, QuietFacts DEF WritersToBe, WaitsToWrite
<1> QED
  BY <1>1, <1>2, <1>3

(***************************************************************************)
(* The counters are right, a task that keeps the protocol is never refused *)
(* and a task waits only for one that can end its wait (rw-lock.ts:13, 32, *)
(* 66, 124).                                                               *)
(***************************************************************************)
THEOREM WaitsJustified == Spec => []WaitsAreJustified
<1>1. LockInv => TypeOK
  BY DEF LockInv
<1>2. LockInv => CountsWaitingWriters
  BY DEF LockInv, CountInv, CountsWaitingWriters, WritersToBe, WaitsToWrite
<1>3. LockInv => WaitsAreJustified
  BY <1>1, <1>2, Accepting, NoDeadlock, ReadersJustified DEF WaitsAreJustified
<1> QED
  BY <1>3, LockInvariance, PTL
-----------------------------------------------------------------------------
(***************************************************************************)
(* The channel.  Where a task is in the monitor agrees with how far its    *)
(* call is, with the list of blocked senders, the list of receivers, and   *)
(* what a receiver's promise was settled with.                             *)
(***************************************************************************)
StageOf(p) ==
    /\ call[p] = "none" => stage[p] = "start" /\ at[p] = "outside"
    /\ call[p] = "send" => stage[p] \in {"start", "blocked", "granted", "rejected"}
    /\ call[p] = "receive" => stage[p] \in {"start", "signal", "await", "settled"}
    /\ call[p] # "none" /\ stage[p] = "start" => at[p] # "outside"
    /\ stage[p] = "signal" => at[p] = "inside"
    /\ stage[p] = "settled" => at[p] \in {"entering", "inside"}
    /\ stage[p] \in {"await", "blocked", "granted", "rejected"} => at[p] = "outside"

\* Who waits for a receiver sends through a channel without a buffer, who has
\* or awaits a place through one that has.
SenderOf(p) ==
    /\ at[p] \in {"sleeping", "woken", "quitting", "returning"} \/ p \in failed
         => call[p] = "send" /\ stage[p] = "start" /\ capacity = 0
    /\ p \in failed => at[p] \in {"quitting", "returning", "inside"}
    /\ stage[p] \in {"blocked", "granted", "rejected"} => capacity > 0
    /\ On(blocked, p) => stage[p] \in {"blocked", "rejected"}
    /\ stage[p] = "blocked" => On(blocked, p)

Registered(p) == stage[p] \in {"signal", "await", "settled"}

ReceiverOf(p) ==
    /\ On(receivers, p) => Registered(p)
    /\ result[p] # 0 \/ p \in refused => stage[p] \in {"await", "settled"}
    /\ stage[p] = "settled" => result[p] # 0 \/ p \in refused
    /\ p \in refused => result[p] = 0

TaskOf(p) == StageOf(p) /\ SenderOf(p) /\ ReceiverOf(p)
TaskInv == Distinct(blocked) /\ \A p \in Tasks : TaskOf(p)

\* An abort leaves its traces, and has left them in what it did.
AbortedInv ==
    "abort" \notin events =>
        /\ refused = {} /\ failed = {}
        /\ \A p \in Tasks : at[p] \notin {"rejected", "quitting"}

Sending == {p \in Tasks : call[p] = "send"}
GrantedPlaces == {p \in Tasks : stage[p] = "granted"}

\* A place is free, taken by the buffer, promised to a sender, or lost to a
\* sender that was rejected; a message that is numbered is sent or about to be.
PlacesTaken ==
    /\ IsFiniteSet(GrantedPlaces) /\ IsFiniteSet(Sending)
    /\ places + buffer.size + Cardinality(GrantedPlaces) <= capacity
    /\ buffer.size + Cardinality(Sending) <= used

\* The messages on their way have numbers of their own, and so do those that
\* arrived, each at one place.
MessageInv ==
    /\ \A p \in Tasks : call[p] = "send" => message[p] \in 1..used /\ message[p] \notin sent
    /\ \A p, q \in Tasks :
          call[p] = "send" /\ call[q] = "send" /\ message[p] = message[q] => p = q
    /\ sent \subseteq 1..used
    /\ Distinct(buffer.chain)
    /\ \A m \in Messages : On(buffer.chain, m) => m \in sent /\ m \notin got
    /\ \A q \in Tasks : result[q] # 0 =>
          result[q] \in sent /\ result[q] \notin got /\ ~On(buffer.chain, result[q])
    /\ \A p, q \in Tasks : result[p] # 0 /\ result[p] = result[q] => p = q
    /\ got \subseteq sent

Arrived(m) ==
    \/ On(buffer.chain, m)
    \/ \E q \in Tasks : result[q] = m
    \/ m \in got

\* Without a buffer only an abort makes a receiver settle that stays registered.
LossInv ==
    /\ Len(buffer.chain) <= buffer.size
    /\ "shrunk" \notin events => buffer.size = Len(buffer.chain)
    /\ capacity = 0 => /\ "shrunk" \notin events
                       /\ \A q \in Tasks : On(receivers, q) => result[q] = 0
                       /\ "abort" \notin events => "twice" \notin events
    /\ events \cap {"twice", "shrunk"} = {} => \A m \in sent : Arrived(m)

\* As long as a sender sleeps, each registered receiver has signalled one.
Awake == {p \in Tasks : call[p] = "send" /\ at[p] # "sleeping"}
MeetInv ==
    capacity = 0 /\ "abort" \notin events /\ (\E p \in Tasks : at[p] = "sleeping")
        => Len(receivers) <= Cardinality(Awake)

\* Who waited when a receiver registered is before it, and is served before it.
OlderInv ==
    /\ \A p \in Tasks : \A q \in older[p] :
          p # q /\ Registered(p) /\ Registered(q) /\ Before(receivers, q, p)
    /\ "late" \notin events =>
          /\ \A p \in Tasks : result[p] # 0 => \A q \in older[p] : ~Unserved(q)
          /\ \A q \in Tasks : Unserved(q) /\ stage[q] = "await" => buffer.chain = <<>>

ChannelInv ==
    /\ IInv
    /\ ChannelTypeOK
    /\ TaskInv
    /\ AbortedInv
    /\ PlacesTaken
    /\ MessageInv
    /\ LossInv
    /\ MeetInv
    /\ OlderInv

-----------------------------------------------------------------------------
(***************************************************************************)
(* What the steps of the monitor do to the tasks of the channel.           *)
(***************************************************************************)
\* An unlock lets another task in, a signal wakes one.
Moves(q) ==
    \/ at'[q] = at[q]
    \/ at[q] \in {"entering", "returning"} /\ at'[q] = "inside"
    \/ at[q] = "sleeping" /\ at'[q] = "woken"

LEMMA HandsOver ==
    ASSUME IInv, NEW p \in Tasks, at[p] = "inside",
           NEW next \in {"outside", "sleeping"}, Give(p, next)
    PROVE  at'[p] = next /\ \A q \in Tasks \ {p} :
              \/ at'[q] = at[q]
              \/ at[q] \in {"entering", "returning"} /\ at'[q] = "inside"
<1>1. /\ entry \in Seq(Tasks) /\ Distinct(entry) /\ at \in [Tasks -> Place]
      /\ \A q \in Tasks : On(entry, q) => at[q] \in {"entering", "returning", "rejected"}
  BY DEF IInv, MonitorTypeOK, QueueInv
<1>2. CASE entry = <<>>
  BY <1>1, <1>2 DEF Give
<1>3. CASE entry # <<>>
  <2> DEFINE w == Head(entry)
  <2>1. w \in Tasks /\ On(entry, w)
    BY <1>1, <1>3, ShiftFacts
  <2>2. at' = [at EXCEPT ![p] = next, ![w] = IF @ = "rejected" THEN @ ELSE "inside"]
    BY <1>3 DEF Give
  <2> HIDE DEF w
  <2>3. w # p
    BY <1>1, <2>1
  <2> QED
    BY <1>1, <2>1, <2>2, <2>3
<1> QED
  BY <1>2, <1>3

LEMMA LeaveMoves ==
    ASSUME IInv, NEW p \in Tasks, Leave(p)
    PROVE  /\ at[p] = "inside" /\ at'[p] = "outside"
           /\ \A q \in Tasks \ {p} :
                \/ at'[q] = at[q]
                \/ at[q] \in {"entering", "returning"} /\ at'[q] = "inside"
           /\ failed' = failed \ {p} /\ sleepers' = sleepers
BY HandsOver DEF Leave

LEMMA WaitMoves ==
    ASSUME IInv, NEW p \in Tasks, Wait(p)
    PROVE  /\ at[p] = "inside" /\ at'[p] = "sleeping"
           /\ \A q \in Tasks \ {p} :
                \/ at'[q] = at[q]
                \/ at[q] \in {"entering", "returning"} /\ at'[q] = "inside"
           /\ failed' = failed \ {p}
BY HandsOver DEF Wait

LEMMA EnterMoves ==
    ASSUME IInv, NEW p \in Tasks, Enter(p)
    PROVE  /\ at[p] = "outside" /\ at'[p] \in {"entering", "inside"}
           /\ \A q \in Tasks \ {p} : at'[q] = at[q]
           /\ failed' = failed /\ sleepers' = sleepers
BY DEF Enter, Take, IInv, MonitorTypeOK

LEMMA ReturnMoves ==
    ASSUME IInv, NEW p \in Tasks, Return(p)
    PROVE  /\ at[p] \in {"woken", "quitting"} /\ at'[p] \in {"returning", "inside"}
           /\ \A q \in Tasks \ {p} : at'[q] = at[q]
           /\ failed' = failed
BY DEF Return, Take, IInv, MonitorTypeOK

LEMMA SignalMoves ==
    ASSUME IInv, NEW p \in Tasks, Signal(p)
    PROVE  /\ at[p] = "inside" /\ at'[p] = "inside" /\ failed' = failed
           /\ Head(sleepers) \in Tasks /\ On(sleepers, Head(sleepers))
           /\ at[Head(sleepers)] = "sleeping" => at'[Head(sleepers)] = "woken"
           /\ \A q \in Tasks :
                \/ at'[q] = at[q]
                \/ q = Head(sleepers) /\ at[q] = "sleeping" /\ at'[q] = "woken"
<1>1. /\ sleepers \in Seq(Tasks) /\ Distinct(sleepers) /\ sleepers # <<>>
      /\ at \in [Tasks -> Place] /\ at' = Woken({Head(sleepers)})
      /\ at[p] = "inside" /\ failed' = failed
  BY DEF Signal, IInv, MonitorTypeOK
<1>2. Head(sleepers) \in Tasks /\ On(sleepers, Head(sleepers))
  BY <1>1, ShiftFacts
<1>3. \A q \in Tasks :
         at'[q] = IF q = Head(sleepers) /\ at[q] = "sleeping" THEN "woken" ELSE at[q]
  BY <1>1 DEF Woken
<1> QED
  BY <1>1, <1>2, <1>3

LEMMA RejectsMoves ==
    ASSUME IInv, NEW p \in Tasks, EntryRejects(p)
    PROVE  /\ at[p] = "rejected" /\ at'[p] = "outside"
           /\ \A q \in Tasks \ {p} : at'[q] = at[q]
           /\ failed' = failed
BY DEF EntryRejects, IInv, MonitorTypeOK

(***************************************************************************)
(* An abort or close() rejects the calls that wait, in any number at once  *)
(* (channel.ts:228).                                                       *)
(***************************************************************************)
LEMMA InterruptMoves ==
    ASSUME IInv, stage \in [Tasks -> Stage],
           \A q \in Tasks : at[q] = "sleeping" => stage[q] = "start",
           NEW who \in SUBSET Tasks, Interrupt(who)
    PROVE  /\ IInv'
           /\ sleepers' = sleepers
           /\ \A q \in Tasks :
                /\ \/ at'[q] = at[q] /\ (q \in failed' <=> q \in failed)
                   \/ /\ at[q] = "entering" /\ stage[q] = "start" /\ at'[q] = "rejected"
                      /\ (q \in failed' <=> q \in failed)
                   \/ at[q] = "sleeping" /\ at'[q] = "quitting"
                /\ \/ stage'[q] = stage[q]
                   \/ /\ stage[q] = "blocked" /\ at[q] # "sleeping"
                      /\ stage'[q] = "rejected"
<1>1. /\ MonitorTypeOK /\ MonitorExclusion /\ QueueInv
  BY DEF IInv
<1>2. UNCHANGED <<locked, entry, sleepers>>
  BY DEF Interrupt
<1>3. \A q \in Tasks :
         at'[q] = CASE q \in who /\ Interrupted(q, "rejected") -> "rejected"
                    [] q \in who /\ Interrupted(q, "quitting") -> "quitting"
                    [] OTHER -> at[q]
  BY DEF Interrupt
<1>4. \A q \in Tasks :
         /\ Interrupted(q, "rejected") <=> at[q] = "entering" /\ stage[q] = "start"
         /\ Interrupted(q, "quitting") <=> at[q] = "sleeping"
         /\ Interrupted(q, "refused") => stage[q] = "blocked" /\ at[q] # "sleeping"
  <2> TAKE q \in Tasks
  <2> DEFINE a == at[q] = "entering" /\ stage[q] = "start"
             b == at[q] = "sleeping"
             c == stage[q] = "blocked"
  <2>1. ASSUME NEW how
        PROVE  Interrupted(q, how) = CASE a -> how = "rejected"
                                       [] b -> how = "quitting"
                                       [] c -> how = "refused"
                                       [] OTHER -> FALSE
    BY DEF Interrupted
  <2>2. ~(a /\ b) /\ ~(a /\ c) /\ ~(b /\ c)
    OBVIOUS
  <2> HIDE DEF a, b, c
  <2>3. ASSUME NEW how
        PROVE  /\ a => Interrupted(q, how) = (how = "rejected")
               /\ b => Interrupted(q, how) = (how = "quitting")
               /\ c => Interrupted(q, how) = (how = "refused")
               /\ ~a /\ ~b /\ ~c => ~Interrupted(q, how)
    BY <2>1, <2>2
  <2> QED
    <3>1. CASE a
      BY <2>2, <2>3, <3>1 DEF a, b, c
    <3>2. CASE b
      BY <2>2, <2>3, <3>2 DEF a, b, c
    <3>3. CASE c
      BY <2>2, <2>3, <3>3 DEF a, b, c
    <3>4. CASE ~a /\ ~b /\ ~c
      BY <2>3, <3>4 DEF a, b
    <3> QED
      BY <3>1, <3>2, <3>3, <3>4
<1>5. \A q \in Tasks :
         /\ at'[q] = IF q \in who /\ at[q] = "entering" /\ stage[q] = "start" THEN "rejected"
                     ELSE IF q \in who /\ at[q] = "sleeping" THEN "quitting"
                     ELSE at[q]
         /\ q \in failed' <=> q \in failed \/ (q \in who /\ at[q] = "sleeping")
         /\ stage'[q] = IF q \in who /\ Interrupted(q, "refused") THEN "rejected" ELSE stage[q]
  BY <1>3, <1>4 DEF Interrupt
<1>6. at' \in [Tasks -> Place] /\ failed' \subseteq Tasks
  <2>1. /\ at' = [q \in Tasks |-> at'[q]]
        /\ failed' = failed \cup {q \in who : Interrupted(q, "quitting")}
    BY DEF Interrupt
  <2> QED
    BY <1>1, <1>5, <2>1 DEF MonitorTypeOK, Place
<1> QED
  BY <1>1, <1>2, <1>4, <1>5, <1>6
  DEF IInv, MonitorTypeOK, MonitorExclusion, QueueInv

LEMMA ChannelMonitorStep ==
    ASSUME IInv, stage \in [Tasks -> Stage], TaskInv, [ChannelNext]_allVars
    PROVE  IInv'
<1>1. \A q \in Tasks : at[q] = "sleeping" => stage[q] = "start"
  BY DEF TaskInv, TaskOf, SenderOf
<1>2. ASSUME [MonitorNext]_monitorVars PROVE IInv'
  BY <1>2, NextIInv
<1>3. ASSUME NEW p \in Tasks, \/ Send(p) \/ Receive(p) \/ ReceiveSettles(p)
      PROVE  IInv'
  BY <1>2, <1>3 DEF Send, Receive, ReceiveSettles, MonitorNext
<1>4. ASSUME NEW p \in Tasks,
             \/ SendDelivers(p) \/ SendFails(p) \/ SendBuffers(p) \/ SendThrows(p)
             \/ ReceiveChecks(p) \/ ReceiveThrows(p) \/ ReceiveEnds(p)
      PROVE  IInv'
  <2>1. Leave(p)
    BY <1>4 DEF SendDelivers, SendFails, SendBuffers, SendThrows,
                ReceiveChecks, ReceiveThrows, ReceiveEnds
  <2> QED
    BY <1>2, <2>1 DEF MonitorNext
<1>5. ASSUME NEW p \in Tasks, SendWaits(p) \/ LockThrows(p) \/ WaitEnds(p)
      PROVE  IInv'
  BY <1>2, <1>5 DEF SendWaits, LockThrows, WaitEnds, MonitorNext
<1>6. ASSUME NEW p \in Tasks, SendInserts(p) \/ SendRejects(p)
      PROVE  IInv'
  BY <1>2, <1>6 DEF SendInserts, SendRejects
<1>7. ASSUME NEW p \in Tasks, ReceiveRegisters(p)
      PROVE  IInv'
  BY <1>2, <1>7 DEF ReceiveRegisters, MonitorNext
<1>8. ASSUME NEW p \in Tasks, CallAborts(p)
      PROVE  IInv'
  <2>1. Interrupt({p}) /\ {p} \in SUBSET Tasks
    BY <1>8 DEF CallAborts
  <2> QED
    BY <1>1, <2>1, InterruptMoves
<1>9. ASSUME Close
      PROVE  IInv'
  <2>1. Interrupt(Tasks) /\ Tasks \in SUBSET Tasks
    BY <1>9 DEF Close
  <2> QED
    BY <1>1, <2>1, InterruptMoves
<1>10. CASE UNCHANGED allVars
  BY <1>2, <1>10 DEF allVars
<1> QED
  BY <1>3, <1>4, <1>5, <1>6, <1>7, <1>8, <1>9, <1>10 DEF ChannelNext

-----------------------------------------------------------------------------
(***************************************************************************)
(* The calls and the lists they are on.                                    *)
(***************************************************************************)
\* What a step may do to a task whose call it is not about.
Aside(q) ==
    /\ Moves(q)
    /\ call'[q] = call[q] /\ stage'[q] = stage[q] /\ result'[q] = result[q]
    /\ q \in refused' <=> q \in refused
    /\ q \in failed' => q \in failed
    /\ On(blocked', q) <=> On(blocked, q)
    /\ On(receivers', q) => On(receivers, q)

LEMMA AsideKeeps ==
    ASSUME NEW q \in Tasks, TaskOf(q), Aside(q), capacity' = capacity
    PROVE  TaskOf(q)'
<1> USE DEF TaskOf, Aside, Moves, Registered
<1>1. StageOf(q)'
  BY DEF StageOf
<1>2. SenderOf(q)'
  BY DEF SenderOf
<1>3. ReceiverOf(q)'
  BY DEF ReceiverOf
<1> QED
  BY <1>1, <1>2, <1>3

\* The types that do not depend on how many messages there are.
CallTypes ==
    /\ at \in [Tasks -> Place]
    /\ call \in [Tasks -> {"none", "send", "receive"}]
    /\ stage \in [Tasks -> Stage]
    /\ message \in [Tasks -> 0..MaxMessages] /\ start \in [Tasks -> 0..MaxMessages]
    /\ result \in [Tasks -> 0..MaxMessages]
    /\ refused \subseteq Tasks
    /\ receivers \in Seq(Tasks) /\ Distinct(receivers)
    /\ blocked \in Seq(Tasks)
    /\ buffer.chain \in Seq(Messages) /\ buffer.size \in Nat
    /\ places \in Nat /\ capacity \in Nat

LEMMA CallTypesHold == IInv /\ ChannelTypeOK => CallTypes
BY ChannelAssumption DEF IInv, MonitorTypeOK, ChannelTypeOK, CallTypes

\* A step of p that leaves the receivers' promises alone.
LEMMA OneTaskSteps ==
    ASSUME TaskInv, CallTypes, NEW p \in Tasks, \A q \in Tasks \ {p} : Aside(q),
           capacity' = capacity, Distinct(blocked'), TaskOf(p)'
    PROVE  TaskInv'
BY AsideKeeps DEF TaskInv

LEMMA TaskStep ==
    ASSUME ChannelInv, [ChannelNext]_allVars
    PROVE  TaskInv'
<1>0. IInv /\ TaskInv /\ CallTypes
  BY CallTypesHold DEF ChannelInv
<1>1. Distinct(blocked) /\ \A q \in Tasks : TaskOf(q)
  BY <1>0 DEF TaskInv
<1> USE DEF Aside, Moves
<1>2. ASSUME NEW p \in Tasks, Send(p) \/ Receive(p)
      PROVE  TaskInv'
  <2>1. Enter(p) /\ UNCHANGED <<channelVars, stage, result, refused>>
        /\ \E o \in {"send", "receive"} : call' = [call EXCEPT ![p] = o]
        /\ call[p] = "none"
    BY <1>2 DEF Send, Receive
  <2>2. at'[p] \in {"entering", "inside"} /\ failed' = failed
        /\ \A q \in Tasks \ {p} : at'[q] = at[q]
    BY <1>0, <2>1, EnterMoves
  <2>3. \A q \in Tasks \ {p} : Aside(q)
    BY <1>0, <2>1, <2>2 DEF CallTypes, channelVars
  <2>4. TaskOf(p)'
    BY <1>0, <1>1, <2>1, <2>2
    DEF TaskOf, StageOf, SenderOf, ReceiverOf, Registered, CallTypes, channelVars
  <2> QED
    BY <1>0, <1>1, <2>1, <2>3, <2>4, OneTaskSteps DEF channelVars
<1>3. ASSUME NEW p \in Tasks, SendDelivers(p)
      PROVE  TaskInv'
  <2>1. PICK h \in Tasks :
        /\ h = Head(receivers) /\ On(receivers, h)
        /\ \A q : On(receivers', q) <=> On(receivers, q) /\ q # h
    BY <1>0, <1>3, ShiftFacts DEF SendDelivers, CallTypes
  <2>2. /\ at[p] = "inside" /\ at'[p] = "outside" /\ failed' = failed \ {p}
        /\ \A q \in Tasks \ {p} :
             \/ at'[q] = at[q]
             \/ at[q] \in {"entering", "returning"} /\ at'[q] = "inside"
    BY <1>0, <1>3, LeaveMoves DEF SendDelivers
  <2>3. /\ call[p] = "send" /\ stage[p] = "start"
        /\ Ends(p) /\ UNCHANGED <<capacity, blocked, refused>>
        /\ Deliver(h, message[p])
    BY <1>3, <2>1 DEF SendDelivers, Runs
  <2>4. h # p /\ stage[h] \in {"await", "settled"} /\ at[h] # "inside"
    <3>1. Registered(h)
      BY <1>1, <2>1 DEF TaskOf, ReceiverOf
    <3>2. at[h] = "inside" => h = p
      BY <1>0, <2>1, <2>2 DEF IInv, MonitorExclusion
    <3>3. stage[p] = "start"
      BY <2>3
    <3> QED
      BY <1>1, <2>1, <3>1, <3>2, <3>3 DEF TaskOf, StageOf, Registered
  <2>5. /\ call' = [call EXCEPT ![p] = "none"] /\ stage' = [stage EXCEPT ![p] = "start"]
        /\ \A q \in Tasks : q # h => result'[q] = result[q]
        /\ (result[h] # 0 \/ h \in refused) => result'[h] = result[h]
    BY <1>0, <2>1, <2>3 DEF Deliver, Ends, CallTypes
  <2>6. \A q \in Tasks \ {p, h} : Aside(q)
    BY <1>0, <2>1, <2>2, <2>3, <2>5 DEF CallTypes
  <2>7. TaskOf(p)'
    BY <1>0, <1>1, <2>1, <2>2, <2>3, <2>4, <2>5
    DEF TaskOf, StageOf, SenderOf, ReceiverOf, Registered, CallTypes
  <2>8. TaskOf(h)'
    <3>1. at'[h] = at[h] \/ (at[h] = "entering" /\ at'[h] = "inside")
      BY <1>1, <2>1, <2>2, <2>4 DEF TaskOf, SenderOf
    <3>2. call'[h] = call[h] /\ stage'[h] = stage[h]
      BY <1>0, <2>1, <2>4, <2>5 DEF CallTypes
    <3>3. StageOf(h)' /\ SenderOf(h)'
      BY <1>1, <2>1, <2>2, <2>3, <2>4, <3>1, <3>2 DEF TaskOf, StageOf, SenderOf
    <3>4. ReceiverOf(h)'
      <4>1. stage'[h] \in {"await", "settled"} /\ (h \in refused' <=> h \in refused)
        BY <2>3, <2>4, <3>2
      <4>2. ReceiverOf(h)
        BY <1>1, <2>1 DEF TaskOf
      <4>3. CASE result[h] # 0 \/ h \in refused
        BY <2>1, <2>5, <3>2, <4>1, <4>2, <4>3 DEF ReceiverOf, Registered
      <4>4. CASE result[h] = 0 /\ h \notin refused
        BY <2>1, <3>2, <4>1, <4>2, <4>4 DEF ReceiverOf, Registered
      <4> QED
        BY <4>3, <4>4
    <3> QED
      BY <3>3, <3>4 DEF TaskOf
  <2>9. capacity' = capacity /\ blocked' = blocked
    BY <2>3
  <2>10. ASSUME NEW q \in Tasks PROVE TaskOf(q)'
    BY <1>1, <2>6, <2>7, <2>8, <2>9, AsideKeeps
  <2> QED
    BY <1>1, <2>9, <2>10 DEF TaskInv
<1>4. ASSUME NEW p \in Tasks, SendWaits(p)
      PROVE  TaskInv'
  <2>1. at[p] = "inside" /\ at'[p] = "sleeping" /\ failed' = failed \ {p}
        /\ \A q \in Tasks \ {p} :
             \/ at'[q] = at[q]
             \/ at[q] \in {"entering", "returning"} /\ at'[q] = "inside"
    BY <1>0, <1>4, WaitMoves DEF SendWaits
  <2>2. /\ call[p] = "send" /\ stage[p] = "start" /\ capacity = 0
        /\ UNCHANGED <<channelVars, callVars>>
    BY <1>4 DEF SendWaits, Runs
  <2>3. \A q \in Tasks \ {p} : Aside(q)
    BY <2>1, <2>2 DEF channelVars, callVars
  <2>4. TaskOf(p)'
    BY <1>1, <2>1, <2>2
    DEF TaskOf, StageOf, SenderOf, ReceiverOf, Registered, channelVars, callVars
  <2> QED
    BY <1>0, <1>1, <2>2, <2>3, <2>4, OneTaskSteps DEF channelVars
<1>5. ASSUME NEW p \in Tasks, SendFails(p) \/ SendThrows(p)
      PROVE  TaskInv'
  <2>1. /\ Leave(p) /\ Ends(p) /\ UNCHANGED <<channelVars, result, refused>>
        /\ stage[p] = "start"
    BY <1>5 DEF SendFails, SendThrows, Runs
  <2>2. /\ at[p] = "inside" /\ at'[p] = "outside" /\ failed' = failed \ {p}
        /\ \A q \in Tasks \ {p} :
             \/ at'[q] = at[q]
             \/ at[q] \in {"entering", "returning"} /\ at'[q] = "inside"
    BY <1>0, <2>1, LeaveMoves
  <2>3. \A q \in Tasks \ {p} : Aside(q)
    BY <1>0, <2>1, <2>2 DEF Ends, CallTypes, channelVars
  <2>4. TaskOf(p)'
    BY <1>0, <1>1, <2>1, <2>2
    DEF Ends, TaskOf, StageOf, SenderOf, ReceiverOf, Registered, CallTypes, channelVars
  <2> QED
    BY <1>0, <1>1, <2>1, <2>3, <2>4, OneTaskSteps DEF channelVars
<1>6. ASSUME NEW p \in Tasks, SendBuffers(p)
      PROVE  TaskInv'
  <2>1. /\ Leave(p) /\ UNCHANGED <<capacity, receivers, call, result, refused>>
        /\ stage[p] = "start" /\ call[p] = "send" /\ capacity > 0
        /\ \/ blocked' = blocked /\ stage' = [stage EXCEPT ![p] = "granted"]
           \/ blocked' = Append(blocked, p) /\ stage' = [stage EXCEPT ![p] = "blocked"]
    BY <1>6 DEF SendBuffers, Runs
  <2>2. /\ at[p] = "inside" /\ at'[p] = "outside" /\ failed' = failed \ {p}
        /\ \A q \in Tasks \ {p} :
             \/ at'[q] = at[q]
             \/ at[q] \in {"entering", "returning"} /\ at'[q] = "inside"
    BY <1>0, <2>1, LeaveMoves
  <2>3. ~On(blocked, p)
    BY <1>1, <2>1 DEF TaskOf, SenderOf
  <2>4. /\ Distinct(blocked')
        /\ \A q \in Tasks \ {p} : On(blocked', q) <=> On(blocked, q)
        /\ stage'[p] = "blocked" => On(blocked', p)
        /\ stage'[p] \in {"granted", "blocked"}
        /\ On(blocked', p) => stage'[p] = "blocked"
    <3>1. CASE blocked' = blocked /\ stage' = [stage EXCEPT ![p] = "granted"]
      BY <1>0, <1>1, <2>3, <3>1 DEF CallTypes
    <3>2. CASE blocked' = Append(blocked, p) /\ stage' = [stage EXCEPT ![p] = "blocked"]
      BY <1>0, <1>1, <2>3, <3>2, PushFacts DEF CallTypes
    <3> QED
      BY <2>1, <3>1, <3>2
  <2>5. \A q \in Tasks \ {p} : Aside(q)
    BY <1>0, <2>1, <2>2, <2>4 DEF CallTypes
  <2>6. TaskOf(p)'
    BY <1>0, <1>1, <2>1, <2>2, <2>4
    DEF TaskOf, StageOf, SenderOf, ReceiverOf, Registered, CallTypes
  <2> QED
    BY <1>0, <1>1, <2>1, <2>4, <2>5, <2>6, OneTaskSteps
<1>7. ASSUME NEW p \in Tasks, SendInserts(p)
      PROVE  TaskInv'
  <2>1. /\ stage[p] = "granted" /\ call[p] = "send" /\ Ends(p)
        /\ UNCHANGED <<monitorVars, capacity, receivers, blocked, result, refused>>
    BY <1>7 DEF SendInserts
  <2>2. \A q \in Tasks \ {p} : Aside(q)
    BY <1>0, <2>1 DEF Ends, CallTypes, monitorVars
  <2>3. TaskOf(p)'
    BY <1>0, <1>1, <2>1
    DEF Ends, TaskOf, StageOf, SenderOf, ReceiverOf, Registered, CallTypes, monitorVars
  <2> QED
    BY <1>0, <1>1, <2>1, <2>2, <2>3, OneTaskSteps
<1>8. ASSUME NEW p \in Tasks, SendRejects(p)
      PROVE  TaskInv'
  <2>1. /\ stage[p] = "rejected" /\ call[p] = "send" /\ Ends(p)
        /\ blocked' = RemoveSafe(blocked, p)
        /\ UNCHANGED <<monitorVars, capacity, receivers, result, refused>>
    BY <1>8 DEF SendRejects
  <2>2. /\ Distinct(blocked')
        /\ \A q : On(blocked', q) <=> On(blocked, q) /\ q # p
    BY <1>0, <1>1, <2>1, RemoveSafeFacts DEF CallTypes
  <2>3. \A q \in Tasks \ {p} : Aside(q)
    BY <1>0, <2>1, <2>2 DEF Ends, CallTypes, monitorVars
  <2>4. TaskOf(p)'
    BY <1>0, <1>1, <2>1, <2>2
    DEF Ends, TaskOf, StageOf, SenderOf, ReceiverOf, Registered, CallTypes, monitorVars
  <2> QED
    BY <1>0, <1>1, <2>1, <2>2, <2>3, <2>4, OneTaskSteps
<1>9. ASSUME NEW p \in Tasks, ReceiveRegisters(p)
      PROVE  TaskInv'
  <2>1. /\ at[p] = "inside" /\ stage[p] = "start" /\ call[p] = "receive"
        /\ receivers' = Append(receivers, p) /\ stage' = [stage EXCEPT ![p] = "signal"]
        /\ UNCHANGED <<capacity, blocked, call, result, refused>>
    BY <1>9 DEF ReceiveRegisters, Runs
  <2>2. at'[p] = "inside" /\ failed' = failed /\ \A q \in Tasks \ {p} : Moves(q)
    <3>1. CASE sleepers = <<>>
      BY <1>9, <2>1, <3>1 DEF ReceiveRegisters, monitorVars
    <3>2. CASE sleepers # <<>>
      BY <1>0, <1>9, <2>1, <3>2, SignalMoves DEF ReceiveRegisters
    <3> QED
      BY <3>1, <3>2
  <2>3. ~On(receivers, p)
    BY <1>1, <2>1 DEF TaskOf, ReceiverOf, Registered
  <2>4. \A q : On(receivers', q) <=> On(receivers, q) \/ q = p
    BY <1>0, <2>1, <2>3, PushFacts DEF CallTypes
  <2>5. \A q \in Tasks \ {p} : Aside(q)
    BY <1>0, <2>1, <2>2, <2>4 DEF CallTypes
  <2>6. TaskOf(p)'
    BY <1>0, <1>1, <2>1, <2>2, <2>4
    DEF TaskOf, StageOf, SenderOf, ReceiverOf, Registered, CallTypes
  <2> QED
    BY <1>0, <1>1, <2>1, <2>5, <2>6, OneTaskSteps
<1>10. ASSUME NEW p \in Tasks, ReceiveChecks(p)
      PROVE  TaskInv'
  <2>1. /\ stage[p] = "signal" /\ call[p] = "receive"
        /\ stage' = PhaseAfterPlace(p, "await")
        /\ UNCHANGED <<capacity, receivers, call, refused>>
        /\ \/ buffer.chain = <<>> /\ UNCHANGED <<places, blocked, result>>
           \/ /\ buffer.chain # <<>> /\ GivePlace
              /\ result' = [result EXCEPT ![p] = Head(buffer.chain)]
    BY <1>10 DEF ReceiveChecks, Runs
  <2>2. /\ at[p] = "inside" /\ at'[p] = "outside" /\ failed' = failed \ {p}
        /\ \A q \in Tasks \ {p} :
             \/ at'[q] = at[q]
             \/ at[q] \in {"entering", "returning"} /\ at'[q] = "inside"
    BY <1>0, <1>10, LeaveMoves DEF ReceiveChecks
  <2>3. /\ stage'[p] = "await" /\ ~On(blocked, p) /\ p \notin refused
        /\ \A q \in Tasks \ {p} : result'[q] = result[q]
    <3>1. stage'[p] = "await"
      BY <2>1 DEF PhaseAfterPlace
    <3> QED
      BY <1>0, <1>1, <2>1, <3>1 DEF TaskOf, SenderOf, ReceiverOf, CallTypes
  <2>4. CASE buffer.chain = <<>> \/ blocked = <<>>
    <3>1. blocked' = blocked /\ \A q \in Tasks \ {p} : stage'[q] = stage[q]
      <4>1. blocked' = blocked
        BY <2>1, <2>4 DEF GivePlace
      <4>2. ASSUME NEW q \in Tasks \ {p} PROVE stage'[q] = stage[q]
        BY <2>1, <2>4 DEF PhaseAfterPlace
      <4> QED
        BY <4>1, <4>2
    <3>2. \A q \in Tasks \ {p} : Aside(q)
      BY <2>1, <2>2, <2>3, <3>1
    <3>3. TaskOf(p)'
      BY <1>1, <2>1, <2>2, <2>3, <3>1
      DEF TaskOf, StageOf, SenderOf, ReceiverOf, Registered
    <3> QED
      BY <1>0, <1>1, <2>1, <3>1, <3>2, <3>3, OneTaskSteps
  <2>5. CASE buffer.chain # <<>> /\ blocked # <<>>
    <3>1. blocked' = Tail(blocked)
      BY <2>1, <2>5 DEF GivePlace
    <3>2. PICK b \in Tasks :
          /\ b = Head(blocked) /\ On(blocked, b) /\ Distinct(blocked')
          /\ \A q : On(blocked', q) <=> On(blocked, q) /\ q # b
      BY <1>0, <1>1, <2>5, <3>1, ShiftFacts DEF CallTypes
    <3>3. \A q \in Tasks \ {p} :
             stage'[q] = IF q = b /\ stage[q] = "blocked" THEN "granted" ELSE stage[q]
      BY <2>1, <2>5, <3>2 DEF PhaseAfterPlace
    <3>4. b # p /\ stage[b] \in {"blocked", "rejected"} /\ capacity > 0
      BY <1>1, <2>3, <3>2 DEF TaskOf, SenderOf
    <3>5. \A q \in Tasks \ {p, b} : Aside(q)
      BY <2>1, <2>2, <2>3, <3>2, <3>3
    <3>6. TaskOf(p)'
      BY <1>1, <2>1, <2>2, <2>3, <3>2
      DEF TaskOf, StageOf, SenderOf, ReceiverOf, Registered
    <3>7. TaskOf(b)'
      <4>1. /\ stage'[b] \in {"granted", "rejected"} /\ ~On(blocked', b) /\ at'[b] = "outside"
            /\ call'[b] = call[b] /\ result'[b] = result[b] /\ call[b] = "send"
            /\ b \notin failed'
            /\ ~On(receivers', b) /\ result'[b] = 0 /\ b \notin refused'
        <5>1. /\ at[b] = "outside" /\ call[b] = "send" /\ b \notin failed
              /\ ~On(receivers, b) /\ result[b] = 0 /\ b \notin refused
          BY <1>0, <1>1, <3>2, <3>4
          DEF TaskOf, StageOf, SenderOf, ReceiverOf, Registered, CallTypes
        <5> QED
          BY <2>1, <2>2, <2>3, <3>2, <3>3, <3>4, <5>1
      <4>2. StageOf(b)' /\ SenderOf(b)'
        BY <2>1, <3>4, <4>1 DEF StageOf, SenderOf
      <4>3. ReceiverOf(b)'
        BY <4>1 DEF ReceiverOf, Registered
      <4> QED
        BY <4>2, <4>3 DEF TaskOf
    <3>8. ASSUME NEW q \in Tasks PROVE TaskOf(q)'
      BY <1>1, <2>1, <3>5, <3>6, <3>7, AsideKeeps
    <3> QED
      BY <3>2, <3>8 DEF TaskInv
  <2> QED
    BY <2>4, <2>5
<1>11. ASSUME NEW p \in Tasks, ReceiveThrows(p)
      PROVE  TaskInv'
  <2>1. /\ stage[p] = "signal" /\ call[p] = "receive"
        /\ stage' = [stage EXCEPT ![p] = "await"] /\ refused' = refused \cup {p}
        /\ UNCHANGED <<channelVars, call, result>>
    BY <1>11 DEF ReceiveThrows, Runs
  <2>2. /\ at[p] = "inside" /\ at'[p] = "outside" /\ failed' = failed \ {p}
        /\ \A q \in Tasks \ {p} :
             \/ at'[q] = at[q]
             \/ at[q] \in {"entering", "returning"} /\ at'[q] = "inside"
    BY <1>0, <1>11, LeaveMoves DEF ReceiveThrows
  <2>3. \A q \in Tasks \ {p} : Aside(q)
    BY <1>0, <2>1, <2>2 DEF CallTypes, channelVars
  <2>4. TaskOf(p)'
    BY <1>0, <1>1, <2>1, <2>2
    DEF TaskOf, StageOf, SenderOf, ReceiverOf, Registered, CallTypes, channelVars
  <2> QED
    BY <1>0, <1>1, <2>1, <2>3, <2>4, OneTaskSteps DEF channelVars
<1>12. ASSUME NEW p \in Tasks, ReceiveSettles(p)
      PROVE  TaskInv'
  <2>1. /\ stage[p] = "await" /\ call[p] = "receive"
        /\ result[p] # 0 \/ p \in refused
        /\ stage' = [stage EXCEPT ![p] = "settled"]
        /\ UNCHANGED <<channelVars, call, result, refused>>
    BY <1>12 DEF ReceiveSettles
  <2>2. at'[p] \in {"entering", "inside"} /\ failed' = failed
        /\ \A q \in Tasks \ {p} : at'[q] = at[q]
    BY <1>0, <1>12, EnterMoves DEF ReceiveSettles
  <2>3. \A q \in Tasks \ {p} : Aside(q)
    BY <1>0, <2>1, <2>2 DEF CallTypes, channelVars
  <2>4. TaskOf(p)'
    BY <1>0, <1>1, <2>1, <2>2
    DEF TaskOf, StageOf, SenderOf, ReceiverOf, Registered, CallTypes, channelVars
  <2> QED
    BY <1>0, <1>1, <2>1, <2>3, <2>4, OneTaskSteps DEF channelVars
<1>13. ASSUME NEW p \in Tasks, ReceiveEnds(p)
      PROVE  TaskInv'
  <2>1. /\ stage[p] = "settled" /\ call[p] = "receive" /\ Ends(p)
        /\ receivers' = RemoveSafe(receivers, p)
        /\ result' = [result EXCEPT ![p] = 0] /\ refused' = refused \ {p}
        /\ UNCHANGED <<capacity, blocked>>
    BY <1>13 DEF ReceiveEnds, Runs
  <2>2. /\ at[p] = "inside" /\ at'[p] = "outside" /\ failed' = failed \ {p}
        /\ \A q \in Tasks \ {p} :
             \/ at'[q] = at[q]
             \/ at[q] \in {"entering", "returning"} /\ at'[q] = "inside"
    BY <1>0, <1>13, LeaveMoves DEF ReceiveEnds
  <2>3. \A q : On(receivers', q) <=> On(receivers, q) /\ q # p
    BY <1>0, <2>1, RemoveSafeFacts DEF CallTypes
  <2>4. \A q \in Tasks \ {p} : Aside(q)
    BY <1>0, <2>1, <2>2, <2>3 DEF Ends, CallTypes
  <2>5. TaskOf(p)'
    BY <1>0, <1>1, <2>1, <2>2, <2>3
    DEF Ends, TaskOf, StageOf, SenderOf, ReceiverOf, Registered, CallTypes
  <2> QED
    BY <1>0, <1>1, <2>1, <2>4, <2>5, OneTaskSteps
<1>14. ASSUME NEW p \in Tasks, LockThrows(p)
      PROVE  TaskInv'
  <2>1. Ends(p) /\ UNCHANGED <<channelVars, result, refused>>
    BY <1>14 DEF LockThrows
  <2>2. at[p] = "rejected" /\ at'[p] = "outside" /\ failed' = failed
        /\ \A q \in Tasks \ {p} : at'[q] = at[q]
    BY <1>0, <1>14, RejectsMoves DEF LockThrows
  <2>3. stage[p] = "start"
    BY <1>0, <1>1, <2>2 DEF TaskOf, StageOf, CallTypes, Stage
  <2>4. \A q \in Tasks \ {p} : Aside(q)
    BY <1>0, <2>1, <2>2 DEF Ends, CallTypes, channelVars
  <2>5. TaskOf(p)'
    BY <1>0, <1>1, <2>1, <2>2, <2>3
    DEF Ends, TaskOf, StageOf, SenderOf, ReceiverOf, Registered, CallTypes, channelVars
  <2> QED
    BY <1>0, <1>1, <2>1, <2>4, <2>5, OneTaskSteps DEF channelVars
<1>15. ASSUME NEW p \in Tasks, WaitEnds(p)
      PROVE  TaskInv'
  <2>1. UNCHANGED <<channelVars, callVars>>
    BY <1>15 DEF WaitEnds
  <2>2. /\ at[p] \in {"woken", "quitting"} /\ at'[p] \in {"returning", "inside"}
        /\ failed' = failed /\ \A q \in Tasks \ {p} : at'[q] = at[q]
    BY <1>0, <1>15, ReturnMoves DEF WaitEnds
  <2>3. \A q \in Tasks \ {p} : Aside(q)
    BY <2>1, <2>2 DEF channelVars, callVars
  <2>4. TaskOf(p)'
    BY <1>1, <2>1, <2>2
    DEF TaskOf, StageOf, SenderOf, ReceiverOf, Registered, channelVars, callVars
  <2> QED
    BY <1>0, <1>1, <2>1, <2>3, <2>4, OneTaskSteps DEF channelVars
<1>16. ASSUME NEW who \in SUBSET Tasks, Interrupt(who),
              \A q \in Tasks : q \in refused' /\ q \notin refused
                                  => stage[q] = "await" /\ result[q] = 0,
              \A q \in Tasks : q \in refused => q \in refused'
       PROVE  TaskInv'
  <2>1. UNCHANGED <<receivers, blocked, call, result, capacity>>
    BY <1>16 DEF Interrupt
  <2>2. \A q \in Tasks :
           /\ \/ at'[q] = at[q] /\ (q \in failed' <=> q \in failed)
              \/ /\ at[q] = "entering" /\ stage[q] = "start" /\ at'[q] = "rejected"
                 /\ (q \in failed' <=> q \in failed)
              \/ at[q] = "sleeping" /\ at'[q] = "quitting"
           /\ \/ stage'[q] = stage[q]
              \/ /\ stage[q] = "blocked" /\ at[q] # "sleeping"
                 /\ stage'[q] = "rejected"
    <3>1. \A q \in Tasks : at[q] = "sleeping" => stage[q] = "start"
      BY <1>1 DEF TaskOf, SenderOf
    <3>2. stage \in [Tasks -> Stage]
      BY <1>0 DEF CallTypes
    <3> QED
      BY <1>0, <1>16, <3>1, <3>2, InterruptMoves
  <2>3. ASSUME NEW q \in Tasks PROVE TaskOf(q)'
    <3>1. StageOf(q)'
      BY <1>1, <2>1, <2>2 DEF TaskOf, StageOf
    <3>2. SenderOf(q)'
      BY <1>1, <2>1, <2>2 DEF TaskOf, StageOf, SenderOf
    <3>3. ReceiverOf(q)'
      BY <1>1, <1>16, <2>1, <2>2 DEF TaskOf, ReceiverOf, Registered
    <3> QED
      BY <3>1, <3>2, <3>3 DEF TaskOf
  <2> QED
    BY <1>1, <2>1, <2>3 DEF TaskInv
<1>17. ASSUME NEW p \in Tasks, CallAborts(p)
       PROVE  TaskInv'
  <2>1. Interrupt({p}) /\ {p} \in SUBSET Tasks
    BY <1>17 DEF CallAborts
  <2>2. /\ \A q \in Tasks : q \in refused' /\ q \notin refused
                               => stage[q] = "await" /\ result[q] = 0
        /\ \A q \in Tasks : q \in refused => q \in refused'
    BY <1>17 DEF CallAborts
  <2> QED
    BY <1>16, <2>1, <2>2
<1>18. ASSUME Close
       PROVE  TaskInv'
  <2>1. Interrupt(Tasks) /\ Tasks \in SUBSET Tasks /\ refused' = refused
    BY <1>18 DEF Close
  <2> QED
    BY <1>16, <2>1
<1>19. CASE UNCHANGED allVars
  <2>1. UNCHANGED <<monitorVars, channelVars, callVars>>
    BY <1>19 DEF allVars
  <2>2. \A q \in Tasks : Aside(q)
    BY <2>1 DEF monitorVars, channelVars, callVars
  <2> QED
    BY <1>1, <2>1, <2>2, AsideKeeps DEF TaskInv, channelVars
<1>20. [ChannelNext]_allVars
  BY DEF ChannelInv
<1> QED
  BY <1>2, <1>3, <1>4, <1>5, <1>6, <1>7, <1>8, <1>9, <1>10, <1>11, <1>12, <1>13, <1>14,
     <1>15, <1>17, <1>18, <1>19, <1>20 DEF ChannelNext

-----------------------------------------------------------------------------
(***************************************************************************)
(* Aborts.                                                                 *)
(***************************************************************************)
\* The steps in which a signal aborts or the channel is closed.
Aborting(p) == SendThrows(p) \/ ReceiveThrows(p) \/ CallAborts(p)

Acting(p) ==
    \/ Send(p) \/ SendDelivers(p) \/ SendWaits(p) \/ SendFails(p) \/ SendBuffers(p)
    \/ SendInserts(p) \/ SendRejects(p)
    \/ Receive(p) \/ ReceiveRegisters(p) \/ ReceiveChecks(p) \/ ReceiveSettles(p)
    \/ ReceiveEnds(p)
    \/ LockThrows(p) \/ WaitEnds(p)

LEMMA ChannelSteps ==
    ASSUME ChannelNext
    PROVE  Close \/ \E p \in Tasks : Aborting(p) \/ Acting(p)
BY DEF ChannelNext, Aborting, Acting

LEMMA AbortingTells ==
    ASSUME Close \/ \E p \in Tasks : Aborting(p)
    PROVE  "abort" \in events' /\ events \subseteq events'
BY DEF Aborting, SendThrows, ReceiveThrows, CallAborts, Close, Interrupt

(***************************************************************************)
(* Any other step rejects nobody.                                          *)
(***************************************************************************)
LEMMA ActingMoves ==
    ASSUME ChannelInv, NEW p \in Tasks, Acting(p)
    PROVE  /\ \A q \in Tasks : at'[q] \in {"rejected", "quitting"} => at'[q] = at[q]
           /\ \A q \in Tasks \ {p} : Moves(q)
           /\ at'[p] # "woken" /\ (at'[p] = "sleeping" => SendWaits(p))
           /\ failed' \subseteq failed
           /\ refused' \subseteq refused
           /\ events \subseteq events'
           /\ UNCHANGED <<capacity, closed>>
<1> USE DEF Moves
<1>1. IInv
  BY DEF ChannelInv
<1>2. CASE Send(p) \/ Receive(p) \/ ReceiveSettles(p)
  <2>1. Enter(p) /\ UNCHANGED <<capacity, closed, refused, events>>
    BY <1>2 DEF Send, Receive, ReceiveSettles, channelVars, history
  <2> QED
    BY <1>1, <2>1, EnterMoves
<1>3. CASE SendDelivers(p) \/ SendFails(p) \/ SendBuffers(p) \/ ReceiveChecks(p)
           \/ ReceiveEnds(p)
  <2>1. Leave(p) /\ UNCHANGED <<capacity, closed>> /\ events \subseteq events'
        /\ refused' \subseteq refused
    BY <1>3 DEF SendDelivers, Deliver, SendFails, SendBuffers, ReceiveChecks, ReceiveEnds,
                channelVars, history
  <2> QED
    BY <1>1, <2>1, LeaveMoves
<1>4. CASE SendWaits(p)
  BY <1>1, <1>4, WaitMoves DEF SendWaits, channelVars, callVars, history
<1>5. CASE SendInserts(p) \/ SendRejects(p)
  <2>1. UNCHANGED <<monitorVars, capacity, closed, refused>> /\ events \subseteq events'
    BY <1>5 DEF SendInserts, SendRejects, history
  <2>2. at[p] = "outside"
    BY <1>5 DEF SendInserts, SendRejects, ChannelInv, TaskInv, TaskOf, StageOf
  <2> QED
    BY <2>1, <2>2 DEF monitorVars
<1>6. CASE ReceiveRegisters(p)
  <2>1. at[p] = "inside" /\ UNCHANGED <<capacity, closed, refused, events>>
    BY <1>6 DEF ReceiveRegisters, Runs
  <2>2. CASE sleepers = <<>>
    BY <1>6, <2>1, <2>2 DEF ReceiveRegisters, monitorVars
  <2>3. CASE sleepers # <<>>
    BY <1>1, <1>6, <2>1, <2>3, SignalMoves DEF ReceiveRegisters
  <2> QED
    BY <2>2, <2>3
<1>7. CASE LockThrows(p)
  BY <1>1, <1>7, RejectsMoves DEF LockThrows, channelVars, history
<1>8. CASE WaitEnds(p)
  BY <1>1, <1>8, ReturnMoves DEF WaitEnds, channelVars, callVars, history
<1> QED
  BY <1>2, <1>3, <1>4, <1>5, <1>6, <1>7, <1>8 DEF Acting

LEMMA AbortedStep ==
    ASSUME ChannelInv, [ChannelNext]_allVars
    PROVE  AbortedInv'
<1>1. AbortedInv
  BY DEF ChannelInv
<1>2. CASE Close \/ \E p \in Tasks : Aborting(p)
  BY <1>2, AbortingTells DEF AbortedInv
<1>3. ASSUME NEW p \in Tasks, Acting(p) PROVE AbortedInv'
  BY <1>1, <1>3, ActingMoves DEF AbortedInv
<1>4. CASE UNCHANGED allVars
  BY <1>1, <1>4 DEF allVars, monitorVars, callVars, history, AbortedInv
<1> QED
  BY <1>2, <1>3, <1>4, ChannelSteps

-----------------------------------------------------------------------------
(***************************************************************************)
(* What the two steps on the buffer do to it.                              *)
(***************************************************************************)
LEMMA BufferTypes ==
    ASSUME ChannelInv
    PROVE  /\ CallTypes /\ MaxMessages \in Nat
           /\ Distinct(buffer.chain) /\ Len(buffer.chain) <= buffer.size
           /\ used \in 0..MaxMessages /\ sent \subseteq 1..used
           /\ \A p \in Tasks : call[p] = "send" =>
                 /\ message[p] \in 1..used /\ message[p] \in Messages
                 /\ message[p] \notin sent /\ ~On(buffer.chain, message[p])
<1>1. CallTypes /\ MaxMessages \in Nat /\ used \in 0..MaxMessages
  BY CallTypesHold, ChannelAssumption DEF ChannelInv, ChannelTypeOK
<1> QED
  BY <1>1 DEF ChannelInv, MessageInv, LossInv, Messages

LEMMA InsertedInBuffer ==
    ASSUME buffer.chain \in Seq(Messages), Distinct(buffer.chain), buffer.size \in Nat,
           Len(buffer.chain) <= buffer.size,
           NEW items \in Seq(Messages), Distinct(items), Apart(buffer.chain, items),
           NEW index \in Nat, buffer' = InternalSplice(buffer, index, 0, items)
    PROVE  /\ buffer'.chain \in Seq(Messages) /\ Distinct(buffer'.chain)
           /\ buffer'.size = buffer.size + Len(items)
           /\ Len(buffer'.chain) <= Len(buffer.chain) + Len(items)
           /\ \A x : On(buffer'.chain, x) => On(buffer.chain, x) \/ On(items, x)
           /\ WellFormed(buffer) /\ (index <= buffer.size \/ buffer.chain = <<>>)
                => /\ Len(buffer'.chain) = Len(buffer.chain) + Len(items)
                   /\ \A x : On(buffer.chain, x) \/ On(items, x) => On(buffer'.chain, x)
<1>1. ItemsPut(Messages, buffer, index, items, InternalSplice(buffer, index, 0, items))
  BY InsertedFacts
<1>2. ItemsPut(Messages, buffer, index, items, buffer')
  BY <1>1, Zenon
<1> QED
  BY <1>2, Zenon DEF ItemsPut

LEMMA InsertEffect ==
    ASSUME ChannelInv, NEW p \in Tasks, SendInserts(p)
    PROVE  /\ call[p] = "send" /\ stage[p] = "granted" /\ Ends(p)
           /\ buffer'.chain \in Seq(Messages) /\ Distinct(buffer'.chain)
           /\ buffer'.size = buffer.size + 1
           /\ Len(buffer'.chain) <= Len(buffer.chain) + 1
           /\ \A x : On(buffer'.chain, x) => On(buffer.chain, x) \/ x = message[p]
           /\ "shrunk" \notin events' =>
                /\ "shrunk" \notin events
                /\ Len(buffer'.chain) = Len(buffer.chain) + 1
                /\ \A x : On(buffer.chain, x) \/ x = message[p] => On(buffer'.chain, x)
<1>1. /\ CallTypes /\ Distinct(buffer.chain) /\ Len(buffer.chain) <= buffer.size
      /\ call[p] = "send" /\ stage[p] = "granted" /\ Ends(p)
      /\ message[p] \in Messages /\ ~On(buffer.chain, message[p])
      /\ start[p] \in Nat /\ buffer.size \in Nat /\ buffer.chain \in Seq(Messages)
  BY BufferTypes DEF SendInserts, CallTypes
<1> DEFINE items == <<message[p]>>
<1>2. /\ items \in Seq(Messages) /\ Distinct(items) /\ Len(items) = 1
      /\ \A x : On(items, x) <=> x = message[p]
  <2>1. items \in Seq(Messages) /\ Len(items) = 1 /\ items[1] = message[p]
    BY <1>1
  <2> HIDE DEF items
  <2>2. 1..Len(items) = {1}
    BY <2>1
  <2> QED
    BY <2>1, <2>2 DEF Distinct, On
<1>3. buffer' = InternalSplice(buffer, start[p], 0, items)
  BY DEF SendInserts
<1> HIDE DEF items
<1>4. Apart(buffer.chain, items)
  BY <1>1, <1>2 DEF Apart
<1>5. /\ buffer'.chain \in Seq(Messages) /\ Distinct(buffer'.chain)
      /\ buffer'.size = buffer.size + Len(items)
      /\ Len(buffer'.chain) <= Len(buffer.chain) + Len(items)
      /\ \A x : On(buffer'.chain, x) => On(buffer.chain, x) \/ On(items, x)
      /\ WellFormed(buffer) /\ (start[p] <= buffer.size \/ buffer.chain = <<>>)
           => /\ Len(buffer'.chain) = Len(buffer.chain) + Len(items)
              /\ \A x : On(buffer.chain, x) \/ On(items, x) => On(buffer'.chain, x)
  BY <1>1, <1>2, <1>3, <1>4, InsertedInBuffer, Zenon
<1>6. ASSUME "shrunk" \notin events'
      PROVE  "shrunk" \notin events /\ WellFormed(buffer)
             /\ (start[p] <= buffer.size \/ buffer.chain = <<>>)
  <2>1. "shrunk" \notin events /\ ~(start[p] > buffer.size /\ buffer.chain # <<>>)
    BY <1>6 DEF SendInserts
  <2> QED
    BY <1>1, <2>1 DEF ChannelInv, LossInv, WellFormed
<1> QED
  BY <1>1, <1>2, <1>5, <1>6

LEMMA DequeueEffect ==
    ASSUME ChannelInv, buffer.chain # <<>>, buffer' = InternalSplice(buffer, 0, 1, <<>>)
    PROVE  /\ Head(buffer.chain) \in Messages /\ On(buffer.chain, Head(buffer.chain))
           /\ buffer'.chain \in Seq(Messages) /\ Distinct(buffer'.chain)
           /\ buffer'.size = buffer.size - 1 /\ buffer'.size \in Nat
           /\ Len(buffer'.chain) = Len(buffer.chain) - 1
           /\ \A x : On(buffer'.chain, x) <=> On(buffer.chain, x) /\ x # Head(buffer.chain)
<1>1. /\ buffer.chain \in Seq(Messages) /\ Distinct(buffer.chain) /\ buffer.size \in Nat
      /\ Len(buffer.chain) <= buffer.size
  BY BufferTypes DEF CallTypes
<1>2. /\ buffer' = RemoveNodeAt(buffer, 1)
      /\ 1 \in 1..Len(buffer.chain) /\ Head(buffer.chain) = buffer.chain[1]
  BY <1>1, DequeueRemoves
<1>3. OneLess(Messages, buffer, 1, buffer')
  BY <1>1, <1>2, RemovedFacts
<1>4. buffer.chain[1] \in Messages /\ On(buffer.chain, buffer.chain[1])
  BY <1>1, <1>2 DEF On
<1> QED
  BY <1>2, <1>3, <1>4, Zenon DEF OneLess

-----------------------------------------------------------------------------
(***************************************************************************)
(* The places (linked-list.ts:201, 228).                                   *)
(***************************************************************************)
LEMMA CallChange ==
    ASSUME NEW p \in Tasks, \A q \in Tasks \ {p} : call'[q] = call[q]
    PROVE  /\ Sending' \ {p} = Sending \ {p}
           /\ p \in Sending' <=> call'[p] = "send"
           /\ p \in Sending <=> call[p] = "send"
BY DEF Sending

LEMMA StageChange ==
    ASSUME NEW p \in Tasks, \A q \in Tasks \ {p} : stage'[q] = stage[q]
    PROVE  /\ GrantedPlaces' \ {p} = GrantedPlaces \ {p}
           /\ p \in GrantedPlaces' <=> stage'[p] = "granted"
           /\ p \in GrantedPlaces <=> stage[p] = "granted"
BY DEF GrantedPlaces

LEMMA EndsChange ==
    ASSUME CallTypes, NEW p \in Tasks, Ends(p)
    PROVE  /\ call'[p] = "none" /\ \A q \in Tasks \ {p} : call'[q] = call[q]
           /\ stage'[p] = "start" /\ \A q \in Tasks \ {p} : stage'[q] = stage[q]
BY DEF Ends, CallTypes

LEMMA PlaceNumbers ==
    ASSUME ChannelInv
    PROVE  /\ places \in Nat /\ buffer.size \in Nat /\ capacity \in Nat /\ used \in Nat
           /\ IsFiniteSet(GrantedPlaces) /\ Cardinality(GrantedPlaces) \in Nat
           /\ IsFiniteSet(Sending) /\ Cardinality(Sending) \in Nat
           /\ places + buffer.size + Cardinality(GrantedPlaces) <= capacity
           /\ buffer.size + Cardinality(Sending) <= used
<1>1. CallTypes /\ used \in Nat
  BY BufferTypes
<1>2. PlacesTaken
  BY DEF ChannelInv
<1> QED
  BY <1>1, <1>2, FS_CardinalityType DEF PlacesTaken, CallTypes

\* A call that has no place ends.
LEMMA EndKeepsPlaces ==
    ASSUME ChannelInv, NEW p \in Tasks, Ends(p), stage[p] # "granted",
           UNCHANGED <<capacity, places, buffer, used>>
    PROVE  PlacesTaken'
<1>1. CallTypes
  BY BufferTypes
<1>2. /\ Sending' \ {p} = Sending \ {p} /\ p \notin Sending'
  BY <1>1, EndsChange, CallChange
<1>3. GrantedPlaces' = GrantedPlaces
  <2>1. /\ GrantedPlaces' \ {p} = GrantedPlaces \ {p}
        /\ p \notin GrantedPlaces' /\ p \notin GrantedPlaces
    BY <1>1, EndsChange, StageChange
  <2> QED
    BY <2>1
<1>4. /\ IsFiniteSet(Sending') /\ Cardinality(Sending') \in Nat
      /\ Cardinality(Sending') <= Cardinality(Sending)
  BY <1>2, PlaceNumbers, Recount
<1> QED
  BY <1>3, <1>4, PlaceNumbers DEF PlacesTaken

\* A call goes on that had no place and gets none.
LEMMA CallKeepsPlaces ==
    ASSUME ChannelInv, GrantedPlaces' = GrantedPlaces, Sending' = Sending,
           UNCHANGED <<capacity, places, buffer, used>>
    PROVE  PlacesTaken'
BY DEF ChannelInv, PlacesTaken

LEMMA PlacesStep ==
    ASSUME ChannelInv, [ChannelNext]_allVars
    PROVE  PlacesTaken'
<1>0. CallTypes
  BY BufferTypes
<1>1. ASSUME NEW p \in Tasks, Send(p)
      PROVE  PlacesTaken'
  <2>1. /\ call' = [call EXCEPT ![p] = "send"] /\ call[p] = "none" /\ used' = used + 1
        /\ UNCHANGED <<capacity, places, buffer, stage>>
    BY <1>1 DEF Send, channelVars
  <2>2. /\ Sending' \ {p} = Sending \ {p} /\ p \in Sending' /\ p \notin Sending
    <3>1. call'[p] = "send" /\ \A q \in Tasks \ {p} : call'[q] = call[q]
      BY <1>0, <2>1 DEF CallTypes
    <3> QED
      BY <2>1, <3>1, CallChange
  <2>3. IsFiniteSet(Sending') /\ Cardinality(Sending') = Cardinality(Sending) + 1
    BY <2>2, PlaceNumbers, Recount
  <2>4. GrantedPlaces' = GrantedPlaces
    BY <2>1 DEF GrantedPlaces
  <2> QED
    BY <2>1, <2>3, <2>4, PlaceNumbers DEF PlacesTaken
<1>2. ASSUME NEW p \in Tasks,
             \/ SendDelivers(p) \/ SendFails(p) \/ SendThrows(p) \/ SendRejects(p)
             \/ ReceiveEnds(p) \/ LockThrows(p)
      PROVE  PlacesTaken'
  <2>1. Ends(p) /\ UNCHANGED <<capacity, places, buffer, used>>
    BY <1>2 DEF SendDelivers, SendFails, SendThrows, SendRejects, ReceiveEnds, LockThrows,
                channelVars, history
  <2>2. stage[p] # "granted"
    <3>1. CASE LockThrows(p)
      <4>1. at[p] = "rejected"
        BY <3>1 DEF LockThrows, EntryRejects
      <4> QED
        BY <4>1 DEF ChannelInv, TaskInv, TaskOf, StageOf
    <3> QED
      BY <1>2, <3>1 DEF SendDelivers, SendFails, SendThrows, SendRejects, ReceiveEnds, Runs
  <2> QED
    BY <2>1, <2>2, EndKeepsPlaces
<1>3. ASSUME NEW p \in Tasks, SendWaits(p) \/ WaitEnds(p)
      PROVE  PlacesTaken'
  <2>1. UNCHANGED <<channelVars, callVars, history>>
    BY <1>3 DEF SendWaits, WaitEnds
  <2> QED
    BY <2>1, CallKeepsPlaces DEF channelVars, callVars, history, GrantedPlaces, Sending
<1>4. ASSUME NEW p \in Tasks, SendBuffers(p)
      PROVE  PlacesTaken'
  <2>1. /\ stage[p] = "start" /\ UNCHANGED <<capacity, call, buffer, used>>
        /\ \/ /\ places > 0 /\ places' = places - 1
              /\ stage' = [stage EXCEPT ![p] = "granted"]
           \/ places' = places /\ stage' = [stage EXCEPT ![p] = "blocked"]
    BY <1>4 DEF SendBuffers, Runs, history
  <2>2. Sending' = Sending
    BY <2>1 DEF Sending
  <2>3. CASE places > 0 /\ places' = places - 1 /\ stage' = [stage EXCEPT ![p] = "granted"]
    <3>1. /\ GrantedPlaces' \ {p} = GrantedPlaces \ {p}
          /\ p \in GrantedPlaces' /\ p \notin GrantedPlaces
      <4>1. stage'[p] = "granted" /\ \A q \in Tasks \ {p} : stage'[q] = stage[q]
        BY <1>0, <2>3 DEF CallTypes
      <4> QED
        BY <2>1, <4>1, StageChange
    <3>2. /\ IsFiniteSet(GrantedPlaces')
          /\ Cardinality(GrantedPlaces') = Cardinality(GrantedPlaces) + 1
      BY <3>1, PlaceNumbers, Recount
    <3> QED
      BY <2>1, <2>2, <2>3, <3>2, PlaceNumbers DEF PlacesTaken
  <2>4. CASE places' = places /\ stage' = [stage EXCEPT ![p] = "blocked"]
    <3>1. GrantedPlaces' = GrantedPlaces
      BY <1>0, <2>1, <2>4 DEF GrantedPlaces, CallTypes
    <3> QED
      BY <2>1, <2>2, <2>4, <3>1, CallKeepsPlaces
  <2> QED
    BY <2>1, <2>3, <2>4
<1>5. ASSUME NEW p \in Tasks, SendInserts(p)
      PROVE  PlacesTaken'
  <2>1. /\ call[p] = "send" /\ stage[p] = "granted" /\ Ends(p)
        /\ buffer'.size = buffer.size + 1
        /\ UNCHANGED <<capacity, places, used>>
    BY <1>5, InsertEffect DEF SendInserts
  <2>2. /\ Sending' \ {p} = Sending \ {p} /\ p \notin Sending' /\ p \in Sending
        /\ GrantedPlaces' \ {p} = GrantedPlaces \ {p}
        /\ p \notin GrantedPlaces' /\ p \in GrantedPlaces
    BY <1>0, <2>1, EndsChange, CallChange, StageChange
  <2>3. /\ IsFiniteSet(Sending') /\ Cardinality(Sending') = Cardinality(Sending) - 1
        /\ IsFiniteSet(GrantedPlaces')
        /\ Cardinality(GrantedPlaces') = Cardinality(GrantedPlaces) - 1
    BY <2>2, PlaceNumbers, Recount
  <2> QED
    BY <2>1, <2>3, PlaceNumbers DEF PlacesTaken
<1>6. ASSUME NEW p \in Tasks, Receive(p)
      PROVE  PlacesTaken'
  <2>1. /\ call' = [call EXCEPT ![p] = "receive"] /\ call[p] = "none"
        /\ UNCHANGED <<capacity, places, buffer, stage, used>>
    BY <1>6 DEF Receive, channelVars, history
  <2>2. Sending' = Sending
    BY <1>0, <2>1 DEF Sending, CallTypes
  <2> QED
    BY <2>1, <2>2, CallKeepsPlaces DEF GrantedPlaces
<1>7. ASSUME NEW p \in Tasks,
             ReceiveRegisters(p) \/ ReceiveThrows(p) \/ ReceiveSettles(p)
      PROVE  PlacesTaken'
  <2>1. /\ stage[p] \in {"start", "signal", "await"}
        /\ \E s \in {"signal", "await", "settled"} : stage' = [stage EXCEPT ![p] = s]
        /\ UNCHANGED <<capacity, places, buffer, call, used>>
    BY <1>7 DEF ReceiveRegisters, ReceiveThrows, ReceiveSettles, Runs, channelVars, history
  <2>2. GrantedPlaces' = GrantedPlaces
    <3>1. stage'[p] # "granted" /\ \A q \in Tasks \ {p} : stage'[q] = stage[q]
      BY <1>0, <2>1 DEF CallTypes
    <3> QED
      BY <2>1, <3>1 DEF GrantedPlaces
  <2> QED
    BY <2>1, <2>2, CallKeepsPlaces DEF Sending
<1>8. ASSUME NEW p \in Tasks, ReceiveChecks(p)
      PROVE  PlacesTaken'
  <2>1. /\ stage[p] = "signal" /\ UNCHANGED <<capacity, call, used>>
        /\ \A q \in Tasks : stage'[q] = PhaseAfterPlace(p, "await")[q]
        /\ \/ buffer.chain = <<>> /\ UNCHANGED <<buffer, places, blocked>>
           \/ /\ buffer.chain # <<>> /\ GivePlace
              /\ buffer' = InternalSplice(buffer, 0, 1, <<>>)
    BY <1>8 DEF ReceiveChecks, Runs, history
  <2>2. Sending' = Sending
    BY <2>1 DEF Sending
  <2>3. stage'[p] = "await"
    BY <2>1 DEF PhaseAfterPlace
  <2>4. CASE buffer.chain = <<>> \/ blocked = <<>>
    <3>1. \A q \in Tasks \ {p} : stage'[q] = stage[q]
      BY <2>1, <2>4 DEF PhaseAfterPlace
    <3>2. GrantedPlaces' = GrantedPlaces
      BY <2>1, <2>3, <3>1 DEF GrantedPlaces
    <3>3. CASE buffer.chain = <<>>
      BY <2>1, <2>2, <3>2, <3>3, CallKeepsPlaces
    <3>4. CASE buffer.chain # <<>>
      <4>1. buffer'.size = buffer.size - 1 /\ buffer'.size \in Nat
        BY <2>1, <3>4, DequeueEffect
      <4>2. places' = places + 1
        BY <2>1, <2>4, <3>4 DEF GivePlace
      <4>3. places' + buffer'.size = places + buffer.size /\ buffer'.size <= buffer.size
        BY <4>1, <4>2, PlaceNumbers
      <4>4. /\ places' + buffer'.size + Cardinality(GrantedPlaces) <= capacity
            /\ buffer'.size + Cardinality(Sending) <= used
        BY <4>1, <4>3, PlaceNumbers
      <4>5. IsFiniteSet(GrantedPlaces) /\ IsFiniteSet(Sending)
        BY PlaceNumbers
      <4> QED
        BY <2>1, <2>2, <3>2, <4>4, <4>5, Zenon DEF PlacesTaken
    <3> QED
      BY <3>3, <3>4
  <2>5. CASE buffer.chain # <<>> /\ blocked # <<>>
    <3>1. places' = places
      BY <2>1, <2>5 DEF GivePlace
    <3>2. PICK b \in Tasks : b = Head(blocked) /\ On(blocked, b)
      BY <1>0, <2>5, ShiftFacts DEF CallTypes, ChannelInv, TaskInv
    <3>3. \A q \in Tasks \ {p} :
             stage'[q] = IF q = b /\ stage[q] = "blocked" THEN "granted" ELSE stage[q]
      BY <2>1, <2>5, <3>2 DEF PhaseAfterPlace
    <3>4. stage[b] # "granted"
      BY <3>2 DEF ChannelInv, TaskInv, TaskOf, SenderOf
    <3>5. GrantedPlaces' \ {b} = GrantedPlaces \ {b} /\ b \notin GrantedPlaces
      BY <2>1, <2>3, <3>3, <3>4 DEF GrantedPlaces
    <3>6. /\ IsFiniteSet(GrantedPlaces') /\ Cardinality(GrantedPlaces') \in Nat
          /\ Cardinality(GrantedPlaces') <= Cardinality(GrantedPlaces) + 1
      BY <3>5, PlaceNumbers, Recount
    <3>7. buffer'.size = buffer.size - 1 /\ buffer'.size \in Nat
      BY <2>1, <2>5, DequeueEffect
    <3>8. places' + buffer'.size + Cardinality(GrantedPlaces') <= capacity
      BY <3>1, <3>6, <3>7, PlaceNumbers
    <3>9. buffer'.size + Cardinality(Sending) <= used
      BY <3>7, PlaceNumbers
    <3> QED
      BY <2>1, <2>2, <3>6, <3>8, <3>9, PlaceNumbers DEF PlacesTaken
  <2> QED
    BY <2>4, <2>5
<1>9. ASSUME NEW who \in SUBSET Tasks, Interrupt(who)
      PROVE  PlacesTaken'
  <2>1. UNCHANGED <<capacity, places, buffer, call, used>>
    BY <1>9 DEF Interrupt
  <2>2. \A q \in Tasks : stage'[q] = stage[q] \/ (stage[q] = "blocked" /\ stage'[q] = "rejected")
    <3>1. \A q \in Tasks : at[q] = "sleeping" => stage[q] = "start"
      BY DEF ChannelInv, TaskInv, TaskOf, SenderOf
    <3>2. IInv /\ stage \in [Tasks -> Stage]
      BY <1>0 DEF ChannelInv, CallTypes
    <3> QED
      BY <1>9, <3>1, <3>2, InterruptMoves
  <2>3. GrantedPlaces' = GrantedPlaces
    BY <2>2 DEF GrantedPlaces
  <2> QED
    BY <2>1, <2>3, CallKeepsPlaces DEF Sending
<1>10. CASE Close \/ \E p \in Tasks : CallAborts(p)
  <2>1. \E who \in SUBSET Tasks : Interrupt(who)
    BY <1>10 DEF Close, CallAborts
  <2> QED
    BY <1>9, <2>1
<1>11. CASE UNCHANGED allVars
  BY <1>11, CallKeepsPlaces DEF allVars, channelVars, callVars, history, GrantedPlaces, Sending
<1> QED
  BY <1>1, <1>2, <1>3, <1>4, <1>5, <1>6, <1>7, <1>8, <1>10, <1>11 DEF ChannelNext

-----------------------------------------------------------------------------
(***************************************************************************)
(* The types.                                                              *)
(***************************************************************************)
RestTypes ==
    /\ capacity \in Capacities /\ closed \in BOOLEAN
    /\ sent \subseteq Messages /\ got \subseteq Messages
    /\ older \in [Tasks -> SUBSET Tasks]
    /\ events \subseteq ChannelEvent
    /\ aborts \in 0..MaxAborts /\ used \in 0..MaxMessages

LEMMA ChannelTypeStep ==
    ASSUME ChannelInv, [ChannelNext]_allVars, IInv', PlacesTaken'
    PROVE  ChannelTypeOK'
<1>0. /\ CallTypes /\ RestTypes /\ MaxMessages \in Nat /\ MaxAborts \in Nat
      /\ used \in 0..MaxMessages
  BY BufferTypes, ChannelAssumption DEF ChannelInv, ChannelTypeOK, RestTypes
<1>1. at' \in [Tasks -> Place]
  BY DEF IInv, MonitorTypeOK
<1> USE DEF CallTypes, RestTypes, Stage, ChannelEvent
<1>2. ASSUME NEW p \in Tasks, Send(p) PROVE CallTypes' /\ RestTypes'
  BY <1>0, <1>1, <1>2 DEF Send, channelVars
<1>3. ASSUME NEW p \in Tasks, SendDelivers(p) PROVE CallTypes' /\ RestTypes'
  <2>1. /\ Tail(receivers) \in Seq(Tasks) /\ Distinct(Tail(receivers))
        /\ Head(receivers) \in Tasks
    BY <1>0, <1>3, ShiftFacts DEF SendDelivers
  <2>2. message[p] \in Messages
    BY <1>3, BufferTypes DEF SendDelivers, Runs
  <2>3. /\ receivers' = Tail(receivers) /\ Deliver(Head(receivers), message[p]) /\ Ends(p)
        /\ UNCHANGED <<capacity, closed, buffer, places, blocked, message, start,
                       refused, aborts, used, got, older>>
    BY <1>3 DEF SendDelivers
  <2>4. result' \in [Tasks -> 0..MaxMessages] /\ sent' \subseteq Messages
        /\ events' \subseteq ChannelEvent
    BY <1>0, <2>1, <2>2, <2>3 DEF Deliver
  <2>5. call' \in [Tasks -> {"none", "send", "receive"}] /\ stage' \in [Tasks -> Stage]
    BY <1>0, <2>3 DEF Ends
  <2> QED
    BY <1>0, <1>1, <2>1, <2>3, <2>4, <2>5
<1>4. ASSUME NEW p \in Tasks, SendWaits(p) \/ WaitEnds(p) PROVE CallTypes' /\ RestTypes'
  BY <1>0, <1>1, <1>4 DEF SendWaits, WaitEnds, channelVars, callVars, history
<1>5. ASSUME NEW p \in Tasks, SendFails(p) \/ LockThrows(p) PROVE CallTypes' /\ RestTypes'
  <2>1. Ends(p) /\ UNCHANGED <<channelVars, message, start, result, refused, history>>
    BY <1>5 DEF SendFails, LockThrows
  <2> QED
    BY <1>0, <1>1, <2>1 DEF Ends, channelVars, history
<1>6. ASSUME NEW p \in Tasks, SendBuffers(p) PROVE CallTypes' /\ RestTypes'
  <2>1. buffer.size \in 0..MaxMessages
    BY <1>0, PlaceNumbers
  <2>2. Append(blocked, p) \in Seq(Tasks)
    BY <1>0
  <2>3. /\ start' = [start EXCEPT ![p] = buffer.size]
        /\ \/ /\ places > 0 /\ places' = places - 1 /\ blocked' = blocked
              /\ stage' = [stage EXCEPT ![p] = "granted"]
           \/ /\ blocked' = Append(blocked, p) /\ places' = places
              /\ stage' = [stage EXCEPT ![p] = "blocked"]
        /\ UNCHANGED <<capacity, closed, receivers, buffer, call, message, result,
                       refused, history>>
    BY <1>6 DEF SendBuffers
  <2>4. places' \in Nat /\ blocked' \in Seq(Tasks)
    <3>1. places \in Nat /\ blocked \in Seq(Tasks)
      BY <1>0
    <3>2. places' \in Nat
      BY <2>3, <3>1
    <3>3. blocked' = blocked \/ blocked' = Append(blocked, p)
      BY <2>3
    <3> QED
      BY <2>2, <3>1, <3>2, <3>3
  <2>5. stage' \in [Tasks -> Stage] /\ start' \in [Tasks -> 0..MaxMessages]
    BY <1>0, <2>1, <2>3
  <2>6. UNCHANGED <<capacity, closed, receivers, buffer, call, message, result, refused,
                    aborts, used, sent, got, older, events>>
    BY <2>3 DEF history
  <2> QED
    BY <1>0, <1>1, <2>4, <2>5, <2>6
<1>7. ASSUME NEW p \in Tasks, SendThrows(p) PROVE CallTypes' /\ RestTypes'
  <2>1. /\ Ends(p) /\ aborts' \in 0..MaxAborts /\ events' \subseteq ChannelEvent
        /\ UNCHANGED <<channelVars, message, start, result, refused, used, sent, got, older>>
    BY <1>0, <1>7 DEF SendThrows, SignalAborts
  <2>2. call' \in [Tasks -> {"none", "send", "receive"}] /\ stage' \in [Tasks -> Stage]
    BY <1>0, <2>1 DEF Ends
  <2> QED
    BY <1>0, <1>1, <2>1, <2>2 DEF channelVars
<1>8. ASSUME NEW p \in Tasks, SendInserts(p) PROVE CallTypes' /\ RestTypes'
  <2>1. /\ buffer'.chain \in Seq(Messages) /\ buffer'.size = buffer.size + 1
        /\ message[p] \in Messages
    BY <1>8, InsertEffect, BufferTypes
  <2>2. /\ sent' \subseteq Messages /\ events' \subseteq ChannelEvent
        /\ call' \in [Tasks -> {"none", "send", "receive"}] /\ stage' \in [Tasks -> Stage]
        /\ UNCHANGED <<capacity, closed, receivers, places, blocked,
                       message, start, result, refused, aborts, used, got, older>>
    BY <1>0, <1>8, <2>1 DEF SendInserts, Ends
  <2> QED
    BY <1>0, <1>1, <2>1, <2>2, SMTT(30)
<1>9. ASSUME NEW p \in Tasks, SendRejects(p) PROVE CallTypes' /\ RestTypes'
  <2>1. RemoveSafe(blocked, p) \in Seq(Tasks)
    BY <1>0, RemoveSafeFacts DEF ChannelInv, TaskInv
  <2> QED
    BY <1>0, <1>1, <1>9, <2>1 DEF SendRejects, Ends, history
<1>10. ASSUME NEW p \in Tasks, Receive(p) PROVE CallTypes' /\ RestTypes'
  BY <1>0, <1>1, <1>10 DEF Receive, channelVars, history
<1>11. ASSUME NEW p \in Tasks, ReceiveRegisters(p) PROVE CallTypes' /\ RestTypes'
  <2>1. ~On(receivers, p)
    BY <1>11 DEF ReceiveRegisters, Runs, ChannelInv, TaskInv, TaskOf, ReceiverOf, Registered
  <2>2. Append(receivers, p) \in Seq(Tasks) /\ Distinct(Append(receivers, p))
    BY <1>0, <2>1, PushFacts
  <2>3. /\ receivers' = Append(receivers, p) /\ stage' = [stage EXCEPT ![p] = "signal"]
        /\ older' \in [Tasks -> SUBSET Tasks]
        /\ UNCHANGED <<capacity, closed, buffer, places, blocked, call, message,
                       start, result, refused, aborts, used, sent, got, events>>
    BY <1>0, <1>11 DEF ReceiveRegisters
  <2> QED
    BY <1>0, <1>1, <2>2, <2>3
<1>12. ASSUME NEW p \in Tasks, ReceiveChecks(p) PROVE CallTypes' /\ RestTypes'
  <2>1. stage' \in [Tasks -> Stage]
    <3>1. stage' = PhaseAfterPlace(p, "await")
      BY <1>12 DEF ReceiveChecks
    <3>2. \A q \in Tasks : PhaseAfterPlace(p, "await")[q] \in {"await", "granted", stage[q]}
      BY DEF PhaseAfterPlace
    <3>3. PhaseAfterPlace(p, "await") = [q \in Tasks |-> PhaseAfterPlace(p, "await")[q]]
      BY DEF PhaseAfterPlace
    <3> QED
      BY <1>0, <3>1, <3>2, <3>3
  <2>2. UNCHANGED <<capacity, closed, receivers, call, message, start, refused, history>>
    BY <1>12 DEF ReceiveChecks
  <2>3. CASE buffer.chain = <<>>
    BY <1>0, <1>1, <1>12, <2>1, <2>2, <2>3 DEF ReceiveChecks, history
  <2>4. CASE buffer.chain # <<>>
    <3>1. /\ buffer' = InternalSplice(buffer, 0, 1, <<>>) /\ GivePlace
          /\ result' = [result EXCEPT ![p] = Head(buffer.chain)]
      BY <1>12, <2>4 DEF ReceiveChecks
    <3>2. /\ Head(buffer.chain) \in Messages
          /\ buffer'.chain \in Seq(Messages) /\ buffer'.size \in Nat
      BY <2>4, <3>1, DequeueEffect
    <3>3. places' \in Nat /\ blocked' \in Seq(Tasks)
      <4>1. blocked = <<>> \/ Tail(blocked) \in Seq(Tasks)
        BY <1>0, ShiftFacts DEF ChannelInv, TaskInv
      <4>2. /\ places' = places \/ places' = places + 1
            /\ blocked' = blocked \/ (blocked # <<>> /\ blocked' = Tail(blocked))
        BY <3>1 DEF GivePlace
      <4> QED
        <5>1. places \in Nat /\ blocked \in Seq(Tasks)
          BY <1>0
        <5>2. places' \in Nat
          BY <4>2, <5>1
        <5>3. blocked' \in Seq(Tasks)
          BY <4>1, <4>2, <5>1, Zenon
        <5> QED
          BY <5>2, <5>3
    <3>4. result' \in [Tasks -> 0..MaxMessages]
      BY <1>0, <3>1, <3>2 DEF Messages
    <3> QED
      BY <1>0, <1>1, <2>1, <2>2, <3>2, <3>3, <3>4 DEF history
  <2> QED
    BY <2>3, <2>4
<1>13. ASSUME NEW p \in Tasks, ReceiveThrows(p) PROVE CallTypes' /\ RestTypes'
  BY <1>0, <1>1, <1>13 DEF ReceiveThrows, SignalAborts, channelVars
<1>14. ASSUME NEW p \in Tasks, ReceiveSettles(p) PROVE CallTypes' /\ RestTypes'
  BY <1>0, <1>1, <1>14 DEF ReceiveSettles, channelVars, history
<1>15. ASSUME NEW p \in Tasks, ReceiveEnds(p) PROVE CallTypes' /\ RestTypes'
  <2>1. RemoveSafe(receivers, p) \in Seq(Tasks) /\ Distinct(RemoveSafe(receivers, p))
    BY <1>0, RemoveSafeFacts
  <2>2. p \in refused \/ result[p] \in Messages
    BY <1>0, <1>15 DEF ReceiveEnds, Runs, ChannelInv, TaskInv, TaskOf, ReceiverOf, Messages
  <2>3. /\ receivers' = RemoveSafe(receivers, p) /\ Ends(p)
        /\ got' \subseteq Messages /\ result' \in [Tasks -> 0..MaxMessages]
        /\ refused' \subseteq Tasks
        /\ UNCHANGED <<capacity, closed, buffer, places, blocked, message, start,
                       aborts, used, sent, events>>
    BY <1>0, <1>15, <2>2 DEF ReceiveEnds
  <2>4. older' \in [Tasks -> SUBSET Tasks]
    BY <1>0, <1>15 DEF ReceiveEnds, Forgets
  <2>5. call' \in [Tasks -> {"none", "send", "receive"}] /\ stage' \in [Tasks -> Stage]
    BY <1>0, <2>3 DEF Ends
  <2> QED
    BY <1>0, <1>1, <2>1, <2>3, <2>4, <2>5
<1>16. ASSUME NEW who \in SUBSET Tasks, Interrupt(who), refused' \subseteq Tasks,
              aborts' \in 0..MaxAborts, closed' \in BOOLEAN
       PROVE  CallTypes' /\ RestTypes'
  <2>1. stage' \in [Tasks -> Stage]
    BY <1>0, <1>16 DEF Interrupt
  <2>2. /\ events' = events \cup {"abort"}
        /\ UNCHANGED <<receivers, buffer, places, blocked,
                       call, message, start, result, capacity, used, sent, got, older>>
    BY <1>16 DEF Interrupt
  <2> QED
    BY <1>0, <1>1, <1>16, <2>1, <2>2
<1>17. ASSUME NEW p \in Tasks, CallAborts(p) PROVE CallTypes' /\ RestTypes'
  <2>1. /\ Interrupt({p}) /\ refused' \subseteq Tasks /\ closed' \in BOOLEAN
        /\ aborts' \in 0..MaxAborts /\ {p} \in SUBSET Tasks
    BY <1>0, <1>17 DEF CallAborts, SignalAborts
  <2> QED
    BY <1>16, <2>1
<1>18. ASSUME Close PROVE CallTypes' /\ RestTypes'
  <2>1. /\ Interrupt(Tasks) /\ refused' \subseteq Tasks /\ closed' \in BOOLEAN
        /\ aborts' \in 0..MaxAborts /\ Tasks \in SUBSET Tasks
    BY <1>0, <1>18 DEF Close
  <2> QED
    BY <1>16, <2>1
<1>19. ASSUME UNCHANGED allVars PROVE CallTypes' /\ RestTypes'
  BY <1>0, <1>1, <1>19 DEF allVars, channelVars, callVars, history
<1>20. CallTypes' /\ RestTypes'
  BY <1>2, <1>3, <1>4, <1>5, <1>6, <1>7, <1>8, <1>9, <1>10, <1>11, <1>12, <1>13, <1>14,
     <1>15, <1>17, <1>18, <1>19 DEF ChannelNext
<1> QED
  <2>1. Cardinality(GrantedPlaces') \in Nat
    BY FS_CardinalityType DEF PlacesTaken
  <2>2. buffer'.size \in 0..capacity' /\ places' \in 0..capacity'
    BY <1>20, <2>1 DEF PlacesTaken
  <2> QED
    BY <1>20, <2>2 DEF ChannelTypeOK, IInv

-----------------------------------------------------------------------------
(***************************************************************************)
(* The messages: each is at one place (channel.ts:143, 154, 201).          *)
(***************************************************************************)
LEMMA MessagesKept ==
    ASSUME ChannelInv, UNCHANGED <<buffer, result, sent, got, used, capacity>>,
           events \subseteq events', events' \subseteq events \cup {"abort"},
           \A q \in Tasks : On(receivers', q) => On(receivers, q) \/ result[q] = 0,
           \A p \in Tasks : call'[p] = "send" => call[p] = "send" /\ message'[p] = message[p]
    PROVE  MessageInv' /\ LossInv'
<1>1. MessageInv /\ LossInv
  BY DEF ChannelInv
<1>2. MessageInv'
  BY <1>1 DEF MessageInv
<1>3. \A m : Arrived(m) => Arrived(m)'
  BY DEF Arrived
<1>4. LossInv'
  BY <1>1, <1>3 DEF LossInv
<1> QED
  BY <1>2, <1>4

LEMMA MessageFacts ==
    ASSUME ChannelInv
    PROVE  /\ CallTypes /\ used \in Nat /\ got \subseteq sent /\ sent \subseteq 1..used
           /\ \A m \in sent : m \in Nat /\ m # 0 /\ m <= used /\ m \in Messages
           /\ MessageInv /\ LossInv /\ AbortedInv
           /\ \A p \in Tasks : TaskOf(p)
<1>1. /\ CallTypes /\ MaxMessages \in Nat /\ used \in 0..MaxMessages /\ sent \subseteq 1..used
  BY BufferTypes
<1> QED
  BY <1>1 DEF ChannelInv, MessageInv, TaskInv, Messages

LEMMA SendMessages ==
    ASSUME ChannelInv, NEW p \in Tasks, Send(p)
    PROVE  MessageInv' /\ LossInv'
<1>1. /\ call' = [call EXCEPT ![p] = "send"] /\ used' = used + 1
      /\ message' = [message EXCEPT ![p] = used + 1]
      /\ UNCHANGED <<capacity, receivers, buffer, result, sent, got, events>>
  BY DEF Send, channelVars
<1>2. /\ message'[p] = used + 1 /\ used + 1 \in 1..used' /\ used + 1 \notin sent
      /\ \A q \in Tasks \ {p} : message'[q] = message[q] /\ call'[q] = call[q]
      /\ \A i \in 1..used : i \in 1..used' /\ i # used + 1
  BY <1>1, MessageFacts DEF CallTypes
<1>3. MessageInv'
  BY <1>1, <1>2, MessageFacts DEF MessageInv
<1>4. \A m : Arrived(m) => Arrived(m)'
  BY <1>1 DEF Arrived
<1>5. LossInv'
  BY <1>1, <1>4, MessageFacts DEF LossInv
<1> QED
  BY <1>3, <1>5

LEMMA DeliverMessages ==
    ASSUME ChannelInv, NEW p \in Tasks, SendDelivers(p)
    PROVE  MessageInv' /\ LossInv'
<1>1. PICK h \in Tasks :
        /\ h = Head(receivers) /\ On(receivers, h)
        /\ \A q : On(receivers', q) <=> On(receivers, q) /\ q # h
  BY MessageFacts, ShiftFacts DEF SendDelivers, CallTypes
<1>2. /\ call[p] = "send" /\ Deliver(h, message[p]) /\ Ends(p)
      /\ UNCHANGED <<capacity, buffer, message, used, got>>
  BY <1>1 DEF SendDelivers, Runs
<1>3. /\ sent' = sent \cup {message[p]} /\ events \subseteq events'
      /\ "shrunk" \in events' => "shrunk" \in events
      /\ "abort" \in events' <=> "abort" \in events
  BY <1>2 DEF Deliver
<1>4. /\ message[p] \in 1..used /\ message[p] # 0 /\ message[p] \notin sent
      /\ message[p] \notin got /\ message[p] \in Messages
      /\ ~On(buffer.chain, message[p])
      /\ \A q \in Tasks : result[q] # message[p]
  BY <1>2, MessageFacts, BufferTypes DEF MessageInv
<1>5. \A q \in Tasks : call'[q] = "send" =>
         call[q] = "send" /\ q # p /\ message[q] # message[p]
  BY <1>2, MessageFacts, EndsChange DEF MessageInv
<1>6. CASE result[h] # 0 \/ h \in refused
  <2>1. result' = result /\ "twice" \in events'
    BY <1>2, <1>6 DEF Deliver
  <2>2. MessageInv'
    BY <1>2, <1>3, <1>4, <1>5, <2>1, MessageFacts DEF MessageInv
  <2>3. capacity = 0 => "abort" \in events
    BY <1>1, <1>6, MessageFacts DEF LossInv, AbortedInv
  <2>4. LossInv'
    BY <1>1, <1>2, <1>3, <2>1, <2>3, MessageFacts DEF LossInv
  <2> QED
    BY <2>2, <2>4
<1>7. CASE result[h] = 0 /\ h \notin refused
  <2>1. /\ result'[h] = message[p] /\ events' = events
        /\ \A q \in Tasks \ {h} : result'[q] = result[q]
    BY <1>2, <1>7, MessageFacts DEF Deliver, CallTypes
  <2>2. MessageInv'
    BY <1>2, <1>3, <1>4, <1>5, <2>1, MessageFacts DEF MessageInv
  <2>3. ASSUME NEW m \in sent, Arrived(m) PROVE Arrived(m)'
    <3>1. m # 0
      BY MessageFacts
    <3> QED
      BY <1>2, <1>7, <2>1, <2>3, <3>1 DEF Arrived
  <2>4. Arrived(message[p])'
    <3>1. message'[p] = message[p]
      BY <1>2
    <3> QED
      BY <2>1, <3>1 DEF Arrived
  <2>5. LossInv'
    <3>1. events' \cap {"twice", "shrunk"} = {} => \A m \in sent' : Arrived(m)'
      <4>1. message'[p] = message[p]
        BY <1>2
      <4> QED
        BY <1>3, <2>1, <2>3, <2>4, <4>1, MessageFacts DEF LossInv
    <3>2. \A q \in Tasks : On(receivers', q) => On(receivers, q) /\ result'[q] = result[q]
      BY <1>1, <2>1
    <3> QED
      BY <1>2, <2>1, <3>1, <3>2, MessageFacts DEF LossInv
  <2> QED
    BY <2>2, <2>5
<1> QED
  BY <1>6, <1>7

LEMMA InsertMessages ==
    ASSUME ChannelInv, NEW p \in Tasks, SendInserts(p)
    PROVE  MessageInv' /\ LossInv'
<1>1. /\ call[p] = "send" /\ Ends(p) /\ capacity > 0
      /\ sent' = sent \cup {message[p]} /\ events \subseteq events'
      /\ "twice" \in events' => "twice" \in events
      /\ UNCHANGED <<capacity, receivers, result, message, used, got>>
  BY MessageFacts DEF SendInserts, TaskOf, SenderOf
<1>2. /\ message[p] \in 1..used /\ message[p] # 0 /\ message[p] \notin sent
      /\ message[p] \notin got /\ \A q \in Tasks : result[q] # message[p]
  BY <1>1, MessageFacts DEF MessageInv
<1>3. \A q \in Tasks : call'[q] = "send" =>
         call[q] = "send" /\ q # p /\ message[q] # message[p]
  BY <1>1, MessageFacts, EndsChange DEF MessageInv
<1>4. /\ Distinct(buffer'.chain) /\ buffer'.chain \in Seq(Messages)
      /\ buffer'.size = buffer.size + 1
      /\ Len(buffer'.chain) <= Len(buffer.chain) + 1
      /\ \A x : On(buffer'.chain, x) => On(buffer.chain, x) \/ x = message[p]
      /\ "shrunk" \notin events' =>
           /\ "shrunk" \notin events
           /\ Len(buffer'.chain) = Len(buffer.chain) + 1
           /\ \A x : On(buffer.chain, x) \/ x = message[p] => On(buffer'.chain, x)
  BY InsertEffect
<1>5. MessageInv'
  BY <1>1, <1>2, <1>3, <1>4, MessageFacts DEF MessageInv
<1>6. ASSUME "shrunk" \notin events', NEW m, Arrived(m) \/ m = message[p] PROVE Arrived(m)'
  BY <1>1, <1>4, <1>6 DEF Arrived
<1>7. events' \cap {"twice", "shrunk"} = {} => \A m \in sent' : Arrived(m)'
  BY <1>1, <1>4, <1>6, MessageFacts DEF LossInv
<1>8. Len(buffer.chain) \in Nat /\ Len(buffer'.chain) \in Nat /\ buffer.size \in Nat
  BY <1>4, MessageFacts, LenProperties DEF CallTypes
<1>9. LossInv'
  <2>1. Len(buffer.chain) <= buffer.size
        /\ ("shrunk" \notin events => buffer.size = Len(buffer.chain))
    BY MessageFacts DEF LossInv
  <2>2. Len(buffer'.chain) <= buffer'.size
        /\ ("shrunk" \notin events' => buffer'.size = Len(buffer'.chain))
    BY <1>4, <1>8, <2>1
  <2>3. capacity # 0
    BY <1>1
  <2> QED
    BY <1>1, <1>7, <2>2, <2>3 DEF LossInv
<1> QED
  BY <1>5, <1>9

LEMMA CheckMessages ==
    ASSUME ChannelInv, NEW p \in Tasks, ReceiveChecks(p)
    PROVE  MessageInv' /\ LossInv'
<1>1. /\ stage[p] = "signal" /\ call[p] = "receive" /\ result[p] = 0
      /\ UNCHANGED <<capacity, receivers, call, message, used, sent, got, events>>
  BY MessageFacts DEF ReceiveChecks, Runs, TaskOf, ReceiverOf, history
<1>2. CASE buffer.chain = <<>>
  <2>1. UNCHANGED <<buffer, result>>
    BY <1>2 DEF ReceiveChecks
  <2> QED
    BY <1>1, <2>1, MessagesKept
<1>3. CASE buffer.chain # <<>>
  <2> DEFINE m == Head(buffer.chain)
  <2>1. PICK n \in Messages : n = m
    BY <1>3, DequeueEffect DEF ReceiveChecks
  <2>2. /\ On(buffer.chain, n)
        /\ buffer'.chain \in Seq(Messages) /\ Distinct(buffer'.chain)
        /\ buffer'.size = buffer.size - 1
        /\ Len(buffer'.chain) = Len(buffer.chain) - 1
        /\ \A x : On(buffer'.chain, x) <=> On(buffer.chain, x) /\ x # n
    BY <1>3, <2>1, DequeueEffect DEF ReceiveChecks
  <2>3. result'[p] = n /\ \A q \in Tasks \ {p} : result'[q] = result[q]
    BY <1>3, <2>1, MessageFacts DEF ReceiveChecks, CallTypes
  <2> HIDE DEF m
  <2>4. n # 0 /\ n \in sent /\ n \notin got /\ \A q \in Tasks : result[q] # n
    BY <2>2, MessageFacts DEF MessageInv
  <2>5. MessageInv'
    BY <1>1, <2>2, <2>3, <2>4, MessageFacts DEF MessageInv
  <2>6. ASSUME NEW x \in sent, Arrived(x) PROVE Arrived(x)'
    <3>1. x # 0
      BY MessageFacts
    <3> QED
      BY <1>1, <2>2, <2>3, <2>6, <3>1 DEF Arrived
  <2>7. /\ Len(buffer.chain) \in Nat /\ Len(buffer'.chain) \in Nat /\ buffer.size \in Nat
        /\ Len(buffer.chain) <= buffer.size
        /\ "shrunk" \notin events => buffer.size = Len(buffer.chain)
    BY <2>2, MessageFacts, LenProperties DEF CallTypes, LossInv
  <2>8. /\ Len(buffer'.chain) <= buffer'.size
        /\ "shrunk" \notin events' => buffer'.size = Len(buffer'.chain)
    BY <1>1, <2>2, <2>7
  <2>9. capacity # 0
    <3>1. Len(buffer.chain) >= 1
      BY <2>2, <2>7
    <3> QED
      BY <2>7, <3>1, PlaceNumbers
  <2>10. events' \cap {"twice", "shrunk"} = {} => \A x \in sent' : Arrived(x)'
    BY <1>1, <2>6, MessageFacts DEF LossInv
  <2>11. LossInv'
    BY <1>1, <2>8, <2>9, <2>10 DEF LossInv
  <2> QED
    BY <2>5, <2>11
<1> QED
  BY <1>2, <1>3

LEMMA ReceiveMessages ==
    ASSUME ChannelInv, NEW p \in Tasks, ReceiveEnds(p)
    PROVE  MessageInv' /\ LossInv'
<1>1. /\ stage[p] = "settled" /\ call[p] = "receive" /\ Ends(p)
      /\ result' = [result EXCEPT ![p] = 0]
      /\ UNCHANGED <<capacity, buffer, message, used, sent, events>>
  BY DEF ReceiveEnds, Runs
<1>2. \A q : On(receivers', q) => On(receivers, q)
  BY MessageFacts, RemoveSafeFacts DEF ReceiveEnds, CallTypes
<1>3. /\ result'[p] = 0 /\ \A q \in Tasks \ {p} : result'[q] = result[q]
      /\ \A q \in Tasks : call'[q] = "send" => call[q] = "send"
  BY <1>1, MessageFacts, EndsChange DEF CallTypes
<1>4. /\ result[p] # 0 <=> p \notin refused
      /\ got' = IF p \in refused THEN got ELSE got \cup {result[p]}
  BY <1>1, MessageFacts DEF ReceiveEnds, TaskOf, ReceiverOf
<1>5. MessageInv'
  BY <1>1, <1>3, <1>4, MessageFacts DEF MessageInv
<1>6. ASSUME NEW x \in sent, Arrived(x) PROVE Arrived(x)'
  <2>1. x # 0
    BY MessageFacts
  <2> QED
    BY <1>1, <1>3, <1>4, <1>6, <2>1 DEF Arrived
<1>7. events' \cap {"twice", "shrunk"} = {} => \A x \in sent' : Arrived(x)'
  BY <1>1, <1>6, MessageFacts DEF LossInv
<1>8. LossInv'
  <2>1. capacity = 0 => \A q \in Tasks : On(receivers', q) => result'[q] = 0
    BY <1>2, <1>3, MessageFacts DEF LossInv
  <2> QED
    BY <1>1, <1>7, <2>1, MessageFacts DEF LossInv
<1> QED
  BY <1>5, <1>8

LEMMA MessageStep ==
    ASSUME ChannelInv, [ChannelNext]_allVars
    PROVE  MessageInv' /\ LossInv'
<1>1. ASSUME NEW p \in Tasks,
             \/ SendWaits(p) \/ SendFails(p) \/ SendBuffers(p) \/ SendThrows(p)
             \/ SendRejects(p) \/ Receive(p) \/ ReceiveThrows(p)
             \/ ReceiveSettles(p) \/ LockThrows(p) \/ WaitEnds(p)
      PROVE  MessageInv' /\ LossInv'
  <2>1. /\ UNCHANGED <<buffer, result, sent, got, used, capacity, receivers, message>>
        /\ events \subseteq events' /\ events' \subseteq events \cup {"abort"}
    BY <1>1 DEF SendWaits, SendFails, SendBuffers, SendThrows, SendRejects, Receive,
                ReceiveThrows, ReceiveSettles, LockThrows, WaitEnds,
                channelVars, callVars, history
  <2>2. call' = call \/ Ends(p) \/ call' = [call EXCEPT ![p] = "receive"]
    BY <1>1 DEF SendWaits, SendFails, SendBuffers, SendThrows, SendRejects, Receive,
                ReceiveThrows, ReceiveSettles, LockThrows, WaitEnds, callVars
  <2>3. \A q \in Tasks : call'[q] = "send" => call[q] = "send"
    BY <2>2, MessageFacts DEF Ends, CallTypes
  <2> QED
    BY <2>1, <2>3, MessagesKept
<1>2. ASSUME NEW p \in Tasks, ReceiveRegisters(p)
      PROVE  MessageInv' /\ LossInv'
  <2>1. /\ UNCHANGED <<buffer, result, sent, got, used, capacity, call, message, events>>
        /\ receivers' = Append(receivers, p)
        /\ stage[p] = "start"
    BY <1>2 DEF ReceiveRegisters, Runs
  <2>2. ~On(receivers, p) /\ result[p] = 0
    BY <2>1, MessageFacts DEF TaskOf, ReceiverOf, Registered
  <2>3. \A q : On(receivers', q) <=> On(receivers, q) \/ q = p
    BY <2>1, <2>2, MessageFacts, PushFacts DEF CallTypes
  <2> QED
    BY <2>1, <2>2, <2>3, MessagesKept
<1>3. ASSUME Close \/ \E p \in Tasks : CallAborts(p)
      PROVE  MessageInv' /\ LossInv'
  <2>1. \E who \in SUBSET Tasks : Interrupt(who)
    BY <1>3 DEF Close, CallAborts
  <2>2. /\ UNCHANGED <<buffer, result, sent, got, used, capacity, receivers, message, call>>
        /\ events' = events \cup {"abort"}
    BY <2>1 DEF Interrupt
  <2> QED
    BY <2>2, MessagesKept
<1>4. ASSUME UNCHANGED allVars
      PROVE  MessageInv' /\ LossInv'
  BY <1>4, MessagesKept DEF allVars, channelVars, callVars, history
<1> QED
  BY <1>1, <1>2, <1>3, <1>4, SendMessages, DeliverMessages, InsertMessages, CheckMessages,
     ReceiveMessages DEF ChannelNext

-----------------------------------------------------------------------------
(***************************************************************************)
(* The rendezvous (channel.ts:140, 185).                                   *)
(***************************************************************************)
LEMMA MeetKept ==
    ASSUME ChannelInv, PlacesTaken', Awake \subseteq Awake',
           Len(receivers') \in Nat, Len(receivers') <= Len(receivers),
           \A q \in Tasks : at'[q] = "sleeping" => at[q] = "sleeping",
           capacity' = capacity, events \subseteq events'
    PROVE  MeetInv'
<1>1. IsFiniteSet(Awake')
  <2>1. Awake' \subseteq Sending' /\ IsFiniteSet(Sending')
    BY DEF Awake, Sending, PlacesTaken
  <2> QED
    BY <2>1, FS_Subset
<1>2. /\ IsFiniteSet(Awake) /\ Cardinality(Awake) <= Cardinality(Awake')
      /\ Cardinality(Awake) \in Nat /\ Cardinality(Awake') \in Nat
  BY <1>1, FS_Subset, FS_CardinalityType
<1>3. Len(receivers) \in Nat
  BY MessageFacts, LenProperties DEF CallTypes
<1>4. MeetInv
  BY DEF ChannelInv
<1> QED
  BY <1>2, <1>3, <1>4 DEF MeetInv

\* A sender that found a receiver, and the receiver, are gone together.
LEMMA MeetDelivers ==
    ASSUME ChannelInv, NEW p \in Tasks, SendDelivers(p)
    PROVE  MeetInv'
<1>1. /\ call[p] = "send" /\ Leave(p) /\ Ends(p) /\ Acting(p)
      /\ receivers # <<>> /\ receivers' = Tail(receivers)
  BY DEF SendDelivers, Runs, Acting
<1>2. /\ CallTypes /\ receivers \in Seq(Tasks) /\ MeetInv /\ IInv /\ IsFiniteSet(Sending)
  BY MessageFacts DEF CallTypes, ChannelInv, PlacesTaken
<1>3. Len(receivers) \in Nat /\ Len(receivers') = Len(receivers) - 1
  BY <1>1, <1>2, HeadTailProperties, LenProperties
<1>4. /\ at[p] = "inside" /\ at'[p] = "outside"
      /\ \A q \in Tasks \ {p} : at'[q] = "sleeping" <=> at[q] = "sleeping"
      /\ capacity' = capacity /\ events \subseteq events'
  BY <1>1, <1>2, LeaveMoves, ActingMoves
<1>5. p \in Awake /\ p \notin Awake' /\ Awake' \ {p} = Awake \ {p}
  BY <1>1, <1>2, <1>4, EndsChange DEF Awake
<1>6. IsFiniteSet(Awake)
  <2>1. Awake \subseteq Sending
    BY DEF Awake, Sending
  <2> QED
    BY <1>2, <2>1, FS_Subset
<1>7. Cardinality(Awake) \in Nat /\ Cardinality(Awake') = Cardinality(Awake) - 1
  BY <1>5, <1>6, Recount
<1> QED
  BY <1>2, <1>3, <1>4, <1>7 DEF MeetInv

\* A receiver that comes wakes a sender for itself, if any sleeps.
LEMMA MeetRegisters ==
    ASSUME ChannelInv, PlacesTaken', NEW p \in Tasks, ReceiveRegisters(p)
    PROVE  MeetInv'
<1>1. /\ receivers' = Append(receivers, p)
      /\ UNCHANGED <<capacity, call, events>>
  BY DEF ReceiveRegisters
<1>2. /\ CallTypes /\ receivers \in Seq(Tasks) /\ MeetInv /\ IInv /\ IsFiniteSet(Sending)
      /\ AbortedInv /\ \A q \in Tasks : TaskOf(q)
  BY MessageFacts DEF CallTypes, ChannelInv, PlacesTaken
<1>3. Len(receivers) \in Nat /\ Len(receivers') = Len(receivers) + 1
  BY <1>1, <1>2, AppendProperties, LenProperties
<1>4. CASE sleepers = <<>>
  <2>1. at' = at
    BY <1>4 DEF ReceiveRegisters, monitorVars
  <2>2. \A q \in Tasks : at[q] # "sleeping"
    BY <1>2, <1>4, EmptySeq DEF IInv, QueueInv, On
  <2> QED
    BY <2>1, <2>2 DEF MeetInv
<1>5. CASE sleepers # <<>>
  <2> SUFFICES ASSUME "abort" \notin events
               PROVE  MeetInv'
    BY <1>1 DEF MeetInv
  <2>1. Signal(p)
    BY <1>5 DEF ReceiveRegisters
  <2>2. PICK h \in Tasks :
          /\ On(sleepers, h)
          /\ at[h] = "sleeping" => at'[h] = "woken"
          /\ \A q \in Tasks : at'[q] = at[q] \/ (q = h /\ at'[q] = "woken")
    BY <1>2, <2>1, SignalMoves
  <2>3. at[h] = "sleeping" /\ call[h] = "send"
    BY <1>2, <2>2 DEF IInv, QueueInv, AbortedInv, TaskOf, SenderOf
  <2>4. h \notin Awake /\ h \in Awake' /\ Awake' \ {h} = Awake \ {h}
    BY <1>1, <2>2, <2>3 DEF Awake
  <2>5. IsFiniteSet(Awake)
    <3>1. Awake \subseteq Sending
      BY DEF Awake, Sending
    <3> QED
      BY <1>2, <3>1, FS_Subset
  <2>6. Cardinality(Awake) \in Nat /\ Cardinality(Awake') = Cardinality(Awake) + 1
    BY <2>4, <2>5, Recount
  <2> QED
    BY <1>1, <1>2, <1>3, <2>2, <2>3, <2>6 DEF MeetInv
<1> QED
  BY <1>4, <1>5

\* What the other steps that abort nothing do.
LEMMA MeetActs ==
    ASSUME ChannelInv, PlacesTaken', NEW p \in Tasks, Acting(p),
           ~SendDelivers(p), ~ReceiveRegisters(p), "abort" \notin events', capacity = 0
    PROVE  MeetInv'
<1>1. /\ CallTypes /\ receivers \in Seq(Tasks) /\ Distinct(receivers)
      /\ AbortedInv /\ \A q \in Tasks : TaskOf(q)
  BY MessageFacts DEF CallTypes
<1>2. /\ \A q \in Tasks \ {p} : Moves(q)
      /\ at'[p] # "woken" /\ (at'[p] = "sleeping" => SendWaits(p))
      /\ events \subseteq events' /\ capacity' = capacity
  BY ActingMoves
<1>3. ~SendFails(p) /\ ~LockThrows(p) /\ ~SendBuffers(p) /\ ~SendInserts(p)
      /\ ~SendRejects(p)
  BY <1>1, <1>2 DEF SendFails, LockThrows, EntryRejects, SendBuffers, SendInserts,
                    SendRejects, AbortedInv, TaskOf, SenderOf
<1>4. CASE SendWaits(p)
  <2>1. Len(receivers') = 0
    BY <1>4, EmptySeq DEF SendWaits, channelVars
  <2>2. Cardinality(Awake') \in Nat
    <3>1. Awake' \subseteq Sending' /\ IsFiniteSet(Sending')
      BY DEF Awake, Sending, PlacesTaken
    <3> QED
      BY <3>1, FS_Subset, FS_CardinalityType
  <2> QED
    BY <2>1, <2>2 DEF MeetInv
<1>5. CASE ~SendWaits(p)
  <2>1. Send(p) \/ Receive(p) \/ ReceiveChecks(p) \/ ReceiveSettles(p)
        \/ ReceiveEnds(p) \/ WaitEnds(p)
    BY <1>3, <1>5 DEF Acting
  <2>2. \A q \in Tasks : call[q] = "send" => call'[q] = "send"
    BY <1>1, <2>1 DEF Send, Receive, ReceiveChecks, ReceiveSettles, ReceiveEnds, WaitEnds,
                      Runs, Ends, CallTypes, callVars
  <2>3. \A q \in Tasks : at'[q] = "sleeping" => at[q] = "sleeping"
    BY <1>2, <1>5 DEF Moves
  <2>4. Awake \subseteq Awake'
    BY <2>2, <2>3 DEF Awake
  <2>5. Len(receivers) \in Nat /\ Len(receivers') \in Nat /\ Len(receivers') <= Len(receivers)
    <3>0. Len(receivers) \in Nat
      BY <1>1, LenProperties
    <3>1. CASE ReceiveEnds(p)
      <4>1. receivers' = RemoveSafe(receivers, p)
        BY <3>1 DEF ReceiveEnds
      <4>2. RemoveSafe(receivers, p) \in Seq(Tasks)
        BY <1>1, RemoveSafeFacts
      <4>3. \/ RemoveSafe(receivers, p) = receivers
            \/ Len(RemoveSafe(receivers, p)) = Len(receivers) - 1
        BY <1>1, RemoveSafeShape
      <4> QED
        BY <3>0, <4>1, <4>2, <4>3, LenProperties
    <3>2. CASE ~ReceiveEnds(p)
      BY <2>1, <3>0, <3>2 DEF Send, Receive, ReceiveChecks, ReceiveSettles, WaitEnds, channelVars
    <3> QED
      BY <3>1, <3>2
  <2> QED
    BY <1>2, <2>3, <2>4, <2>5, MeetKept
<1> QED
  BY <1>4, <1>5

LEMMA MeetStep ==
    ASSUME ChannelInv, PlacesTaken', [ChannelNext]_allVars
    PROVE  MeetInv'
<1>1. CASE Close \/ \E p \in Tasks : Aborting(p)
  BY <1>1, AbortingTells DEF MeetInv
<1>2. ASSUME NEW p \in Tasks, Acting(p)
      PROVE  MeetInv'
  <2>1. capacity' = capacity
    BY <1>2, ActingMoves
  <2>2. CASE "abort" \in events' \/ capacity # 0
    BY <2>1, <2>2 DEF MeetInv
  <2>3. CASE "abort" \notin events' /\ capacity = 0
    BY <1>2, <2>3, MeetDelivers, MeetRegisters, MeetActs
  <2> QED
    BY <2>2, <2>3
<1>3. CASE UNCHANGED allVars
  <2>1. UNCHANGED <<capacity, events, at, receivers, call>>
    BY <1>3 DEF allVars, monitorVars, channelVars, callVars, history
  <2> QED
    BY <2>1 DEF ChannelInv, MeetInv, Awake
<1> QED
  BY <1>1, <1>2, <1>3, ChannelSteps

-----------------------------------------------------------------------------
(***************************************************************************)
(* The order of the receivers (channel.ts:143, 168, 182).                  *)
(***************************************************************************)
LEMMA OlderFacts ==
    ASSUME ChannelInv
    PROVE  /\ CallTypes /\ OlderInv /\ IInv
           /\ older \in [Tasks -> SUBSET Tasks]
           /\ receivers \in Seq(Tasks) /\ Distinct(receivers)
           /\ \A q \in Tasks :
                /\ TaskOf(q)
                /\ On(receivers, q) => Registered(q) /\ call[q] = "receive"
                /\ call[q] = "send" => ~Registered(q)
                /\ Unserved(q) <=> On(receivers, q) /\ result[q] = 0 /\ q \notin refused
<1>1. /\ CallTypes /\ OlderInv /\ IInv /\ older \in [Tasks -> SUBSET Tasks]
      /\ \A q \in Tasks : TaskOf(q)
  BY MessageFacts DEF ChannelInv, ChannelTypeOK
<1>2. \A q \in Tasks :
        /\ On(receivers, q) => Registered(q) /\ call[q] = "receive"
        /\ call[q] = "send" => ~Registered(q)
  BY <1>1 DEF TaskOf, StageOf, ReceiverOf, Registered, CallTypes
<1>3. \A q \in Tasks :
        Unserved(q) <=> On(receivers, q) /\ result[q] = 0 /\ q \notin refused
  BY <1>2, ContainsIsOn DEF Unserved
<1> QED
  BY <1>1, <1>2, <1>3 DEF CallTypes

LEMMA UnservedNext ==
    ASSUME NEW q, Unserved(q)'
    PROVE  call'[q] = "receive" /\ On(receivers', q) /\ result'[q] = 0 /\ q \notin refused'
<1>1. Contains(receivers', q)
  BY DEF Unserved
<1> QED
  BY <1>1, ContainsIsOn DEF Unserved

\* A step that serves nobody and puts nothing in the buffer.
LEMMA OlderKept ==
    ASSUME ChannelInv, older' = older, buffer'.chain = buffer.chain, result' = result,
           receivers' = receivers, refused \subseteq refused', events \subseteq events',
           \A q \in Tasks : Registered(q) =>
              /\ Registered(q)'
              /\ stage'[q] = "await" => stage[q] = "await" \/ q \in refused'
    PROVE  OlderInv'
<1>1. ASSUME NEW q \in Tasks, Unserved(q)'
      PROVE  Unserved(q) /\ q \notin refused' /\ Registered(q)
  BY <1>1, UnservedNext, OlderFacts
<1>2. \A p \in Tasks : \A q \in older[p] : q \in Tasks
  BY OlderFacts
<1> QED
  BY <1>1, <1>2, OlderFacts DEF OlderInv

LEMMA OlderAside ==
    ASSUME ChannelInv, NEW p \in Tasks,
           \/ Send(p) \/ SendWaits(p) \/ SendFails(p) \/ SendBuffers(p) \/ SendThrows(p)
           \/ SendRejects(p) \/ Receive(p) \/ ReceiveThrows(p) \/ ReceiveSettles(p)
           \/ LockThrows(p) \/ WaitEnds(p)
    PROVE  OlderInv'
<1>1. /\ UNCHANGED <<older, buffer, result, receivers>>
      /\ refused \subseteq refused' /\ events \subseteq events'
  BY DEF Send, SendWaits, SendFails, SendBuffers, SendThrows, SendRejects, Receive,
         ReceiveThrows, ReceiveSettles, LockThrows, WaitEnds,
         channelVars, callVars, history
<1>2. CASE SendFails(p) \/ SendThrows(p) \/ SendRejects(p) \/ LockThrows(p)
  <2>1. Ends(p)
    BY <1>2 DEF SendFails, SendThrows, SendRejects, LockThrows
  <2>2. ~Registered(p)
    BY <1>2, OlderFacts
    DEF SendFails, SendThrows, SendRejects, LockThrows, Runs, EntryRejects,
        TaskOf, StageOf, Registered
  <2> QED
    BY <1>1, <2>1, <2>2, OlderFacts, EndsChange, OlderKept DEF Registered
<1>3. CASE Send(p) \/ SendWaits(p) \/ Receive(p) \/ WaitEnds(p)
  <2>1. stage' = stage
    BY <1>3 DEF Send, SendWaits, Receive, WaitEnds, callVars
  <2> QED
    BY <1>1, <2>1, OlderKept DEF Registered
<1>4. CASE SendBuffers(p)
  <2>1. /\ call[p] = "send"
        /\ \A q \in Tasks \ {p} : stage'[q] = stage[q]
    BY <1>4, OlderFacts DEF SendBuffers, Runs, CallTypes
  <2> QED
    BY <1>1, <2>1, OlderFacts, OlderKept DEF Registered
<1>5. CASE ReceiveThrows(p) \/ ReceiveSettles(p)
  <2>1. /\ \A q \in Tasks \ {p} : stage'[q] = stage[q]
        /\ \/ stage'[p] = "await" /\ p \in refused'
           \/ stage'[p] = "settled"
    BY <1>5, OlderFacts DEF ReceiveThrows, ReceiveSettles, CallTypes
  <2> QED
    BY <1>1, <2>1, OlderKept DEF Registered
<1> QED
  BY <1>2, <1>3, <1>4, <1>5

\* The head of the receivers is served, and nobody is before it.
LEMMA OlderDelivers ==
    ASSUME ChannelInv, NEW p \in Tasks, SendDelivers(p)
    PROVE  OlderInv'
<1>1. PICK h \in Tasks :
        /\ h = Head(receivers) /\ On(receivers, h)
        /\ \A q : On(receivers', q) <=> On(receivers, q) /\ q # h
        /\ \A a, b : Before(receivers, a, b) => Before(receivers', a, b)
        /\ \A q : On(receivers, q) => ~Before(receivers, q, h)
  BY OlderFacts, ShiftFacts DEF SendDelivers
<1>2. /\ call[p] = "send" /\ Ends(p) /\ Deliver(h, message[p])
      /\ UNCHANGED <<older, buffer, refused>>
  BY <1>1 DEF SendDelivers, Runs
<1>3. /\ ~Registered(p)
      /\ \A q \in Tasks \ {p} : stage'[q] = stage[q]
      /\ stage'[p] = "start"
  BY <1>2, OlderFacts, EndsChange
<1>4. /\ \A q \in Tasks \ {h} : result'[q] = result[q]
      /\ events \subseteq events'
  BY <1>2, OlderFacts DEF Deliver, CallTypes
<1>5. ASSUME NEW q \in Tasks, Unserved(q)'
      PROVE  Unserved(q) /\ q # h /\ q # p /\ On(receivers, q)
  <2>1. On(receivers, q) /\ q # h /\ result'[q] = 0 /\ q \notin refused
    BY <1>1, <1>2, <1>5, UnservedNext
  <2>2. Registered(q)
    BY <2>1, OlderFacts
  <2> QED
    BY <1>3, <1>4, <2>1, <2>2, OlderFacts
<1>6. \A x \in Tasks : \A q \in older'[x] :
         x # q /\ Registered(x)' /\ Registered(q)' /\ Before(receivers', q, x)
  <2> SUFFICES ASSUME NEW x \in Tasks, NEW q \in older[x]
               PROVE  x # q /\ Registered(x)' /\ Registered(q)' /\ Before(receivers', q, x)
    BY <1>2
  <2>1. q \in Tasks /\ x # q /\ Registered(x) /\ Registered(q) /\ Before(receivers, q, x)
    BY OlderFacts DEF OlderInv
  <2> QED
    BY <1>1, <1>3, <2>1 DEF Registered
<1>7. ASSUME "late" \notin events', NEW x \in Tasks, result'[x] # 0, NEW q \in older'[x]
      PROVE  ~Unserved(q)'
  <2>1. q \in older[x] /\ q \in Tasks /\ "late" \notin events
    BY <1>2, <1>4, <1>7, OlderFacts
  <2>2. CASE x = h
    <3>1. Before(receivers, q, h)
      BY <2>1, <2>2, OlderFacts DEF OlderInv
    <3> QED
      BY <1>1, <1>5, <2>1, <3>1
  <2>3. CASE x # h
    <3>1. ~Unserved(q)
      BY <1>4, <1>7, <2>1, <2>3, OlderFacts DEF OlderInv
    <3> QED
      BY <1>5, <2>1, <3>1
  <2> QED
    BY <2>2, <2>3
<1>8. ASSUME "late" \notin events', NEW q \in Tasks, Unserved(q)', stage'[q] = "await"
      PROVE  buffer'.chain = <<>>
  BY <1>2, <1>3, <1>4, <1>5, <1>8, OlderFacts DEF OlderInv
<1> QED
  BY <1>6, <1>7, <1>8 DEF OlderInv

\* A message for the buffer, while a receiver waits, is an event.
LEMMA OlderInserts ==
    ASSUME ChannelInv, NEW p \in Tasks, SendInserts(p)
    PROVE  OlderInv'
<1>1. /\ call[p] = "send" /\ Ends(p) /\ events \subseteq events'
      /\ UNCHANGED <<older, receivers, result, refused>>
      /\ "late" \notin events' => \A q \in Tasks : ~Unserved(q)
  BY DEF SendInserts
<1>2. /\ ~Registered(p)
      /\ \A q \in Tasks \ {p} : stage'[q] = stage[q]
  BY <1>1, OlderFacts, EndsChange
<1>3. ASSUME NEW q \in Tasks, Unserved(q)'
      PROVE  Unserved(q)
  BY <1>1, <1>3, UnservedNext, OlderFacts
<1>4. \A x \in Tasks : \A q \in older[x] : q \in Tasks
  BY OlderFacts
<1> QED
  BY <1>1, <1>2, <1>3, <1>4, OlderFacts DEF OlderInv, Registered

LEMMA OlderRegisters ==
    ASSUME ChannelInv, NEW p \in Tasks, ReceiveRegisters(p)
    PROVE  OlderInv'
<1>1. /\ stage[p] = "start" /\ receivers' = Append(receivers, p)
      /\ stage' = [stage EXCEPT ![p] = "signal"]
      /\ older' = [older EXCEPT ![p] = {q \in Tasks : Unserved(q)}]
      /\ UNCHANGED <<buffer, result, refused, events>>
  BY DEF ReceiveRegisters, Runs
<1>2. ~Registered(p) /\ ~On(receivers, p) /\ result[p] = 0
  BY <1>1, OlderFacts DEF Registered, TaskOf, ReceiverOf
<1>3. /\ \A q : On(receivers', q) <=> On(receivers, q) \/ q = p
      /\ \A q : q # p => Before(receivers', q, p)
      /\ \A a, b : Before(receivers, a, b) /\ a # p => Before(receivers', a, b)
  BY <1>1, <1>2, OlderFacts, PushFacts
<1>4. /\ stage'[p] = "signal" /\ \A q \in Tasks \ {p} : stage'[q] = stage[q]
      /\ older'[p] = {q \in Tasks : Unserved(q)}
      /\ \A x \in Tasks \ {p} : older'[x] = older[x]
  BY <1>1, OlderFacts DEF CallTypes
<1>5. ASSUME NEW x \in Tasks, NEW q \in older'[x]
      PROVE  /\ x # q /\ Registered(x)' /\ Registered(q)' /\ Before(receivers', q, x)
             /\ q \in Tasks /\ q # p
  <2>1. CASE x = p
    <3>1. q \in Tasks /\ Unserved(q)
      BY <1>4, <1>5, <2>1
    <3>2. Registered(q) /\ q # p
      BY <1>2, <3>1, OlderFacts
    <3> QED
      BY <1>3, <1>4, <2>1, <3>1, <3>2 DEF Registered
  <2>2. CASE x # p
    <3>1. /\ q \in Tasks /\ x # q /\ Registered(x) /\ Registered(q)
          /\ Before(receivers, q, x)
      BY <1>4, <1>5, <2>2, OlderFacts DEF OlderInv
    <3>2. q # p
      BY <1>2, <3>1
    <3> QED
      BY <1>3, <1>4, <2>2, <3>1, <3>2 DEF Registered
  <2> QED
    BY <2>1, <2>2
<1>6. ASSUME NEW q \in Tasks, q # p, Unserved(q)'
      PROVE  Unserved(q)
  BY <1>1, <1>3, <1>6, UnservedNext, OlderFacts
<1>7. ASSUME "late" \notin events', NEW x \in Tasks, result'[x] # 0, NEW q \in older'[x]
      PROVE  ~Unserved(q)'
  <2>1. q \in Tasks /\ q # p
    BY <1>5
  <2>2. x # p /\ q \in older[x] /\ ~Unserved(q)
    BY <1>1, <1>2, <1>4, <1>7, OlderFacts DEF OlderInv
  <2> QED
    BY <1>6, <2>1, <2>2
<1>8. ASSUME "late" \notin events', NEW q \in Tasks, Unserved(q)', stage'[q] = "await"
      PROVE  buffer'.chain = <<>>
  BY <1>1, <1>4, <1>6, <1>8, OlderFacts DEF OlderInv
<1> QED
  BY <1>5, <1>7, <1>8 DEF OlderInv

\* Who takes from the buffer has no elder that still waits.
LEMMA OlderChecks ==
    ASSUME ChannelInv, NEW p \in Tasks, ReceiveChecks(p)
    PROVE  OlderInv'
<1>1. /\ at[p] = "inside" /\ stage[p] = "signal" /\ stage' = PhaseAfterPlace(p, "await")
      /\ UNCHANGED <<older, receivers, refused, events, call>>
  BY DEF ReceiveChecks, Runs, history
<1>2. /\ stage'[p] = "await"
      /\ \A q \in Tasks \ {p} :
           \/ stage'[q] = stage[q]
           \/ stage[q] = "blocked" /\ stage'[q] = "granted"
  BY <1>1 DEF PhaseAfterPlace
<1>3. \A q \in Tasks : Registered(q) => Registered(q)'
  BY <1>2 DEF Registered
<1>4. ASSUME NEW x \in Tasks, NEW q \in older'[x]
      PROVE  /\ x # q /\ Registered(x)' /\ Registered(q)' /\ Before(receivers', q, x)
             /\ q \in older[x] /\ q \in Tasks
  BY <1>1, <1>3, <1>4, OlderFacts DEF OlderInv
<1>5. CASE buffer.chain = <<>>
  <2>1. UNCHANGED <<buffer, result>>
    BY <1>5 DEF ReceiveChecks
  <2>2. ASSUME NEW q \in Tasks, Unserved(q)' PROVE Unserved(q)
    BY <1>1, <2>1, <2>2, UnservedNext, OlderFacts
  <2> QED
    BY <1>1, <1>4, <1>5, <2>1, <2>2, OlderFacts DEF OlderInv
<1>6. CASE buffer.chain # <<>>
  <2>1. /\ result' = [result EXCEPT ![p] = Head(buffer.chain)]
        /\ Head(buffer.chain) \in Messages
    BY <1>6, DequeueEffect DEF ReceiveChecks
  <2>2. /\ result'[p] # 0 /\ \A q \in Tasks \ {p} : result'[q] = result[q]
    BY <2>1, OlderFacts DEF CallTypes, Messages
  <2>3. ASSUME "late" \notin events, NEW q \in Tasks, q # p PROVE ~Unserved(q)
    <3> SUFFICES ASSUME Unserved(q) PROVE FALSE
      OBVIOUS
    <3>1. Registered(q) /\ result[q] = 0 /\ q \notin refused
      BY OlderFacts
    <3>2. stage[q] = "signal"
      BY <1>6, <2>3, <3>1, OlderFacts DEF OlderInv, Registered, TaskOf, ReceiverOf
    <3>3. at[q] = "inside"
      BY <3>2, OlderFacts DEF TaskOf, StageOf
    <3> QED
      BY <1>1, <2>3, <3>3, OlderFacts DEF IInv, MonitorExclusion
  <2>4. ASSUME "late" \notin events, NEW q \in Tasks PROVE ~Unserved(q)'
    <3> SUFFICES ASSUME Unserved(q)' PROVE FALSE
      OBVIOUS
    <3>1. /\ result'[q] = 0 /\ On(receivers, q) /\ q \notin refused
      BY <1>1, UnservedNext
    <3> QED
      BY <2>2, <2>3, <2>4, <3>1, OlderFacts
  <2> QED
    BY <1>1, <1>4, <2>4 DEF OlderInv
<1> QED
  BY <1>5, <1>6

LEMMA OlderEnds ==
    ASSUME ChannelInv, NEW p \in Tasks, ReceiveEnds(p)
    PROVE  OlderInv'
<1>1. /\ receivers' = RemoveSafe(receivers, p) /\ Ends(p)
      /\ result' = [result EXCEPT ![p] = 0] /\ refused' = refused \ {p}
      /\ older' = Forgets(p) /\ UNCHANGED <<buffer, events>>
  BY DEF ReceiveEnds
<1>2. /\ \A q : On(receivers', q) <=> On(receivers, q) /\ q # p
      /\ \A a, b : Before(receivers, a, b) => Before(receivers', a, b)
  BY <1>1, OlderFacts, RemoveSafeFacts
<1>3. /\ \A q \in Tasks \ {p} : stage'[q] = stage[q]
      /\ result'[p] = 0 /\ \A q \in Tasks \ {p} : result'[q] = result[q]
  BY <1>1, OlderFacts, EndsChange DEF CallTypes
<1>4. ASSUME NEW x \in Tasks, NEW q \in older'[x]
      PROVE  x # p /\ q # p /\ q \in older[x] /\ q \in Tasks
  BY <1>1, <1>4, OlderFacts DEF Forgets
<1>5. ASSUME NEW q \in Tasks, Unserved(q)'
      PROVE  q # p /\ Unserved(q)
  BY <1>1, <1>2, <1>3, <1>5, UnservedNext, OlderFacts
<1> QED
  BY <1>1, <1>2, <1>3, <1>4, <1>5, OlderFacts DEF OlderInv, Registered

LEMMA OlderStep ==
    ASSUME ChannelInv, [ChannelNext]_allVars
    PROVE  OlderInv'
<1>1. CASE Close \/ \E p \in Tasks : CallAborts(p)
  <2>1. PICK who \in SUBSET Tasks : Interrupt(who)
    BY <1>1 DEF Close, CallAborts
  <2>2. /\ UNCHANGED <<older, buffer, result, receivers>> /\ events \subseteq events'
        /\ refused \subseteq refused'
    BY <1>1, <2>1 DEF Interrupt, Close, CallAborts
  <2>3. \A q \in Tasks :
           \/ stage'[q] = stage[q]
           \/ stage[q] = "blocked" /\ stage'[q] = "rejected"
    <3>1. /\ stage \in [Tasks -> Stage]
          /\ \A q \in Tasks : at[q] = "sleeping" => stage[q] = "start"
      BY OlderFacts DEF CallTypes, TaskOf, SenderOf
    <3> QED
      BY <2>1, <3>1, OlderFacts, InterruptMoves
  <2> QED
    BY <2>2, <2>3, OlderKept DEF Registered
<1>2. CASE UNCHANGED allVars
  <2>1. UNCHANGED <<older, buffer, result, receivers, refused, events, stage>>
    BY <1>2 DEF allVars, channelVars, callVars, history
  <2> QED
    BY <2>1, OlderKept DEF Registered
<1>3. ASSUME NEW p \in Tasks,
             \/ Send(p) \/ SendWaits(p) \/ SendFails(p) \/ SendBuffers(p) \/ SendThrows(p)
             \/ SendRejects(p) \/ Receive(p) \/ ReceiveThrows(p) \/ ReceiveSettles(p)
             \/ LockThrows(p) \/ WaitEnds(p)
      PROVE  OlderInv'
  BY <1>3, OlderAside
<1>4. ASSUME NEW p \in Tasks,
             \/ SendDelivers(p) \/ SendInserts(p) \/ ReceiveRegisters(p)
             \/ ReceiveChecks(p) \/ ReceiveEnds(p)
      PROVE  OlderInv'
  BY <1>4, OlderDelivers, OlderInserts, OlderRegisters, OlderChecks, OlderEnds
<1> QED
  BY <1>1, <1>2, <1>3, <1>4 DEF ChannelNext

-----------------------------------------------------------------------------
(***************************************************************************)
(* The invariant of the channel is inductive.                              *)
(***************************************************************************)
LEMMA InitChannelInv == ChannelInit => ChannelInv
<1> SUFFICES ASSUME ChannelInit PROVE ChannelInv
  OBVIOUS
<1>1. IInv
  BY InitIInv DEF ChannelInit
<1>2. /\ buffer.chain = <<>> /\ buffer.size = 0 /\ capacity \in Nat
      /\ <<>> \in Seq(Tasks) /\ <<>> \in Seq(Messages) /\ Len(<<>>) = 0
      /\ MaxMessages \in Nat /\ MaxAborts \in Nat
  BY EmptySeq, ChannelAssumption DEF ChannelInit, EmptyList
<1>3. Distinct(<<>>) /\ \A e : ~On(<<>>, e)
  BY <1>2 DEF Distinct, On
<1>4. ChannelTypeOK
  <2>1. /\ MonitorTypeOK /\ capacity \in Capacities /\ closed \in BOOLEAN
        /\ receivers \in Seq(Tasks) /\ Distinct(receivers)
        /\ buffer.chain \in Seq(Messages) /\ buffer.size \in 0..capacity
        /\ places \in 0..capacity /\ blocked \in Seq(Tasks)
    <3>1. /\ capacity \in Capacities /\ closed = FALSE /\ receivers = <<>>
          /\ places = capacity /\ blocked = <<>>
      BY DEF ChannelInit
    <3>2. /\ Distinct(receivers) /\ receivers \in Seq(Tasks) /\ blocked \in Seq(Tasks)
          /\ buffer.chain \in Seq(Messages)
      BY <1>2, <1>3, <3>1
    <3>3. buffer.size \in 0..capacity /\ places \in 0..capacity
      BY <1>2, <3>1
    <3> QED
      BY <1>1, <3>1, <3>2, <3>3 DEF IInv
  <2>2. /\ call \in [Tasks -> {"none", "send", "receive"}]
        /\ stage \in [Tasks -> Stage]
        /\ message \in [Tasks -> 0..MaxMessages] /\ start \in [Tasks -> 0..MaxMessages]
        /\ result \in [Tasks -> 0..MaxMessages]
    BY <1>2 DEF ChannelInit, Stage
  <2>3. /\ refused \subseteq Tasks /\ sent \subseteq Messages /\ got \subseteq Messages
        /\ older \in [Tasks -> SUBSET Tasks] /\ events \subseteq ChannelEvent
        /\ aborts \in 0..MaxAborts /\ used \in 0..MaxMessages
    BY <1>2 DEF ChannelInit
  <2> QED
    BY <2>1, <2>2, <2>3 DEF ChannelTypeOK
<1>5. TaskInv
  BY <1>3 DEF ChannelInit, MonitorInit, TaskInv, TaskOf, StageOf, SenderOf, ReceiverOf
<1>6. AbortedInv
  BY DEF ChannelInit, MonitorInit, AbortedInv
<1>7. PlacesTaken
  <2>1. GrantedPlaces = {} /\ Sending = {}
    BY DEF ChannelInit, GrantedPlaces, Sending
  <2> QED
    BY <1>2, <2>1, FS_EmptySet DEF ChannelInit, PlacesTaken
<1>8. MessageInv
  BY <1>2, <1>3 DEF ChannelInit, MessageInv
<1>9. LossInv
  BY <1>2, <1>3 DEF ChannelInit, LossInv
<1>10. MeetInv
  BY DEF ChannelInit, MonitorInit, MeetInv
<1>11. OlderInv
  BY <1>2 DEF ChannelInit, OlderInv
<1> QED
  BY <1>1, <1>4, <1>5, <1>6, <1>7, <1>8, <1>9, <1>10, <1>11 DEF ChannelInv

LEMMA NextChannelInv == ChannelInv /\ [ChannelNext]_allVars => ChannelInv'
<1> SUFFICES ASSUME ChannelInv, [ChannelNext]_allVars
             PROVE  ChannelInv'
  OBVIOUS
<1>1. IInv'
  BY ChannelMonitorStep, MessageFacts DEF ChannelInv, CallTypes
<1>2. TaskInv' /\ AbortedInv' /\ PlacesTaken'
  BY TaskStep, AbortedStep, PlacesStep
<1>3. ChannelTypeOK'
  BY <1>1, <1>2, ChannelTypeStep
<1>4. MessageInv' /\ LossInv'
  BY MessageStep
<1>5. MeetInv'
  BY <1>2, MeetStep
<1>6. OlderInv'
  BY OlderStep
<1> QED
  BY <1>1, <1>2, <1>3, <1>4, <1>5, <1>6 DEF ChannelInv

(***************************************************************************)
(* The inductive invariant holds in every reachable state, for every set   *)
(* of tasks, every capacity and whatever is aborted or closed.             *)
(***************************************************************************)
THEOREM ChannelInvariance == ChannelSpec => []ChannelInv
BY InitChannelInv, NextChannelInv, PTL DEF ChannelSpec

-----------------------------------------------------------------------------
(***************************************************************************)
(* What the invariant says of the messages and of who waits.               *)
(***************************************************************************)
LEMMA OneOrNone ==
    ASSUME NEW S, \A x, y \in S : x = y
    PROVE  Cardinality(S) = IF S = {} THEN 0 ELSE 1
<1>1. CASE S = {}
  BY <1>1, FS_EmptySet
<1>2. CASE S # {}
  <2>1. PICK x : x \in S
    BY <1>2
  <2>2. S = {x}
    BY <2>1
  <2> QED
    BY <1>2, <2>2, FS_Singleton
<1> QED
  BY <1>1, <1>2

LEMMA CopiesCount ==
    ASSUME ChannelInv, NEW m \in Messages
    PROVE  /\ Copies(m) \in {0, 1}
           /\ Copies(m) = 1 <=> Arrived(m)
<1> DEFINE A == {i \in DOMAIN buffer.chain : buffer.chain[i] = m}
           B == {q \in Tasks : result[q] = m /\ q \notin refused}
<1>1. /\ MessageInv /\ Distinct(buffer.chain) /\ buffer.chain \in Seq(Messages)
      /\ m # 0 /\ \A q \in Tasks : TaskOf(q)
  BY MessageFacts DEF CallTypes, MessageInv, Messages
<1>2. DOMAIN buffer.chain = 1..Len(buffer.chain)
  BY <1>1, LenProperties
<1>3. (A = {} <=> ~On(buffer.chain, m)) /\ \A i, j \in A : i = j
  BY <1>1, <1>2 DEF On, Distinct
<1>4. (B = {} <=> \A q \in Tasks : result[q] # m) /\ \A p, q \in B : p = q
  BY <1>1 DEF MessageInv, TaskOf, ReceiverOf
<1>5. Copies(m) = Cardinality(A) + Cardinality(B) + (IF m \in got THEN 1 ELSE 0)
  BY DEF Copies
<1> HIDE DEF A, B
<1>6. /\ Cardinality(A) = IF On(buffer.chain, m) THEN 1 ELSE 0
      /\ Cardinality(B) = IF \E q \in Tasks : result[q] = m THEN 1 ELSE 0
  BY <1>3, <1>4, OneOrNone
<1>7. /\ On(buffer.chain, m) => m \notin got /\ ~ \E q \in Tasks : result[q] = m
      /\ (\E q \in Tasks : result[q] = m) => m \notin got
  BY <1>1 DEF MessageInv
<1> QED
  BY <1>5, <1>6, <1>7 DEF Arrived

LEMMA LossesHaveCause == ChannelInv => LossNeedsUpset
<1> SUFFICES ASSUME ChannelInv,
                    \/ events \cap {"twice", "shrunk"} = {}
                    \/ capacity = 0 /\ "abort" \notin events,
                    NEW m \in sent
             PROVE  Copies(m) = 1
  BY DEF LossNeedsUpset
<1>1. m \in Messages /\ LossInv
  BY MessageFacts
<1>2. events \cap {"twice", "shrunk"} = {}
  BY <1>1 DEF LossInv
<1> QED
  BY <1>1, <1>2, CopiesCount DEF LossInv

LEMMA Meeting == ChannelInv => RendezvousMeets
<1> SUFFICES ASSUME ChannelInv, AllQuiet, "abort" \notin events,
                    NEW p \in Tasks, NEW q \in Tasks, at[p] = "sleeping", Unserved(q)
             PROVE  FALSE
  BY DEF RendezvousMeets
<1>1. capacity = 0
  BY MessageFacts DEF TaskOf, SenderOf
<1>2. Len(receivers) <= Cardinality(Awake)
  BY <1>1 DEF ChannelInv, MeetInv
<1>3. Awake = {}
  <2> SUFFICES ASSUME NEW w \in Awake PROVE FALSE
    OBVIOUS
  <2>1. w \in Tasks /\ call[w] = "send" /\ at[w] # "sleeping"
    BY DEF Awake
  <2>2. stage[w] = "blocked" \/ Unserved(w)
    BY <2>1 DEF AllQuiet
  <2>3. stage[w] # "blocked"
    BY <1>1, <2>1, MessageFacts DEF TaskOf, SenderOf
  <2> QED
    BY <2>1, <2>2, <2>3 DEF Unserved
<1>4. Len(receivers) \in Nat /\ Len(receivers) <= 0
  BY <1>2, <1>3, MessageFacts, FS_EmptySet, LenProperties DEF CallTypes
<1>5. On(receivers, q)
  BY OlderFacts
<1> QED
  BY <1>4, <1>5 DEF On

LEMMA OldestFirst == ChannelInv => OldestReceiverFirst
BY DEF ChannelInv, OlderInv, OldestReceiverFirst

(***************************************************************************)
(* Senders and receivers of one channel: each message goes to one          *)
(* receiver, the oldest first, none is lost and nobody waits for who waits *)
(* for him, but for the named cases, whatever number of tasks there are    *)
(* and whatever the capacity (channel.ts:143, 154, 161, 168, 185, 201).    *)
(***************************************************************************)
THEOREM ChannelServes == ChannelSpec => []ChannelDelivers
<1>1. ChannelInv => ChannelDelivers
  <2> SUFFICES ASSUME ChannelInv PROVE ChannelDelivers
    OBVIOUS
  <2>1. ReceivedOnce
    BY CopiesCount DEF ReceivedOnce
  <2> QED
    BY <2>1, LossesHaveCause, Meeting, OldestFirst DEF ChannelInv, ChannelDelivers
<1> QED
  BY <1>1, ChannelInvariance, PTL
=============================================================================
