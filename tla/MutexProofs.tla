----------------------------- MODULE MutexProofs -----------------------------
(***************************************************************************)
(* Proofs of the safety properties of Mutex, for any set of tasks and any  *)
(* choice of those that abort.                                             *)
(***************************************************************************)
EXTENDS Mutex, EcmaArrayProofs

(***************************************************************************)
(* What the list of resolvers says of the tasks: one that waits is on it,  *)
(* and one that is outside lock() is not.                                  *)
(***************************************************************************)
ListInv ==
    /\ \A p \in Tasks : pc[p] = "waiting" => On(waiters, p)
    /\ \A p \in Tasks : pc[p] \in {"idle", "holding"} => ~On(waiters, p)

(***************************************************************************)
(* What the history says of the list: the tasks that are ahead of p wait,  *)
(* as p does, and their resolvers come before p's.                         *)
(***************************************************************************)
AheadInv ==
    \A p, q \in Tasks : q \in ahead[p] =>
        /\ pc[p] = "waiting"
        /\ pc[q] = "waiting"
        /\ Before(waiters, q, p)

IInv ==
    /\ TypeOK
    /\ MutualExclusion
    /\ NoWaitOnFreeLock
    /\ ListInv
    /\ AheadInv

-----------------------------------------------------------------------------
(***************************************************************************)
(* The initial state satisfies the inductive invariant.                    *)
(***************************************************************************)
LEMMA InitIInv == Init => IInv
<1> SUFFICES ASSUME Init PROVE IInv
  OBVIOUS
<1> USE DEF Init
<1>0. waiters \in Seq(Tasks) /\ Len(waiters) = 0
  BY EmptySeq
<1>1. TypeOK
  <2>1. Distinct(waiters)
    BY <1>0 DEF Distinct
  <2>2. pc \in [Tasks -> PC] /\ ahead \in [Tasks -> SUBSET Tasks]
    BY DEF PC
  <2> QED
    BY <1>0, <2>1, <2>2 DEF TypeOK
<1>2. MutualExclusion /\ NoWaitOnFreeLock
  BY DEF MutualExclusion, NoWaitOnFreeLock, Owns, Waiting
<1>3. ListInv
  BY DEF ListInv, On
<1>4. AheadInv
  BY DEF AheadInv
<1> QED
  BY <1>1, <1>2, <1>3, <1>4 DEF IInv

(***************************************************************************)
(* Every step keeps the inductive invariant.                               *)
(***************************************************************************)
LEMMA NextIInv == IInv /\ [Next]_vars => IInv'
<1> SUFFICES ASSUME IInv, [Next]_vars PROVE IInv'
  OBVIOUS
<1> USE DEF IInv
<1>1. ASSUME NEW p \in Tasks, TryLock(p)
      PROVE  IInv'
  <2> USE <1>1 DEF TryLock
  <2>0. Waiting = {}
    BY DEF NoWaitOnFreeLock, Waiting
  <2>1. TypeOK'
    BY <2>0 DEF TypeOK, PC
  <2>2. MutualExclusion' /\ NoWaitOnFreeLock'
    BY DEF MutualExclusion, NoWaitOnFreeLock, Owns, Waiting, TypeOK
  <2>3. ListInv'
    BY DEF ListInv, TypeOK
  <2>4. AheadInv'
    BY <2>0 DEF AheadInv, TypeOK
  <2> QED
    BY <2>1, <2>2, <2>3, <2>4
<1>2. ASSUME NEW p \in Tasks, Lock(p)
      PROVE  IInv'
  <2> USE <1>2 DEF Lock
  <2>1. /\ waiters' \in Seq(Tasks)
        /\ Distinct(waiters')
        /\ \A q : On(waiters', q) <=> On(waiters, q) \/ q = p
        /\ \A q : q # p => Before(waiters', q, p)
        /\ \A a, b : Before(waiters, a, b) /\ a # p => Before(waiters', a, b)
    <3>1. Distinct(waiters) /\ ~On(waiters, p) /\ waiters \in Seq(Tasks)
      BY DEF ListInv, TypeOK
    <3>2. waiters' = Append(waiters, p)
      OBVIOUS
    <3> QED
      BY <3>1, <3>2, PushFacts
  <2>2. TypeOK'
    BY <2>1 DEF TypeOK, PC, Waiting
  <2>3. MutualExclusion' /\ NoWaitOnFreeLock'
    BY DEF MutualExclusion, NoWaitOnFreeLock, Owns, Waiting, TypeOK
  <2>4. ListInv'
    BY <2>1 DEF ListInv, TypeOK
  <2>5. ASSUME NEW a \in Tasks, NEW b \in Tasks, b \in ahead'[a]
        PROVE  /\ pc'[a] = "waiting"
               /\ pc'[b] = "waiting"
               /\ Before(waiters', b, a)
    <3>1. CASE a = p
      <4>1. pc[b] = "waiting" /\ b # p /\ locked
        BY <2>5, <3>1 DEF Waiting, TypeOK, NoWaitOnFreeLock
      <4> QED
        BY <2>1, <3>1, <4>1 DEF TypeOK
    <3>2. CASE a # p
      <4>1. b \in ahead[a]
        BY <2>5, <3>2 DEF TypeOK
      <4> QED
        BY <2>1, <3>2, <4>1 DEF AheadInv, TypeOK
    <3> QED
      BY <3>1, <3>2
  <2> QED
    BY <2>2, <2>3, <2>4, <2>5 DEF AheadInv
<1>3. ASSUME NEW p \in Tasks, LockReturns(p) \/ LockRejects(p)
      PROVE  IInv'
  <2> USE <1>3 DEF LockReturns, LockRejects
  <2>1. /\ waiters' \in Seq(Tasks)
        /\ Distinct(waiters')
        /\ \A q : On(waiters', q) <=> On(waiters, q) /\ q # p
        /\ \A a, b : Before(waiters, a, b) => Before(waiters', a, b)
    <3>1. Distinct(waiters) /\ waiters \in Seq(Tasks)
      BY DEF ListInv, TypeOK
    <3>2. waiters' = RemoveSafe(waiters, p)
      OBVIOUS
    <3> QED
      BY <3>1, <3>2, RemoveSafeFacts
  <2>2. TypeOK'
    BY <2>1 DEF TypeOK, PC
  <2>3. MutualExclusion' /\ NoWaitOnFreeLock'
    BY DEF MutualExclusion, NoWaitOnFreeLock, Owns, Waiting, TypeOK
  <2>4. ListInv'
    BY <2>1 DEF ListInv, TypeOK
  <2>5. AheadInv'
    BY <2>1 DEF AheadInv, TypeOK
  <2> QED
    BY <2>2, <2>3, <2>4, <2>5
<1>4. ASSUME NEW p \in Tasks, Abort(p)
      PROVE  IInv'
  <2> USE <1>4 DEF Abort, NoLongerAhead
  <2>1. TypeOK'
    BY DEF TypeOK, PC
  <2>2. MutualExclusion' /\ NoWaitOnFreeLock'
    BY DEF MutualExclusion, NoWaitOnFreeLock, Owns, Waiting, TypeOK
  <2>3. ListInv'
    BY DEF ListInv, TypeOK
  <2>4. AheadInv'
    BY DEF AheadInv, TypeOK
  <2> QED
    BY <2>1, <2>2, <2>3, <2>4
<1>5. ASSUME NEW p \in Tasks, Unlock(p), waiters = <<>>
      PROVE  IInv'
  <2> USE <1>5 DEF Unlock
  <2>1. \A q \in Tasks : pc[q] # "waiting"
    BY DEF ListInv, On
  <2>2. TypeOK'
    BY DEF TypeOK, PC
  <2>3. MutualExclusion' /\ NoWaitOnFreeLock'
    BY <2>1 DEF MutualExclusion, NoWaitOnFreeLock, Owns, Waiting, TypeOK
  <2>4. ListInv'
    BY DEF ListInv, On, Distinct, TypeOK
  <2>5. AheadInv'
    BY <2>1 DEF AheadInv, TypeOK
  <2> QED
    BY <2>2, <2>3, <2>4, <2>5
<1>6. ASSUME NEW p \in Tasks, Unlock(p), waiters # <<>>
      PROVE  IInv'
  <2> DEFINE w == Head(waiters)
  <2>1. /\ w \in Tasks
        /\ On(waiters, w)
        /\ waiters' \in Seq(Tasks)
        /\ Distinct(waiters')
        /\ \A q : On(waiters', q) <=> On(waiters, q) /\ q # w
        /\ \A a, b : Before(waiters, a, b) => Before(waiters', a, b)
        /\ \A q : On(waiters, q) => ~Before(waiters, q, w)
    <3>1. Distinct(waiters) /\ waiters \in Seq(Tasks) /\ waiters # <<>>
      BY <1>6 DEF ListInv, TypeOK
    <3>2. waiters' = Tail(waiters)
      BY <1>6 DEF Unlock
    <3> QED
      BY <3>1, <3>2, ShiftFacts
  <2>2. /\ pc[p] = "holding"
        /\ locked' = locked
        /\ \/ /\ pc[w] = "waiting"
              /\ pc' = [pc EXCEPT ![p] = "idle", ![w] = "granted"]
              /\ ahead' = [q \in Tasks |-> ahead[q] \ {w}]
           \/ /\ pc[w] # "waiting"
              /\ pc' = [pc EXCEPT ![p] = "idle"]
              /\ ahead' = ahead
    BY <1>6 DEF Unlock
  <2> HIDE DEF w
  <2>3. w # p /\ ahead[w] = {}
    BY <2>1, <2>2 DEF ListInv, AheadInv, TypeOK
  <2>4. TypeOK'
    BY <2>1, <2>2 DEF TypeOK, PC
  <2>5. MutualExclusion' /\ NoWaitOnFreeLock'
    BY <2>1, <2>2 DEF MutualExclusion, NoWaitOnFreeLock, Owns, Waiting, TypeOK
  <2>6. ListInv'
    BY <2>1, <2>2, <2>3 DEF ListInv, TypeOK
  <2>7. ASSUME NEW a \in Tasks, NEW b \in Tasks, b \in ahead'[a]
        PROVE  /\ pc'[a] = "waiting"
               /\ pc'[b] = "waiting"
               /\ Before(waiters', b, a)
    <3>1. b \in ahead[a] /\ (pc[w] = "waiting" => b # w)
      BY <2>2, <2>7 DEF TypeOK
    <3>2. pc[a] = "waiting" /\ pc[b] = "waiting" /\ Before(waiters, b, a)
      BY <3>1 DEF AheadInv
    <3>3. a # w
      BY <2>3, <3>1
    <3> QED
      BY <2>1, <2>2, <3>1, <3>2, <3>3 DEF TypeOK
  <2> QED
    BY <2>4, <2>5, <2>6, <2>7 DEF AheadInv
<1>7. CASE UNCHANGED vars
  BY <1>7 DEF vars, TypeOK, MutualExclusion, NoWaitOnFreeLock, ListInv,
              AheadInv, Owns, Waiting
<1> QED
  BY <1>1, <1>2, <1>3, <1>4, <1>5, <1>6, <1>7 DEF Next

(***************************************************************************)
(* The inductive invariant holds in every reachable state.                 *)
(***************************************************************************)
THEOREM Invariance == Spec => []IInv
  BY InitIInv, NextIInv, PTL DEF Spec

(***************************************************************************)
(* The fields of a mutex keep their types (mutex.ts).                      *)
(***************************************************************************)
THEOREM TypeCorrect == Spec => []TypeOK
<1>1. IInv => TypeOK
  BY DEF IInv
<1> QED
  BY <1>1, Invariance, PTL

(***************************************************************************)
(* For any number of tasks and any aborts, at most one task owns the       *)
(* mutex, and tryLock() fails while one does (mutex.ts:8).                 *)
(***************************************************************************)
THEOREM ExclusiveOwner == Spec => []MutualExclusion
<1>1. IInv => MutualExclusion
  BY DEF IInv
<1> QED
  BY <1>1, Invariance, PTL

(***************************************************************************)
(* For any number of tasks and any aborts, no task waits for a mutex that  *)
(* is free (mutex.ts, unlock).                                             *)
(***************************************************************************)
THEOREM NoIdleWaiting == Spec => []NoWaitOnFreeLock
<1>1. IInv => NoWaitOnFreeLock
  BY DEF IInv
<1> QED
  BY <1>1, Invariance, PTL

(***************************************************************************)
(* For any number of tasks and any aborts, the mutex is acquired first in  *)
(* first out, by lock() and tryLock() alike (mutex.ts:11).                 *)
(***************************************************************************)
THEOREM FirstInFirstOut == Spec => []FifoAcquisition
<1>1. IInv => FifoAcquisition
  BY DEF IInv, AheadInv, FifoAcquisition, Owns, TypeOK
<1> QED
  BY <1>1, Invariance, PTL

-----------------------------------------------------------------------------
(***************************************************************************)
(* A step from a mutex that is owned to one that is locked and owned by    *)
(* nobody takes an aborted waiter off the head of the list.                *)
(***************************************************************************)
LEMMA LossStep ==
    ASSUME IInv, [Next]_vars, LockedIsOwned
    PROVE  LockedIsOwned' \/ (waiters # <<>> /\ pc[Head(waiters)] = "aborted")
<1> USE DEF IInv
<1>0. pc \in [Tasks -> PC]
  BY DEF TypeOK
<1>1. ASSUME NEW p \in Tasks, TryLock(p) \/ Lock(p)
      PROVE  LockedIsOwned'
  BY <1>0, <1>1 DEF TryLock, Lock, LockedIsOwned, Owns
<1>2. ASSUME NEW p \in Tasks, LockReturns(p)
      PROVE  LockedIsOwned'
  BY <1>0, <1>2 DEF LockReturns, LockedIsOwned, Owns
<1>3. ASSUME NEW p \in Tasks, Abort(p) \/ LockRejects(p)
      PROVE  LockedIsOwned'
  BY <1>0, <1>3 DEF Abort, LockRejects, LockedIsOwned, Owns
<1>4. ASSUME NEW p \in Tasks, Unlock(p), waiters = <<>>
      PROVE  LockedIsOwned'
  BY <1>4 DEF Unlock, LockedIsOwned
<1>5. ASSUME NEW p \in Tasks, Unlock(p), waiters # <<>>
      PROVE  LockedIsOwned' \/ pc[Head(waiters)] = "aborted"
  <2> DEFINE w == Head(waiters)
  <2>1. w \in Tasks /\ On(waiters, w)
    <3>1. Distinct(waiters) /\ waiters \in Seq(Tasks) /\ waiters # <<>>
      BY <1>5 DEF TypeOK
    <3> QED
      BY <3>1, ShiftFacts
  <2>2. \/ /\ pc[w] = "waiting"
           /\ pc' = [pc EXCEPT ![p] = "idle", ![w] = "granted"]
        \/ pc[w] # "waiting"
    BY <1>5 DEF Unlock
  <2>3. pc[p] = "holding"
    BY <1>5 DEF Unlock
  <2> HIDE DEF w
  <2>4. CASE pc[w] = "waiting"
    BY <1>0, <2>1, <2>2, <2>4 DEF LockedIsOwned, Owns
  <2>5. CASE pc[w] # "waiting"
    <3>1. pc[w] \notin {"idle", "holding"}
      BY <2>1 DEF ListInv
    <3>2. w # p
      BY <2>3, <3>1
    <3>3. pc[w] # "granted"
      BY <2>1, <2>3, <3>2 DEF MutualExclusion, Owns
    <3> QED
      BY <1>0, <2>1, <2>5, <3>1, <3>3 DEF PC, w
  <2> QED
    BY <2>4, <2>5 DEF w
<1>6. CASE UNCHANGED vars
  BY <1>6 DEF vars, LockedIsOwned, Owns
<1> QED
  BY <1>1, <1>2, <1>3, <1>4, <1>5, <1>6 DEF Next

(***************************************************************************)
(* For any number of tasks, an aborted waiter at the head of the list is   *)
(* the only way in which the mutex is lost (mutex.ts:62).                  *)
(***************************************************************************)
THEOREM LostOnlyToAborted == Spec => LostToAbortedOnly
<1>1. IInv /\ [Next]_vars =>
        [LockedIsOwned =>
          LockedIsOwned' \/ (waiters # <<>> /\ pc[Head(waiters)] = "aborted")]_vars
  BY LossStep
<1> QED
  BY <1>1, Invariance, PTL DEF Spec, LostToAbortedOnly
=============================================================================
