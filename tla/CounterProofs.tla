---------------------------- MODULE CounterProofs ----------------------------
(***************************************************************************)
(* Proofs of the safety properties of Counter, for any set of tasks, any   *)
(* owner, any number of participants and any values.                       *)
(***************************************************************************)
EXTENDS Counter, EcmaArrayProofs, FiniteSetTheorems

(***************************************************************************)
(* Everybody who waits at a barrier waits for the same value, the one that *)
(* opens it; without this the step that opens it could leave tasks behind. *)
(***************************************************************************)
RoundInv ==
    owner = "barrier" =>
        /\ IsFiniteSet(Pending)
        /\ \A p \in Pending : target[p] = Count

IInv ==
    /\ TypeOK
    /\ NoWaiterAtTarget
    /\ BarrierCountsItsRound
    /\ RoundInv

-----------------------------------------------------------------------------
(***************************************************************************)
(* The initial state satisfies the inductive invariant.                    *)
(***************************************************************************)
LEMMA InitIInv == Init => IInv
<1> SUFFICES ASSUME Init PROVE IInv
  OBVIOUS
<1> USE CounterAssumption DEF Init
<1>1. waiters \in Seq(Tasks) /\ Len(waiters) = 0
  BY EmptySeq
<1>2. TypeOK
  BY <1>1 DEF TypeOK, Distinct, Contains
<1>3. Pending = {}
  BY DEF Pending
<1>4. IsFiniteSet(Pending) /\ Cardinality(Pending) = 0
  BY <1>3, FS_EmptySet
<1> QED
  BY <1>2, <1>3, <1>4 DEF IInv, NoWaiterAtTarget, BarrierCountsItsRound, RoundInv

(***************************************************************************)
(* handleWaiters(v) resolves the promises of those who wait for v and      *)
(* touches no other (counter.ts:104-111).                                  *)
(***************************************************************************)
LEMMA HandleWaitersFacts ==
    ASSUME TypeOK, NEW v, HandleWaiters(v)
    PROVE  /\ promise' \in [Tasks -> {"none", "pending", "resolved", "rejected"}]
           /\ \A p \in Tasks : promise'[p] # "none" <=> promise[p] # "none"
           /\ \A p \in Tasks : promise'[p] = "pending"
                                 <=> promise[p] = "pending" /\ target[p] # v
<1>1. \A p \in Tasks : promise[p] = "pending" => Contains(waiters, p)
  BY DEF TypeOK
<1> QED
  BY <1>1 DEF TypeOK, HandleWaiters

(***************************************************************************)
(* What registering a waiter does, for wait() and for Barrier.wait().      *)
(***************************************************************************)
LEMMA WaitForFacts ==
    ASSUME TypeOK, NEW p \in Tasks, NEW t \in Int, WaitFor(p, t)
    PROVE  /\ waiters' \in Seq(Tasks)
           /\ Distinct(waiters')
           /\ target' \in [Tasks -> Int]
           /\ promise' \in [Tasks -> {"none", "pending", "resolved", "rejected"}]
           /\ \A q \in Tasks : Contains(waiters', q) <=> promise'[q] # "none"
           /\ Pending' = Pending \cup {p}
           /\ p \notin Pending
           /\ target'[p] = t
           /\ \A q \in Tasks : q # p => target'[q] = target[q]
<1> USE DEF TypeOK, WaitFor
<1>1. ~On(waiters, p)
  BY DEF On, Contains
<1>2. /\ waiters' \in Seq(Tasks)
      /\ Distinct(waiters')
      /\ \A q : On(waiters', q) <=> On(waiters, q) \/ q = p
  BY <1>1, PushFacts
<1>3. /\ promise' \in [Tasks -> {"none", "pending", "resolved", "rejected"}]
      /\ promise'[p] = "pending"
      /\ \A q \in Tasks : q # p => promise'[q] = promise[q]
  OBVIOUS
<1>4. \A q \in Tasks : Contains(waiters', q) <=> promise'[q] # "none"
  BY <1>2, <1>3 DEF On, Contains
<1>5. Pending' = Pending \cup {p} /\ p \notin Pending
  BY <1>3 DEF Pending
<1> QED
  BY <1>2, <1>3, <1>4, <1>5

-----------------------------------------------------------------------------
(***************************************************************************)
(* Every step keeps the inductive invariant.                               *)
(***************************************************************************)
LEMMA NextIInv == IInv /\ [Next]_vars => IInv'
<1> SUFFICES ASSUME IInv, [Next]_vars PROVE IInv'
  OBVIOUS
<1> USE CounterAssumption
<1>0. TypeOK /\ NoWaiterAtTarget /\ BarrierCountsItsRound /\ RoundInv
  BY DEF IInv
<1>1. ASSUME NEW v \in Values, Step(v) PROVE IInv'
  <2>1. /\ owner = "counter" /\ owner' = owner /\ value' = v /\ v \in Int
        /\ HandleWaiters(v)
        /\ UNCHANGED <<waiters, target, absent>>
    BY <1>1 DEF Step
  <2>2. TypeOK'
    BY <1>0, <2>1, HandleWaitersFacts DEF TypeOK
  <2>3. NoWaiterAtTarget'
    BY <1>0, <2>1, HandleWaitersFacts DEF NoWaiterAtTarget, Pending
  <2> QED
    BY <2>1, <2>2, <2>3 DEF IInv, BarrierCountsItsRound, RoundInv
<1>2. ASSUME NEW p \in Tasks, NEW t \in Values, Wait(p, t) PROVE IInv'
  <2>1. /\ owner # "barrier" /\ owner' = owner /\ value' = value
        /\ absent' = absent /\ value # t /\ t \in Int /\ WaitFor(p, t)
    BY <1>2 DEF Wait, WaitFor
  <2>2. TypeOK'
    BY <1>0, <2>1, WaitForFacts DEF TypeOK
  <2>3. NoWaiterAtTarget'
    <3>1. /\ \A q \in Tasks : q # p => target'[q] = target[q]
          /\ target'[p] = t
          /\ Pending' = Pending \cup {p}
      BY <1>0, <2>1, WaitForFacts
    <3> QED
      BY <1>0, <2>1, <3>1 DEF NoWaiterAtTarget, Pending
  <2> QED
    BY <2>1, <2>2, <2>3 DEF IInv, BarrierCountsItsRound, RoundInv
<1>3. ASSUME NEW p \in Tasks, Abort(p) PROVE IInv'
  <2>1. /\ promise[p] = "pending"
        /\ promise' = [promise EXCEPT ![p] = "rejected"]
        /\ absent' = IF owner = "barrier" THEN absent + 1 ELSE absent
        /\ UNCHANGED <<owner, value, waiters, target>>
    BY <1>3 DEF Abort
  <2>2. TypeOK'
    BY <1>0, <2>1 DEF TypeOK
  <2>3. p \in Pending /\ Pending' = Pending \ {p}
    BY <1>0, <2>1 DEF TypeOK, Pending
  <2>4. NoWaiterAtTarget'
    BY <1>0, <2>1, <2>3 DEF NoWaiterAtTarget
  <2>5. CASE owner # "barrier"
    BY <2>1, <2>2, <2>4, <2>5 DEF IInv, BarrierCountsItsRound, RoundInv
  <2>6. CASE owner = "barrier"
    <3>1. IsFiniteSet(Pending) /\ \A q \in Pending : target[q] = Count
      BY <1>0, <2>6 DEF RoundInv
    <3>2. /\ IsFiniteSet(Pending \ {p})
          /\ Cardinality(Pending \ {p}) = Cardinality(Pending) - 1
      BY <2>3, <3>1, FS_RemoveElement
    <3>3. Cardinality(Pending) \in Nat
      BY <3>1, FS_CardinalityType
    <3>4. BarrierCountsItsRound'
      BY <1>0, <2>1, <2>3, <2>6, <3>2, <3>3 DEF BarrierCountsItsRound, TypeOK
    <3>5. RoundInv'
      BY <2>1, <2>3, <3>1, <3>2 DEF RoundInv
    <3> QED
      BY <2>2, <2>4, <3>4, <3>5 DEF IInv
  <2> QED
    BY <2>5, <2>6
<1>4. ASSUME NEW p \in Tasks, WaitReturns(p) PROVE IInv'
  <2>1. /\ promise[p] \in {"resolved", "rejected"}
        /\ waiters' = RemoveSafe(waiters, p)
        /\ promise' = [promise EXCEPT ![p] = "none"]
        /\ target' = [target EXCEPT ![p] = 0]
        /\ UNCHANGED <<owner, value, absent>>
    BY <1>4 DEF WaitReturns
  <2>2. /\ waiters' \in Seq(Tasks)
        /\ Distinct(waiters')
        /\ \A q : On(waiters', q) <=> On(waiters, q) /\ q # p
    BY <1>0, <2>1, RemoveSafeFacts DEF TypeOK
  <2>3. \A q \in Tasks : Contains(waiters', q) <=> promise'[q] # "none"
    BY <1>0, <2>1, <2>2 DEF TypeOK, On, Contains
  <2>4. TypeOK'
    BY <1>0, <2>1, <2>2, <2>3 DEF TypeOK
  <2>5. Pending' = Pending /\ p \notin Pending
    BY <1>0, <2>1 DEF TypeOK, Pending
  <2>6. \A q \in Pending : target'[q] = target[q]
    BY <1>0, <2>1, <2>5 DEF TypeOK, Pending
  <2> QED
    BY <1>0, <2>1, <2>4, <2>5, <2>6
    DEF IInv, NoWaiterAtTarget, BarrierCountsItsRound, RoundInv
<1>5. CASE CountDown
  <2>1. /\ owner = "latch" /\ owner' = owner /\ value' = value - 1
        /\ HandleWaiters(value - 1)
        /\ UNCHANGED <<waiters, target, absent>>
    BY <1>5 DEF CountDown
  <2>2. TypeOK'
    BY <1>0, <2>1, HandleWaitersFacts DEF TypeOK
  <2>3. NoWaiterAtTarget'
    BY <1>0, <2>1, HandleWaitersFacts DEF NoWaiterAtTarget, Pending
  <2> QED
    BY <2>1, <2>2, <2>3 DEF IInv, BarrierCountsItsRound, RoundInv
<1>6. ASSUME NEW p \in Tasks, Arrive(p) PROVE IInv'
  <2>1. /\ owner = "barrier" /\ owner' = owner /\ absent' = absent
        /\ value + 1 # Count /\ value' = value + 1 /\ WaitFor(p, Count)
    BY <1>6 DEF Arrive
  <2>2. TypeOK'
    BY <1>0, <2>1, WaitForFacts DEF TypeOK
  <2>3. /\ Pending' = Pending \cup {p} /\ p \notin Pending
        /\ target'[p] = Count
        /\ \A q \in Tasks : q # p => target'[q] = target[q]
    BY <1>0, <2>1, WaitForFacts
  <2>4. IsFiniteSet(Pending) /\ \A q \in Pending : target[q] = Count
    BY <1>0, <2>1 DEF RoundInv
  <2>5. /\ IsFiniteSet(Pending')
        /\ Cardinality(Pending') = Cardinality(Pending) + 1
    BY <2>3, <2>4, FS_AddElement
  <2>6. Cardinality(Pending) \in Nat
    BY <2>4, FS_CardinalityType
  <2>7. BarrierCountsItsRound'
    BY <1>0, <2>1, <2>5, <2>6 DEF BarrierCountsItsRound, TypeOK
  <2>8. \A q \in Pending' : target'[q] = Count
    BY <2>3, <2>4 DEF Pending
  <2>9. NoWaiterAtTarget'
    BY <1>0, <2>1, <2>8 DEF NoWaiterAtTarget, TypeOK
  <2> QED
    BY <2>2, <2>5, <2>7, <2>8, <2>9 DEF IInv, RoundInv
<1>7. ASSUME NEW p \in Tasks, Open(p) PROVE IInv'
  <2>1. /\ owner = "barrier" /\ owner' = owner /\ value' = 0
        /\ HandleWaiters(Count) /\ absent' = 0
        /\ UNCHANGED <<waiters, target>>
    BY <1>7 DEF Open
  <2>2. TypeOK'
    BY <1>0, <2>1, HandleWaitersFacts DEF TypeOK
  <2>3. Pending' = {}
    BY <1>0, <2>1, HandleWaitersFacts DEF RoundInv, Pending
  <2>4. IsFiniteSet(Pending') /\ Cardinality(Pending') = 0
    BY <2>3, FS_EmptySet
  <2> QED
    BY <2>1, <2>2, <2>3, <2>4
    DEF IInv, NoWaiterAtTarget, BarrierCountsItsRound, RoundInv
<1>8. CASE UNCHANGED vars
  BY <1>0, <1>8
  DEF vars, IInv, TypeOK, NoWaiterAtTarget, BarrierCountsItsRound, RoundInv, Pending
<1> QED
  BY <1>1, <1>2, <1>3, <1>4, <1>5, <1>6, <1>7, <1>8 DEF Next

-----------------------------------------------------------------------------
(***************************************************************************)
(* The inductive invariant holds in every reachable state.                 *)
(***************************************************************************)
THEOREM Invariance == Spec => []IInv
<1>1. Init => IInv
  BY InitIInv
<1>2. IInv /\ [Next]_vars => IInv'
  BY NextIInv
<1> QED
  BY <1>1, <1>2, PTL DEF Spec

(***************************************************************************)
(* Nobody waits for the value that the counter has (counter.ts:80, 106).   *)
(***************************************************************************)
THEOREM NobodyLeftWaiting == Spec => []NoWaiterAtTarget
<1>1. IInv => NoWaiterAtTarget
  BY DEF IInv
<1> QED
  BY <1>1, Invariance, PTL

(***************************************************************************)
(* The counter of a barrier counts the arrivals of one round, for any      *)
(* number of participants (barrier.ts:49, 54).                             *)
(***************************************************************************)
THEOREM RoundsAreCounted == Spec => []BarrierCountsItsRound
<1>1. IInv => BarrierCountsItsRound
  BY DEF IInv
<1> QED
  BY <1>1, Invariance, PTL

(***************************************************************************)
(* The step that sets a barrier's counter back is the arrival of the last  *)
(* participant, and it leaves nobody waiting (barrier.ts:9, 49-52).        *)
(***************************************************************************)
THEOREM OpensForAll == Spec => BarrierOpensForAll
<1> DEFINE Opening == owner = "barrier" /\ value' < value
                        => /\ Pending' = {}
                           /\ Cardinality(Pending) + absent + 1 = Count
<1>1. IInv /\ [Next]_vars => [Opening]_vars
  <2> SUFFICES ASSUME IInv, Next, owner = "barrier", value' < value
               PROVE  Pending' = {} /\ Cardinality(Pending) + absent + 1 = Count
    BY DEF IInv
  <2> USE CounterAssumption
  <2>0. TypeOK /\ BarrierCountsItsRound /\ RoundInv
    BY DEF IInv
  <2>1. PICK p \in Tasks : Open(p)
    BY <2>0 DEF Next, Step, Wait, WaitFor, Abort, WaitReturns, CountDown, Arrive, TypeOK
  <2>2. HandleWaiters(Count) /\ value + 1 = Count /\ target' = target
    BY <2>1 DEF Open
  <2>3. Pending' = {}
    BY <2>0, <2>2, HandleWaitersFacts DEF RoundInv, Pending
  <2>4. IsFiniteSet(Pending) /\ Cardinality(Pending) \in Nat
    BY <2>0, FS_CardinalityType DEF RoundInv
  <2> QED
    BY <2>0, <2>2, <2>3, <2>4 DEF BarrierCountsItsRound, TypeOK
<1> QED
  BY <1>1, Invariance, PTL DEF Spec, BarrierOpensForAll
=============================================================================
