----------------------------- MODULE SignalProofs -----------------------------
(***************************************************************************)
(* Proofs of the safety properties of Signal, for any set of tasks, any    *)
(* choice of those that abort and any number of signals.                   *)
(***************************************************************************)
EXTENDS Signal, EcmaArrayProofs

(***************************************************************************)
(* Where a call may be: one that waits for its cleanup is settled, and a   *)
(* resolver that was called is no longer queued.                           *)
(***************************************************************************)
CallInv ==
    \A p \in Tasks :
        /\ pc[p] \in {"idle", "entering"} => ~On(waiters, p)
        /\ pc[p] = "leaving" => promise[p] # "pending"
        /\ promise[p] = "resolved" => ~On(waiters, p)

(***************************************************************************)
(* Why a task may wait beside a raised signal: the run of the handler has  *)
(* not looked yet, or another one is requested.                            *)
(***************************************************************************)
RunInv ==
    /\ queued => run # "none"
    /\ signaled => \/ run = "locking"
                   \/ queued
                   \/ \A p \in Tasks : ~(On(waiters, p) /\ promise[p] = "pending")

(***************************************************************************)
(* What the history says of the queue: whoever is ahead of p waits, and    *)
(* its resolver comes before p's.                                          *)
(***************************************************************************)
AheadInv ==
    \A p, q \in Tasks : q \in ahead[p] =>
        /\ On(waiters, p)
        /\ On(waiters, q) /\ promise[q] = "pending"
        /\ q # p /\ Before(waiters, q, p)

IInv ==
    /\ TypeOK
    /\ CallInv
    /\ RunInv
    /\ AheadInv
    /\ OneWaiterPerSignal

-----------------------------------------------------------------------------
\* The invariant holds at the start, of either mode.
LEMMA InitIInv == Init => IInv
<1> SUFFICES ASSUME Init PROVE IInv
  OBVIOUS
<1>0. /\ waiters \in Seq(Tasks) /\ Len(waiters) = 0
      /\ \A p : ~On(waiters, p) /\ ~Contains(waiters, p)
  BY EmptySeq DEF Init, On, Contains
<1>1. TypeOK
  <2>1. Distinct(waiters)
    BY <1>0 DEF Distinct
  <2>2. pc \in [Tasks -> PC] /\ ahead \in [Tasks -> SUBSET Tasks]
    BY DEF Init, PC
  <2>3. signals \in 0..MaxSignals
    BY SignalAssumption DEF Init
  <2> QED
    BY <1>0, <2>1, <2>2, <2>3 DEF Init, TypeOK
<1>2. CallInv /\ AheadInv
  BY <1>0 DEF Init, CallInv, AheadInv
<1>3. RunInv
  BY <1>0 DEF Init, RunInv
<1>4. OneWaiterPerSignal
  BY DEF Init, OneWaiterPerSignal
<1> QED
  BY <1>1, <1>2, <1>3, <1>4 DEF IInv

(***************************************************************************)
(* A request of a run (serialize-queue-next.ts).                           *)
(***************************************************************************)
LEMMA RequestFacts ==
    ASSUME TypeOK, RequestRun
    PROVE  /\ run' \in {"none", "locking", "handled", "resolved"} /\ queued' \in BOOLEAN
           /\ run' = "locking" \/ queued'
           /\ queued' => run' # "none"
BY DEF TypeOK, RequestRun

(***************************************************************************)
(* signal() and reset() (signal.ts:77, 91).                                *)
(***************************************************************************)
LEMMA RaiseStep ==
    ASSUME IInv, Raise \/ Reset
    PROVE  IInv'
<1> USE DEF IInv
<1>1. CASE Raise
  <2>1. TypeOK'
    BY <1>1, RequestFacts, SignalAssumption DEF Raise, TypeOK
  <2>2. CallInv' /\ AheadInv'
    BY <1>1 DEF Raise, CallInv, AheadInv
  <2>3. RunInv'
    BY <1>1, RequestFacts DEF Raise, RunInv
  <2>4. OneWaiterPerSignal'
    BY <1>1 DEF Raise, OneWaiterPerSignal, TypeOK
  <2> QED
    BY <2>1, <2>2, <2>3, <2>4
<1>2. CASE Reset
  <2>1. TypeOK'
    BY <1>2 DEF Reset, TypeOK
  <2>2. CallInv' /\ AheadInv' /\ RunInv'
    BY <1>2 DEF Reset, CallInv, AheadInv, RunInv
  <2>3. OneWaiterPerSignal'
    BY <1>2 DEF Reset, OneWaiterPerSignal, TypeOK
  <2> QED
    BY <2>1, <2>2, <2>3
<1> QED
  BY <1>1, <1>2

(***************************************************************************)
(* wait() comes to the queue, behind all that wait (signal.ts:136).        *)
(***************************************************************************)
LEMMA EnterStep ==
    ASSUME IInv, NEW p \in Tasks, WaitEnters(p)
    PROVE  IInv'
<1> USE DEF IInv
<1>1. /\ waiters \in Seq(Tasks) /\ Distinct(waiters) /\ ~On(waiters, p)
      /\ pc \in [Tasks -> PC] /\ pc[p] = "entering"
      /\ ahead \in [Tasks -> SUBSET Tasks]
      /\ promise \in [Tasks -> {"pending", "resolved", "rejected"}] /\ promise' = promise
      /\ waiters' = Append(waiters, p)
      /\ ahead' = [ahead EXCEPT ![p] = {q \in Tasks : Waiting(q)}]
      /\ promise[p] \in {"pending", "rejected"}
  BY DEF WaitEnters, TypeOK, CallInv
<1>2. /\ waiters' \in Seq(Tasks) /\ Distinct(waiters')
      /\ \A q : On(waiters', q) <=> On(waiters, q) \/ q = p
      /\ \A q : q # p => Before(waiters', q, p)
      /\ \A a, b : Before(waiters, a, b) /\ a # p => Before(waiters', a, b)
  BY <1>1, PushFacts
<1>3. /\ pc' \in [Tasks -> PC]
      /\ \A q \in Tasks \ {p} : pc'[q] = pc[q]
      /\ pc'[p] \in {"current", "next", "leaving"}
      /\ pc'[p] = "leaving" => promise[p] # "pending"
  BY <1>1 DEF WaitEnters, PC
<1>4. /\ ahead'[p] = {q \in Tasks : Waiting(q)}
      /\ \A q \in Tasks \ {p} : ahead'[q] = ahead[q]
      /\ ahead' \in [Tasks -> SUBSET Tasks]
  BY <1>1
<1>5. /\ run' \in {"none", "locking", "handled", "resolved"} /\ queued' \in BOOLEAN
      /\ queued' => run' # "none"
      /\ \/ run' = "locking" \/ queued'
         \/ promise[p] = "rejected" /\ UNCHANGED <<run, queued>>
  BY RequestFacts DEF WaitEnters, TypeOK, RunInv
<1>6. TypeOK'
  <2>1. \A q \in Tasks : pc'[q] \in {"idle", "entering"} => ~Contains(waiters', q)
    BY <1>2, <1>3, ContainsIsOn DEF CallInv
  <2> QED
    BY <1>1, <1>2, <1>3, <1>4, <1>5, <2>1 DEF WaitEnters, TypeOK
<1>7. CallInv'
  BY <1>1, <1>2, <1>3 DEF CallInv
<1>8. RunInv'
  BY <1>1, <1>2, <1>5 DEF RunInv, WaitEnters
<1>9. AheadInv'
  <2> SUFFICES ASSUME NEW r \in Tasks, NEW q \in Tasks, q \in ahead'[r]
               PROVE  /\ On(waiters', r)
                      /\ On(waiters', q) /\ promise'[q] = "pending"
                      /\ q # r /\ Before(waiters', q, r)
    BY DEF AheadInv
  <2>1. CASE r = p
    <3>1. On(waiters, q) /\ promise[q] = "pending"
      BY <1>4, <2>1, ContainsIsOn DEF Waiting
    <3> QED
      BY <1>1, <1>2, <2>1, <3>1
  <2>2. CASE r # p
    <3>1. q \in ahead[r]
      BY <1>4, <2>2
    <3> QED
      BY <1>1, <1>2, <3>1 DEF AheadInv
  <2> QED
    BY <2>1, <2>2
<1>10. OneWaiterPerSignal'
  BY DEF OneWaiterPerSignal, WaitEnters
<1> QED
  BY <1>6, <1>7, <1>8, <1>9, <1>10

(***************************************************************************)
(* Its signal aborts (signal.ts:124).                                      *)
(***************************************************************************)
LEMMA AbortStep ==
    ASSUME IInv, NEW p \in Tasks, Abort(p)
    PROVE  IInv'
<1> USE DEF IInv
<1>1. /\ promise \in [Tasks -> {"pending", "resolved", "rejected"}]
      /\ ahead \in [Tasks -> SUBSET Tasks]
      /\ promise'[p] = "rejected" /\ promise[p] = "pending"
      /\ \A q \in Tasks \ {p} : promise'[q] = promise[q]
      /\ \A q \in Tasks : ahead'[q] = ahead[q] \ {p}
      /\ promise' \in [Tasks -> {"pending", "resolved", "rejected"}]
      /\ ahead' \in [Tasks -> SUBSET Tasks]
      /\ UNCHANGED <<autoReset, signaled, waiters, pc, run, queued, signals, released>>
  BY DEF Abort, TypeOK
<1>2. TypeOK'
  BY <1>1 DEF TypeOK
<1>3. CallInv' /\ RunInv' /\ OneWaiterPerSignal'
  BY <1>1 DEF CallInv, RunInv, OneWaiterPerSignal
<1>4. AheadInv'
  BY <1>1 DEF AheadInv
<1> QED
  BY <1>2, <1>3, <1>4

(***************************************************************************)
(* It settles, and then its resolver leaves the queue (signal.ts:149).     *)
(***************************************************************************)
LEMMA LeaveStep ==
    ASSUME IInv, NEW p \in Tasks, WaitReturns(p)
    PROVE  IInv'
<1> USE DEF IInv
<1>1. /\ waiters \in Seq(Tasks) /\ Distinct(waiters)
      /\ pc \in [Tasks -> PC] /\ pc[p] = "leaving" /\ promise[p] # "pending"
      /\ promise \in [Tasks -> {"pending", "resolved", "rejected"}]
      /\ ahead \in [Tasks -> SUBSET Tasks]
  BY DEF WaitReturns, TypeOK, CallInv
<1>2. /\ waiters' \in Seq(Tasks) /\ Distinct(waiters')
      /\ \A q : On(waiters', q) <=> On(waiters, q) /\ q # p
      /\ \A a, b : Before(waiters, a, b) => Before(waiters', a, b)
  BY <1>1, RemoveSafeFacts DEF WaitReturns
<1>3. /\ pc' \in [Tasks -> PC] /\ pc'[p] = "idle"
      /\ promise' \in [Tasks -> {"pending", "resolved", "rejected"}]
      /\ promise'[p] = "pending"
      /\ ahead' \in [Tasks -> SUBSET Tasks] /\ ahead'[p] = {}
      /\ \A q \in Tasks \ {p} : /\ pc'[q] = pc[q] /\ promise'[q] = promise[q]
                                /\ ahead'[q] = ahead[q]
      /\ UNCHANGED <<autoReset, signaled, run, queued, signals, released>>
  BY <1>1 DEF WaitReturns, PC
<1>4. TypeOK'
  BY <1>2, <1>3, ContainsIsOn DEF TypeOK
<1>5. CallInv' /\ RunInv' /\ OneWaiterPerSignal'
  BY <1>2, <1>3 DEF CallInv, RunInv, OneWaiterPerSignal
<1>6. AheadInv'
  BY <1>1, <1>2, <1>3 DEF AheadInv
<1> QED
  BY <1>4, <1>5, <1>6

(***************************************************************************)
(* What handleWaiters takes off the queue (signal.ts:164).                 *)
(***************************************************************************)
LEMMA HandleFacts ==
    ASSUME IInv, HandleWaiters
    PROVE  \E n \in 0..Len(waiters) : \E served \in Seq(Tasks) :
             /\ served = SubSeq(waiters, 1, n)
             /\ waiters' = SubSeq(waiters, n + 1, Len(waiters))
             /\ Release(served)
             /\ signaled' = (signaled /\ ~(autoReset /\ n > 0))
             /\ ~signaled => n = 0
             /\ autoReset => n <= 1
             /\ signaled' => n = Len(waiters)
             /\ waiters = <<>> => n = 0
<1> DEFINE n == IF ~signaled \/ waiters = <<>> THEN 0
                ELSE IF autoReset THEN 1 ELSE Len(waiters)
<1>1. waiters \in Seq(Tasks) /\ Len(waiters) \in Nat /\ (waiters # <<>> => Len(waiters) > 0)
      /\ Len(<<>>) = 0 /\ autoReset \in BOOLEAN /\ signaled \in BOOLEAN
  BY SignalAssumption DEF IInv, TypeOK
<1>2. n \in 0..Len(waiters)
  BY <1>1
<1>3. /\ ~signaled => n = 0
      /\ autoReset => n <= 1
      /\ waiters = <<>> => n = 0
      /\ signaled /\ ~(autoReset /\ n > 0) => n = Len(waiters)
  BY <1>1
<1>4. /\ waiters' = SubSeq(waiters, n + 1, Len(waiters))
      /\ Release(SubSeq(waiters, 1, n))
      /\ signaled' = (signaled /\ ~(autoReset /\ n > 0))
  BY DEF HandleWaiters
<1> HIDE DEF n
<1>5. SubSeq(waiters, 1, n) \in Seq(Tasks)
  BY <1>1, <1>2
<1> QED
  BY <1>2, <1>3, <1>4, <1>5

(***************************************************************************)
(* One task at most takes a signal that resets itself, all take one that   *)
(* does not, and whoever is taken has nobody that waits before it.         *)
(***************************************************************************)
LEMMA HandleStep ==
    ASSUME IInv, HandleWaiters
    PROVE  IInv'
<1> USE DEF IInv
<1> PICK n \in 0..Len(waiters), served \in Seq(Tasks) :
           /\ served = SubSeq(waiters, 1, n)
           /\ waiters' = SubSeq(waiters, n + 1, Len(waiters))
           /\ Release(served)
           /\ signaled' = (signaled /\ ~(autoReset /\ n > 0))
           /\ ~signaled => n = 0
           /\ autoReset => n <= 1
           /\ signaled' => n = Len(waiters)
           /\ waiters = <<>> => n = 0
  BY HandleFacts
<1>1. /\ waiters \in Seq(Tasks) /\ Distinct(waiters)
      /\ promise \in [Tasks -> {"pending", "resolved", "rejected"}]
      /\ ahead \in [Tasks -> SUBSET Tasks]
      /\ released \in Nat /\ signals \in Nat
      /\ autoReset \in BOOLEAN /\ signaled \in BOOLEAN
  BY SignalAssumption DEF TypeOK
<1>2. /\ Len(served) = n
      /\ waiters' \in Seq(Tasks) /\ Distinct(waiters')
      /\ \A q : On(waiters, q) <=> On(served, q) \/ On(waiters', q)
      /\ \A q : ~(On(served, q) /\ On(waiters', q))
      /\ \A a, b : Before(waiters, a, b) => Before(waiters', a, b)
      /\ \A a, b : Before(waiters, a, b) /\ On(waiters, a) /\ On(served, b) => On(served, a)
  BY <1>1, SplitFacts
<1>3. /\ \A q \in Tasks : promise'[q] = IF On(served, q) /\ promise[q] = "pending"
                                        THEN "resolved" ELSE promise[q]
      /\ promise' \in [Tasks -> {"pending", "resolved", "rejected"}]
  BY <1>1, ContainsIsOn DEF Release
<1>4. /\ \A q \in Tasks : ahead'[q] = ahead[q] \ ToSet(served)
      /\ ahead' \in [Tasks -> SUBSET Tasks]
      /\ \A q : q \in ToSet(served) <=> On(served, q)
  <2>1. \A q : q \in ToSet(served) <=> On(served, q)
    BY ItemsFacts, Zenon
  <2> QED
    BY <1>1, <2>1 DEF Release
<1>5. released' \in Nat /\ released' = released + (IF autoReset THEN n ELSE 0)
  BY <1>1, <1>2 DEF Release
<1>6. run' = "handled" /\ UNCHANGED <<autoReset, pc, queued, signals>>
  BY DEF HandleWaiters
<1>7. TypeOK'
  <2>1. \A q \in Tasks : pc'[q] \in {"idle", "entering"} => ~Contains(waiters', q)
    BY <1>2, <1>6, ContainsIsOn DEF CallInv
  <2>2. signaled' \in BOOLEAN
    BY <1>1
  <2> QED
    BY <1>2, <1>3, <1>4, <1>5, <1>6, <2>1, <2>2 DEF TypeOK
<1>8. CallInv'
  BY <1>2, <1>3, <1>6 DEF CallInv
<1>9. RunInv'
  <2>1. ASSUME signaled', NEW q PROVE ~On(waiters', q)
    <3>1. Len(waiters') = 0
      BY <1>1, <2>1
    <3> QED
      BY <3>1 DEF On
  <2> QED
    BY <1>6, <2>1 DEF RunInv
<1>10. AheadInv'
  <2> SUFFICES ASSUME NEW r \in Tasks, NEW q \in Tasks, q \in ahead'[r]
               PROVE  /\ On(waiters', r)
                      /\ On(waiters', q) /\ promise'[q] = "pending"
                      /\ q # r /\ Before(waiters', q, r)
    BY DEF AheadInv
  <2>1. q \in ahead[r] /\ ~On(served, q)
    BY <1>4
  <2>2. /\ On(waiters, r) /\ On(waiters, q) /\ promise[q] = "pending"
        /\ q # r /\ Before(waiters, q, r)
    BY <2>1 DEF AheadInv
  <2> QED
    BY <1>2, <1>3, <2>1, <2>2
<1>11. OneWaiterPerSignal'
  <2> SUFFICES ASSUME autoReset PROVE released' + (IF signaled' THEN 1 ELSE 0) <= signals
    BY <1>6 DEF OneWaiterPerSignal
  <2>1. released + (IF signaled THEN 1 ELSE 0) <= signals /\ released' = released + n
    BY <1>5 DEF OneWaiterPerSignal
  <2>2. CASE n = 0
    BY <1>1, <2>1, <2>2
  <2>3. CASE n = 1
    <3>1. signaled
      BY <2>3
    <3>2. n > 0
      BY <2>3
    <3>3. ~signaled'
      BY <3>2, Zenon
    <3> QED
      BY <1>1, <2>1, <2>3, <3>1, <3>3
  <2> QED
    BY <2>2, <2>3
<1> QED
  BY <1>7, <1>8, <1>9, <1>10, <1>11

\* The invariant is inductive, each action by the lemma about it.
LEMMA NextIInv == IInv /\ [Next]_vars => IInv'
<1> SUFFICES ASSUME IInv, [Next]_vars PROVE IInv'
  OBVIOUS
<1>1. ASSUME NEW p \in Tasks, Wait(p) \/ WaitSettles(p)
      PROVE  IInv'
  <2>1. /\ pc' \in [Tasks -> PC]
        /\ \A q \in Tasks \ {p} : pc'[q] = pc[q]
        /\ \/ pc[p] = "idle" /\ pc'[p] = "entering"
           \/ pc[p] = "deferred" /\ pc'[p] = "leaving" /\ promise[p] # "pending"
        /\ UNCHANGED <<autoReset, signaled, waiters, promise, run, queued, signals,
                       released, ahead>>
    BY <1>1 DEF Wait, WaitSettles, IInv, TypeOK, PC
  <2> QED
    BY <2>1, ContainsIsOn DEF IInv, TypeOK, CallInv, RunInv, AheadInv, OneWaiterPerSignal
<1>2. CASE RunResolves \/ RunEnds
  <2>1. /\ pc' \in [Tasks -> PC]
        /\ \A q \in Tasks : /\ pc'[q] \in {"idle", "entering", "leaving"} => pc'[q] = pc[q]
        /\ UNCHANGED <<autoReset, signaled, waiters, promise, signals, released, ahead>>
    BY <1>2 DEF RunResolves, RunEnds, IInv, TypeOK, PC
  <2>2. RunInv' /\ run' \in {"none", "locking", "handled", "resolved"} /\ queued' \in BOOLEAN
    <3>1. CASE RunResolves
      BY <3>1 DEF RunResolves, IInv, RunInv, TypeOK
    <3>2. CASE RunEnds
      BY <3>2 DEF RunEnds, IInv, RunInv, TypeOK
    <3> QED
      BY <1>2, <3>1, <3>2
  <2> QED
    BY <2>1, <2>2, ContainsIsOn DEF IInv, TypeOK, CallInv, AheadInv, OneWaiterPerSignal
<1>3. CASE UNCHANGED vars
  BY <1>3 DEF vars, signalVars, IInv, TypeOK, CallInv, RunInv, AheadInv, OneWaiterPerSignal
<1> QED
  BY <1>1, <1>2, <1>3, RaiseStep, EnterStep, AbortStep, LeaveStep, HandleStep DEF Next

(***************************************************************************)
(* The inductive invariant holds in every reachable state.                 *)
(***************************************************************************)
THEOREM Invariance == Spec => []IInv
BY InitIInv, NextIInv, PTL DEF Spec

(***************************************************************************)
(* For any number of tasks, aborts and signals: raised signals and waiters *)
(* find each other, one to one if the signal resets itself, first come     *)
(* first served (signal.ts:11, 16, 164).                                   *)
(***************************************************************************)
THEOREM AllReleased == Spec => []WaitersReleased
<1>1. IInv => NoWaitBesideSignal
  BY ContainsIsOn DEF IInv, RunInv, NoWaitBesideSignal, Waiting
<1>2. IInv => FifoRelease
  BY DEF IInv, CallInv, AheadInv, TypeOK, FifoRelease
<1>3. IInv => WaitersReleased
  BY <1>1, <1>2 DEF IInv, WaitersReleased
<1> QED
  BY <1>3, Invariance, PTL

(***************************************************************************)
(* For any number of tasks, a signal that resets itself is lost only to a  *)
(* waiter that has aborted and is still at the head of the queue           *)
(* (signal.ts:164).                                                        *)
(***************************************************************************)
THEOREM LostOnlyToAborted == Spec => SignalLostToAbortedOnly
<1> DEFINE Lost ==
      HandleWaiters /\ signaled /\ ~signaled' =>
         \/ \E p \in Tasks : promise[p] = "pending" /\ promise'[p] = "resolved"
         \/ waiters # <<>> /\ promise[Head(waiters)] = "rejected"
<1>1. ASSUME IInv, HandleWaiters, signaled, ~signaled'
      PROVE  \/ \E p \in Tasks : promise[p] = "pending" /\ promise'[p] = "resolved"
             \/ waiters # <<>> /\ promise[Head(waiters)] = "rejected"
  <2> PICK n \in 0..Len(waiters), served \in Seq(Tasks) :
             /\ served = SubSeq(waiters, 1, n)
             /\ Release(served)
             /\ signaled' = (signaled /\ ~(autoReset /\ n > 0))
             /\ autoReset => n <= 1
             /\ waiters = <<>> => n = 0
    BY <1>1, HandleFacts
  <2>1. n = 1 /\ waiters # <<>>
    <3>1. autoReset /\ n > 0
      BY <1>1, Zenon
    <3> QED
      BY <3>1
  <2> DEFINE w == Head(waiters)
  <2>2. /\ waiters \in Seq(Tasks) /\ Distinct(waiters)
        /\ promise \in [Tasks -> {"pending", "resolved", "rejected"}]
    BY <1>1 DEF IInv, TypeOK
  <2>3. w \in Tasks /\ On(waiters, w) /\ w = waiters[1]
    BY <2>1, <2>2, ShiftFacts
  <2>4. On(served, w)
    BY <2>1, <2>2, <2>3 DEF On
  <2> HIDE DEF w
  <2>5. promise[w] \in {"pending", "rejected"}
    BY <1>1, <2>2, <2>3 DEF IInv, CallInv
  <2>6. promise[w] = "pending" => promise'[w] = "resolved"
    BY <2>3, <2>4, ContainsIsOn DEF Release
  <2> QED
    BY <2>1, <2>3, <2>5, <2>6 DEF w
<1>2. IInv /\ [Next]_vars => [Lost]_vars
  BY <1>1
<1> QED
  BY <1>2, Invariance, PTL DEF Spec, SignalLostToAbortedOnly
=============================================================================
