------------------------------- MODULE Counter -------------------------------
(***************************************************************************)
(* The counter of async/synchro/counter.ts and the two classes that own    *)
(* one: Latch (latch.ts), which counts it down to zero and waits for zero, *)
(* and Barrier (barrier.ts), which counts arrivals up to the number of     *)
(* participants and sets it back.  "owner" says whose counter it is; only  *)
(* that class calls it.                                                    *)
(*                                                                         *)
(* A wait() whose target is the value returns at once and changes nothing. *)
(* The resolver of one that waits stays on the list until its continuation *)
(* has run.                                                                *)
(***************************************************************************)
EXTENDS EcmaArray, Integers, FiniteSetsExt

CONSTANTS
    Tasks,
    Abortable,      \* the tasks that give wait() an AbortSignal
    Owners,         \* the counter belongs to one of these
    Count,          \* the argument of Latch and Barrier
    Values          \* bound: the values of a counter without owner

ASSUME CounterAssumption ==
    /\ Abortable \subseteq Tasks
    /\ Owners \subseteq {"counter", "latch", "barrier"}
    /\ Count \in Nat \ {0}
    /\ Values \subseteq Int /\ 0 \in Values

VARIABLES
    owner,
    value,      \* the field value_
    waiters,    \* the tasks whose resolvers are on the list
    target,     \* the value each of them waits for
    promise,    \* its promise: "none", "pending", "resolved" or "rejected"
    absent      \* history: the arrivals at the barrier that were aborted
                \* before it opened

vars == <<owner, value, waiters, target, promise, absent>>

Pending == {p \in Tasks : promise[p] = "pending"}

Init ==
    /\ owner \in Owners
    /\ value = IF owner = "latch" THEN Count ELSE 0
    /\ waiters = <<>>
    /\ target = [p \in Tasks |-> 0]
    /\ promise = [p \in Tasks |-> "none"]
    /\ absent = 0

-----------------------------------------------------------------------------
\* Variant: a waiter that comes after one that is released is skipped (the
\* list is not copied before it is walked).
HandleWaitersFirstOnly(v) ==
    LET hits == SelectSeq(waiters, LAMBDA p : target[p] = v) IN
    promise' = [p \in Tasks |->
        IF hits # <<>> /\ p = Head(hits) /\ promise[p] = "pending"
        THEN "resolved" ELSE promise[p]]

\* handleWaiters(v): who waits for v is released.
HandleWaiters(v) ==
    promise' = [p \in Tasks |->
        IF Contains(waiters, p) /\ target[p] = v /\ promise[p] = "pending"
        THEN "resolved" ELSE promise[p]]

\* increment() and decrement(), and reset(), of a counter without owner.
Step(v) ==
    /\ owner = "counter" /\ v \in Values
    /\ v \in {value + 1, value - 1, 0}
    /\ value' = v
    /\ HandleWaiters(v)
    /\ UNCHANGED <<owner, waiters, target, absent>>

\* wait(t) up to its await.
WaitFor(p, t) ==
    /\ promise[p] = "none" /\ value # t
    /\ waiters' = Append(waiters, p)
    /\ target' = [target EXCEPT ![p] = t]
    /\ promise' = [promise EXCEPT ![p] = "pending"]

Wait(p, t) ==
    /\ owner = "counter" \/ (owner = "latch" /\ t = 0)
    /\ WaitFor(p, t)
    /\ UNCHANGED <<owner, value, absent>>

\* The signal of a call aborts: handleAbort rejects its promise.
Abort(p) ==
    /\ p \in Abortable
    /\ promise[p] = "pending"
    /\ promise' = [promise EXCEPT ![p] = "rejected"]
    /\ absent' = IF owner = "barrier" THEN absent + 1 ELSE absent
    /\ UNCHANGED <<owner, value, waiters, target>>

\* wait() after its await: the finally block, and the return or the throw.
WaitReturns(p) ==
    /\ promise[p] \in {"resolved", "rejected"}
    /\ waiters' = RemoveSafe(waiters, p)
    /\ promise' = [promise EXCEPT ![p] = "none"]
    /\ target' = [target EXCEPT ![p] = 0]
    /\ UNCHANGED <<owner, value, absent>>

-----------------------------------------------------------------------------
\* Latch.countDown(); of a latch that is released it changes nothing.
CountDown ==
    /\ owner = "latch" /\ value # 0
    /\ value' = value - 1
    /\ HandleWaiters(value - 1)
    /\ UNCHANGED <<owner, waiters, target, absent>>

\* Barrier.wait() that is not the last of its round, up to its await.
Arrive(p) ==
    /\ owner = "barrier" /\ value + 1 # Count
    /\ value' = value + 1
    /\ WaitFor(p, Count)
    /\ UNCHANGED <<owner, absent>>

\* Variant: the barrier does not set its counter back.
OpenOnce(p) ==
    /\ owner = "barrier" /\ value + 1 = Count /\ promise[p] = "none"
    /\ value' = value + 1
    /\ HandleWaiters(Count)
    /\ absent' = 0
    /\ UNCHANGED <<owner, waiters, target>>

\* The last one: increment() releases the others, and the counter is reset.
Open(p) ==
    /\ owner = "barrier" /\ value + 1 = Count /\ promise[p] = "none"
    /\ value' = 0
    /\ HandleWaiters(Count)
    /\ absent' = 0
    /\ UNCHANGED <<owner, waiters, target>>

Next ==
    \/ \E v \in Values : Step(v)
    \/ \E p \in Tasks, t \in Values : Wait(p, t)
    \/ \E p \in Tasks : Abort(p)
    \/ \E p \in Tasks : WaitReturns(p)
    \/ CountDown
    \/ \E p \in Tasks : Arrive(p)
    \/ \E p \in Tasks : Open(p)

Spec == Init /\ [][Next]_vars

-----------------------------------------------------------------------------
\* A resolver is on the list once, and as long as its call is under way.
TypeOK ==
    /\ owner \in Owners
    /\ value \in Int
    /\ waiters \in Seq(Tasks)
    /\ Distinct(waiters)
    /\ target \in [Tasks -> Int]
    /\ promise \in [Tasks -> {"none", "pending", "resolved", "rejected"}]
    /\ \A p \in Tasks : Contains(waiters, p) <=> promise[p] # "none"
    /\ absent \in Nat

(***************************************************************************)
(* Nobody waits for the value that the counter has: between the test of a  *)
(* wait() and its await, and in the middle of a round of releases, no      *)
(* change of the counter is missed (counter.ts:80, 92, 106).               *)
(***************************************************************************)
NoWaiterAtTarget == \A p \in Pending : value # target[p]

(***************************************************************************)
(* The barrier's counter is the number of its waiters in this round, those *)
(* that were aborted included: nobody of an earlier round is among them,   *)
(* and nobody of this one is left out (barrier.ts:49, 54).                 *)
(***************************************************************************)
BarrierCountsItsRound ==
    owner = "barrier" =>
        /\ value = Cardinality(Pending) + absent
        /\ value < Count

(***************************************************************************)
(* "After the required number of tasks have called `wait()`, all waiting   *)
(* tasks are released": the step that opens the barrier leaves nobody      *)
(* waiting, and every call of the round was counted (barrier.ts:9, 49).    *)
(***************************************************************************)
BarrierOpensForAll ==
    [][owner = "barrier" /\ value' < value
         => Pending' = {} /\ Cardinality(Pending) + absent + 1 = Count]_vars

\* For TLC: values of a counter on both sides of 0.
Numbers == -1..1
=============================================================================
