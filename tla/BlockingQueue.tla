---------------------------- MODULE BlockingQueue ----------------------------
(***************************************************************************)
(* The bounded queue of data/queue.ts: a LinkedList, the permits of whose  *)
(* Semaphore are its free places.                                          *)
(*                                                                         *)
(* waitEnqueue() computes the position of its items when it is called,     *)
(* then awaits the permits, even when they are there at once, and inserts  *)
(* at that position.  By then the list may have grown or shrunk.  What is  *)
(* lost or misplaced that way is in the history variables, so that the     *)
(* properties can say what the queue keeps all the same.                   *)
(***************************************************************************)
EXTENDS Semaphore, LinkedList

CONSTANTS
    EnqueueAbortable,   \* the tasks that give waitEnqueue() an AbortSignal
    Sizes,              \* the numbers of items a call may enqueue
    MaxItems            \* bound: the items that are ever enqueued

ASSUME QueueAssumption ==
    /\ EnqueueAbortable \subseteq Tasks
    /\ InitialValue = MaxValue       \* new Semaphore(capacity)
    /\ Sizes \subseteq 1..MaxValue
    /\ MaxItems \in Nat

VARIABLES
    data,       \* the LinkedList
    start,      \* the position each call of waitEnqueue() computed
    batch,      \* its items
    used,       \* the items used so far: items are numbered
    present,    \* history: the items that were inserted and not taken out
    before,     \* history: for each item, those that went in before the call
                \* that enqueues it began, and those ahead of it in that call
    lostPlaces, \* history: the permits taken for calls that were aborted
    upset       \* history: which of the events below took place

queueVars == <<data, start, batch, used, present, before, lostPlaces, upset>>
allVars == <<semVars, queueVars>>

Capacity == MaxValue
Numbers == 1..MaxItems
Event == {"grown", "shrunk"}

QueueInit ==
    /\ SemInit
    /\ data = EmptyList
    /\ start = [p \in Tasks |-> 0]
    /\ batch = [p \in Tasks |-> <<>>]
    /\ used = 0
    /\ present = {}
    /\ before = [i \in Numbers |-> {}]
    /\ lostPlaces = 0
    /\ upset = {}

-----------------------------------------------------------------------------
\* The next n items, and those that went in before a call that takes them.
NextItems(n) == [k \in 1..n |-> used + k]

Numbered(n) ==
    /\ used + n <= MaxItems
    /\ used' = used + n
    /\ before' = [i \in Numbers |->
                    IF i \in ToSet(NextItems(n))
                    THEN (1..(i - 1)) \ UNION {ToSet(batch[q]) : q \in Tasks}
                    ELSE before[i]]

\* The items go into the list at a position.
Insert(index, items) ==
    /\ data' = InternalSplice(data, index, 0, items)
    /\ present' = present \cup ToSet(items)
    /\ upset' = upset
         \cup (IF index < data.size THEN {"grown"} ELSE {})
         \cup (IF index > data.size /\ data.chain # <<>> THEN {"shrunk"} ELSE {})

\* enqueue(...items); it throws if the permits do not suffice.
Enqueue(n) ==
    /\ TryAcquire(n)
    /\ Numbered(n)
    /\ Insert(data.size, NextItems(n))
    /\ UNCHANGED <<start, batch, lostPlaces>>

\* waitEnqueue(items, signal) up to its await.
WaitEnqueue(p, n) ==
    /\ Numbered(n)
    /\ start' = [start EXCEPT ![p] = data.size]
    /\ batch' = [batch EXCEPT ![p] = NextItems(n)]
    /\ Acquire(p, n)
    /\ UNCHANGED <<data, present, upset>>

\* waitEnqueue() after its await: the items go where they were meant to go
\* when it was called, or the call throws.
WaitEnqueueSettles(p) ==
    /\ AcquireSettles(p)
    /\ \/ /\ Granted(p)
          /\ Insert(start[p], batch[p])
       \/ /\ ~Granted(p)
          /\ UNCHANGED <<data, present, upset>>
    /\ start' = [start EXCEPT ![p] = 0]
    /\ batch' = [batch EXCEPT ![p] = <<>>]
    /\ UNCHANGED <<used, before>>

AbortEnqueue(p) ==
    /\ p \in EnqueueAbortable
    /\ AbortAcquire(p)
    /\ UNCHANGED <<data, start, batch, used, present, before, upset>>

\* Variant: the place of the item is not given back.
DequeueKeepsPermit ==
    /\ data.chain # <<>>
    /\ data' = InternalSplice(data, 0, 1, <<>>)
    /\ present' = present \ {Head(data.chain)}
    /\ UNCHANGED <<semVars, start, batch, used, before, upset>>

\* dequeue() of a list that has nodes; of one that has none it changes nothing.
Dequeue ==
    /\ data.chain # <<>>
    /\ data' = InternalSplice(data, 0, 1, <<>>)
    /\ Release(Deleted(data, 0, 1))
    /\ present' = present \ {Head(data.chain)}
    /\ UNCHANGED <<start, batch, used, before, upset>>

ClearQueue ==
    /\ data' = EmptyList
    /\ Release(data.size)
    /\ present' = {}
    /\ UNCHANGED <<start, batch, used, before, upset>>

\* removeFirst(condition) that finds the item.
RemoveOne ==
    \E index \in DOMAIN data.chain :
        /\ data' = RemoveNodeAt(data, index)
        /\ Release(1)
        /\ present' = present \ {data.chain[index]}
        /\ UNCHANGED <<start, batch, used, before, upset>>

PlacesServed ==
    /\ RunResolves \/ RunEnds
    /\ UNCHANGED <<data, start, batch, used, present, before, upset>>

\* The history: the permits of rejected calls that the handler served.
RememberLost ==
    lostPlaces' = lostPlaces + SumOf(
        {q \in Tasks : /\ promise[q] = "rejected" /\ pc'[q] # "idle"
                       /\ Contains(pending, q) /\ ~Contains(pending', q)}, need)

QueueNext ==
    /\ \/ \E n \in Sizes : Enqueue(n)
       \/ \E p \in Tasks, n \in Sizes : WaitEnqueue(p, n)
       \/ \E p \in Tasks : WaitEnqueueSettles(p)
       \/ \E p \in Tasks : AbortEnqueue(p)
       \/ Dequeue
       \/ ClearQueue
       \/ RemoveOne
       \/ PlacesServed
    /\ RememberLost

\* The event loop runs the continuations, and somebody dequeues.
QueueFairness ==
    /\ WF_allVars(PlacesServed /\ RememberLost)
    /\ WF_allVars(Dequeue /\ RememberLost)
    /\ \A p \in Tasks : WF_allVars(WaitEnqueueSettles(p) /\ RememberLost)

QueueSpec == QueueInit /\ [][QueueNext]_allVars
QueueFairSpec == QueueSpec /\ QueueFairness

-----------------------------------------------------------------------------
\* The count stays within the capacity, and the chain holds an item once.
QueueTypeOK ==
    /\ SemTypeOK
    /\ data.size \in 0..Capacity
    /\ data.chain \in Seq(Numbers)
    /\ Distinct(data.chain)
    /\ start \in [Tasks -> 0..Capacity]
    /\ batch \in [Tasks -> Seq(Numbers)]
    /\ used \in 0..MaxItems
    /\ present \subseteq Numbers
    /\ before \in [Numbers -> SUBSET Numbers]
    /\ lostPlaces \in Nat
    /\ upset \subseteq Event

(***************************************************************************)
(* A place of the queue is free, taken by an item, promised to a call that *)
(* has not inserted its items yet, or lost to a call that was aborted:     *)
(* whatever calls are under way, the list never exceeds its capacity and   *)
(* the count never goes wrong (linked-list.ts:201, 245, 322).              *)
(***************************************************************************)
PlacesConserved ==
    Capacity = value + data.size + lostPlaces + SumOf({p \in Tasks : Granted(p)}, need)

(***************************************************************************)
(* An item that was enqueued stays in the queue until it is taken out.     *)
(***************************************************************************)
ItemsKept == present = ToSet(data.chain) /\ WellFormed(data)

(***************************************************************************)
(* The code keeps this unless waitEnqueue() inserts at a position that the *)
(* list, which has shrunk meanwhile, no longer has, and items are in it.   *)
(***************************************************************************)
LossNeedsShrink == "shrunk" \notin upset => ItemsKept

(***************************************************************************)
(* "The first item added to the queue is the first one to be removed": an  *)
(* item that was in when the call that enqueued another one began is not   *)
(* behind it, nor is one that comes earlier in the same call.  The code    *)
(* keeps this unless waitEnqueue() inserts at a position computed when the *)
(* list was shorter (iqueue.ts:8, queue.ts:19).                            *)
(***************************************************************************)
FifoOrder ==
    "grown" \notin upset =>
        \A a, b \in DOMAIN data.chain :
            a < b => data.chain[b] \notin before[data.chain[a]]

(***************************************************************************)
(* While somebody dequeues, a call of waitEnqueue() returns, provided none *)
(* is aborted and no item is lost (each takes a place away for ever).      *)
(***************************************************************************)
EveryEnqueueReturns ==
    [](lostPlaces = 0 /\ "shrunk" \notin upset)
    => \A p \in Tasks : pc[p] # "idle" ~> pc[p] = "idle"

(***************************************************************************)
(* The queue holds what was enqueued and not taken out, in order, in the   *)
(* places it has, whatever calls wait while others change the list; the    *)
(* two exceptions need a list that changed under a waiting call            *)
(* (queue.ts:19, linked-list.ts:201).                                      *)
(***************************************************************************)
QueueKeepsItems ==
    /\ QueueTypeOK
    /\ PlacesConserved
    /\ LossNeedsShrink
    /\ FifoOrder
=============================================================================
