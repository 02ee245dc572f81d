--------------------------------- MODULE Heaps ---------------------------------
(***************************************************************************)
(* data/binary-heap.ts on a native array, and data/priority-queue.ts on    *)
(* top of it: an element is a pair of an item and its priority, and those  *)
(* of lower numbers come first.                                            *)
(***************************************************************************)
EXTENDS DataOps, FiniteSets

CONSTANTS Item, Priority, HeapCapacity

VARIABLES
    data,        \* the array of the heap
    places,      \* the value of its semaphore
    heapCall,    \* the last call
    given,       \* the element it returned
    pending,     \* the elements of a waitInsert(), the count it read, where it is
    unordered    \* history: elements were put in and not moved up, or from elsewhere

heapVars == <<data, places, heapCall, given, pending, unordered>>

A == INSTANCE NativeArray

Element == Item \X Priority
Idle == [new |-> <<>>, count |-> 0, at |-> "idle"]

-----------------------------------------------------------------------------
\* root(), undefined if there is none.
Root == IF data = <<>> THEN <<>> ELSE <<data[1]>>

\* One item with each priority, the last one first.
Reversed ==
    LET item == CHOOSE i \in Item : TRUE
        last == CHOOSE p \in Priority : \A q \in Priority : q <= p
    IN  [i \in 1..Cardinality(Priority) |-> <<item, last + 1 - i>>]

\* The array is ordered when the heap is constructed.
HeapInit ==
    /\ \E initial \in {<<>>, Reversed} :
         /\ data = HeapifyAll(initial)
         /\ places = HeapCapacity - Len(initial)
    /\ heapCall = [op |-> "none"] /\ given = <<>>
    /\ pending = Idle
    /\ unordered = FALSE

\* An element of a waitInsert() is in the array and has not been moved up.
Placed == pending.at = "placed"

Calls(c) == heapCall' = c /\ UNCHANGED pending

\* insert(): only the first of the new elements is moved up.
Insert(new) ==
    LET outcome == A!Splice(data, places, Len(data), 0, new) IN
    /\ Calls([op |-> "insert", new |-> new])
    /\ given' = <<>>
    /\ places' = outcome.permits
    /\ data' = IF outcome.error = "none" THEN HeapifyUp(outcome.list, Len(data))
               ELSE data
    /\ unordered' = (unordered \/ (outcome.error = "none" /\ (Len(new) > 1 \/ Placed)))

\* waitInsert(): the count is read before the await, and used after it.
WaitInsert(new) ==
    /\ pending = Idle
    /\ pending' = [new |-> new, count |-> Len(data), at |-> "acquire"]
    /\ UNCHANGED <<data, places, heapCall, given, unordered>>

HeapGranted ==
    /\ pending.at = "acquire"
    /\ places >= Len(pending.new)
    /\ places' = places - Len(pending.new)
    /\ pending' = [pending EXCEPT !.at = "granted"]
    /\ UNCHANGED <<data, heapCall, given, unordered>>

\* The elements are in the array once waitSplice() settles,
WaitSpliceSettles ==
    /\ pending.at = "granted"
    /\ data' = A!SpliceSettles(data, pending.count, 0, pending.new)
    /\ unordered' = (unordered \/ Len(pending.new) > 1 \/ Len(data) # pending.count)
    /\ heapCall' = [op |-> "insert", new |-> pending.new]
    /\ given' = <<>>
    /\ pending' = [pending EXCEPT !.at = "placed"]
    /\ UNCHANGED places

\* and the first is moved up when the task goes on after it.
WaitInsertSettles ==
    /\ Placed
    /\ data' = HeapifyUp(data, pending.count)
    /\ pending' = Idle
    /\ UNCHANGED <<places, heapCall, given, unordered>>

\* extract(): the last element takes the place of the root and moves down.
Extract ==
    /\ Calls([op |-> "extract"])
    /\ given' = Root
    /\ data' = IF Len(data) <= 1 THEN <<>>
               ELSE HeapifyDown(<<Last(data)>> \o SubSeq(data, 2, Len(data) - 1), 0)
    /\ places' = places + (IF data = <<>> THEN 0 ELSE 1)
    /\ unordered' = (unordered \/ Placed)

\* Variant: the comparison with the root is the wrong way round.
InsertAndExtractLast(e) ==
    /\ Calls([op |-> "insertAndExtract", new |-> <<e>>])
    /\ IF data = <<>> \/ IsItemOrdered(data[1], e)
       THEN given' = <<e>> /\ data' = data
       ELSE given' = Root /\ data' = HeapifyDown([data EXCEPT ![1] = e], 0)
    /\ unordered' = (unordered \/ Placed)
    /\ UNCHANGED places

\* insertAndExtract(): the new element, if the heap is empty or it comes first.
InsertAndExtract(e) ==
    /\ Calls([op |-> "insertAndExtract", new |-> <<e>>])
    /\ IF data = <<>> \/ IsItemOrdered(e, data[1])
       THEN given' = <<e>> /\ data' = data
       ELSE given' = Root /\ data' = HeapifyDown([data EXCEPT ![1] = e], 0)
    /\ unordered' = (unordered \/ Placed)
    /\ UNCHANGED places

\* extractAndInsert(): set(0, item) appends to an empty array, which takes a
\* permit; the call throws if there is none.
ExtractAndInsert(e) ==
    LET outcome == A!SetItem(data, places, 0, e) IN
    /\ outcome.error = "none"
    /\ Calls([op |-> "extractAndInsert", new |-> <<e>>])
    /\ given' = Root
    /\ data' = HeapifyDown(outcome.list, 0)
    /\ places' = outcome.permits
    /\ unordered' = (unordered \/ Placed)

Peek ==
    /\ Calls([op |-> "root"])
    /\ given' = Root
    /\ UNCHANGED <<data, places, unordered>>

\* remove(), removeFirst(), replace() as setPriority() calls it: the whole
\* array is ordered again.
Rebuild(c, outcome) ==
    /\ Calls(c)
    /\ given' = <<>>
    /\ data' = HeapifyAll(outcome.list)
    /\ places' = outcome.permits
    /\ unordered' = FALSE

RemoveItems(item) ==
    Rebuild([op |-> "remove", item |-> item],
            A!RemoveItems(data, places, {item} \X Priority))
RemoveFirstItem(item) ==
    Rebuild([op |-> "removeFirst", item |-> item],
            A!RemoveFirstItem(data, places, {item} \X Priority))
SetPriority(item, priority) ==
    Rebuild([op |-> "setPriority", item |-> item, priority |-> priority],
            A!ReplaceItems(data, places, {item} \X Priority, <<item, priority>>))
Clear == Rebuild([op |-> "clear"], A!Clear(data, places))

\* insert(priority, ...items)
Batches == {[i \in DOMAIN items |-> <<items[i], p>>] :
                p \in Priority, items \in SeqOf(Item, 2) \ {<<>>}}

HeapNext ==
    \/ \E new \in Batches : Insert(new)
    \/ \E e \in Element : WaitInsert(<<e>>) \/ InsertAndExtract(e) \/ ExtractAndInsert(e)
    \/ \E item \in Item : RemoveItems(item) \/ RemoveFirstItem(item)
    \/ \E item \in Item, p \in Priority : SetPriority(item, p)
    \/ HeapGranted \/ WaitSpliceSettles \/ WaitInsertSettles
    \/ Extract \/ Peek \/ Clear

=============================================================================
