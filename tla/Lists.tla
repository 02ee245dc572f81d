--------------------------------- MODULE Lists ---------------------------------
(***************************************************************************)
(* The three lists of data/ under the calls of data/ilist.ts, and the      *)
(* deque and the stack that are built on two of them.  A call that waits   *)
(* computes its position, awaits the permits it needs and goes on with     *)
(* that position whatever has become of the list.                          *)
(***************************************************************************)
EXTENDS Integers, Sequences, FiniteSets, SequencesExt

CONSTANTS
    Value,      \* the items
    Capacity,   \* the capacity of the list
    MaxNodes,   \* bound: the nodes of a doubly linked list
    MaxBatch    \* bound: the items that one call inserts

VARIABLES
    kind,       \* the class of the list
    list,       \* its data
    items,      \* what iterating over it gives
    permits,    \* the value of its semaphore
    call,       \* the last call
    returned,   \* the items it returned
    error,      \* the error it threw, or "none"
    waiting,    \* the call that waits for permits, with what it computed
    reserved,   \* the permits it has
    upset       \* history: a call that waited went wrong

listVars ==
    <<kind, list, items, permits, call, returned, error, waiting, reserved, upset>>

L == INSTANCE LinkedList
D == INSTANCE DoublyLinkedList
A == INSTANCE NativeArray

Kinds == {"LinkedList", "DoublyLinkedList", "NativeArray", "Deque", "Stack"}
Linked == kind \in {"LinkedList", "Deque"}
Doubly == kind = "DoublyLinkedList"

\* The iterators of the three classes.
Iterated(l) ==
    CASE Linked -> L!Items(l)
      [] Doubly -> D!Items(l)
      [] OTHER -> A!Items(l)

NoCall == [op |-> "none"]
Index == -(Capacity + 1)..(Capacity + 1)
Batch == SeqOf(Value, MaxBatch)

Calls ==
    [op : {"clear"}]
    \cup [op : {"get"}, at : Index]
    \cup [op : {"set"}, at : Index, item : Value]
    \cup [op : {"splice"}, at : Index, count : {-1, 0, 1, Capacity + 1}, new : Batch]
    \cup [op : {"slice"}, at : Index, end : {-1, 1, 2, Capacity + 1}]
    \cup [op : {"concat", "push"}, new : Batch]
    \cup [op : {"removeFirst", "remove"}, condition : SUBSET Value]
    \cup [op : {"replaceFirst", "replace"}, condition : SUBSET Value, item : Value]
    \cup [op : {"pop", "back"}]
DequeCalls == [op : {"unshift"}, new : Batch] \cup [op : {"shift", "front"}]

-----------------------------------------------------------------------------
\* The calls of Deque and Stack; they catch the error of a list without items.
Caught(outcome) ==
    IF outcome.error = "bounds" THEN [outcome EXCEPT !.error = "none"] ELSE outcome

Unshift(new) == L!Splice(list, permits, 0, 0, new)
Push(new) == L!Splice(list, permits, list.size, 0, new)
Shift == Caught(L!Splice(list, permits, 0, 1, <<>>))
Pop == Caught(L!Splice(list, permits, -1, 1, <<>>))
DequeFront == L!Get(list, permits, 0)
DequeBack == L!Get(list, permits, -1)
StackPush(new) == A!Splice(list, permits, Len(list), 0, new)
StackPop == Caught(A!Splice(list, permits, -1, 1, <<>>))
StackTop == A!Get(list, permits, -1)

LinkedCall(c) ==
    CASE c.op = "clear"        -> L!Clear(list, permits)
      [] c.op = "get"          -> L!Get(list, permits, c.at)
      [] c.op = "set"          -> L!SetItem(list, permits, c.at, c.item)
      [] c.op = "splice"       -> L!Splice(list, permits, c.at, c.count, c.new)
      [] c.op = "slice"        -> L!SliceItems(list, permits, c.at, c.end)
      [] c.op = "concat"       -> L!Outcome(list, permits, items \o c.new)
      [] c.op = "removeFirst"  -> L!RemoveFirstItem(list, permits, c.condition)
      [] c.op = "remove"       -> L!RemoveItems(list, permits, c.condition)
      [] c.op = "replaceFirst" -> L!ReplaceFirstItem(list, permits, c.condition, c.item)
      [] c.op = "replace"      -> L!ReplaceItems(list, permits, c.condition, c.item)
      [] c.op = "unshift"      -> Unshift(c.new)
      [] c.op = "push"         -> Push(c.new)
      [] c.op = "shift"        -> Shift
      [] c.op = "pop"          -> Pop
      [] c.op = "front"        -> DequeFront
      [] c.op = "back"         -> DequeBack

DoublyCall(c) ==
    CASE c.op = "clear"        -> D!Clear(list, permits)
      [] c.op = "get"          -> D!Get(list, permits, c.at)
      [] c.op = "set"          -> D!SetItem(list, permits, c.at, c.item)
      [] c.op = "splice"       -> D!Splice(list, permits, c.at, c.count, c.new)
      [] c.op = "slice"        -> D!SliceItems(list, permits, c.at, c.end)
      [] c.op = "concat"       -> D!Outcome(list, permits, items \o c.new)
      [] c.op = "removeFirst"  -> D!RemoveFirstItem(list, permits, c.condition)
      [] c.op = "remove"       -> D!RemoveItems(list, permits, c.condition)
      [] c.op = "replaceFirst" -> D!ReplaceFirstItem(list, permits, c.condition, c.item)
      [] c.op = "replace"      -> D!ReplaceItems(list, permits, c.condition, c.item)

ArrayCall(c) ==
    CASE c.op = "clear"        -> A!Clear(list, permits)
      [] c.op = "get"          -> A!Get(list, permits, c.at)
      [] c.op = "set"          -> A!SetItem(list, permits, c.at, c.item)
      [] c.op = "splice"       -> A!Splice(list, permits, c.at, c.count, c.new)
      [] c.op = "slice"        -> A!SliceItems(list, permits, c.at, c.end)
      [] c.op = "concat"       -> A!Outcome(list, permits, items \o c.new)
      [] c.op = "removeFirst"  -> A!RemoveFirstItem(list, permits, c.condition)
      [] c.op = "remove"       -> A!RemoveItems(list, permits, c.condition)
      [] c.op = "replaceFirst" -> A!ReplaceFirstItem(list, permits, c.condition, c.item)
      [] c.op = "replace"      -> A!ReplaceItems(list, permits, c.condition, c.item)
      [] c.op = "push"         -> StackPush(c.new)
      [] c.op = "pop"          -> StackPop
      [] c.op = "back"         -> StackTop

\* The calls of each class.
Indexed == {"get", "set", "splice", "slice"}
Offered(c) ==
    CASE kind = "Deque" -> c.op \notin Indexed
      [] kind = "Stack" -> c.op \notin Indexed \cup {"unshift", "shift", "front"}
      [] OTHER -> c.op \notin {"unshift", "push", "shift", "pop", "front", "back"}

ListInit ==
    /\ kind \in Kinds
    /\ \E initial \in Batch :
         LET new == CASE Linked -> L!Construct(initial, Capacity)
                      [] Doubly -> D!Construct(initial, Capacity)
                      [] OTHER -> A!Construct(initial, Capacity)
         IN  /\ list = new.list
             /\ permits = new.permits
             /\ items = Iterated(new.list)
    /\ call = NoCall /\ returned = <<>> /\ error = "none"
    /\ waiting = NoCall /\ reserved = 0
    /\ upset = FALSE

\* A call that returns or throws at once.
Call(c) ==
    /\ ~upset
    /\ Offered(c)
    /\ LET outcome == CASE Linked -> LinkedCall(c)
                        [] Doubly -> DoublyCall(c)
                        [] OTHER -> ArrayCall(c)
       IN  /\ list' = outcome.list
           /\ items' = Iterated(outcome.list)
           /\ permits' = outcome.permits
           /\ returned' = outcome.items
           /\ error' = outcome.error
    /\ call' = c
    /\ UNCHANGED <<kind, waiting, reserved, upset>>

(***************************************************************************)
(* waitSet(length, item) and waitSplice(start, count, items), up to the    *)
(* await.  Those that need no permit return at once, as set() and splice() *)
(* do, and those of a Deque or a Stack are calls of splice.                *)
(***************************************************************************)
Wait(c) ==
    LET length  == Len(items)
        deleted == L!Clamp(c.count, 0, length - c.at)
        need    == IF c.op = "set" THEN 1 ELSE L!NewPlaces(c.new, deleted)
    IN  /\ ~upset
        /\ kind \notin {"Deque", "Stack"}
        /\ waiting = NoCall
        /\ c.at \in 0..length
        /\ c.op = "set" => c.at = length
        /\ need \in 1..Capacity
        /\ waiting' = [call |-> [c EXCEPT !.count = deleted],
                       length |-> length, need |-> need]
        /\ UNCHANGED <<kind, list, items, permits, call, returned, error, reserved, upset>>

\* The semaphore gives the call its permits.
Granted ==
    /\ waiting # NoCall
    /\ reserved = 0
    /\ permits >= waiting.need
    /\ permits' = permits - waiting.need
    /\ reserved' = waiting.need
    /\ UNCHANGED <<kind, list, items, call, returned, error, waiting, upset>>

(***************************************************************************)
(* When the position or the count that a call computed before its await do *)
(* harm after it: waitSet() of a NativeArray overwrites an item or leaves  *)
(* a hole, a LinkedList that has shrunk loses its nodes (BlockingQueue     *)
(* goes on from there), and permits are short for items that are no longer *)
(* there to be removed.                                                    *)
(***************************************************************************)
GoesWrong(c) ==
    IF c.op = "set" THEN kind = "NativeArray" /\ c.at # Len(items)
    ELSE /\ c.at + c.count > Len(items)
         /\ c.count > 0 \/ (Linked /\ items # <<>>)

\* The call after its await, with the position it computed before.
Settle ==
    /\ reserved > 0
    /\ LET c == waiting.call IN
       /\ list' =
            IF c.op = "set"
            THEN CASE Linked -> L!SetSettles(list, c.at, c.item)
                   [] Doubly -> D!SetSettles(list, c.at, c.item)
                   [] OTHER -> A!SetSettles(list, c.at, c.item)
            ELSE CASE Linked -> L!SpliceSettles(list, c.at, c.count, c.new)
                   [] Doubly -> D!SpliceSettles(list, c.at, c.count, c.new)
                   [] OTHER -> A!SpliceSettles(list, c.at, c.count, c.new)
       /\ call' = c
    /\ items' = Iterated(list')
    /\ returned' = <<>> /\ error' = "none"
    /\ upset' = GoesWrong(waiting.call)
    /\ waiting' = NoCall /\ reserved' = 0
    /\ UNCHANGED <<kind, permits>>

First == CHOOSE item \in Value : TRUE
WaitCalls ==
    [op : {"set"}, at : 0..Capacity, count : {0}, item : {First}]
    \cup [op : {"splice"}, at : 0..Capacity, count : 0..1,
          new : SeqOf({First}, MaxBatch)]

ListNext ==
    \/ \E c \in Calls \cup DequeCalls : Call(c)
    \/ \E c \in WaitCalls : Wait(c)
    \/ Granted
    \/ Settle
=============================================================================
