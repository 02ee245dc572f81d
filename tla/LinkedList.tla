------------------------------ MODULE LinkedList ------------------------------
(***************************************************************************)
(* The data of data/linked-list.ts: a chain of nodes and a count that the  *)
(* code keeps beside it.  "chain" has the values of the nodes that can be  *)
(* reached from the head, in order; "size" is the field of that name.  The *)
(* field "tail" is the last node of the chain, or null if it is empty:     *)
(* every operation leaves it so.                                           *)
(***************************************************************************)
EXTENDS DataOps

\* The list is sound when the count is the number of its nodes.
WellFormed(list) == list.size = Len(list.chain)

EmptyList == [chain |-> <<>>, size |-> 0]

(***************************************************************************)
(* getNodeAt(index): the nodes before the one at "index", and those from   *)
(* it on.  An index the list does not have, because it is greater than the *)
(* count or because the chain is shorter than the count, gives null for    *)
(* both: nothing is before it and nothing follows.                         *)
(***************************************************************************)
NodesBefore(list, index) ==
    CASE index = list.size -> list.chain
      [] index # list.size /\ index < Len(list.chain) ->
           SubSeq(list.chain, 1, index)
      [] OTHER -> <<>>

NodesFrom(list, index) ==
    IF index # list.size /\ index < Len(list.chain)
    THEN SubSeq(list.chain, index + 1, Len(list.chain))
    ELSE <<>>

\* How many nodes internalSplice removes.
Deleted(list, start, deleteCount) ==
    LET found == Len(NodesFrom(list, start))
    IN  IF deleteCount < found THEN deleteCount ELSE found

\* Variant: the nodes after the position are dropped when none is deleted.
InternalSpliceForgetsTail(list, start, deleteCount, items) ==
    LET deleted == Deleted(list, start, deleteCount) IN
    [chain |-> NodesBefore(list, start) \o items
               \o (IF deleted = 0 THEN <<>>
                   ELSE SubSeq(NodesFrom(list, start), deleted + 1,
                               Len(NodesFrom(list, start)))),
     size  |-> list.size - deleted + Len(items)]

\* internalSplice: whatever getNodeAt does not give is lost to the chain, but
\* not to the count.
InternalSplice(list, start, deleteCount, items) ==
    LET deleted == Deleted(list, start, deleteCount) IN
    [chain |-> NodesBefore(list, start) \o items
               \o SubSeq(NodesFrom(list, start), deleted + 1,
                         Len(NodesFrom(list, start))),
     size  |-> list.size - deleted + Len(items)]

\* unlinkNode, for the node at position "index" (from 1) of the chain.
RemoveNodeAt(list, index) ==
    [chain |-> SubSeq(list.chain, 1, index - 1)
               \o SubSeq(list.chain, index + 1, Len(list.chain)),
     size  |-> list.size - 1]
-----------------------------------------------------------------------------
(***************************************************************************)
(* The calls of the list, on that data.                                    *)
(***************************************************************************)
Items(list) == list.chain

Construct(items, capacity) ==
    Outcome(InternalSplice(EmptyList, 0, 0, items), capacity - Len(items), <<>>)

Clear(list, permits) == Outcome(EmptyList, permits + list.size, <<>>)

RemoveFirstItem(list, permits, condition) ==
    LET i == FirstOf(list.chain, condition) IN
    IF i = 0 THEN Outcome(list, permits, <<>>)
    ELSE Outcome(RemoveNodeAt(list, i), permits + 1, <<>>)

\* Node by node: the one after a removed node is looked at next.
RemoveItems(list, permits, condition) ==
    LET found == Matching(list.chain, condition) IN
    Outcome([chain |-> Others(list.chain, condition),
             size  |-> list.size - Len(found)],
            permits + Len(found), found)

ReplaceFirstItem(list, permits, condition, item) ==
    LET i == FirstOf(list.chain, condition) IN
    Outcome(IF i = 0 THEN list ELSE [list EXCEPT !.chain[i] = item],
            permits, <<>>)

ReplaceItems(list, permits, condition, item) ==
    Outcome([list EXCEPT !.chain = Replaced(@, condition, item)],
            permits, Matching(list.chain, condition))

\* An index without a node gives undefined, here no item.
Get(list, permits, index) ==
    LET nodes == NodesFrom(list, Absolute(index, list.size))
        found == Absolute(index, list.size) >= 0 /\ nodes # <<>>
    IN  Outcome(list, permits, IF found THEN <<Head(nodes)>> ELSE <<>>)

\* unprotectedAppendNode
AppendNode(list, item) ==
    [chain |-> Append(list.chain, item), size |-> list.size + 1]

SetItem(list, permits, index, item) ==
    LET at == Absolute(index, list.size) IN
    IF at = list.size
    THEN IF permits < 1 THEN Throws(list, permits, "capacity")
         ELSE Outcome(AppendNode(list, item), permits - 1, <<>>)
    ELSE IF at < 0 \/ NodesFrom(list, at) = <<>>
         THEN Throws(list, permits, "bounds")
         ELSE Outcome([list EXCEPT !.chain[at + 1] = item], permits, <<>>)

\* waitSet() after it has the permit it awaited.
SetSettles(list, at, item) == AppendNode(list, item)

\* waitSplice() after it has the permits it awaited.
SpliceSettles(list, at, deleted, items) ==
    InternalSplice(list, at, deleted, items)

Splice(list, permits, start, deleteCount, items) ==
    LET at      == Absolute(start, list.size)
        deleted == Clamp(deleteCount, 0, list.size - at)
        need    == NewPlaces(items, deleted)
    IN  IF at < 0 \/ at > list.size THEN Throws(list, permits, "bounds")
        ELSE IF need > 0 /\ permits < need THEN Throws(list, permits, "capacity")
        ELSE Outcome(InternalSplice(list, at, deleted, items), permits - need,
                     Slice(list.chain, at, at + deleted))

SliceItems(list, permits, start, end) ==
    LET from == Absolute(start, list.size)
        to   == Clamp(Absolute(end, list.size), from, list.size)
    IN  IF from < 0 \/ from >= list.size THEN Throws(list, permits, "bounds")
        ELSE Outcome(list, permits, Slice(list.chain, from, to))
=============================================================================
