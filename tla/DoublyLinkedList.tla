---------------------------- MODULE DoublyLinkedList ----------------------------
(***************************************************************************)
(* The nodes and the calls of data/doubly-linked-list.ts.  A node is a     *)
(* number and Null is 0, which links to itself; a node that the list no    *)
(* longer reaches is free to be used again.                                *)
(***************************************************************************)
EXTENDS DataOps

CONSTANT MaxNodes   \* bound: the nodes a list may have

Null == 0
Nodes == 1..MaxNodes

EmptyList ==
    [head |-> Null, tail |-> Null, size |-> 0,
     next |-> [n \in {Null} \cup Nodes |-> Null],
     prev |-> [n \in {Null} \cup Nodes |-> Null],
     value |-> [n \in {Null} \cup Nodes |-> Null]]

\* The nodes that "while (current) current = current.next" visits.
Path(link, from) ==
    LET visited[k \in 0..MaxNodes] ==
            LET before == visited[k - 1] IN
            IF k = 0 THEN <<from>> ELSE Append(before, link[Last(before)])
    IN  SelectSeq(visited[MaxNodes], LAMBDA n : n # Null)

Chain(list) == Path(list.next, list.head)
Values(list, nodes) == [i \in DOMAIN nodes |-> list.value[nodes[i]]]
Items(list) == Values(list, Chain(list))

\* Assign a link of a node, if there is one.
Link(links, node, target) ==
    IF node = Null THEN links ELSE [links EXCEPT ![node] = target]

\* Variant: the node after the one that is removed keeps its link to it.
UnlinkNodeOneWay(list, n) ==
    LET before == list.prev[n]  after == list.next[n] IN
    [list EXCEPT !.head = IF before = Null THEN after ELSE @,
                 !.tail = IF after = Null THEN before ELSE @,
                 !.next = [Link(@, before, after) EXCEPT ![n] = Null],
                 !.value[n] = Null,
                 !.size = @ - 1]

\* unlinkNode, and the same code in internalSplice.
UnlinkNode(list, n) ==
    LET before == list.prev[n]  after == list.next[n] IN
    [list EXCEPT !.head = IF before = Null THEN after ELSE @,
                 !.tail = IF after = Null THEN before ELSE @,
                 !.next = [Link(@, before, after) EXCEPT ![n] = Null],
                 !.prev = [Link(@, after, before) EXCEPT ![n] = Null],
                 !.value[n] = Null,
                 !.size = @ - 1]

Fresh(list) == CHOOSE n \in Nodes : n \notin ToSet(Chain(list))

\* A new node before "current", at the end if there is none.
InsertNode(list, current, item) ==
    LET n      == Fresh(list)
        before == IF current = Null THEN list.tail ELSE list.prev[current]
    IN  [list EXCEPT !.head = IF before = Null THEN n ELSE @,
                     !.tail = IF current = Null THEN n ELSE @,
                     !.next = [Link(@, before, n) EXCEPT ![n] = current],
                     !.prev = [Link(@, current, n) EXCEPT ![n] = before],
                     !.value[n] = item,
                     !.size = @ + 1]

\* Walk to the start, unlink, insert before the node that is reached then.
InternalSplice(list, start, deleteCount, items) ==
    LET nodes   == Chain(list)
        deleted == Clamp(deleteCount, 0, Len(nodes) - Clamp(start, 0, Len(nodes)))
        rest    == Slice(nodes, start + deleted, Len(nodes))
        current == IF rest = <<>> THEN Null ELSE Head(rest)
        kept    == FoldLeft(UnlinkNode, list, Slice(nodes, start, start + deleted))
    IN  FoldLeft(LAMBDA l, item : InsertNode(l, current, item), kept, items)

Construct(items, capacity) ==
    Outcome(InternalSplice(EmptyList, 0, 0, items), capacity - Len(items), <<>>)

Clear(list, permits) == Outcome(EmptyList, permits + list.size, <<>>)

RemoveFirstItem(list, permits, condition) ==
    LET i == FirstOf(Items(list), condition) IN
    IF i = 0 THEN Outcome(list, permits, <<>>)
    ELSE Outcome(UnlinkNode(list, Chain(list)[i]), permits + 1, <<>>)

RemoveItems(list, permits, condition) ==
    LET found == SelectSeq(Chain(list), LAMBDA n : list.value[n] \in condition) IN
    Outcome(FoldLeft(UnlinkNode, list, found), permits + Len(found),
            Values(list, found))

ReplaceFirstItem(list, permits, condition, item) ==
    LET i == FirstOf(Items(list), condition) IN
    Outcome(IF i = 0 THEN list ELSE [list EXCEPT !.value[Chain(list)[i]] = item],
            permits, <<>>)

ReplaceItems(list, permits, condition, item) ==
    Outcome([list EXCEPT !.value = [n \in DOMAIN @ |-> IF @[n] \in condition THEN item ELSE @[n]]],
            permits, Matching(Items(list), condition))

\* getNodeAt(index).current
NodeAt(list, index) ==
    IF index < 0 \/ index >= list.size THEN Null ELSE Chain(list)[index + 1]

Get(list, permits, index) ==
    LET n == NodeAt(list, Absolute(index, list.size)) IN
    Outcome(list, permits, IF n = Null THEN <<>> ELSE <<list.value[n]>>)

\* unprotectedAppendNode
AppendNode(list, item) == InsertNode(list, Null, item)

SetItem(list, permits, index, item) ==
    LET at == Absolute(index, list.size)
        n  == NodeAt(list, at)
    IN  IF at = list.size
        THEN IF permits < 1 THEN Throws(list, permits, "capacity")
             ELSE Outcome(AppendNode(list, item), permits - 1, <<>>)
        ELSE IF n = Null THEN Throws(list, permits, "bounds")
             ELSE Outcome([list EXCEPT !.value[n] = item], permits, <<>>)

\* waitSet() and waitSplice() after they have the permits they awaited.
SetSettles(list, at, item) == AppendNode(list, item)

SpliceSettles(list, at, deleted, items) ==
    InternalSplice(list, at, deleted, items)

Splice(list, permits, start, deleteCount, items) ==
    LET at      == Absolute(start, list.size)
        deleted == Clamp(deleteCount, 0, list.size - at)
        need    == NewPlaces(items, deleted)
    IN  IF at < 0 \/ at > list.size THEN Throws(list, permits, "bounds")
        ELSE IF need > 0 /\ permits < need THEN Throws(list, permits, "capacity")
        ELSE Outcome(InternalSplice(list, at, deleted, items), permits - need,
                     Slice(Items(list), at, at + deleted))

SliceItems(list, permits, start, end) ==
    LET from == Absolute(start, list.size)
        to   == Clamp(Absolute(end, list.size), from, list.size)
    IN  IF from < 0 \/ from >= list.size THEN Throws(list, permits, "bounds")
        ELSE Outcome(list, permits, Slice(Items(list), from, to))
=============================================================================
