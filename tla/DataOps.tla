-------------------------------- MODULE DataOps --------------------------------
(***************************************************************************)
(* Operators on the arrays and lists of data/: what the calls of the lists *)
(* have in common, and the order of a binary heap.                         *)
(***************************************************************************)
EXTENDS Integers, Sequences, SequencesExt

(***************************************************************************)
(* How a call of a list states a position, and what comes of it.  A        *)
(* predicate is the set of the items it holds for; the permits of the      *)
(* list's semaphore are its free places.                                   *)
(***************************************************************************)

\* clamp(value, min, max)
Clamp(value, min, max) ==
    LET raised == IF value < min THEN min ELSE value
    IN  IF raised > max THEN max ELSE raised

\* A negative index counts from the end.
Absolute(index, size) == IF index < 0 THEN size + index ELSE index

\* The items from position "from" on and before position "to", both from 0.
Slice(seq, from, to) == SubSeq(seq, from + 1, to)

(***************************************************************************)
(* The list and the permits that a call leaves, the items it returns and   *)
(* the name of the error it throws.                                        *)
(***************************************************************************)
Outcome(list, permits, items) ==
    [list |-> list, permits |-> permits, items |-> items, error |-> "none"]

Throws(list, permits, error) ==
    [list |-> list, permits |-> permits, items |-> <<>>, error |-> error]

\* The position of the first item that satisfies a condition, or 0.
FirstOf(seq, condition) == SelectInSeq(seq, LAMBDA x : x \in condition)

\* Every item that satisfies a condition becomes the new item.
Replaced(seq, condition, item) ==
    FoldLeft(LAMBDA done, x : Append(done, IF x \in condition THEN item ELSE x),
             <<>>, seq)

Matching(seq, condition) == SelectSeq(seq, LAMBDA x : x \in condition)
Others(seq, condition) == SelectSeq(seq, LAMBDA x : x \notin condition)

NewPlaces(items, deleteCount) == Len(items) - deleteCount

-----------------------------------------------------------------------------
(***************************************************************************)
(* The order of data/binary-heap.ts on the array it keeps: an element is a *)
(* pair whose second part is its rank, and those of lower ranks come       *)
(* first.  Indices count from 0, as the code's.                            *)
(***************************************************************************)

\* PriorityQueue's isItemOrdered, with the default isHigherPriority.
IsItemOrdered(a, b) == a[2] < b[2]

Swap(seq, i, j) == [seq EXCEPT ![i + 1] = seq[j + 1], ![j + 1] = seq[i + 1]]
ParentIndex(index) == (index - 1) \div 2

\* A loop moves an element at most as often as the array has elements.
Repeat(Step(_), seq, index) ==
    FoldLeft(LAMBDA h, k : Step(h), [seq |-> seq, at |-> index], seq).seq

\* heapifyUp(index); an index that the array does not have moves nothing.
HeapifyUp(seq, index) ==
    LET Up(h) ==
            LET parent == ParentIndex(h.at) IN
            IF h.at = 0 \/ h.at >= Len(seq) THEN h
            ELSE IF IsItemOrdered(h.seq[parent + 1], h.seq[h.at + 1]) THEN h
            ELSE [seq |-> Swap(h.seq, h.at, parent), at |-> parent]
    IN  Repeat(Up, seq, index)

\* The element itself or a child of it that does not come after it.
Candidate(seq, i, child) ==
    IF child < Len(seq) /\ ~IsItemOrdered(seq[i + 1], seq[child + 1]) THEN child ELSE i

\* heapifyDown(index): the element changes places with the child that comes
\* first, until it comes before both.
HeapifyDown(seq, index) ==
    LET Down(h) ==
            LET best == Candidate(h.seq, Candidate(h.seq, h.at, 2 * h.at + 1),
                                  2 * h.at + 2) IN
            IF best = h.at THEN h ELSE [seq |-> Swap(h.seq, h.at, best), at |-> best]
    IN  Repeat(Down, seq, index)

HeapifyAll(seq) ==
    FoldLeft(HeapifyDown, seq, [k \in 1..(Len(seq) \div 2) |-> (Len(seq) \div 2) - k])
=============================================================================
