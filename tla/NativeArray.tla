------------------------------ MODULE NativeArray ------------------------------
(***************************************************************************)
(* The calls of data/native-array.ts.  The list is the sequence of the     *)
(* items of its array; Hole is what an array has at an index that was      *)
(* skipped.                                                                *)
(***************************************************************************)
EXTENDS DataOps

Hole == 0

Items(list) == list

Construct(items, capacity) == Outcome(items, capacity - Len(items), <<>>)

Clear(list, permits) == Outcome(<<>>, permits + Len(list), <<>>)

RemoveFirstItem(list, permits, condition) ==
    LET i == FirstOf(list, condition) IN
    IF i = 0 THEN Outcome(list, permits, <<>>)
    ELSE Outcome(RemoveAt(list, i), permits + 1, <<>>)

RemoveItems(list, permits, condition) ==
    LET found == Matching(list, condition) IN
    Outcome(Others(list, condition), permits + Len(found), found)

ReplaceFirstItem(list, permits, condition, item) ==
    LET i == FirstOf(list, condition) IN
    Outcome(IF i = 0 THEN list ELSE [list EXCEPT ![i] = item], permits, <<>>)

ReplaceItems(list, permits, condition, item) ==
    Outcome(Replaced(list, condition, item), permits, Matching(list, condition))

Get(list, permits, index) ==
    LET at == Absolute(index, Len(list)) IN
    Outcome(list, permits,
            IF at < 0 \/ at >= Len(list) THEN <<>> ELSE <<list[at + 1]>>)

\* data[at] = item; an array grows to have the index, with holes before it.
Assign(list, at, item) ==
    IF at < Len(list) THEN [list EXCEPT ![at + 1] = item]
    ELSE list \o [i \in 1..(at - Len(list)) |-> Hole] \o <<item>>

SetItem(list, permits, index, item) ==
    LET at == Absolute(index, Len(list)) IN
    IF at < 0 \/ at > Len(list) THEN Throws(list, permits, "bounds")
    ELSE IF at = Len(list) /\ permits < 1 THEN Throws(list, permits, "capacity")
    ELSE Outcome(Assign(list, at, item),
                 IF at = Len(list) THEN permits - 1 ELSE permits, <<>>)

\* Array.prototype.splice, for a start that may be past the end.
ArraySplice(list, start, deleteCount, items) ==
    LET at == Clamp(start, 0, Len(list))
        deleted == Clamp(deleteCount, 0, Len(list) - at)
    IN  Slice(list, 0, at) \o items \o Slice(list, at + deleted, Len(list))

\* waitSet() and waitSplice() after they have the permits they awaited.
SetSettles(list, at, item) == Assign(list, at, item)

SpliceSettles(list, at, deleted, items) == ArraySplice(list, at, deleted, items)

Splice(list, permits, start, deleteCount, items) ==
    LET at      == Absolute(start, Len(list))
        deleted == Clamp(deleteCount, 0, Len(list) - at)
        need    == NewPlaces(items, deleted)
    IN  IF at < 0 \/ at > Len(list) THEN Throws(list, permits, "bounds")
        ELSE IF need > 0 /\ permits < need THEN Throws(list, permits, "capacity")
        ELSE Outcome(ArraySplice(list, at, deleted, items), permits - need,
                     Slice(list, at, at + deleted))

SliceItems(list, permits, start, end) ==
    LET from == Absolute(start, Len(list))
        to   == Clamp(Absolute(end, Len(list)), from, Len(list))
    IN  IF from < 0 \/ from >= Len(list) THEN Throws(list, permits, "bounds")
        ELSE Outcome(list, permits, Slice(list, from, to))
=============================================================================
