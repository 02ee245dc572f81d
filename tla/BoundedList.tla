------------------------------ MODULE BoundedList ------------------------------
(***************************************************************************)
(* What data/ilist.ts, data/ideque.ts and data/istack.ts promise of a list *)
(* of limited capacity: the list is the sequence of its items, a call      *)
(* changes it and returns what the interface says, and a call that waits   *)
(* for places does so as soon as it has them.                              *)
(***************************************************************************)
EXTENDS Integers, Sequences, SequencesExt

CONSTANTS Capacity, Calls, WaitCalls, NoCall

VARIABLES
    items,      \* the items, in order
    call,       \* the last call
    returned,   \* the items it returned
    error,      \* the error it threw, or "none"
    waiting,    \* the call that waits for places, or NoCall
    reserved,   \* the places it has been given
    upset       \* a call that waited found the list changed, and went wrong

vars == <<items, call, returned, error, waiting, reserved, upset>>

\* A position counts from 0, or from the end if it is negative.
At(i) == IF i < 0 THEN Len(items) + i ELSE i
Most(a, b) == IF a > b THEN a ELSE b
Part(from, to) ==
    SubSeq(items, Most(from, 0) + 1, IF to < Len(items) THEN to ELSE Len(items))

Keeps == items' = items
Answers(result) == returned' = result /\ error' = "none"
Fails(name) == returned' = <<>> /\ error' = name /\ Keeps
Fits(n) == n <= Capacity - reserved

Get(i) ==
    /\ Keeps
    /\ Answers(IF At(i) \in 0..(Len(items) - 1) THEN <<items[At(i) + 1]>> ELSE <<>>)

Spliced(i, n, new) == Part(0, At(i)) \o new \o Part(At(i) + n, Len(items))

Splice(i, n, new) ==    \* a negative count removes nothing
    IF At(i) \notin 0..Len(items) THEN Fails("bounds")
    ELSE IF ~Fits(Len(Spliced(i, n, new))) THEN Fails("capacity")
    ELSE items' = Spliced(i, n, new) /\ Answers(Part(At(i), At(i) + n))

SetItem(i, item) ==
    IF At(i) \notin 0..Len(items) THEN Fails("bounds")
    ELSE IF At(i) = Len(items) /\ ~Fits(Len(items) + 1) THEN Fails("capacity")
    ELSE items' = Part(0, At(i)) \o <<item>> \o Part(At(i) + 1, Len(items)) /\ Answers(<<>>)

SliceItems(i, j) ==
    IF At(i) \notin 0..(Len(items) - 1) THEN Fails("bounds")
    ELSE Keeps /\ Answers(Part(At(i), At(j)))

RemoveItems(condition) ==
    /\ items' = SelectSeq(items, LAMBDA x : x \notin condition)
    /\ Answers(SelectSeq(items, LAMBDA x : x \in condition))

ReplaceItems(condition, item) ==
    /\ items' = [i \in DOMAIN items |->
                    IF items[i] \in condition THEN item ELSE items[i]]
    /\ Answers(SelectSeq(items, LAMBDA x : x \in condition))

\* The first item of a condition goes, or something takes its place.
FirstBecomes(condition, new) ==
    /\ Answers(<<>>)
    /\ IF \A i \in DOMAIN items : items[i] \notin condition THEN Keeps
       ELSE \E i \in DOMAIN items :
              /\ items[i] \in condition
              /\ \A j \in 1..(i - 1) : items[j] \notin condition
              /\ items' = Part(0, i - 1) \o new \o Part(i, Len(items))

Does(c) ==
    CASE c.op = "clear"        -> items' = <<>> /\ Answers(<<>>)
      [] c.op = "get"          -> Get(c.at)
      [] c.op = "set"          -> SetItem(c.at, c.item)
      [] c.op = "splice"       -> Splice(c.at, Most(c.count, 0), c.new)
      [] c.op = "slice"        -> SliceItems(c.at, c.end)
      [] c.op = "concat"       -> Keeps /\ Answers(items \o c.new)
      [] c.op = "removeFirst"  -> FirstBecomes(c.condition, <<>>)
      [] c.op = "remove"       -> RemoveItems(c.condition)
      [] c.op = "replaceFirst" -> FirstBecomes(c.condition, <<c.item>>)
      [] c.op = "replace"      -> ReplaceItems(c.condition, c.item)
      [] c.op = "unshift"      -> IF Fits(Len(items \o c.new))
                                  THEN items' = c.new \o items /\ Answers(<<>>)
                                  ELSE Fails("capacity")
      [] c.op = "push"         -> IF Fits(Len(items \o c.new))
                                  THEN items' = items \o c.new /\ Answers(<<>>)
                                  ELSE Fails("capacity")
      [] c.op = "shift"        -> /\ items' = Part(1, Len(items))
                                  /\ Answers(Part(0, 1))
      [] c.op = "pop"          -> /\ items' = Part(0, Len(items) - 1)
                                  /\ Answers(Part(Len(items) - 1, Len(items)))
      [] c.op = "front"        -> Get(0)
      [] c.op = "back"         -> Get(-1)

Init ==
    /\ Len(items) <= Capacity /\ returned = <<>> /\ error = "none"
    /\ call = NoCall /\ waiting = NoCall /\ reserved = 0 /\ upset = FALSE

\* A call that does not wait.
Calling ==
    /\ call' \in Calls
    /\ Does(call')
    /\ UNCHANGED <<waiting, reserved, upset>>

\* A call that needs n more places than there are items to remove, the places
\* it gets, and what it does then.
Waits ==
    /\ waiting = NoCall
    /\ waiting' \in [call : WaitCalls, length : Nat, need : Nat]
    /\ waiting'.length = Len(items)
    /\ UNCHANGED <<items, call, returned, error, reserved, upset>>

Reserves ==
    /\ waiting # NoCall
    /\ reserved = 0
    /\ reserved' = waiting.need
    /\ Len(items) + reserved' <= Capacity
    /\ UNCHANGED <<items, call, returned, error, waiting, upset>>

Settles ==
    /\ reserved > 0
    /\ call' = waiting.call
    /\ \/ /\ upset' = FALSE
          /\ error' = "none"
          /\ items' = IF call'.op = "set" THEN Append(items, call'.item)
                      ELSE Spliced(call'.at, call'.count, call'.new)
       \/ /\ upset' = TRUE
          /\ waiting.length # Len(items)
    /\ waiting' = NoCall
    /\ reserved' = 0

Next == Calling \/ Waits \/ Reserves \/ Settles

Spec == Init /\ [][Next]_vars
=============================================================================
