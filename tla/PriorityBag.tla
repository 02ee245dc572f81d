------------------------------- MODULE PriorityBag -------------------------------
(***************************************************************************)
(* What data/iheap.ts and data/ipriority-queue.ts promise: a bag of items  *)
(* with priorities, of limited capacity, some of it reserved, that gives   *)
(* out an item nothing in it comes before.  "unordered" says when an       *)
(* implementation is excused from giving out the right one; it never loses *)
(* or invents one.                                                         *)
(***************************************************************************)
EXTENDS Integers, Sequences, Bags, FiniteSets, FiniteSetsExt, TLC

CONSTANTS Item, Priority, Capacity

VARIABLES bag, call, returned, reserved, unordered

vars == <<bag, call, returned>>

Element == Item \X Priority
BagOf(seq) ==
    [e \in {seq[i] : i \in DOMAIN seq} |-> Cardinality({i \in DOMAIN seq : seq[i] = e})]
First(b) == {e \in BagToSet(b) : \A f \in BagToSet(b) : ~(f[2] < e[2])}
Fits(b) == BagCardinality(b) + reserved' <= Capacity

Init == BagCardinality(bag) <= Capacity /\ returned = <<>>

Insert(new) ==
    bag' = (IF Fits(bag (+) BagOf(new)) THEN bag (+) BagOf(new) ELSE bag)

\* Without the items that a condition holds for, or with another priority.
RemoveItems(item) ==
    bag' = [e \in {f \in BagToSet(bag) : f[1] # item} |-> bag[e]]
SetPriority(item, priority) ==
    LET changed == {e \in BagToSet(bag) : e[1] = item}
        many    == MapThenSumSet(LAMBDA e : bag[e], changed)
    IN  bag' = [e \in BagToSet(bag) \ changed |-> bag[e]]
               (+) (IF many = 0 THEN EmptyBag ELSE (<<item, priority>> :> many))

RemoveFirstItem(item) ==
    \/ \E e \in BagToSet(bag) : e[1] = item /\ bag' = bag (-) SetToBag({e})
    \/ bag' = bag /\ \A e \in BagToSet(bag) : e[1] # item

\* "from" is the bag the item is taken from.
Gives(from) ==
    IF from = EmptyBag THEN returned' = <<>> /\ bag' = from
    ELSE \E e \in BagToSet(from) :
            /\ unordered \/ e \in First(from)
            /\ returned' = <<e>>
            /\ bag' = from (-) SetToBag({e})

Does(c) ==
    CASE c.op = "insert"   -> Insert(c.new)
      [] c.op = "extract"  -> Gives(bag)
      [] c.op = "insertAndExtract" -> Gives(bag (+) BagOf(c.new))
      [] c.op = "extractAndInsert" ->
            \/ bag = EmptyBag /\ returned' = <<>> /\ bag' = BagOf(c.new)
            \/ \E e \in BagToSet(bag) :
                 /\ unordered \/ e \in First(bag)
                 /\ returned' = <<e>>
                 /\ bag' = (bag (-) SetToBag({e})) (+) BagOf(c.new)
      [] c.op = "root" -> /\ bag' = bag
                          /\ IF bag = EmptyBag THEN returned' = <<>>
                             ELSE \E e \in BagToSet(bag) :
                                    (unordered \/ e \in First(bag)) /\ returned' = <<e>>
      [] c.op = "remove"      -> RemoveItems(c.item)
      [] c.op = "removeFirst" -> RemoveFirstItem(c.item)
      [] c.op = "setPriority" -> SetPriority(c.item, c.priority)
      [] c.op = "clear"       -> bag' = EmptyBag

Next == call'.op # "none" /\ Does(call')

Spec == Init /\ [][Next]_vars
=============================================================================
