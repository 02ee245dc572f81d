----------------------------- MODULE Traversal -----------------------------
(***************************************************************************)
(* The walks of misc-util over values that refer to one another.           *)
(*                                                                         *)
(* traverse() of ecma/object: a walk over a value that a visitor may steer *)
(* and change.  A value is [kind, id, items]: a primitive has no items, a  *)
(* container has a sequence of entries [key, at, val].  `id` is the        *)
(* value's identity (===); an object's entry is "own", "hidden" (not       *)
(* enumerable), "symbol" or "proto" (inherited).                           *)
(*                                                                         *)
(* The visitor is a function from identities to a decision: the action it  *)
(* takes on the context (replace() or remove()) and the control it returns. *)
(***************************************************************************)
EXTENDS Integers, SequencesExt, FiniteSetsExt

Prim(id) == [kind |-> "prim", id |-> id, items |-> <<>>]
Own(key, val) == [key |-> key, at |-> "own", val |-> val]

Leave == [action |-> "none", with |-> Prim("undefined"), control |-> "continue"]

(* The keys an object shows, in the order of getObjectKeys(): its own ones, *)
(* then the inherited ones, shadowed or not.                                *)
GetObjectKeys(items, o) ==
  LET at(place) == SelectSeq(items, LAMBDA e : e.at = place)
      asked(option, place) == IF option THEN at(place) ELSE <<>>
      entries == at("own") \o asked(o.hidden, "hidden")
                   \o asked(o.symbols, "symbol") \o asked(o.proto, "proto")
  IN  [i \in DOMAIN entries |-> entries[i].key]

(* object[key]: the own property when there is one.                         *)
PlaceOf(items, key) ==
  LET of(places) == {i \in DOMAIN items : items[i].key = key
                                            /\ items[i].at \in places}
      own == of({"own", "hidden", "symbol"})
  IN  IF own # {} THEN Min(own) ELSE Min(of({"proto"}))

(* object[key] = val, and delete object[key].                               *)
Assign(items, key, val) ==
  LET i == PlaceOf(items, key)
  IN  IF items[i].at = "proto" THEN Append(items, Own(key, val))
      ELSE [items EXCEPT ![i].val = val]

DeleteElement(items, key) ==    \* Variant: delete array[key] leaves a hole.
  [i \in DOMAIN items |-> IF items[i].key # key THEN items[i]
                         ELSE [items[i] EXCEPT !.val = Prim("undefined")]]

Delete(items, key) ==
  SelectSeq(items, LAMBDA e : e.key # key \/ e.at = "proto")

ShouldTraverse(value, o) ==
  \/ value.kind = "array" /\ o.arrays
  \/ value.kind = "set" /\ o.sets
  \/ value.kind = "map" /\ o.maps
  \/ value.kind = "object" /\ o.plain
  \/ value.kind = "custom" /\ o.custom

(* What a visit comes to: the value or the signal it returns, the value it  *)
(* was given (which the walk below it may have changed in place), and       *)
(* whether the visitor removed it.                                          *)
Outcome(signal, value, given, removed) ==
  [signal |-> signal, value |-> value, given |-> given, removed |-> removed]

RECURSIVE TraverseValue(_, _, _)

(* Arrays and objects change as the walk goes.                              *)
TraverseInPlace(value, V, o) ==
  LET keys == IF value.kind = "array"
              THEN [i \in DOMAIN value.items |-> value.items[i].key]
              ELSE GetObjectKeys(value.items, o)
      visit(acc, key) ==
        IF acc.stop # "no" THEN acc
        ELSE LET i   == PlaceOf(acc.items, key)
                 old == acc.items[i].val
                 r   == TraverseValue(old, V, o)
                 same == [acc EXCEPT !.items[i].val = r.given]
             IN  IF r.removed THEN [acc EXCEPT !.items = Delete(@, key)]
                 ELSE IF r.signal # "value" THEN [same EXCEPT !.stop = r.signal]
                 ELSE IF r.value.id = old.id THEN same
                 ELSE [acc EXCEPT !.items = Assign(@, key, r.value)]
      walk == FoldLeft(visit, [items |-> value.items, stop |-> "no"], keys)
      items == IF value.kind = "array"
               THEN [i \in DOMAIN walk.items |-> Own(i, walk.items[i].val)]
               ELSE walk.items
  IN  [halted |-> walk.stop = "halt", value |-> [value EXCEPT !.items = items]]

(* One entry of a map or a set: its key (with traverseMapKeys), its value.  *)
VisitEntry(kind, e, V, o) ==
  LET k == IF kind = "map" /\ o.mapKeys THEN TraverseValue(e.key, V, o)
           ELSE Outcome("value", e.key, e.key, FALSE)
      v == TraverseValue(e.val, V, o)
      what(r) == IF r.removed THEN "removed" ELSE r.signal
  IN  IF what(k) # "value"
      THEN [what |-> what(k), key |-> k.given, val |-> e.val, given |-> e.val]
      ELSE [what |-> what(v), key |-> IF kind = "set" THEN v.value ELSE k.value,
            val |-> v.value, given |-> v.given]

(* Maps and sets are walked on a snapshot and changed at the end, all       *)
(* removals first.  A set is a map of its values to themselves.             *)
TraverseDeferred(value, V, o) ==
  LET visit(acc, i) ==
        IF acc.stop # "no" THEN acc
        ELSE LET e == value.items[i]
                 r == VisitEntry(value.kind, e, V, o)
                 same == [acc EXCEPT !.items[i].val = r.given]
             IN  CASE r.what = "removed" ->
                        [acc EXCEPT !.removed = @ \cup {e.key.id}]
                   [] r.what \in {"halt", "break"} ->
                        [same EXCEPT !.stop = r.what]
                   [] r.what = "value" /\ r.key.id = e.key.id
                        /\ r.val.id = e.val.id -> same
                   [] OTHER ->
                        [same EXCEPT !.changes =
                           Append(@, [old |-> e.key, key |-> r.key, val |-> r.val])]
      walk == FoldLeft(visit, [items |-> value.items, removed |-> {},
                               changes |-> <<>>, stop |-> "no"],
                       [i \in DOMAIN value.items |-> i])
      without(items, id) == SelectSeq(items, LAMBDA e : e.key.id # id)
      put(items, c) ==
        LET rest == IF c.old.id = c.key.id THEN items ELSE without(items, c.old.id)
            at == {i \in DOMAIN rest : rest[i].key.id = c.key.id}
        IN  IF at = {} THEN Append(rest, Own(c.key, c.val))
            ELSE [rest EXCEPT ![Min(at)].val = c.val]
      kept == SelectSeq(walk.items, LAMBDA e : e.key.id \notin walk.removed)
  IN  [halted |-> walk.stop = "halt",
       value |-> [value EXCEPT !.items = FoldLeft(put, kept, walk.changes)]]

(* The action the visitor took on the context comes before what it returns; *)
(* a removal is signalled as a halt.                                        *)
TraverseValue(value, V, o) ==
  LET d == V[value.id]
      current == IF d.action = "replace" THEN d.with ELSE value
  IN  IF ~(IF value.kind = "prim" THEN o.primitives ELSE o.objects)
      THEN Outcome("value", value, value, FALSE)
      ELSE IF d.action = "remove" THEN Outcome("halt", value, value, TRUE)
      ELSE IF d.control \in {"break", "halt"}
           THEN Outcome(d.control, value, value, FALSE)
      ELSE IF d.control = "skip" \/ ~ShouldTraverse(current, o)
           THEN Outcome("value", current, value, FALSE)
      ELSE LET walk == IF current.kind \in {"map", "set"}
                       THEN TraverseDeferred(current, V, o)
                       ELSE TraverseInPlace(current, V, o)
           IN  Outcome(IF walk.halted THEN "halt" ELSE "value", walk.value,
                       IF d.action = "replace" THEN value ELSE walk.value, FALSE)

(* A halted walk answers the value it was given; a break of the visitor on  *)
(* the top value is not caught and comes out as the symbol itself.          *)
Traverse(value, V, o) ==
  LET r == TraverseValue(value, V, o)
  IN  IF r.removed THEN Prim("undefined")
      ELSE IF r.signal = "halt" THEN r.given
      ELSE IF r.signal = "break" THEN Prim("TraverseBreak")
      ELSE r.value

-----------------------------------------------------------------------------
(* What the visitor of a traversal may count on.                           *)

RECURSIVE Ids(_)
Ids(value) ==
  {value.id} \cup UNION {Ids(value.items[i].val) : i \in DOMAIN value.items}

(* A change that the end of a set's walk makes may undo another: an item    *)
(* that took the place of one is deleted when that one is replaced in turn. *)
Collide(value, V) ==
  LET ids == {value.items[i].val.id : i \in DOMAIN value.items}
      replaced == {id \in ids : V[id].action = "replace"}
  IN  value.kind = "set" /\ \E id \in replaced : V[id].with.id \in replaced

(* Of a container whose items are visited without a stop: each item that   *)
(* the visitor replaces is in the result by its replacement, each item it  *)
(* removes is gone, each that it leaves alone stays - but for the changes  *)
(* of a set that collide, and a removed property that was shadowing one of *)
(* the prototype's.                                                        *)
NothingLostBy(value, V, o, result) ==
  LET ids == {value.items[i].val.id : i \in DOMAIN value.items}
      stops == \E id \in ids : V[id].control \in {"break", "halt"}
      becomes(id) == IF V[id].action = "none" THEN {id}
                     ELSE IF V[id].action = "replace" THEN {V[id].with.id}
                     ELSE {}
      expected == UNION {becomes(id) : id \in ids}
      found == {result.items[i].val.id : i \in DOMAIN result.items}
  IN  /\ ShouldTraverse(value, o) /\ o.objects /\ o.primitives
      /\ V[value.id] = Leave /\ ~stops /\ ~Collide(value, V)
      => found = expected

-----------------------------------------------------------------------------
(* The walks over errors and objects: traverseError(), formatError() and    *)
(* the JSON replacers of jsonStringify().  A graph gives each node its      *)
(* references, which may be shared and may close a cycle.                   *)
(*                                                                          *)
(* An error is [errors, error, suppressed, cause]: `errors` is a sequence   *)
(* (<<>> for an error that is no aggregate), the others are a node,         *)
(* "undefined", "null" or a value that is no error.                         *)

IsSuppressed(e) == e.error # "undefined" /\ e.suppressed # "undefined"

Chosen(condition, refs) == IF condition THEN refs ELSE <<>>

(* What traverseError() goes to from an error, in its order.                *)
Inner(e, o) ==
  Chosen(o.aggregated, e.errors)
    \o Chosen(IsSuppressed(e) /\ o.error, <<e.error>>)
    \o Chosen(IsSuppressed(e) /\ o.suppressed, <<e.suppressed>>)
    \o Chosen(o.cause, <<e.cause>>)

(* acc.go is what each call returns; the first FALSE ends the whole walk,   *)
(* and so does the second sight of an error.  `calls` are the callback's    *)
(* arguments; it returns false for the members of `last`.                   *)
RECURSIVE InternalTraverse(_, _, _, _, _)
InternalTraverse(G, o, last, acc, e) ==
  IF ~acc.go \/ e = "undefined" \/ (e = "null" /\ o.skipNull) THEN acc
  ELSE LET called == [acc EXCEPT !.calls = Append(@, e), !.go = e \notin last]
           isError == e \in DOMAIN G
       IN  IF ~called.go \/ ~isError THEN called
           ELSE IF e \in acc.visited THEN [called EXCEPT !.go = FALSE]
           ELSE FoldLeft(LAMBDA a, inner : InternalTraverse(G, o, last, a, inner),
                         [called EXCEPT !.visited = @ \cup {e}], Inner(G[e], o))

TraverseError(G, o, last, e) ==
  InternalTraverse(G, o, last, [calls |-> <<>>, visited |-> {}, go |-> TRUE], e)

(* formatError(): the errors it names, in order, a circular one marked.  On *)
(* one line (`multi` FALSE) causes are followed in a loop that leaves the   *)
(* set of visited errors as it was; `steps` counts its turns and `ends` is  *)
(* FALSE when there are more than there are errors.                         *)
Named(e, circular) == [e |-> e, circular |-> circular]

RECURSIVE InternalFormat(_, _, _, _, _)
InternalFormat(G, o, visited, steps, e) ==
  IF e \notin DOMAIN G
  THEN [said |-> <<Named(e, FALSE)>>, ends |-> TRUE]
  ELSE IF e \in visited
  THEN [said |-> <<Named(e, TRUE)>>, ends |-> TRUE]
  ELSE IF steps > Cardinality(DOMAIN G)
  THEN [said |-> <<>>, ends |-> FALSE]
  ELSE LET truthy(x) == x \notin {"undefined", "null"}
           below == visited \cup {e}
           nested(x) == InternalFormat(G, o, below, 0, x)
           inner == Chosen(o.aggregated, G[e].errors)
                      \o Chosen(IsSuppressed(G[e]) /\ o.error /\ truthy(G[e].error),
                                <<G[e].error>>)
                      \o Chosen(IsSuppressed(G[e]) /\ o.suppressed
                                  /\ truthy(G[e].suppressed), <<G[e].suppressed>>)
           cause == IF ~o.cause \/ ~truthy(G[e].cause)
                    THEN [said |-> <<>>, ends |-> TRUE]
                    ELSE IF o.multi THEN nested(G[e].cause)
                    ELSE InternalFormat(G, o, visited, steps + 1, G[e].cause)
           join(a, r) == [said |-> a.said \o r.said, ends |-> a.ends /\ r.ends]
           head == [said |-> <<Named(e, FALSE)>>, ends |-> TRUE]
       IN  join(FoldLeft(LAMBDA a, x : join(a, nested(x)), head, inner), cause)

FormatError(G, o, e) == InternalFormat(G, o, {}, 0, e)

-----------------------------------------------------------------------------
(* jsonStringify(): JSON.stringify calls the replacer on each value with    *)
(* the object that holds it.  The circular reference replacer comes first   *)
(* and looks for the value among the holder's parents, a map that keeps the *)
(* first parent each object was found under; the error replacer then gives  *)
(* a fresh object for an error, which no map knows.  JSON.stringify throws  *)
(* on an object it is already in, or when it runs out of stack.             *)
(*                                                                          *)
(* An object is [isError, refs]; parents is a function to the holder or     *)
(* "nobody" (the wrapper of the top value, or a fresh object).              *)
IsHolder(parents, holder, value) == holder = value   \* Variant: one level.

RECURSIVE IsParent(_, _, _)
IsParent(parents, holder, value) ==
  IF holder = value THEN TRUE
  ELSE IF holder = "nobody" THEN FALSE
  ELSE IF holder \notin DOMAIN parents THEN FALSE
  ELSE IsParent(parents, parents[holder], value)

CircularReplacer(parents, holder, value) ==
  IF IsParent(parents, holder, value)
  THEN [placeholder |-> TRUE, parents |-> parents]
  ELSE [placeholder |-> FALSE,
        parents |-> IF value \in DOMAIN parents THEN parents
                    ELSE [x \in DOMAIN parents \cup {value} |->
                            IF x = value THEN holder ELSE parents[x]]]

RECURSIVE StringifyBelow(_, _, _, _, _)
StringifyBelow(H, acc, holder, stack, value) ==
  IF acc.failed THEN acc
  ELSE LET r == CircularReplacer(acc.parents, holder, value)
           next == [acc EXCEPT !.parents = r.parents]
           fresh == H[value].isError
           circular == ~fresh /\ value \in ToSet(stack)
       IN  IF r.placeholder THEN [next EXCEPT !.cut = @ \cup {value}]
           ELSE IF circular \/ Len(stack) > 2 * Cardinality(DOMAIN H)
                THEN [next EXCEPT !.failed = TRUE]
           ELSE FoldLeft(LAMBDA a, x :
                           StringifyBelow(H, a, IF fresh THEN "nobody" ELSE value,
                                          Append(stack, value), x),
                         next, H[value].refs)

(* Where a placeholder stands for an object, and whether it threw.          *)
JsonStringify(H, top) ==
  StringifyBelow(H, [parents |-> << >>, cut |-> {}, failed |-> FALSE],
                 "nobody", <<>>, top)

-----------------------------------------------------------------------------
(* What can be reached from a node through given references.                *)
RECURSIVE Reach(_, _)
Reach(refs, found) ==
  LET more == found \cup UNION {ToSet(refs[x]) : x \in found \cap DOMAIN refs}
  IN  IF more = found THEN found ELSE Reach(refs, more)

OnCycle(refs, x) == x \in Reach(refs, ToSet(refs[x]))

(* The nodes of a graph that more than one reference leads to from `top`.   *)
Shared(refs, top) ==
  {x \in DOMAIN refs :
     Cardinality({r \in (Reach(refs, {top}) \cap DOMAIN refs) \X (1..4) :
                    r[2] \in DOMAIN refs[r[1]] /\ refs[r[1]][r[2]] = x})
       + (IF x = top THEN 1 ELSE 0) > 1}

(* traverseError() shows the callback everything that can be reached until *)
(* the callback ends it - and not once some error is reached in two ways,  *)
(* which ends it too; and never calls it for an error more than once but   *)
(* for the one that ends it.                                               *)
EverythingTraversed(G, o, last, e) ==
  LET r == TraverseError(G, o, last, e)
      refs == [x \in DOMAIN G |-> SelectSeq(Inner(G[x], o),
                 LAMBDA y : y # "undefined" /\ ~(y = "null" /\ o.skipNull))]
      calls == r.calls
  IN  /\ ToSet(calls) \subseteq Reach(refs, {e})
      /\ Reach(refs, {e}) = ToSet(calls)
           \/ ToSet(calls) \cap last # {} \/ Shared(refs, e) # {}
      /\ \A i, j \in DOMAIN calls :
           i < j /\ calls[i] = calls[j] /\ calls[i] \in DOMAIN G => j = Len(calls)

(* formatError() ends, and names every error that can be reached; but on   *)
(* one line it never ends on a cycle of causes.                            *)
EverythingFormatted(G, o, e) ==
  LET r == FormatError(G, o, e)
      causes == [x \in DOMAIN G |-> Chosen(o.cause, <<G[x].cause>>)]
      refs == [x \in DOMAIN G |->
                 SelectSeq(Inner(G[x], o), LAMBDA y : y \in DOMAIN G)]
      named == {r.said[i].e : i \in DOMAIN r.said}
  IN  IF r.ends
      THEN Reach(refs, {e}) \subseteq named
      ELSE ~o.multi /\ \E x \in Reach(refs, {e}) \cap DOMAIN G : OnCycle(causes, x)

(* jsonStringify() puts a placeholder for an object if and only if it is   *)
(* in a cycle, and then does not throw - unless the cycle goes through an  *)
(* error, or through an object that was first found on another path.       *)
CyclesCut(H, top) ==
  LET r == JsonStringify(H, top)
      refs == [x \in DOMAIN H |-> H[x].refs]
      cyclic == {x \in Reach(refs, {top}) : OnCycle(refs, x)}
  IN  /\ \A x \in r.cut : x \in cyclic
      /\ ~r.failed /\ cyclic # {} => r.cut # {}
      /\ r.failed => \/ \E x \in cyclic : H[x].isError
                     \/ Cardinality(Shared(refs, top) \cap cyclic) > 1
=============================================================================
