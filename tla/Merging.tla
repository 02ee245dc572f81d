------------------------------ MODULE Merging ------------------------------
(***************************************************************************)
(* deepMerge() and deepMergeInplace() of misc-util's ecma/object, and what *)
(* app-util's cli-config makes of a configuration with them.  A value      *)
(* is [kind, items, by]: a primitive has its payload for items, a          *)
(* container a sequence of [key, val]; `by` says whose object it is, the   *)
(* target's, a source's or one that the merge made.                        *)
(***************************************************************************)
EXTENDS Integers, SequencesExt, FiniteSetsExt

Undefined == [kind |-> "undefined", items |-> <<>>, by |-> "new"]
Containers == {"object", "map", "set", "array"}

Made(kind, items) == [kind |-> kind, items |-> items, by |-> "new"]

Get(items, key) ==
  LET at == {i \in DOMAIN items : items[i].key = key}
  IN  IF at = {} THEN Undefined ELSE items[Min(at)].val

Put(items, key, val) ==
  LET at == {i \in DOMAIN items : items[i].key = key}
  IN  IF at = {} THEN Append(items, [key |-> key, val |-> val])
      ELSE [items EXCEPT ![Min(at)].val = val]

(* Variant: only the container itself is copied.                           *)
ShallowClone(v) == IF v.kind \in Containers THEN Made(v.kind, v.items) ELSE v

RECURSIVE DeepClone(_)
DeepClone(v) ==
  IF v.kind \notin Containers THEN v
  ELSE Made(v.kind, [i \in DOMAIN v.items |->
                       [v.items[i] EXCEPT !.val = DeepClone(@)]])

FromSource(v, o) == IF o.cloneSource THEN DeepClone(v) ELSE v

RECURSIVE DeepMerge(_, _, _), DeepMergeInplace(_, _, _)

(* Objects and maps: every entry of the source is merged into the target's. *)
MergeEntries(merge(_, _, _), target, source, o) ==
  FoldLeft(LAMBDA items, e : Put(items, e.key,
                                 merge(Get(target, e.key), e.val, o)),
           target, source)

(* Sets: a value of the source that the target has is left alone.           *)
MergeValues(target, source, o) ==
  FoldLeft(LAMBDA items, e : IF Get(items, e.key) # Undefined THEN items
                             ELSE Append(items, [e EXCEPT !.val = FromSource(@, o)]),
           target, source)

(* Arrays, by index (the key): appended, merged or replaced.                *)
MergeIndices(merge(_, _, _), target, source, o) ==
  LET item(s, i) == IF i <= Len(s) THEN s[i].val ELSE Undefined
      at(i, v) == [key |-> i, val |-> v]
  IN  CASE o.arrayMergeMode = "spread" ->
             [i \in 1..(Len(target) + Len(source)) |->
                at(i, IF i <= Len(target) THEN item(target, i)
                      ELSE FromSource(item(source, i - Len(target)), o))]
        [] o.arrayMergeMode = "merge" ->
             [i \in 1..Max({Len(target), Len(source)}) |->
                at(i, IF i > Len(source) THEN item(target, i)
                      ELSE IF item(target, i) = Undefined
                           THEN FromSource(item(source, i), o)
                      ELSE merge(item(target, i), item(source, i), o))]
        [] OTHER ->
             [i \in DOMAIN source |-> at(i, FromSource(item(source, i), o))]

(* The result is a container of its own; an array that is replaced is the   *)
(* source's, and the items of a merged one past the source's are cloned.    *)
DeepMerge(target, source, o) ==
  IF target.kind # source.kind \/ target.kind \notin Containers
  THEN FromSource(source, o)
  ELSE IF target.kind = "array"
       THEN LET items == MergeIndices(DeepMerge, target.items, source.items, o)
            IN  CASE o.arrayMergeMode = "spread" -> Made("array", items)
                  [] o.arrayMergeMode = "merge" ->
                       Made("array", [i \in DOMAIN items |->
                         IF i > Len(source.items)
                         THEN [items[i] EXCEPT !.val = DeepClone(@)]
                         ELSE items[i]])
                  [] OTHER -> FromSource(source, o)
  ELSE IF target.kind = "set"
       THEN Made("set", MergeValues(target.items, source.items, o))
  ELSE Made(target.kind, MergeEntries(DeepMerge, target.items, source.items, o))

(* The result is the target itself, changed, wherever the kinds agree.      *)
DeepMergeInplace(target, source, o) ==
  IF target.kind # source.kind \/ target.kind \notin Containers
  THEN FromSource(source, o)
  ELSE [target EXCEPT !.items =
          IF target.kind = "array"
          THEN MergeIndices(DeepMergeInplace, @, source.items, o)
          ELSE IF target.kind = "set" THEN MergeValues(@, source.items, o)
          ELSE MergeEntries(DeepMergeInplace, @, source.items, o)]

-----------------------------------------------------------------------------
RECURSIVE Shape(_), Owners(_), WrittenBy(_, _, _)

(* A value without whose it is.                                             *)
Shape(v) ==
  IF v.kind \notin Containers THEN v
  ELSE Made(v.kind, [i \in DOMAIN v.items |->
                       [v.items[i] EXCEPT !.val = Shape(@)]])

(* The owners of the containers of a value.                                 *)
Owners(v) ==
  IF v.kind \notin Containers THEN {}
  ELSE {v.by} \cup UNION {Owners(v.items[i].val) : i \in DOMAIN v.items}

(* The owners of the containers that merging source into target writes to.  *)
WrittenBy(target, source, o) ==
  IF target.kind # source.kind \/ target.kind \notin Containers THEN {}
  ELSE {target.by} \cup
       IF target.kind = "set"
          \/ (target.kind = "array" /\ o.arrayMergeMode # "merge") THEN {}
       ELSE UNION {WrittenBy(Get(target.items, source.items[i].key),
                             source.items[i].val, o) : i \in DOMAIN source.items}

(* Both merges come to the same value; with cloneSource nothing of the      *)
(* source is in either result; and a second merge into the result writes    *)
(* to the first source only if that was not cloned and is shared with it.   *)
MergesAgreeBy(target, source, second, o) ==
  LET copied == DeepMerge(target, source, o)
      merged == DeepMergeInplace(target, source, o)
  IN  /\ Shape(copied) = Shape(merged)
      /\ o.cloneSource => "source" \notin Owners(copied) \cup Owners(merged)
      /\ "source" \in WrittenBy(merged, second, o)
           => ~o.cloneSource /\ "source" \in Owners(merged)
-----------------------------------------------------------------------------
(***************************************************************************)
(* The extendable configurations of app-util's cli-config: the lookup of   *)
(* an "extends" value, and resolveExtendableConfig(), which merges the     *)
(* modules a configuration extends into it, each once, going down first.   *)
(* W is the world of modules: for each path its own configuration (a value *)
(* as above), the values it extends, and whether the parser accepts it;    *)
(* `found` is what the module resolution finds, from names to paths.       *)
(***************************************************************************)
(* An "extends" value is [scope, base, prefixed]: "@scope" with or without  *)
(* a "/base"; no scope is ""; prefixed is a base that starts with           *)
(* "<configId>-config".  Names are <<form, base>>.                          *)
Candidates(value) ==
  IF value.scope # ""
  THEN <<IF value.base = "" THEN <<"scoped default", value.scope>>
         ELSE <<"scoped", value.base>>>>
  ELSE <<<<"official", value.base>>>>
         \o (IF value.prefixed THEN <<>> ELSE <<<<"old style", value.base>>>>)
         \o <<<<"as is", value.base>>>>

(* The first candidate that the resolution finds.                           *)
ResolveExtendsValue(value, found) ==
  LET hits == SelectSeq(Candidates(value), LAMBDA name : name \in DOMAIN found)
  IN  IF hits = <<>> THEN "null" ELSE found[hits[1]]

(* Variant: the options of loadCliConfig().                                 *)
LoadOptions == [cloneSource |-> TRUE, arrayMergeMode |-> "replace"]
ExtendsOptions == [cloneSource |-> TRUE, arrayMergeMode |-> "spread"]

(* acc: the configuration being built, the list of the modules seen in the  *)
(* whole resolution, those found to be circular, and the error if any.      *)
RECURSIVE InternalResolve(_, _, _, _, _)
InternalResolve(W, found, config, global, branch) ==
  LET extend(acc, value) ==
        LET path == ResolveExtendsValue(value, found)
        IN  IF acc.error # "none" THEN acc
            ELSE IF path = "null" THEN [acc EXCEPT !.error = "resolve module"]
            ELSE IF path \in branch
                 THEN [acc EXCEPT !.circular = @ \cup {path}]
            ELSE IF path \in acc.global THEN acc
            ELSE IF ~W[path].valid
                 THEN [acc EXCEPT !.global = @ \cup {path},
                                  !.error = "validate config"]
            ELSE LET r == InternalResolve(W, found, W[path],
                                          acc.global \cup {path},
                                          branch \cup {path})
                 IN  [config |-> DeepMergeInplace(acc.config, r.config,
                                                  ExtendsOptions),
                      global |-> r.global, error |-> r.error,
                      circular |-> acc.circular \cup r.circular]
  IN  FoldLeft(extend, [config |-> DeepClone(config.own), global |-> global,
                        circular |-> {}, error |-> "none"], config.extends)

ResolveExtendableConfig(W, found, config) ==
  InternalResolve(W, found, config, {}, {})

(* loadCliConfig(): the file found over the defaults, its arrays in place   *)
(* of theirs, then what it extends over both.                               *)
LoadCliConfig(W, found, default, file) ==
  ResolveExtendableConfig(W, found,
    [file EXCEPT !.own = DeepMerge(default, file.own,
                           [cloneSource |-> TRUE, arrayMergeMode |-> "replace"])])

-----------------------------------------------------------------------------
RECURSIVE ReachedModules(_, _, _)
ReachedModules(W, found, paths) ==
  LET next(p) == {ResolveExtendsValue(v, found) : v \in ToSet(W[p].extends)}
      more == paths \cup (UNION {next(p) : p \in paths \cap DOMAIN W})
  IN  IF more = paths THEN paths ELSE ReachedModules(W, found, more)

(* A load ends, cycles or not, and merges every module that is extended,    *)
(* directly or not, exactly once: the list each of them adds its name to    *)
(* holds the file's name first and each module's once, and the value that   *)
(* all of them set is the one of the last on the list, never the file's own *)
(* when it extends something.  A circular dependency is reported if and     *)
(* only if a module extends itself, directly or not.                        *)
ConfigResolvedBy(W, found, default, file) ==
  LET r == LoadCliConfig(W, found, default, file)
      direct == {ResolveExtendsValue(v, found) : v \in ToSet(file.extends)}
      reached == ReachedModules(W, found, direct)
      items == Get(r.config.items, "list").items
      list == [i \in DOMAIN items |-> items[i].val.items]
      inCycle(p) == p \in ReachedModules(W, found,
                        {ResolveExtendsValue(v, found) : v \in ToSet(W[p].extends)})
  IN  IF r.error # "none"
      THEN "null" \in reached \/ \E p \in reached : ~W[p].valid
      ELSE /\ list[1] = "file"
           /\ ToSet(list) = reached \cup {"file"}
           /\ IsInjective(list)
           /\ Get(r.config.items, "value").items = Last(list)
           /\ (r.circular # {}) = (\E p \in reached : inCycle(p))
=============================================================================
