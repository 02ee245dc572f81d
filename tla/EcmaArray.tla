----------------------------- MODULE EcmaArray -----------------------------
(***************************************************************************)
(* The array helper the synchronisation primitives keep their waiter lists *)
(* with (packages/misc-util/src/ecma/array/remove-safe.ts).                *)
(***************************************************************************)
EXTENDS Integers, Sequences, SequencesExt

\* No item is twice in the array.
Distinct(s) == \A i, j \in 1..Len(s) : s[i] = s[j] => i = j

(***************************************************************************)
(* removeSafe(array, item) for the arrays it is used on: a waiter is       *)
(* pushed once per call, so an item occurs at most once and removing the   *)
(* one occurrence is removing them all.  Nothing happens when the item is  *)
(* no longer there.                                                        *)
(***************************************************************************)
RemoveSafe(array, item) ==
    IF Contains(array, item)
    THEN RemoveAt(array, CHOOSE i \in 1..Len(array) : array[i] = item)
    ELSE array
=============================================================================
