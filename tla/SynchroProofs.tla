---------------------------- MODULE SynchroProofs ----------------------------
(***************************************************************************)
(* Proofs about tasks that hold several locks (module LockHold), and about *)
(* the subscribers of a broadcast (module Broadcast).                      *)
(***************************************************************************)
EXTENDS LockHold, Broadcast, EcmaArrayProofs, FiniteSetTheorems, WellFoundedInduction

(***************************************************************************)
(* LockHold.  Locks that have an id have different ones.                   *)
(***************************************************************************)
HoldPhases == {"idle", "locking", "trying", "waiting", "holding", "releasing"}

HoldTypes ==
    /\ lockId \in [Locks -> Nat]
    /\ owner \in [Locks -> Seq(Holders)]
    /\ toLock \in [Holders -> Seq(Locks)]
    /\ held \in [Holders -> Seq(Locks)]
    /\ phase \in [Holders -> HoldPhases]
    /\ unreleased \in SUBSET Locks

IdsInv ==
    /\ \A l \in Locks : lockId[l] <= LastId(lockId)
    /\ \A l, m \in Locks : lockId[l] = lockId[m] /\ lockId[l] > 0 => l = m

\* What a task holds comes before what it has not come to, by their ids.
InOrder(l, m) == l = m \/ (0 < lockId[l] /\ lockId[l] < lockId[m])

OrderOf(p) ==
    /\ \A i, j \in DOMAIN toLock[p] : i < j => InOrder(toLock[p][i], toLock[p][j])
    /\ \A i \in DOMAIN held[p], j \in DOMAIN toLock[p] : InOrder(held[p][i], toLock[p][j])

Has(p, l) == \E i \in DOMAIN held[p] : held[p][i] = l
Waits(p, l) == phase[p] = "waiting" /\ Head(toLock[p]) = l

\* The first of those a lock serves has it, or left it locked.
IsTaken(p, l) == Has(p, l) \/ l \in unreleased

HasFirst(p, l) == owner[l] # <<>> /\ owner[l][1] = p /\ l \notin unreleased

HeldOf(p) ==
    /\ \A l \in Locks : Has(p, l) => HasFirst(p, l)
    /\ \A i, j \in DOMAIN held[p] : held[p][i] = held[p][j] => i = j
    /\ phase[p] = "idle" => held[p] = <<>>
    /\ phase[p] \in {"idle", "holding", "releasing"} => toLock[p] = <<>>
    /\ phase[p] = "waiting" => toLock[p] # <<>>

\* The others that a lock has to serve wait for it, each by one call.
CallsOf(l) ==
    /\ l \in unreleased => owner[l] # <<>>
    /\ \A i \in DOMAIN owner[l] :
        Waits(owner[l][i], l) \/ (i = 1 /\ IsTaken(owner[l][i], l))
    /\ \A i, j \in DOMAIN owner[l] :
        i < j /\ owner[l][i] = owner[l][j] => i = 1 /\ IsTaken(owner[l][1], l)
    /\ \A p \in Holders : Waits(p, l) =>
        \E i \in DOMAIN owner[l] : owner[l][i] = p /\ (i > 1 \/ ~IsTaken(p, l))

HoldInv ==
    /\ HoldTypes /\ IdsInv
    /\ \A p \in Holders : OrderOf(p) /\ HeldOf(p)
    /\ \A l \in Locks : CallsOf(l)

\* What is left to show of a step of one task that gives no ids.
LEMMA TaskStep ==
    ASSUME HoldInv, HoldTypes', lockId' = lockId, NEW p \in Holders,
           \A q \in Holders \ {p} :
               toLock'[q] = toLock[q] /\ held'[q] = held[q] /\ phase'[q] = phase[q],
           OrderOf(p)', HeldOf(p)',
           \A q \in Holders \ {p}, l \in Locks : Has(q, l) => HasFirst(q, l)',
           \A l \in Locks :
               \/ CallsOf(l)'
               \/ /\ owner'[l] = owner[l] /\ (l \in unreleased' <=> l \in unreleased)
                  /\ Waits(p, l)' <=> Waits(p, l)
                  /\ Has(p, l)' <=> Has(p, l)
    PROVE  HoldInv'
<1>1. IdsInv'
  BY DEF HoldInv, IdsInv, LastId
<1>2. ASSUME NEW q \in Holders \ {p} PROVE OrderOf(q)' /\ HeldOf(q)'
  <2>1. OrderOf(q) /\ HeldOf(q)
    BY DEF HoldInv
  <2>2. OrderOf(q)'
    BY <2>1 DEF OrderOf, InOrder
  <2> QED
    BY <2>1, <2>2 DEF HeldOf, Has
<1>3. ASSUME NEW l \in Locks PROVE CallsOf(l)'
  <2>1. CASE /\ owner'[l] = owner[l] /\ (l \in unreleased' <=> l \in unreleased)
             /\ Waits(p, l)' <=> Waits(p, l)
             /\ Has(p, l)' <=> Has(p, l)
    <3>1. \A q \in Holders : (Waits(q, l)' <=> Waits(q, l)) /\ (IsTaken(q, l)' <=> IsTaken(q, l))
      BY <2>1 DEF Waits, IsTaken, Has
    <3>2. \A i \in DOMAIN owner[l] : owner[l][i] \in Holders
      BY DEF HoldInv, HoldTypes
    <3>3. CallsOf(l)
      BY DEF HoldInv
    <3> QED
      BY <2>1, <3>1, <3>2, <3>3 DEF CallsOf
  <2> QED
    BY <2>1
<1> QED
  BY <1>1, <1>2, <1>3 DEF HoldInv

\* What a task and the locks are when it comes to a step.
LEMMA HoldFacts ==
    ASSUME HoldInv, NEW p \in Holders
    PROVE  /\ HoldTypes /\ OrderOf(p) /\ HeldOf(p)
           /\ \A l \in Locks : CallsOf(l)
           /\ \A q \in Holders, l \in Locks : Has(q, l) => HasFirst(q, l)
           /\ held[p] \in Seq(Locks) /\ toLock[p] \in Seq(Locks)
           /\ \A l \in Locks : owner[l] \in Seq(Holders)
  BY DEF HoldInv, HoldTypes, HeldOf

\* unlock() is called: a step that changes the phase only.
LEMMA HoldUnlock ==
    ASSUME HoldInv, NEW p \in Holders, Unlock(p)
    PROVE  HoldInv'
<1>1. /\ phase' = [phase EXCEPT ![p] = "releasing"] /\ phase[p] = "holding"
      /\ UNCHANGED <<lockId, owner, toLock, held, failures, unreleased>>
  BY DEF Unlock
<1>2. HoldTypes'
  BY <1>1 DEF HoldInv, HoldTypes, HoldPhases
<1>3. phase'[p] = "releasing" /\ \A q \in Holders \ {p} : phase'[q] = phase[q]
  BY <1>1 DEF HoldInv, HoldTypes
<1>4. OrderOf(p)'
  BY <1>1, HoldFacts DEF OrderOf, InOrder
<1>5. HeldOf(p)'
  BY <1>1, <1>3, HoldFacts DEF HeldOf, Has, HasFirst
<1>6. \A l \in Locks : (Waits(p, l)' <=> Waits(p, l)) /\ (Has(p, l)' <=> Has(p, l))
  BY <1>1, <1>3 DEF Waits, Has
<1>7. \A q \in Holders \ {p}, l \in Locks : Has(q, l) => HasFirst(q, l)'
  BY <1>1, HoldFacts DEF HasFirst
<1> QED
  BY <1>1, <1>2, <1>3, <1>4, <1>5, <1>6, <1>7, TaskStep

\* The members of an array after a push.
LEMMA AppendFacts ==
    ASSUME NEW Elems, NEW s \in Seq(Elems), NEW e \in Elems
    PROVE  /\ DOMAIN s = 1 .. Len(s) /\ Len(s) \in Nat
           /\ Append(s, e) \in Seq(Elems)
           /\ DOMAIN Append(s, e) = 1 .. Len(s) + 1
           /\ Append(s, e)[Len(s) + 1] = e
           /\ \A i \in DOMAIN s : Append(s, e)[i] = s[i]
  OBVIOUS

\* The members of an array after a shift.
LEMMA TailFacts ==
    ASSUME NEW Elems, NEW s \in Seq(Elems), s # <<>>
    PROVE  /\ DOMAIN s = 1 .. Len(s) /\ Len(s) \in Nat /\ Len(s) > 0
           /\ Head(s) = s[1] /\ s[1] \in Elems
           /\ Tail(s) \in Seq(Elems)
           /\ DOMAIN Tail(s) = 1 .. Len(s) - 1
           /\ \A i \in DOMAIN Tail(s) : Tail(s)[i] = s[i + 1]
  OBVIOUS

\* The next lock is free.
LEMMA HoldTakes ==
    ASSUME HoldInv, NEW p \in Holders, phase[p] \in {"locking", "trying"}, toLock[p] # <<>>,
           NEW l, l = Head(toLock[p]), owner[l] = <<>>,
           owner' = [owner EXCEPT ![l] = <<p>>],
           toLock' = [toLock EXCEPT ![p] = Tail(@)],
           held' = [held EXCEPT ![p] = Append(@, l)],
           UNCHANGED <<phase, lockId, unreleased>>
    PROVE  HoldInv'
<1>1. l \in Locks /\ toLock[p] \in Seq(Locks) /\ held[p] \in Seq(Locks) /\ HoldTypes
  BY HoldFacts
<1>2. HoldTypes'
  BY <1>1 DEF HoldTypes
<1>3. /\ owner'[l] = <<p>> /\ \A m \in Locks \ {l} : owner'[m] = owner[m]
      /\ toLock'[p] = Tail(toLock[p]) /\ held'[p] = Append(held[p], l)
      /\ \A q \in Holders \ {p} : toLock'[q] = toLock[q] /\ held'[q] = held[q]
  BY <1>1 DEF HoldTypes
<1>4. /\ OrderOf(p) /\ HeldOf(p) /\ CallsOf(l)
      /\ \A q \in Holders : ~Has(q, l)
      /\ l \notin unreleased
  <2>1. CallsOf(l) /\ \A q \in Holders : Has(q, l) => owner[l] # <<>>
    BY <1>1, HoldFacts DEF HasFirst
  <2> QED
    BY <2>1, HoldFacts DEF CallsOf
<1>5. /\ DOMAIN held'[p] = 1 .. Len(held[p]) + 1
      /\ held'[p][Len(held[p]) + 1] = l
      /\ \A i \in DOMAIN held[p] : held'[p][i] = held[p][i]
      /\ DOMAIN held[p] = 1 .. Len(held[p]) /\ Len(held[p]) \in Nat
      /\ DOMAIN toLock'[p] = 1 .. Len(toLock[p]) - 1
      /\ DOMAIN toLock[p] = 1 .. Len(toLock[p]) /\ Len(toLock[p]) \in Nat
      /\ \A j \in DOMAIN toLock'[p] : toLock'[p][j] = toLock[p][j + 1]
      /\ l = toLock[p][1] /\ Len(toLock[p]) > 0
  <2>1. /\ DOMAIN Append(held[p], l) = 1 .. Len(held[p]) + 1
        /\ Append(held[p], l)[Len(held[p]) + 1] = l
        /\ \A i \in DOMAIN held[p] : Append(held[p], l)[i] = held[p][i]
        /\ DOMAIN held[p] = 1 .. Len(held[p]) /\ Len(held[p]) \in Nat
    BY <1>1, AppendFacts
  <2>2. /\ DOMAIN toLock[p] = 1 .. Len(toLock[p]) /\ Len(toLock[p]) \in Nat /\ Len(toLock[p]) > 0
        /\ l = toLock[p][1]
        /\ DOMAIN Tail(toLock[p]) = 1 .. Len(toLock[p]) - 1
        /\ \A j \in DOMAIN Tail(toLock[p]) : Tail(toLock[p])[j] = toLock[p][j + 1]
    BY <1>1, TailFacts
  <2> QED
    BY <1>3, <2>1, <2>2
<1>6. OrderOf(p)'
  <2>1. \A i, j \in DOMAIN toLock'[p] : i < j => InOrder(toLock[p][i + 1], toLock[p][j + 1])
    <3> SUFFICES ASSUME NEW i \in DOMAIN toLock'[p], NEW j \in DOMAIN toLock'[p], i < j
                 PROVE  InOrder(toLock[p][i + 1], toLock[p][j + 1])
      OBVIOUS
    <3>1. i + 1 \in DOMAIN toLock[p] /\ j + 1 \in DOMAIN toLock[p] /\ i + 1 < j + 1
      BY <1>5
    <3> QED
      BY <1>4, <3>1 DEF OrderOf
  <2>2. \A i \in DOMAIN held'[p], j \in DOMAIN toLock'[p] : InOrder(held'[p][i], toLock'[p][j])
    <3> SUFFICES ASSUME NEW i \in DOMAIN held'[p], NEW j \in DOMAIN toLock'[p]
                 PROVE  InOrder(held'[p][i], toLock[p][j + 1])
      BY <1>5
    <3>1. j + 1 \in DOMAIN toLock[p] /\ 1 \in DOMAIN toLock[p] /\ 1 < j + 1
      BY <1>5
    <3>2. CASE i \in DOMAIN held[p]
      BY <1>4, <1>5, <3>1, <3>2 DEF OrderOf
    <3>3. CASE i = Len(held[p]) + 1
      BY <1>4, <1>5, <3>1, <3>3 DEF OrderOf
    <3> QED
      BY <1>5, <3>2, <3>3
  <2>3. \A i, j \in DOMAIN toLock'[p] : i < j => InOrder(toLock[p][i], toLock[p][j])'
    <3> SUFFICES ASSUME NEW i \in DOMAIN toLock'[p], NEW j \in DOMAIN toLock'[p], i < j
                 PROVE  InOrder(toLock[p][i], toLock[p][j])'
      OBVIOUS
    <3>1. InOrder(toLock[p][i + 1], toLock[p][j + 1])
      BY <2>1
    <3>2. toLock'[p][i] = toLock[p][i + 1] /\ toLock'[p][j] = toLock[p][j + 1]
      BY <1>5
    <3> QED
      BY <3>1, <3>2 DEF InOrder
  <2>4. \A i \in DOMAIN held'[p], j \in DOMAIN toLock'[p] : InOrder(held[p][i], toLock[p][j])'
    BY <2>2 DEF InOrder
  <2> QED
    BY <2>3, <2>4 DEF OrderOf
<1>7. \A m \in Locks : Has(p, m)' <=> Has(p, m) \/ m = l
  BY <1>5 DEF Has
<1>8. HeldOf(p)'
  <2>1. \A m \in Locks : Has(p, m)' => HasFirst(p, m)'
    <3>1. HasFirst(p, l)'
      <4>1. <<p>> # <<>> /\ <<p>>[1] = p
        OBVIOUS
      <4>2. l \notin unreleased'
        BY <1>4
      <4> QED
        BY <1>3, <4>1, <4>2, Zenon DEF HasFirst
    <3>2. \A m \in Locks \ {l} : HasFirst(p, m) => HasFirst(p, m)'
      BY <1>3 DEF HasFirst
    <3>3. \A m \in Locks : Has(p, m) => HasFirst(p, m)
      BY <1>4 DEF HeldOf
    <3> QED
      BY <1>4, <1>7, <3>1, <3>2, <3>3
  <2>2. \A i, j \in DOMAIN held'[p] : held'[p][i] = held'[p][j] => i = j
    BY <1>4, <1>5 DEF HeldOf, Has
  <2> QED
    BY <1>3, <1>4, <2>1, <2>2 DEF HeldOf
<1>9. CallsOf(l)'
  <2>1. IsTaken(p, l)' /\ DOMAIN owner'[l] = {1} /\ owner'[l][1] = p
    BY <1>1, <1>3, <1>7 DEF IsTaken
  <2>2. \A q \in Holders : ~Waits(q, l)'
    <3>1. \A q \in Holders : ~Waits(q, l)
      BY <1>4 DEF CallsOf
    <3> QED
      BY <1>3, <3>1 DEF Waits
  <2> QED
    BY <1>3, <1>4, <2>1, <2>2 DEF CallsOf
<1>10. \A m \in Locks \ {l} : (Waits(p, m)' <=> Waits(p, m)) /\ (Has(p, m)' <=> Has(p, m))
  BY <1>7 DEF Waits
<1>11. \A q \in Holders \ {p}, m \in Locks : Has(q, m) => HasFirst(q, m)'
  BY <1>3, <1>4, HoldFacts DEF HasFirst
<1> QED
  BY <1>2, <1>3, <1>6, <1>8, <1>9, <1>10, <1>11, TaskStep

\* The next lock is not free, and is waited for.
LEMMA HoldWaits ==
    ASSUME HoldInv, NEW p \in Holders, phase[p] = "locking", toLock[p] # <<>>,
           NEW l, l = Head(toLock[p]), owner[l] # <<>>,
           owner' = [owner EXCEPT ![l] = Append(@, p)],
           phase' = [phase EXCEPT ![p] = "waiting"],
           UNCHANGED <<toLock, held, lockId, unreleased>>
    PROVE  HoldInv'
<1>1. l \in Locks /\ owner[l] \in Seq(Holders) /\ HoldTypes /\ CallsOf(l) /\ HeldOf(p)
  <2>1. l \in Locks
    BY HoldFacts
  <2> QED
    BY <2>1, HoldFacts
<1>2. HoldTypes'
  <2>1. owner' \in [Locks -> Seq(Holders)]
    BY <1>1 DEF HoldTypes
  <2>2. phase' \in [Holders -> HoldPhases]
    BY <1>1 DEF HoldTypes, HoldPhases
  <2> QED
    BY <1>1, <2>1, <2>2 DEF HoldTypes
<1>3. /\ owner'[l] = Append(owner[l], p) /\ \A m \in Locks \ {l} : owner'[m] = owner[m]
      /\ phase'[p] = "waiting" /\ \A q \in Holders \ {p} : phase'[q] = phase[q]
  BY <1>1 DEF HoldTypes
<1>4. /\ DOMAIN owner'[l] = 1 .. Len(owner[l]) + 1
      /\ owner'[l][Len(owner[l]) + 1] = p
      /\ \A i \in DOMAIN owner[l] : owner'[l][i] = owner[l][i]
      /\ DOMAIN owner[l] = 1 .. Len(owner[l]) /\ Len(owner[l]) \in Nat \ {0}
      /\ owner'[l] # <<>>
  BY <1>1, <1>3
<1>5. OrderOf(p)'
  BY HoldFacts DEF OrderOf, InOrder
<1>6. \A q \in Holders, m \in Locks : HasFirst(q, m) => HasFirst(q, m)'
  BY <1>3, <1>4 DEF HasFirst
<1>7. HeldOf(p)'
  BY <1>1, <1>3, <1>6 DEF HeldOf, Has
<1>8. CallsOf(l)'
  <2>1. /\ ~Waits(p, l) /\ Waits(p, l)' /\ \A q \in Holders \ {p} : Waits(q, l)' <=> Waits(q, l)
        /\ \A q \in Holders : IsTaken(q, l)' <=> IsTaken(q, l)
    BY <1>3 DEF Waits, IsTaken, Has
  <2>2. \A i \in DOMAIN owner[l] : owner[l][i] \in Holders
    BY <1>1
  <2>3. \A i \in DOMAIN owner[l] : owner[l][i] = p => i = 1 /\ IsTaken(p, l)
    BY <1>1, <2>1 DEF CallsOf
  <2>4. \A i \in DOMAIN owner'[l] :
          Waits(owner[l][i], l)' \/ (i = 1 /\ IsTaken(owner[l][i], l)')
    <3> SUFFICES ASSUME NEW i \in DOMAIN owner'[l]
                 PROVE  Waits(owner[l][i], l)' \/ (i = 1 /\ IsTaken(owner[l][i], l)')
      OBVIOUS
    <3>1. CASE i = Len(owner[l]) + 1
      BY <1>4, <2>1, <3>1
    <3>2. CASE i \in DOMAIN owner[l]
      <4>1. Waits(owner[l][i], l) \/ (i = 1 /\ IsTaken(owner[l][i], l))
        BY <1>1, <3>2 DEF CallsOf
      <4> QED
        BY <1>4, <2>1, <2>2, <3>2, <4>1
    <3> QED
      BY <1>4, <3>1, <3>2
  <2>5. \A i, j \in DOMAIN owner'[l] :
          i < j /\ owner'[l][i] = owner'[l][j] => i = 1 /\ IsTaken(owner[l][1], l)'
    <3> SUFFICES ASSUME NEW i \in DOMAIN owner'[l], NEW j \in DOMAIN owner'[l], i < j,
                        owner'[l][i] = owner'[l][j]
                 PROVE  i = 1 /\ IsTaken(owner[l][1], l)
      BY <1>4, <2>1, <2>2
    <3>1. i \in DOMAIN owner[l]
      BY <1>4
    <3>2. CASE j = Len(owner[l]) + 1
      BY <1>4, <2>3, <3>1, <3>2
    <3>3. CASE j \in DOMAIN owner[l]
      BY <1>1, <1>4, <3>1, <3>3 DEF CallsOf
    <3> QED
      BY <1>4, <3>2, <3>3
  <2>6. \A q \in Holders : Waits(q, l)' =>
          \E i \in DOMAIN owner'[l] : owner'[l][i] = q /\ (i > 1 \/ ~IsTaken(q, l)')
    <3> SUFFICES ASSUME NEW q \in Holders, Waits(q, l)'
                 PROVE  \E i \in DOMAIN owner'[l] : owner'[l][i] = q /\ (i > 1 \/ ~IsTaken(q, l)')
      OBVIOUS
    <3>1. CASE q = p
      BY <1>4, <3>1
    <3>2. CASE q # p
      <4>1. PICK i \in DOMAIN owner[l] : owner[l][i] = q /\ (i > 1 \/ ~IsTaken(q, l))
        BY <1>1, <2>1, <3>2 DEF CallsOf
      <4> QED
        BY <1>4, <2>1, <4>1
    <3> QED
      BY <3>1, <3>2
  <2> QED
    BY <1>4, <2>4, <2>5, <2>6 DEF CallsOf
<1>9. \A m \in Locks \ {l} : (Waits(p, m)' <=> Waits(p, m)) /\ (Has(p, m)' <=> Has(p, m))
  BY <1>1, <1>3 DEF Waits, Has
<1>10. \A q \in Holders \ {p}, m \in Locks : Has(q, m) => HasFirst(q, m)'
  BY <1>6, HoldFacts
<1> QED
  BY <1>2, <1>3, <1>5, <1>7, <1>8, <1>9, <1>10, TaskStep

\* A turn of from() or tryFrom(): a lock taken, waited for or refused, or the end.
LEMMA HoldAdvance ==
    ASSUME HoldInv, NEW p \in Holders, Advance(p)
    PROVE  HoldInv'
<1>0. phase[p] \in {"locking", "trying"} /\ UNCHANGED <<lockId, unreleased>>
  BY DEF Advance
<1>1. CASE owner' = owner /\ held' = held /\ ~Waits(p, Head(toLock[p]))'
           /\ \E s \in HoldPhases \ {"idle", "waiting"} :
                phase' = [phase EXCEPT ![p] = s]
           /\ toLock' = [toLock EXCEPT ![p] = <<>>]
  <2>1. HoldTypes' /\ HoldTypes
    BY <1>0, <1>1, HoldFacts DEF HoldTypes
  <2>2. /\ phase'[p] \notin {"idle", "waiting"} /\ toLock'[p] = <<>>
        /\ \A q \in Holders \ {p} : phase'[q] = phase[q] /\ toLock'[q] = toLock[q]
    BY <1>1, <2>1 DEF HoldTypes
  <2>3. OrderOf(p)' /\ HeldOf(p)'
    BY <1>0, <1>1, <2>2, HoldFacts DEF OrderOf, HeldOf, Has, HasFirst
  <2>4. \A m \in Locks : (Waits(p, m)' <=> Waits(p, m)) /\ (Has(p, m)' <=> Has(p, m))
    BY <1>0, <1>1, <2>2 DEF Waits, Has
  <2>5. \A q \in Holders \ {p}, m \in Locks : Has(q, m) => HasFirst(q, m)'
    BY <1>0, <1>1, HoldFacts DEF HasFirst
  <2> QED
    BY <1>0, <1>1, <2>1, <2>2, <2>3, <2>4, <2>5, TaskStep
<1>2. CASE toLock[p] = <<>>
  <2>1. /\ owner' = owner /\ held' = held /\ phase' = [phase EXCEPT ![p] = "holding"]
        /\ toLock' = toLock
    BY <1>2 DEF Advance
  <2>2. toLock' = [toLock EXCEPT ![p] = <<>>]
    BY <1>2, <2>1, HoldFacts DEF HoldTypes
  <2> QED
    BY <1>1, <2>1, <2>2, HoldFacts DEF HoldPhases, Waits, HoldTypes
<1>3. CASE toLock[p] # <<>>
  <2> DEFINE l == Head(toLock[p])
  <2>1. CASE owner[l] = <<>>
    <3>1. /\ owner' = [owner EXCEPT ![l] = <<p>>]
          /\ toLock' = [toLock EXCEPT ![p] = Tail(@)]
          /\ held' = [held EXCEPT ![p] = Append(@, l)]
          /\ phase' = phase
      BY <1>3, <2>1 DEF Advance
    <3> HIDE DEF l
    <3> QED
      BY <1>0, <1>3, <2>1, <3>1, HoldTakes DEF l
  <2>2. CASE owner[l] # <<>> /\ phase[p] = "trying"
    <3>1. /\ phase' = [phase EXCEPT ![p] = "releasing"]
          /\ toLock' = [toLock EXCEPT ![p] = <<>>]
          /\ owner' = owner /\ held' = held
      BY <1>3, <2>2 DEF Advance
    <3> QED
      BY <1>1, <3>1, HoldFacts DEF HoldPhases, Waits, HoldTypes
  <2>3. CASE owner[l] # <<>> /\ phase[p] = "locking"
    <3>1. /\ owner' = [owner EXCEPT ![l] = Append(@, p)]
          /\ phase' = [phase EXCEPT ![p] = "waiting"]
          /\ toLock' = toLock /\ held' = held
      BY <1>3, <2>3 DEF Advance
    <3> HIDE DEF l
    <3> QED
      BY <1>0, <1>3, <2>3, <3>1, HoldWaits DEF l
  <2> QED
    BY <1>0, <2>1, <2>2, <2>3
<1> QED
  BY <1>2, <1>3

\* The lock that was waited for is held.
LEMMA HoldGranted ==
    ASSUME HoldInv, NEW p \in Holders, Granted(p), NEW l, l = Head(toLock[p])
    PROVE  HoldInv'
<1>0. /\ phase[p] = "waiting" /\ IsServed(p, l)
      /\ phase' = [phase EXCEPT ![p] = "locking"]
      /\ toLock' = [toLock EXCEPT ![p] = Tail(@)]
      /\ held' = [held EXCEPT ![p] = Append(@, l)]
      /\ UNCHANGED <<lockId, owner, unreleased>>
  BY DEF Granted
<1>1. HoldTypes /\ HeldOf(p) /\ OrderOf(p) /\ toLock[p] # <<>>
      /\ toLock[p] \in Seq(Locks) /\ held[p] \in Seq(Locks)
  BY <1>0, HoldFacts DEF HeldOf
<1>2. /\ DOMAIN toLock[p] = 1 .. Len(toLock[p]) /\ Len(toLock[p]) \in Nat /\ Len(toLock[p]) > 0
      /\ l = toLock[p][1] /\ l \in Locks
      /\ Tail(toLock[p]) \in Seq(Locks)
      /\ DOMAIN Tail(toLock[p]) = 1 .. Len(toLock[p]) - 1
      /\ \A j \in DOMAIN Tail(toLock[p]) : Tail(toLock[p])[j] = toLock[p][j + 1]
  BY <1>1, TailFacts
<1>3. /\ Append(held[p], l) \in Seq(Locks)
      /\ DOMAIN Append(held[p], l) = 1 .. Len(held[p]) + 1
      /\ Append(held[p], l)[Len(held[p]) + 1] = l
      /\ \A i \in DOMAIN held[p] : Append(held[p], l)[i] = held[p][i]
      /\ DOMAIN held[p] = 1 .. Len(held[p]) /\ Len(held[p]) \in Nat
  BY <1>1, <1>2, AppendFacts
<1>4. /\ phase'[p] = "locking" /\ toLock'[p] = Tail(toLock[p]) /\ held'[p] = Append(held[p], l)
      /\ \A q \in Holders \ {p} :
            toLock'[q] = toLock[q] /\ held'[q] = held[q] /\ phase'[q] = phase[q]
  BY <1>0, <1>1 DEF HoldTypes
<1>5. CallsOf(l) /\ HasFirst(p, l) /\ ~Has(p, l) /\ Waits(p, l)
  <2>1. CallsOf(l) /\ owner[l] \in Seq(Holders) /\ Waits(p, l)
    BY <1>0, <1>2, HoldFacts DEF Waits
  <2>2. owner[l] # <<>>
    BY <2>1 DEF CallsOf
  <2>3. ~Has(p, l) /\ l \notin unreleased /\ Head(owner[l]) = p
    BY <1>0, <1>3 DEF IsServed, Contains, Has
  <2> QED
    BY <2>1, <2>2, <2>3, TailFacts DEF HasFirst
<1>6. HoldTypes'
  <2>1. toLock' \in [Holders -> Seq(Locks)]
    BY <1>0, <1>1, <1>2 DEF HoldTypes
  <2>2. held' \in [Holders -> Seq(Locks)]
    BY <1>0, <1>1, <1>3 DEF HoldTypes
  <2>3. phase' \in [Holders -> HoldPhases]
    BY <1>0, <1>1 DEF HoldTypes, HoldPhases
  <2> QED
    BY <1>0, <1>1, <2>1, <2>2, <2>3 DEF HoldTypes
<1>7. OrderOf(p)'
  <2>1. ASSUME NEW i \in DOMAIN toLock'[p], NEW j \in DOMAIN toLock'[p], i < j
        PROVE  InOrder(toLock[p][i], toLock[p][j])'
    <3>1. i + 1 \in DOMAIN toLock[p] /\ j + 1 \in DOMAIN toLock[p] /\ i + 1 < j + 1
      <4>1. i \in 1 .. Len(toLock[p]) - 1 /\ j \in 1 .. Len(toLock[p]) - 1
        BY <1>2, <1>4
      <4>2. DOMAIN toLock[p] = 1 .. Len(toLock[p]) /\ Len(toLock[p]) \in Nat
        BY <1>2
      <4> QED
        BY <2>1, <4>1, <4>2
    <3>2. InOrder(toLock[p][i + 1], toLock[p][j + 1])
      BY <1>1, <3>1 DEF OrderOf
    <3>3. toLock'[p][i] = toLock[p][i + 1] /\ toLock'[p][j] = toLock[p][j + 1]
      BY <1>2, <1>4
    <3> QED
      BY <1>0, <3>2, <3>3 DEF InOrder
  <2>2. ASSUME NEW i \in DOMAIN held'[p], NEW j \in DOMAIN toLock'[p]
        PROVE  InOrder(held[p][i], toLock[p][j])'
    <3>1. j + 1 \in DOMAIN toLock[p] /\ 1 \in DOMAIN toLock[p] /\ 1 < j + 1
          /\ toLock'[p][j] = toLock[p][j + 1]
      BY <1>2, <1>4
    <3>2. CASE i \in DOMAIN held[p]
      <4>1. InOrder(held[p][i], toLock[p][j + 1])
        BY <1>1, <3>1, <3>2 DEF OrderOf
      <4>2. held'[p][i] = held[p][i]
        BY <1>3, <1>4, <3>2
      <4> QED
        BY <1>0, <3>1, <4>1, <4>2 DEF InOrder
    <3>3. CASE i = Len(held[p]) + 1
      <4>1. InOrder(toLock[p][1], toLock[p][j + 1])
        BY <1>1, <3>1 DEF OrderOf
      <4>2. held'[p][i] = toLock[p][1]
        BY <1>2, <1>3, <1>4, <3>3
      <4> QED
        BY <1>0, <3>1, <4>1, <4>2 DEF InOrder
    <3> QED
      BY <1>3, <1>4, <3>2, <3>3
  <2> QED
    BY <2>1, <2>2 DEF OrderOf
<1>8. \A m \in Locks : Has(p, m)' <=> Has(p, m) \/ m = l
  BY <1>3, <1>4 DEF Has
<1>9. \A q \in Holders, m \in Locks : HasFirst(q, m)' <=> HasFirst(q, m)
  BY <1>0 DEF HasFirst
<1>10. HeldOf(p)'
  <2>1. \A m \in Locks : Has(p, m)' => HasFirst(p, m)'
    BY <1>1, <1>5, <1>8, <1>9 DEF HeldOf
  <2>2. \A i, j \in DOMAIN held'[p] : held'[p][i] = held'[p][j] => i = j
    BY <1>1, <1>3, <1>4, <1>5 DEF HeldOf, Has
  <2> QED
    BY <1>4, <2>1, <2>2 DEF HeldOf
<1>11. CallsOf(l)'
  <2>1. /\ IsTaken(p, l)' /\ ~Waits(p, l)' /\ ~IsTaken(p, l)
        /\ \A q \in Holders \ {p} : (Waits(q, l)' <=> Waits(q, l)) /\ (IsTaken(q, l)' <=> IsTaken(q, l))
    <3>1. ~IsTaken(p, l) /\ IsTaken(p, l)' /\ ~Waits(p, l)'
      BY <1>2, <1>4, <1>5, <1>8 DEF IsTaken, HasFirst, Waits
    <3>2. \A q \in Holders \ {p} : Waits(q, l)' <=> Waits(q, l)
      BY <1>4 DEF Waits
    <3>3. \A q \in Holders \ {p} : IsTaken(q, l)' <=> IsTaken(q, l)
      BY <1>0, <1>4 DEF IsTaken, Has
    <3> QED
      BY <3>1, <3>2, <3>3
  <2>2. owner[l] \in Seq(Holders) /\ owner[l] # <<>> /\ owner[l][1] = p /\ 1 \in DOMAIN owner[l]
    BY <1>2, <1>5, HoldFacts, TailFacts DEF HasFirst
  <2>3. \A i \in DOMAIN owner[l] : owner[l][i] \in Holders /\ i \in Nat /\ (i = 1 \/ 1 < i)
    BY <2>2
  <2>4. \A i \in DOMAIN owner[l] : owner[l][i] = p => i = 1
    BY <1>5, <2>1, <2>2, <2>3 DEF CallsOf
  <2>5. \A i \in DOMAIN owner[l] :
          Waits(owner[l][i], l)' \/ (i = 1 /\ IsTaken(owner[l][i], l)')
    <3> SUFFICES ASSUME NEW i \in DOMAIN owner[l], i # 1
                 PROVE  Waits(owner[l][i], l)'
      BY <1>0, <2>1, <2>2
    <3>1. owner[l][i] \in Holders \ {p} /\ Waits(owner[l][i], l)
      BY <1>5, <2>3, <2>4 DEF CallsOf
    <3> QED
      BY <1>0, <2>1, <3>1
  <2>6. \A i, j \in DOMAIN owner[l] : i < j => owner[l][i] # owner[l][j]
    BY <1>5, <2>1, <2>2, <2>3 DEF CallsOf
  <2>7. \A q \in Holders : Waits(q, l)' =>
          \E i \in DOMAIN owner[l] : owner[l][i] = q /\ (i > 1 \/ ~IsTaken(q, l)')
    BY <1>5, <2>1 DEF CallsOf
  <2> QED
    BY <1>0, <2>2, <2>5, <2>6, <2>7 DEF CallsOf
<1>12. \A m \in Locks \ {l} : (Waits(p, m)' <=> Waits(p, m)) /\ (Has(p, m)' <=> Has(p, m))
  BY <1>0, <1>4, <1>5, <1>8 DEF Waits
<1>13. \A q \in Holders \ {p}, m \in Locks : Has(q, m) => HasFirst(q, m)'
  BY <1>9, HoldFacts
<1> QED
  BY <1>0, <1>4, <1>6, <1>7, <1>10, <1>11, <1>12, <1>13, TaskStep

\* The members of two arrays, one behind the other.
LEMMA ConcatFacts ==
    ASSUME NEW Elems, NEW s \in Seq(Elems), NEW t \in Seq(Elems)
    PROVE  /\ s \o t \in Seq(Elems) /\ DOMAIN (s \o t) = 1 .. Len(s) + Len(t)
           /\ \A i \in 1 .. Len(s) : (s \o t)[i] = s[i]
           /\ \A i \in 1 .. Len(t) : (s \o t)[Len(s) + i] = t[i]
  OBVIOUS

\* An array without one of its places: the members before it stay, those behind
\* it move up.
LEMMA RemoveAtFacts ==
    ASSUME NEW Elems, NEW s \in Seq(Elems), NEW k \in 1 .. Len(s)
    PROVE  /\ RemoveAt(s, k) \in Seq(Elems)
           /\ DOMAIN RemoveAt(s, k) = 1 .. Len(s) - 1
           /\ \A i \in 1 .. k - 1 : RemoveAt(s, k)[i] = s[i]
           /\ \A i \in k .. Len(s) - 1 : RemoveAt(s, k)[i] = s[i + 1]
<1>0. k \in Nat /\ Len(s) \in Nat /\ 1 <= k /\ k <= Len(s)
  OBVIOUS
<1> DEFINE left == SubSeq(s, 1, k - 1)
           right == SubSeq(s, k + 1, Len(s))
<1>1. /\ left \in Seq(Elems) /\ Len(left) = k - 1
      /\ \A i \in 1 .. k - 1 : left[i] = s[i]
  OBVIOUS
<1>2. /\ right \in Seq(Elems) /\ Len(right) = Len(s) - k
      /\ \A i \in 1 .. Len(s) - k : right[i] = s[k + i]
  OBVIOUS
<1>3. RemoveAt(s, k) = left \o right
  BY DEF RemoveAt
<1> HIDE DEF left, right
<1>4. /\ left \o right \in Seq(Elems) /\ DOMAIN (left \o right) = 1 .. (k - 1) + (Len(s) - k)
      /\ \A i \in 1 .. k - 1 : (left \o right)[i] = left[i]
      /\ \A i \in 1 .. Len(s) - k : (left \o right)[(k - 1) + i] = right[i]
  <2>1. left \in Seq(Elems) /\ right \in Seq(Elems)
    BY <1>1, <1>2
  <2>2. /\ left \o right \in Seq(Elems) /\ DOMAIN (left \o right) = 1 .. Len(left) + Len(right)
        /\ \A i \in 1 .. Len(left) : (left \o right)[i] = left[i]
        /\ \A i \in 1 .. Len(right) : (left \o right)[Len(left) + i] = right[i]
    BY <2>1, ConcatFacts
  <2>3. Len(left) = k - 1 /\ Len(right) = Len(s) - k
    BY <1>1, <1>2
  <2> QED
    BY <2>2, <2>3, Zenon
<1>5. ASSUME NEW i \in k .. Len(s) - 1
      PROVE  (left \o right)[i] = s[i + 1]
  <2> DEFINE j == i + 1 - k
  <2>1. j \in 1 .. Len(s) - k /\ (k - 1) + j = i /\ k + j = i + 1
    BY <1>0
  <2> HIDE DEF j
  <2>2. (left \o right)[(k - 1) + j] = right[j] /\ right[j] = s[k + j]
    BY <1>2, <1>4, <2>1
  <2> QED
    BY <2>1, <2>2
<1>6. (k - 1) + (Len(s) - k) = Len(s) - 1
  BY <1>0
<1> QED
  BY <1>1, <1>3, <1>4, <1>5, <1>6

\* The call that waited is no longer served.
LEMMA HoldAbort ==
    ASSUME HoldInv, NEW p \in Holders, Abort(p), NEW l, l = Head(toLock[p])
    PROVE  HoldInv'
<1> DEFINE k == LastCall(p, owner[l])
<1>0. /\ phase[p] = "waiting" /\ ~IsServed(p, l)
      /\ phase' = [phase EXCEPT ![p] = "releasing"]
      /\ owner' = [owner EXCEPT ![l] = RemoveAt(@, k)]
      /\ toLock' = [toLock EXCEPT ![p] = <<>>]
      /\ UNCHANGED <<lockId, held, unreleased>>
  BY DEF Abort
<1>1. /\ HoldTypes /\ HeldOf(p) /\ OrderOf(p) /\ Waits(p, l)
      /\ l \in Locks /\ owner[l] \in Seq(Holders) /\ CallsOf(l) /\ owner[l] # <<>>
  <2>1. toLock[p] # <<>> /\ toLock[p] \in Seq(Locks) /\ Waits(p, l)
    BY <1>0, HoldFacts DEF HeldOf, Waits
  <2>2. l \in Locks
    BY <2>1, TailFacts
  <2> QED
    BY <2>1, <2>2, HoldFacts DEF CallsOf
<1>2. k \in 2 .. Len(owner[l]) /\ owner[l][k] = p
      /\ \A i \in DOMAIN owner[l] : owner[l][i] = p => i = k \/ (i = 1 /\ IsTaken(p, l))
  <2>1. PICK i \in DOMAIN owner[l] : owner[l][i] = p /\ (i > 1 \/ ~IsTaken(p, l))
    BY <1>1 DEF CallsOf
  <2>2. i > 1
    <3> SUFFICES ASSUME i = 1 PROVE FALSE
      BY <1>1
    <3>1. Head(owner[l]) = p
      BY <1>1, <2>1, TailFacts
    <3>2. ~Has(p, l) => ~Contains(held[p], l)
      BY <1>1 DEF Has, Contains, HoldTypes
    <3> QED
      BY <1>0, <2>1, <3>1, <3>2 DEF IsServed, IsTaken
  <2>3. \A j \in DOMAIN owner[l] : owner[l][j] = p /\ j # i => j = 1 /\ IsTaken(p, l)
    <3> SUFFICES ASSUME NEW j \in DOMAIN owner[l], owner[l][j] = p, j # i
                 PROVE  j = 1 /\ IsTaken(p, l)
      OBVIOUS
    <3>1. i < j \/ j < i
      BY <1>1
    <3> QED
      BY <1>1, <2>1, <2>2, <3>1 DEF CallsOf
  <2>4. \A j \in DOMAIN owner[l] : owner[l][j] = p => j <= i
    BY <1>1, <2>2, <2>3
  <2>5. k \in DOMAIN owner[l] /\ owner[l][k] = p /\ (\A j \in DOMAIN owner[l] : owner[l][j] = p => j <= k)
    BY <2>1, <2>4 DEF LastCall
  <2>6. k = i
    BY <1>1, <2>1, <2>4, <2>5
  <2> QED
    BY <1>1, <2>1, <2>2, <2>3, <2>6
<1> HIDE DEF k
<1>3. /\ owner'[l] = RemoveAt(owner[l], k) /\ \A m \in Locks \ {l} : owner'[m] = owner[m]
      /\ phase'[p] = "releasing" /\ toLock'[p] = <<>>
      /\ \A q \in Holders \ {p} : phase'[q] = phase[q] /\ toLock'[q] = toLock[q]
  BY <1>0, <1>1 DEF HoldTypes
<1>4. /\ owner'[l] \in Seq(Holders) /\ DOMAIN owner'[l] = 1 .. Len(owner[l]) - 1
      /\ \A i \in DOMAIN owner'[l] :
            /\ i < k => owner'[l][i] = owner[l][i]
            /\ i >= k => owner'[l][i] = owner[l][i + 1]
      /\ DOMAIN owner[l] = 1 .. Len(owner[l]) /\ Len(owner[l]) \in Nat
  <2>1. k \in 1 .. Len(owner[l])
    BY <1>1, <1>2
  <2>2. k \in Nat /\ 2 <= k /\ Len(owner[l]) \in Nat /\ DOMAIN owner[l] = 1 .. Len(owner[l])
    BY <1>1, <1>2
  <2>3. /\ owner'[l] \in Seq(Holders) /\ DOMAIN owner'[l] = 1 .. Len(owner[l]) - 1
        /\ \A i \in 1 .. k - 1 : owner'[l][i] = owner[l][i]
        /\ \A i \in k .. Len(owner[l]) - 1 : owner'[l][i] = owner[l][i + 1]
    BY <1>1, <1>3, <2>1, RemoveAtFacts
  <2>4. ASSUME NEW i \in 1 .. Len(owner[l]) - 1
        PROVE  (i < k => i \in 1 .. k - 1) /\ (i >= k => i \in k .. Len(owner[l]) - 1)
    BY <2>2
  <2> QED
    BY <2>2, <2>3, <2>4
<1>5. HoldTypes'
  <2>1. owner' \in [Locks -> Seq(Holders)]
    BY <1>0, <1>1, <1>3, <1>4 DEF HoldTypes
  <2>2. phase' \in [Holders -> HoldPhases]
    BY <1>0, <1>1 DEF HoldTypes, HoldPhases
  <2>3. toLock' \in [Holders -> Seq(Locks)]
    BY <1>0, <1>1 DEF HoldTypes
  <2> QED
    BY <1>0, <1>1, <2>1, <2>2, <2>3 DEF HoldTypes
<1>6. OrderOf(p)'
  BY <1>3 DEF OrderOf
<1>7. \A q \in Holders, m \in Locks : HasFirst(q, m) => HasFirst(q, m)'
  <2>1. owner'[l] # <<>> /\ owner'[l][1] = owner[l][1]
    BY <1>1, <1>2, <1>4
  <2> QED
    BY <1>0, <1>3, <2>1 DEF HasFirst
<1>8. HeldOf(p)'
  BY <1>0, <1>1, <1>3, <1>7 DEF HeldOf, Has
<1>9. CallsOf(l)'
  <2>1. /\ ~Waits(p, l)' /\ \A q \in Holders \ {p} : Waits(q, l)' <=> Waits(q, l)
        /\ \A q \in Holders : IsTaken(q, l)' <=> IsTaken(q, l)
    BY <1>0, <1>3 DEF Waits, IsTaken, Has
  <2>2. \A i \in DOMAIN owner'[l] : \E j \in DOMAIN owner[l] :
          /\ owner'[l][i] = owner[l][j] /\ j # k /\ (j = 1 <=> i = 1)
          /\ j = IF i < k THEN i ELSE i + 1
    BY <1>1, <1>2, <1>4
  <2>3. \A i \in DOMAIN owner'[l] : owner'[l][i] \in Holders
    BY <1>4
  <2>4. ASSUME NEW i \in DOMAIN owner'[l]
        PROVE  Waits(owner[l][i], l)' \/ (i = 1 /\ IsTaken(owner[l][i], l)')
    <3>1. PICK j \in DOMAIN owner[l] : owner'[l][i] = owner[l][j] /\ j # k /\ (j = 1 <=> i = 1)
      BY <2>2
    <3>2. CASE owner[l][j] = p
      BY <1>2, <2>1, <3>1, <3>2
    <3>3. CASE owner[l][j] # p
      <4>1. Waits(owner[l][j], l) \/ (j = 1 /\ IsTaken(owner[l][j], l))
        BY <1>1 DEF CallsOf
      <4> QED
        BY <2>1, <2>3, <3>1, <3>3, <4>1
    <3> QED
      BY <3>2, <3>3
  <2>5. ASSUME NEW i \in DOMAIN owner'[l], NEW j \in DOMAIN owner'[l], i < j,
               owner'[l][i] = owner'[l][j]
        PROVE  i = 1 /\ IsTaken(owner[l][1], l)'
    <3>1. PICK a \in DOMAIN owner[l] : owner'[l][i] = owner[l][a] /\ (a = 1 <=> i = 1)
                                       /\ a = IF i < k THEN i ELSE i + 1
      BY <2>2
    <3>2. PICK b \in DOMAIN owner[l] : owner'[l][j] = owner[l][b]
                                       /\ b = IF j < k THEN j ELSE j + 1
      BY <2>2
    <3>3. a < b
      BY <1>2, <1>4, <2>5, <3>1, <3>2
    <3>4. a = 1 /\ IsTaken(owner[l][1], l)
      BY <1>1, <2>5, <3>1, <3>2, <3>3 DEF CallsOf
    <3> QED
      BY <2>1, <2>3, <2>5, <3>1, <3>4
  <2>6. ASSUME NEW q \in Holders, Waits(q, l)'
        PROVE  \E i \in DOMAIN owner'[l] : owner'[l][i] = q /\ (i > 1 \/ ~IsTaken(q, l)')
    <3>1. PICK j \in DOMAIN owner[l] : owner[l][j] = q /\ (j > 1 \/ ~IsTaken(q, l))
      BY <1>1, <2>1, <2>6 DEF CallsOf
    <3>2. q # p /\ j # k
      BY <1>2, <2>1, <2>6, <3>1
    <3>3. CASE j < k
      <4>1. j \in DOMAIN owner'[l] /\ owner'[l][j] = q
        BY <1>2, <1>4, <3>1, <3>3
      <4> QED
        BY <2>1, <3>1, <4>1
    <3>4. CASE j > k
      <4>1. j - 1 \in DOMAIN owner'[l] /\ owner'[l][j - 1] = q /\ j - 1 > 1
        <5>1. j - 1 \in 1 .. Len(owner[l]) - 1 /\ j - 1 >= k /\ j - 1 > 1 /\ (j - 1) + 1 = j
          BY <1>2, <1>4, <3>1, <3>4
        <5> QED
          BY <1>4, <3>1, <5>1
      <4> QED
        BY <4>1
    <3> QED
      BY <1>2, <1>4, <3>2, <3>3, <3>4
  <2>7. owner'[l] # <<>>
    BY <1>2, <1>4
  <2> QED
    BY <2>4, <2>5, <2>6, <2>7 DEF CallsOf
<1>10. \A m \in Locks \ {l} : (Waits(p, m)' <=> Waits(p, m)) /\ (Has(p, m)' <=> Has(p, m))
  BY <1>0, <1>1, <1>3 DEF Waits, Has
<1>11. \A q \in Holders \ {p}, m \in Locks : Has(q, m) => HasFirst(q, m)'
  BY <1>7, HoldFacts
<1> QED
  BY <1>0, <1>3, <1>5, <1>6, <1>8, <1>9, <1>10, <1>11, TaskStep

\* The members of an array after a pop.
LEMMA FrontFacts ==
    ASSUME NEW Elems, NEW s \in Seq(Elems), s # <<>>
    PROVE  /\ DOMAIN s = 1 .. Len(s) /\ Len(s) \in Nat /\ Len(s) > 0
           /\ Last(s) = s[Len(s)] /\ s[Len(s)] \in Elems
           /\ Front(s) \in Seq(Elems)
           /\ DOMAIN Front(s) = 1 .. Len(s) - 1
           /\ \A i \in DOMAIN Front(s) : Front(s)[i] = s[i]
  BY DEF Last, Front

\* A lock that a task has is released.
LEMMA HoldReleases ==
    ASSUME HoldInv, NEW p \in Holders, phase[p] = "releasing", held[p] # <<>>,
           NEW l, l = Last(held[p]),
           held' = [held EXCEPT ![p] = Front(@)],
           owner' = [owner EXCEPT ![l] = Tail(@)],
           UNCHANGED <<lockId, toLock, phase, unreleased>>
    PROVE  HoldInv'
<1>1. /\ HoldTypes /\ HeldOf(p) /\ held[p] \in Seq(Locks) /\ toLock[p] = <<>>
  BY HoldFacts DEF HeldOf
<1>2. /\ DOMAIN held[p] = 1 .. Len(held[p]) /\ Len(held[p]) \in Nat /\ Len(held[p]) > 0
      /\ l = held[p][Len(held[p])] /\ l \in Locks
      /\ Front(held[p]) \in Seq(Locks)
      /\ DOMAIN Front(held[p]) = 1 .. Len(held[p]) - 1
      /\ \A i \in DOMAIN Front(held[p]) : Front(held[p])[i] = held[p][i]
  BY <1>1, FrontFacts
<1>3. Has(p, l) /\ HasFirst(p, l) /\ CallsOf(l) /\ owner[l] \in Seq(Holders)
  <2>1. Has(p, l)
    BY <1>2 DEF Has
  <2> QED
    BY <1>2, <2>1, HoldFacts
<1>4. /\ DOMAIN owner[l] = 1 .. Len(owner[l]) /\ Len(owner[l]) \in Nat /\ Len(owner[l]) > 0
      /\ Tail(owner[l]) \in Seq(Holders)
      /\ DOMAIN Tail(owner[l]) = 1 .. Len(owner[l]) - 1
      /\ \A i \in DOMAIN Tail(owner[l]) : Tail(owner[l])[i] = owner[l][i + 1]
      /\ owner[l][1] = p /\ l \notin unreleased
  BY <1>3, TailFacts DEF HasFirst
<1>5. /\ held'[p] = Front(held[p]) /\ \A q \in Holders \ {p} : held'[q] = held[q]
      /\ owner'[l] = Tail(owner[l]) /\ \A m \in Locks \ {l} : owner'[m] = owner[m]
  BY <1>1, <1>2 DEF HoldTypes
<1>6. HoldTypes'
  <2>1. owner' \in [Locks -> Seq(Holders)]
    BY <1>1, <1>4 DEF HoldTypes
  <2>2. held' \in [Holders -> Seq(Locks)]
    BY <1>1, <1>2 DEF HoldTypes
  <2> QED
    BY <1>1, <2>1, <2>2 DEF HoldTypes
<1>7. OrderOf(p)'
  BY <1>1 DEF OrderOf
<1>8. /\ ~Has(p, l)'
      /\ \A m \in Locks \ {l} : Has(p, m)' <=> Has(p, m)
  <2>1. \A i \in 1 .. Len(held[p]) - 1 : held[p][i] # l
    <3> SUFFICES ASSUME NEW i \in 1 .. Len(held[p]) - 1, held[p][i] = l PROVE FALSE
      OBVIOUS
    <3>1. i \in DOMAIN held[p] /\ Len(held[p]) \in DOMAIN held[p] /\ i # Len(held[p])
      BY <1>2
    <3> QED
      BY <1>1, <1>2, <3>1 DEF HeldOf
  <2>2. ASSUME NEW m \in Locks \ {l}, Has(p, m) PROVE Has(p, m)'
    <3>1. PICK i \in DOMAIN held[p] : held[p][i] = m
      BY <2>2 DEF Has
    <3>2. i \in 1 .. Len(held[p]) - 1
      BY <1>2, <3>1
    <3> QED
      BY <1>2, <1>5, <3>1, <3>2 DEF Has
  <2>3. ASSUME NEW m \in Locks, Has(p, m)' PROVE m # l /\ Has(p, m)
    <3>1. PICK i \in 1 .. Len(held[p]) - 1 : held[p][i] = m
      BY <1>2, <1>5, <2>3 DEF Has
    <3>2. i \in DOMAIN held[p]
      BY <1>2
    <3> QED
      BY <2>1, <3>1, <3>2 DEF Has
  <2> QED
    BY <1>2, <2>2, <2>3
<1>9. \A q \in Holders, m \in Locks \ {l} : HasFirst(q, m) => HasFirst(q, m)'
  BY <1>5 DEF HasFirst
<1>10. HeldOf(p)'
  <2>1. \A m \in Locks : Has(p, m)' => HasFirst(p, m)'
    BY <1>1, <1>2, <1>8, <1>9 DEF HeldOf
  <2>2. ASSUME NEW i \in DOMAIN held'[p], NEW j \in DOMAIN held'[p], held'[p][i] = held'[p][j]
        PROVE  i = j
    <3>1. i \in DOMAIN held[p] /\ j \in DOMAIN held[p] /\ held[p][i] = held[p][j]
      BY <1>2, <1>5, <2>2
    <3> QED
      BY <1>1, <3>1 DEF HeldOf
  <2> QED
    BY <1>1, <2>1, <2>2 DEF HeldOf
<1>11. \A q \in Holders \ {p} : ~Has(q, l)
  BY <1>2, <1>3, HoldFacts DEF HasFirst
<1>12. CallsOf(l)'
  <2>1. /\ \A q \in Holders : ~IsTaken(q, l)'
        /\ \A q \in Holders \ {p} : ~IsTaken(q, l)
        /\ \A q \in Holders : Waits(q, l)' <=> Waits(q, l)
        /\ ~Waits(p, l)
    BY <1>4, <1>5, <1>8, <1>11 DEF IsTaken, Has, Waits
  <2>2. \A i \in DOMAIN owner'[l] :
          owner'[l][i] = owner[l][i + 1] /\ i + 1 \in DOMAIN owner[l] /\ i + 1 # 1
    <3> SUFFICES ASSUME NEW i \in 1 .. Len(owner[l]) - 1
                 PROVE  i + 1 \in 1 .. Len(owner[l]) /\ i + 1 # 1
      BY <1>4, <1>5
    <3> QED
      BY <1>4
  <2>3. ASSUME NEW i \in DOMAIN owner'[l] PROVE Waits(owner[l][i], l)'
    <3>1. owner'[l][i] \in Holders /\ Waits(owner[l][i + 1], l)
      BY <1>3, <1>4, <1>5, <2>2 DEF CallsOf
    <3> QED
      BY <2>1, <2>2, <3>1
  <2>4. ASSUME NEW i \in DOMAIN owner'[l], NEW j \in DOMAIN owner'[l], i < j
        PROVE  owner'[l][i] # owner'[l][j]
    <3>1. i + 1 < j + 1
      BY <1>4, <1>5, <2>4
    <3>2. owner[l][i + 1] # owner[l][j + 1]
      BY <1>3, <2>2, <3>1 DEF CallsOf
    <3> QED
      BY <2>2, <3>2
  <2>5. ASSUME NEW q \in Holders, Waits(q, l)'
        PROVE  \E i \in DOMAIN owner'[l] : owner'[l][i] = q
    <3>1. PICK j \in DOMAIN owner[l] : owner[l][j] = q
      BY <1>3, <2>1, <2>5 DEF CallsOf
    <3>2. j # 1
      BY <1>4, <2>1, <2>5, <3>1
    <3>3. j - 1 \in 1 .. Len(owner[l]) - 1 /\ (j - 1) + 1 = j
      BY <1>4, <3>1, <3>2
    <3> QED
      BY <1>4, <1>5, <3>1, <3>3
  <2> QED
    BY <1>4, <2>1, <2>3, <2>4, <2>5 DEF CallsOf
<1>13. \A m \in Locks \ {l} : (Waits(p, m)' <=> Waits(p, m)) /\ (Has(p, m)' <=> Has(p, m))
  BY <1>8 DEF Waits
<1>14. \A q \in Holders \ {p}, m \in Locks : Has(q, m) => HasFirst(q, m)'
  BY <1>9, <1>11, HoldFacts
<1> QED
  BY <1>2, <1>5, <1>6, <1>7, <1>10, <1>12, <1>13, <1>14, TaskStep

\* An unlock() throws: what the task still has stays locked.
LEMMA HoldLeavesLocked ==
    ASSUME HoldInv, NEW p \in Holders, phase[p] = "releasing",
           unreleased' = unreleased \cup ToSet(held[p]),
           held' = [held EXCEPT ![p] = <<>>],
           phase' = [phase EXCEPT ![p] = "idle"],
           UNCHANGED <<lockId, owner, toLock>>
    PROVE  HoldInv'
<1>1. HoldTypes /\ HeldOf(p) /\ held[p] \in Seq(Locks) /\ toLock[p] = <<>>
  BY HoldFacts DEF HeldOf
<1>2. /\ held'[p] = <<>> /\ phase'[p] = "idle"
      /\ \A q \in Holders \ {p} : held'[q] = held[q] /\ phase'[q] = phase[q]
  BY <1>1 DEF HoldTypes
<1>3. \A m \in Locks : m \in unreleased' <=> m \in unreleased \/ Has(p, m)
  BY DEF ToSet, Has
<1>4. HoldTypes'
  <2>1. unreleased' \in SUBSET Locks
    BY <1>1 DEF HoldTypes, ToSet
  <2>2. phase' \in [Holders -> HoldPhases] /\ held' \in [Holders -> Seq(Locks)]
    BY <1>1 DEF HoldTypes, HoldPhases
  <2> QED
    BY <1>1, <2>1, <2>2 DEF HoldTypes
<1>5. OrderOf(p)' /\ HeldOf(p)'
  BY <1>1, <1>2 DEF OrderOf, HeldOf, Has
<1>6. \A q \in Holders \ {p}, m \in Locks : Has(q, m) => HasFirst(q, m)'
  <2>1. \A m \in Locks : Has(p, m) => owner[m][1] = p
    BY HoldFacts DEF HasFirst
  <2>2. \A q \in Holders \ {p}, m \in Locks : Has(q, m) =>
          owner[m] # <<>> /\ owner[m][1] = q /\ m \notin unreleased
    BY HoldFacts DEF HasFirst
  <2> QED
    BY <1>3, <2>1, <2>2 DEF HasFirst
<1>7. ASSUME NEW m \in Locks, Has(p, m) PROVE CallsOf(m)'
  <2>1. CallsOf(m) /\ HasFirst(p, m) /\ owner[m] \in Seq(Holders)
    BY <1>7, HoldFacts
  <2>2. /\ \A q \in Holders : (Waits(q, m)' <=> Waits(q, m)) /\ IsTaken(q, m)'
        /\ ~Waits(p, m)
    BY <1>2, <1>3, <1>7 DEF Waits, IsTaken
  <2>3. \A i \in DOMAIN owner[m] : owner[m][i] \in Holders /\ i \in Nat
    BY <2>1
  <2>4. ASSUME NEW i \in DOMAIN owner[m]
        PROVE  Waits(owner[m][i], m)' \/ (i = 1 /\ IsTaken(owner[m][i], m)')
    <3>1. Waits(owner[m][i], m) \/ i = 1
      BY <2>1 DEF CallsOf
    <3> QED
      BY <2>2, <2>3, <3>1
  <2>5. ASSUME NEW i \in DOMAIN owner[m], NEW j \in DOMAIN owner[m], i < j, owner[m][i] = owner[m][j]
        PROVE  i = 1 /\ IsTaken(owner[m][1], m)'
    <3>1. i = 1
      BY <2>1, <2>5 DEF CallsOf
    <3> QED
      BY <2>2, <2>3, <3>1
  <2>6. ASSUME NEW q \in Holders, Waits(q, m)'
        PROVE  \E i \in DOMAIN owner[m] : owner[m][i] = q /\ i > 1
    <3>1. PICK i \in DOMAIN owner[m] : owner[m][i] = q /\ (i > 1 \/ ~IsTaken(q, m))
      BY <2>1, <2>2, <2>6 DEF CallsOf
    <3>2. i # 1
      BY <2>1, <2>2, <2>6, <3>1 DEF HasFirst
    <3>3. i \in 1 .. Len(owner[m])
      BY <2>1
    <3>4. i > 1
      BY <3>2, <3>3
    <3> QED
      BY <3>1, <3>4
  <2> QED
    BY <2>1, <2>4, <2>5, <2>6 DEF CallsOf, HasFirst
<1>8. \A m \in Locks : ~Has(p, m) =>
        /\ Waits(p, m)' <=> Waits(p, m)
        /\ Has(p, m)' <=> Has(p, m)
        /\ m \in unreleased' <=> m \in unreleased
  BY <1>2, <1>3 DEF Waits, Has
<1> QED
  BY <1>2, <1>4, <1>5, <1>6, <1>7, <1>8, TaskStep

\* A turn of _unlock(): a lock released, one that throws, or the end.
LEMMA HoldRelease ==
    ASSUME HoldInv, NEW p \in Holders, Release(p)
    PROVE  HoldInv'
<1>0. phase[p] = "releasing" /\ UNCHANGED <<lockId, toLock>>
  BY DEF Release
<1>1. CASE /\ held[p] # <<>>
           /\ held' = [held EXCEPT ![p] = Front(@)]
           /\ owner' = [owner EXCEPT ![Last(held[p])] = Tail(@)]
           /\ UNCHANGED <<phase, unreleased>>
  BY <1>0, <1>1, HoldReleases
<1>2. CASE /\ unreleased' = unreleased \cup ToSet(held[p])
           /\ held' = [held EXCEPT ![p] = <<>>]
           /\ phase' = [phase EXCEPT ![p] = "idle"]
           /\ UNCHANGED owner
  BY <1>0, <1>2, HoldLeavesLocked
<1>3. CASE /\ held[p] = <<>>
           /\ phase' = [phase EXCEPT ![p] = "idle"]
           /\ UNCHANGED <<owner, held, unreleased>>
  <2>1. held' = [held EXCEPT ![p] = <<>>] /\ ToSet(held[p]) = {}
    BY <1>3, HoldFacts DEF HoldTypes, ToSet
  <2>2. unreleased' = unreleased \cup ToSet(held[p])
    BY <1>3, <2>1
  <2> QED
    BY <1>0, <1>3, <2>1, <2>2, HoldLeavesLocked
<1> QED
  BY <1>1, <1>2, <1>3 DEF Release

(***************************************************************************)
(* The ids: as many as the locks that have one, so that the new ones,      *)
(* which fill an interval, are all different.                              *)
(***************************************************************************)
LEMMA IdsGiven ==
    ASSUME HoldInv, NEW locks \in Seq(Locks), NEW ids \in IdsAfter(locks)
    PROVE  /\ ids \in [Locks -> Nat]
           /\ \A l \in Locks : ids[l] <= LastId(ids)
           /\ \A l, m \in Locks : ids[l] = ids[m] /\ ids[l] > 0 => l = m
           /\ \A l \in Locks : lockId[l] > 0 => ids[l] = lockId[l]
           /\ Len(locks) >= 2 => \A i \in DOMAIN locks : ids[locks[i]] > 0
<1>1. lockId \in [Locks -> Nat] /\ IdsInv
  BY DEF HoldInv, HoldTypes
<1>2. CASE Len(locks) < 2
  BY <1>1, <1>2 DEF IdsAfter, IdsInv
<1>3. CASE Len(locks) >= 2
  <2> DEFINE old == {l \in Locks : lockId[l] > 0}
             new == {m \in ToSet(locks) : lockId[m] = 0}
             last == LastId(lockId)
             now == LastId(ids)
             given == [l \in new |-> ids[l]]
  <2>1. /\ ids \in [Locks -> 0 .. Cardinality(Locks)]
        /\ \A l \in Locks : lockId[l] > 0 \/ ~Contains(locks, l) => ids[l] = lockId[l]
        /\ {ids[l] : l \in new} = (last + 1) .. now
    <3>1. ~(Len(locks) < 2)
      BY <1>3
    <3>2. ids \in {f \in [Locks -> 0 .. Cardinality(Locks)] :
            /\ \A l \in Locks : lockId[l] > 0 \/ ~Contains(locks, l) => f[l] = lockId[l]
            /\ {f[l] : l \in new} = (LastId(lockId) + 1) .. LastId(f)}
      BY <3>1, Zenon DEF IdsAfter
    <3> QED
      BY <3>2, Zenon
  <2>2. ids \in [Locks -> Nat]
    BY <2>1
  <2>3. \A l \in Locks : Contains(locks, l) <=> l \in ToSet(locks)
    BY DEF Contains, ToSet
  <2>4. ToSet(locks) \subseteq Locks
    BY DEF ToSet
  <2>5. IsFiniteSet(old) /\ IsFiniteSet(new) /\ last = Cardinality(old) /\ last \in Nat
    <3>1. old \in SUBSET Locks /\ new \in SUBSET Locks
      BY <2>4
    <3>2. IsFiniteSet(old) /\ IsFiniteSet(new)
      BY <3>1, HoldAssumption, FS_Subset
    <3>3. last = Cardinality(old)
      BY Zenon DEF LastId
    <3> QED
      BY <3>2, <3>3, FS_CardinalityType
  <2>6. \A l \in new : ids[l] \in (last + 1) .. now /\ ids[l] > last
    <3>1. \A l \in new : ids[l] \in (last + 1) .. now
      BY <2>1
    <3>2. last \in Nat
      BY <2>5
    <3> HIDE DEF new, last, now
    <3> QED
      BY <3>1, <3>2
  <2>7. {l \in Locks : ids[l] > 0} = old \cup new /\ old \cap new = {}
    <3>1. \A l \in new : l \in Locks /\ ids[l] > 0
      BY <2>2, <2>4, <2>5, <2>6
    <3>2. \A l \in Locks \ new : ids[l] = lockId[l]
      BY <1>1, <2>1, <2>3
    <3>3. \A l \in old : l \in Locks \ new
      OBVIOUS
    <3> QED
      BY <1>1, <3>1, <3>2, <3>3
  <2>8. now = last + Cardinality(new) /\ Cardinality(new) \in Nat /\ now \in Nat
    <3>1. now = Cardinality(old \cup new)
      <4>1. now = Cardinality({l \in Locks : ids[l] > 0})
        BY Zenon DEF LastId
      <4> QED
        BY <2>7, <4>1, Zenon
    <3>2. Cardinality(old \cup new) = Cardinality(old) + Cardinality(new) - Cardinality(old \cap new)
      BY <2>5, FS_Union
    <3>3. Cardinality(old \cap new) = 0 /\ Cardinality(new) \in Nat
      BY <2>5, <2>7, FS_EmptySet, FS_CardinalityType
    <3> QED
      BY <2>5, <3>1, <3>2, <3>3
  <2>9. Cardinality((last + 1) .. now) = Cardinality(new)
    BY <2>5, <2>8, FS_Interval
  <2> HIDE DEF new, old, last, now
  <2>10. given \in Surjection(new, (last + 1) .. now)
    <3>1. given \in [new -> (last + 1) .. now]
      BY <2>6
    <3>2. \A n \in (last + 1) .. now : \E l \in new : given[l] = n
      BY <2>1
    <3> QED
      BY <3>1, <3>2 DEF Surjection
  <2>11. \A l, m \in new : ids[l] = ids[m] => l = m
    <3>1. given \in Injection(new, (last + 1) .. now)
      BY <2>5, <2>9, <2>10, FS_SurjSameCardinalityImpliesInj
    <3> QED
      BY <3>1 DEF Injection, IsInjective
  <2>12. \A l \in Locks \ new : ids[l] = lockId[l] /\ lockId[l] <= last
    BY <1>1, <2>1, <2>3 DEF new, last, IdsInv
  <2>13. ASSUME NEW l \in Locks PROVE ids[l] <= now
    <3>1. CASE l \in new
      BY <2>5, <2>6, <2>8, <3>1
    <3>2. CASE l \notin new
      BY <1>1, <2>5, <2>8, <2>12, <3>2
    <3> QED
      BY <3>1, <3>2
  <2>14. ASSUME NEW l \in Locks, NEW m \in Locks, ids[l] = ids[m], ids[l] > 0
         PROVE  l = m
    <3>1. CASE l \in new /\ m \in new
      BY <2>11, <2>14, <3>1
    <3>2. CASE l \notin new /\ m \notin new
      BY <1>1, <2>12, <2>14, <3>2 DEF IdsInv
    <3>3. \A a \in new, b \in Locks \ new : ids[a] # ids[b]
      BY <1>1, <2>2, <2>4, <2>5, <2>6, <2>12
    <3> QED
      BY <2>14, <3>1, <3>2, <3>3
  <2>15. \A i \in DOMAIN locks : ids[locks[i]] > 0
    <3>1. \A i \in DOMAIN locks : locks[i] \in ToSet(locks)
      BY DEF ToSet
    <3>2. \A l \in ToSet(locks) : ids[l] > 0
      BY <1>1, <2>1, <2>2, <2>4, <2>5, <2>6 DEF new
    <3> QED
      BY <3>1, <3>2
  <2>16. \A l \in Locks : lockId[l] > 0 => ids[l] = lockId[l]
    BY <2>1
  <2> QED
    BY <2>2, <2>13, <2>14, <2>15, <2>16 DEF now
<1> QED
  BY <1>2, <1>3

\* A call begins: its locks get the ids that they lack, and are sorted by them.
LEMMA HoldFrom ==
    ASSUME HoldInv, NEW p \in Holders, NEW locks \in Lists, NEW how \in {"locking", "trying"},
           From(p, locks, how)
    PROVE  HoldInv'
<1>1. PICK ids \in IdsAfter(locks), sorted \in Sorted(locks, lockId') :
        /\ phase[p] = "idle"
        /\ lockId' = ids
        /\ toLock' = [toLock EXCEPT ![p] = sorted]
        /\ phase' = [phase EXCEPT ![p] = how]
        /\ UNCHANGED <<owner, held, failures, unreleased>>
  BY DEF From
<1>2. locks \in Seq(Locks) /\ DOMAIN locks = 1 .. Len(locks) /\ Len(locks) \in Nat
  BY HoldAssumption DEF Lists, SeqOf
<1>3. /\ lockId' \in [Locks -> Nat]
      /\ \A l \in Locks : lockId'[l] <= LastId(lockId')
      /\ \A l, m \in Locks : lockId'[l] = lockId'[m] /\ lockId'[l] > 0 => l = m
      /\ \A l \in Locks : lockId[l] > 0 => lockId'[l] = lockId[l]
      /\ Len(locks) >= 2 => \A i \in DOMAIN locks : lockId'[locks[i]] > 0
  BY <1>1, <1>2, IdsGiven
<1>4. /\ sorted \in Seq(Locks) /\ DOMAIN sorted = DOMAIN locks
      /\ \A i \in DOMAIN sorted : \E j \in DOMAIN locks : sorted[i] = locks[j]
      /\ \A i, j \in DOMAIN sorted : i < j => lockId'[sorted[i]] <= lockId'[sorted[j]]
  <2>1. PICK f \in Bijection(DOMAIN locks, DOMAIN locks) : sorted = [i \in DOMAIN locks |-> locks[f[i]]]
    BY <1>1 DEF Sorted
  <2>2. f \in [DOMAIN locks -> DOMAIN locks]
    BY <2>1 DEF Bijection, Injection
  <2>3. \A i, j \in DOMAIN locks : i < j => lockId'[sorted[i]] <= lockId'[sorted[j]]
    BY <1>1 DEF Sorted
  <2> QED
    BY <1>2, <2>1, <2>2, <2>3
<1>5. HoldTypes /\ HeldOf(p) /\ held[p] = <<>> /\ lockId \in [Locks -> Nat]
  BY <1>1, HoldFacts DEF HeldOf, HoldTypes
<1>6. /\ toLock'[p] = sorted /\ phase'[p] = how
      /\ \A q \in Holders \ {p} : toLock'[q] = toLock[q] /\ phase'[q] = phase[q]
  BY <1>1, <1>5 DEF HoldTypes
<1>7. HoldTypes'
  <2>1. toLock' \in [Holders -> Seq(Locks)]
    BY <1>1, <1>4, <1>5 DEF HoldTypes
  <2>2. phase' \in [Holders -> HoldPhases]
    BY <1>1, <1>5 DEF HoldTypes, HoldPhases
  <2> QED
    BY <1>1, <1>3, <1>5, <2>1, <2>2 DEF HoldTypes
<1>8. \A l, m \in Locks : InOrder(l, m) => InOrder(l, m)'
  <2> SUFFICES ASSUME NEW l \in Locks, NEW m \in Locks, 0 < lockId[l], lockId[l] < lockId[m]
               PROVE  0 < lockId'[l] /\ lockId'[l] < lockId'[m]
    BY DEF InOrder
  <2> QED
    BY <1>3, <1>5
<1>9. ASSUME NEW q \in Holders \ {p} PROVE OrderOf(q)' /\ HeldOf(q)'
  <2>1. OrderOf(q) /\ HeldOf(q) /\ toLock[q] \in Seq(Locks) /\ held[q] \in Seq(Locks)
    BY HoldFacts
  <2>2. /\ \A i \in DOMAIN toLock[q] : toLock[q][i] \in Locks
        /\ \A i \in DOMAIN held[q] : held[q][i] \in Locks
    BY <2>1
  <2>3. ASSUME NEW i \in DOMAIN toLock[q], NEW j \in DOMAIN toLock[q], i < j
        PROVE  InOrder(toLock[q][i], toLock[q][j])'
    <3>1. InOrder(toLock[q][i], toLock[q][j])
      BY <2>1, <2>3 DEF OrderOf
    <3> QED
      BY <1>6, <1>8, <2>2, <3>1 DEF InOrder
  <2>4. ASSUME NEW i \in DOMAIN held[q], NEW j \in DOMAIN toLock[q]
        PROVE  InOrder(held[q][i], toLock[q][j])'
    <3>1. InOrder(held[q][i], toLock[q][j])
      BY <2>1 DEF OrderOf
    <3> QED
      BY <1>1, <1>6, <1>8, <2>2, <3>1 DEF InOrder
  <2>5. OrderOf(q)'
    BY <1>1, <1>6, <2>3, <2>4 DEF OrderOf
  <2> QED
    BY <1>1, <1>6, <2>1, <2>5 DEF HeldOf, Has, HasFirst
<1>10. OrderOf(p)'
  <2>1. ASSUME NEW i \in DOMAIN sorted, NEW j \in DOMAIN sorted, i < j
        PROVE  sorted[i] = sorted[j] \/ (0 < lockId'[sorted[i]] /\ lockId'[sorted[i]] < lockId'[sorted[j]])
    <3>1. Len(locks) >= 2
      BY <1>2, <1>4, <2>1
    <3>2. /\ sorted[i] \in Locks /\ sorted[j] \in Locks /\ lockId'[sorted[i]] > 0
          /\ lockId'[sorted[i]] \in Nat /\ lockId'[sorted[j]] \in Nat
      <4>1. PICK a \in DOMAIN locks : sorted[i] = locks[a]
        BY <1>4
      <4>2. lockId'[locks[a]] > 0
        BY <1>3, <3>1
      <4>3. sorted[i] \in Locks /\ sorted[j] \in Locks
        BY <1>4
      <4> QED
        BY <1>3, <4>1, <4>2, <4>3
    <3>3. lockId'[sorted[i]] <= lockId'[sorted[j]]
      BY <1>4, <2>1
    <3>4. lockId'[sorted[i]] = lockId'[sorted[j]] => sorted[i] = sorted[j]
      BY <1>3, <3>2
    <3> QED
      BY <3>2, <3>3, <3>4
  <2>2. DOMAIN held'[p] = {}
    BY <1>1, <1>5
  <2> QED
    BY <1>6, <2>1, <2>2 DEF OrderOf, InOrder
<1>11. HeldOf(p)'
  BY <1>1, <1>5, <1>6 DEF HeldOf, Has, HasFirst
<1>12. ASSUME NEW l \in Locks PROVE CallsOf(l)'
  <2>1. CallsOf(l) /\ owner[l] \in Seq(Holders)
    BY HoldFacts
  <2>2. /\ \A q \in Holders : (Waits(q, l)' <=> Waits(q, l)) /\ (IsTaken(q, l)' <=> IsTaken(q, l))
        /\ \A i \in DOMAIN owner[l] : owner[l][i] \in Holders
    BY <1>1, <1>6, <2>1 DEF Waits, IsTaken, Has
  <2> QED
    BY <1>1, <2>1, <2>2 DEF CallsOf
<1> QED
  BY <1>3, <1>7, <1>9, <1>10, <1>11, <1>12 DEF HoldInv, IdsInv

\* The invariant is inductive, each operation by the lemma about it.
LEMMA HoldStep == HoldInv /\ [HoldNext]_holdVars => HoldInv'
<1> SUFFICES ASSUME HoldInv, [HoldNext]_holdVars PROVE HoldInv'
  OBVIOUS
<1>1. CASE UNCHANGED holdVars
  BY <1>1 DEF holdVars, HoldInv, HoldTypes, IdsInv, LastId, OrderOf, InOrder, HeldOf, CallsOf,
              Has, HasFirst, IsTaken, Waits
<1>2. CASE HoldNext
  <2>1. PICK p \in Holders :
          \/ \E locks \in Lists, how \in {"locking", "trying"} : From(p, locks, how)
          \/ Advance(p) \/ Granted(p) \/ Abort(p) \/ Unlock(p) \/ Release(p)
    BY <1>2 DEF HoldNext
  <2> QED
    BY <2>1, HoldFrom, HoldAdvance, HoldGranted, HoldAbort, HoldUnlock, HoldRelease
<1> QED
  BY <1>1, <1>2

\* The invariant holds before any lock has an id.
LEMMA HoldStarts == HoldInit => HoldInv
<1> SUFFICES ASSUME HoldInit PROVE HoldInv
  OBVIOUS
<1>1. /\ lockId = [l \in Locks |-> 0] /\ owner = [l \in Locks |-> <<>>]
      /\ toLock = [p \in Holders |-> <<>>] /\ held = [p \in Holders |-> <<>>]
      /\ phase = [p \in Holders |-> "idle"] /\ unreleased = {}
  BY DEF HoldInit
<1>2. HoldTypes
  BY <1>1 DEF HoldTypes, HoldPhases
<1>3. IdsInv
  <2>1. {l \in Locks : lockId[l] > 0} = {}
    BY <1>1
  <2>2. LastId(lockId) = 0
    BY <2>1, FS_EmptySet, Zenon DEF LastId
  <2> QED
    BY <1>1, <2>2 DEF IdsInv
<1>4. \A p \in Holders : OrderOf(p) /\ HeldOf(p)
  BY <1>1 DEF OrderOf, HeldOf, Has
<1>5. \A l \in Locks : CallsOf(l)
  BY <1>1 DEF CallsOf, Waits
<1> QED
  BY <1>2, <1>3, <1>4, <1>5 DEF HoldInv

\* A set of tasks has one that waits for the lock with the last id of all.
LEMMA LastWanted ==
    ASSUME NEW last \in Nat, NEW ids \in SUBSET (0 .. last), ids # {}
    PROVE  \E i \in ids : \A j \in ids : j <= i
<1> DEFINE Above(i) == {n \in 0 .. last : n > i}
           Tails == {Above(i) : i \in ids}
           Order == StrictSubsetOrdering(0 .. last)
<1>1. IsFiniteSet(0 .. last)
  BY FS_Interval
<1>2. Tails \subseteq FiniteSubsetsOf(0 .. last)
  <2>1. \A i \in ids : Above(i) \in SUBSET (0 .. last)
    OBVIOUS
  <2>2. \A s \in SUBSET (0 .. last) : IsFiniteSet(s)
    BY <1>1, FS_Subset
  <2> QED
    BY <2>1, <2>2 DEF FiniteSubsetsOf
<1>3. PICK x \in Tails : \A y \in Tails : <<y, x>> \notin Order
  <2>1. IsWellFoundedOn(Order, FiniteSubsetsOf(0 .. last))
    BY FS_StrictSubsetOrderingWellFounded
  <2>2. Tails # {}
    OBVIOUS
  <2> HIDE DEF Tails, Order
  <2> QED
    BY <1>2, <2>1, <2>2, WFMin
<1>4. PICK i \in ids : x = Above(i)
  OBVIOUS
<1>5. ASSUME NEW j \in ids, j > i PROVE FALSE
  <2>1. Above(j) \subseteq Above(i)
    BY <1>5
  <2>2. j \in Above(i) /\ j \notin Above(j)
    BY <1>5
  <2>3. <<Above(j), Above(i)>> \in Order
    BY <2>1, <2>2 DEF StrictSubsetOrdering
  <2> QED
    BY <1>3, <1>4, <2>3
<1> QED
  BY <1>5

(***************************************************************************)
(* Tasks that take their locks through LockHold never wait for one another *)
(* in a circle, but for a task that gave the same lock twice; a lock is    *)
(* taken only by a task that holds it, or is about to, or left it locked   *)
(* when an unlock() threw; and no two tasks hold one lock.  For any number *)
(* of tasks and locks, any lists of locks, aborts and unlocks that throw   *)
(* (lock-hold.ts).                                                         *)
(***************************************************************************)
THEOREM HoldsAreDeadlockFree == HoldSpec => []HoldsNeverDeadlock
<1>1. HoldInv => HoldsNeverDeadlock
  <2> SUFFICES ASSUME HoldInv PROVE HoldsNeverDeadlock
    OBVIOUS
  <2>1. ASSUME NEW p \in Holders, NEW l
        PROVE  Contains(held[p], l) <=> Has(p, l)
    BY HoldFacts DEF Contains, Has
  <2>2. ASSUME NEW tasks \in SUBSET Holders, Stuck(tasks), tasks # {},
               \A p \in tasks : ~Has(p, Head(toLock[p]))
        PROVE  FALSE
    <3> DEFINE ids == {lockId[Head(toLock[p])] : p \in tasks}
    <3>1. \A p \in tasks : /\ p \in Holders /\ phase[p] = "waiting" /\ toLock[p] # <<>>
                           /\ toLock[p] \in Seq(Locks) /\ Head(toLock[p]) \in Locks
      BY <2>2, HoldFacts DEF Stuck, HeldOf
    <3>2. LastId(lockId) \in Nat
      <4>1. {l \in Locks : lockId[l] > 0} \in SUBSET Locks
        OBVIOUS
      <4> QED
        BY <4>1, HoldAssumption, FS_Subset, FS_CardinalityType DEF LastId
    <3>3. ids \in SUBSET (0 .. LastId(lockId)) /\ ids # {}
      <4>1. \A l \in Locks : lockId[l] \in Nat /\ lockId[l] <= LastId(lockId)
        BY DEF HoldInv, HoldTypes, IdsInv
      <4>2. \A l \in Locks : lockId[l] \in 0 .. LastId(lockId)
        BY <3>2, <4>1
      <4> QED
        BY <2>2, <3>1, <4>2
    <3>4. PICK i \in ids : \A j \in ids : j <= i
      <4> HIDE DEF ids
      <4> QED
        BY <3>2, <3>3, LastWanted
    <3>5. PICK p \in tasks : i = lockId[Head(toLock[p])]
      BY <3>4
    <3>6. PICK q \in tasks : Has(q, Head(toLock[p]))
      BY <2>2 DEF Stuck, ToSet, Has
    <3>7. InOrder(Head(toLock[p]), Head(toLock[q]))
      <4>1. OrderOf(q) /\ 1 \in DOMAIN toLock[q] /\ Head(toLock[q]) = toLock[q][1]
        BY <3>1, HoldFacts, TailFacts
      <4> QED
        BY <3>6, <4>1 DEF OrderOf, Has
    <3>8. Head(toLock[p]) # Head(toLock[q])
      BY <2>2, <3>6
    <3>9. lockId[Head(toLock[q])] > i /\ lockId[Head(toLock[q])] \in ids
      BY <3>5, <3>7, <3>8 DEF InOrder
    <3>10. i \in Nat /\ lockId[Head(toLock[q])] \in Nat
      BY <3>1, <3>5 DEF HoldInv, HoldTypes
    <3> HIDE DEF ids
    <3> QED
      BY <3>4, <3>9, <3>10
  <2>3. ASSUME NEW l \in Locks, owner[l] # <<>>
        PROVE  l \in unreleased \/ Contains(held[Head(owner[l])], l)
                 \/ phase[Head(owner[l])] = "waiting"
    <3>1. /\ CallsOf(l) /\ owner[l] \in Seq(Holders) /\ 1 \in DOMAIN owner[l]
          /\ Head(owner[l]) = owner[l][1] /\ owner[l][1] \in Holders
      <4>1. CallsOf(l) /\ owner[l] \in Seq(Holders)
        BY DEF HoldInv, HoldTypes
      <4> QED
        BY <2>3, <4>1, TailFacts
    <3>2. Waits(owner[l][1], l) \/ IsTaken(owner[l][1], l)
      BY <3>1 DEF CallsOf
    <3> QED
      BY <2>1, <3>1, <3>2 DEF Waits, IsTaken
  <2>4. ASSUME NEW p \in Holders, NEW q \in Holders, p # q
        PROVE  ToSet(held[p]) \cap ToSet(held[q]) = {}
    <3>1. \A l \in Locks : ~(Has(p, l) /\ Has(q, l))
      BY <2>4, HoldFacts DEF HasFirst
    <3>2. held[p] \in Seq(Locks)
      BY HoldFacts
    <3> QED
      BY <3>1, <3>2 DEF ToSet, Has
  <2>5. \A tasks \in SUBSET Holders :
          Stuck(tasks) /\ tasks # {} => \E p \in tasks : Contains(held[p], Head(toLock[p]))
    BY <2>1, <2>2
  <2> QED
    BY <2>3, <2>4, <2>5 DEF HoldsNeverDeadlock
<1> QED
  BY <1>1, HoldStarts, HoldStep, PTL DEF HoldSpec

-----------------------------------------------------------------------------
(***************************************************************************)
(* Broadcast: the queues of the subscribers, and a count of the receivers  *)
(* that were woken and have not taken their message yet.                   *)
(***************************************************************************)
Values == Messages \cup {"truthy"}
Queues == Seq(Nat \X Values)

BroadcastTypes ==
    /\ capacity \in Nat \ {0}
    /\ message \in [Senders -> Values]
    /\ messages \in [Subs -> Queues]
    /\ sleepers \in [Subs -> Seq(Receivers)]
    /\ lagCount \in [Subs -> Nat] /\ enqueued \in [Subs -> Nat]
    /\ accounted \in [Subs -> Nat] /\ latest \in [Subs -> Nat]
    /\ dropped \in [Subs -> BOOLEAN] /\ lost \in [Subs -> BOOLEAN]
    /\ DOMAIN at = Tasks /\ DOMAIN target = Tasks

\* The numbers of the messages in a queue increase, from above low to high.
Ordered(queued, low, high) ==
    /\ \A i \in 1..Len(queued) : low < queued[i][1] /\ queued[i][1] <= high
    /\ \A i, j \in 1..Len(queued) : i < j => queued[i][1] < queued[j][1]

\* The queue of s: what has come and was not received, dropped or missed.
Queued(s) ==
    /\ enqueued[s] = accounted[s] + Len(messages[s]) + lagCount[s]
    /\ latest[s] <= enqueued[s]
    /\ Ordered(messages[s], latest[s], enqueued[s])

Awake == {"woken", "relocking", "again"}
AwakeAt(s) == {r \in Receivers : Own[r] = s /\ at[r] \in Awake}
Asleep(s) == \E r \in Receivers : Own[r] = s /\ at[r] = "sleeping"

\* A receiver calls for its own subscriber, and sleeps among the sleepers of it.
Placed ==
    /\ \A r \in Receivers : at[r] # "idle" => target[r] = Own[r]
    /\ \A s \in Subs : \A i \in 1..Len(sleepers[s]) : Own[sleepers[s][i]] = s
    /\ \A r \in Receivers :
        at[r] = "sleeping" => \E i \in 1..Len(sleepers[Own[r]]) : sleepers[Own[r]][i] = r

\* There is a receiver on its way for each message, if another one sleeps.
OnTheirWay(s) ==
    /\ IsFiniteSet(AwakeAt(s))
    /\ lost[s] \/ dropped[s] \/ ~Asleep(s) \/ Len(messages[s]) <= Cardinality(AwakeAt(s))

BroadcastInv ==
    /\ BroadcastTypes
    /\ Placed
    /\ \A s \in Subs : Queued(s) /\ OnTheirWay(s)

LEMMA OwnFacts == \A r \in Receivers : Own[r] \in Subs /\ r \in Tasks /\ r \notin Senders
  BY BroadcastAssumption DEF BroadcastAssumption, Tasks

\* What a task other than the one that acts may do: give up, be let in or woken.
Moves(q) ==
    \/ at'[q] = at[q]
    \/ at[q] = "entering" /\ at'[q] \in {"rejected", "inside"}
    \/ at[q] = "sleeping" /\ at'[q] = "quitting"
    \/ at[q] = "relocking" /\ at'[q] = "again"
    \/ at[q] = "failing" /\ at'[q] = "failed"

LEMMA LockMoves ==
    ASSUME BroadcastTypes, NEW p \in Tasks, NEW s, NEW queued, NEW inside, LockMutex(p, s, queued, inside)
    PROVE  /\ DOMAIN at' = Tasks
           /\ at'[p] \in {queued, inside}
           /\ \A q \in Tasks \ {p} : at'[q] = at[q]
  BY DEF BroadcastTypes, LockMutex

LEMMA UnlockMoves ==
    ASSUME NEW p \in Tasks, NEW s, NEW place, NEW places, UnlockMutex(p, s, place, places)
    PROVE  /\ DOMAIN at' = Tasks
           /\ at'[p] = place
           /\ \A q \in Tasks \ {p} :
                \/ at'[q] = places[q]
                \/ places[q] = "entering" /\ at'[q] = "inside"
                \/ places[q] = "relocking" /\ at'[q] = "again"
                \/ places[q] = "failing" /\ at'[q] = "failed"
<1>1. /\ DOMAIN at' = Tasks
      /\ at'[p] = place
  BY DEF UnlockMutex
<1>2. ASSUME NEW q \in Tasks \ {p}
      PROVE  \/ at'[q] = places[q]
             \/ places[q] = "entering" /\ at'[q] = "inside"
             \/ places[q] = "relocking" /\ at'[q] = "again"
             \/ places[q] = "failing" /\ at'[q] = "failed"
  BY DEF UnlockMutex
<1> QED
  BY <1>1, <1>2

LEMMA RejectedMoves ==
    ASSUME NEW who, at' = Rejected(who)
    PROVE  DOMAIN at' = Tasks /\ \A q \in Tasks : Moves(q)
<1>1. \A q \in Tasks : Moves(q)
  BY DEF Rejected, Moves
<1> QED
  BY <1>1 DEF Rejected

\* How many of the receivers at s are awake when only p wakes or falls asleep.
LEMMA AwakeStep ==
    ASSUME NEW s, NEW p, IsFiniteSet(AwakeAt(s)),
           \A q \in Receivers \ {p} : at'[q] \in Awake <=> at[q] \in Awake
    PROVE  /\ IsFiniteSet(AwakeAt(s))'
           /\ Cardinality(AwakeAt(s)) \in Nat /\ Cardinality(AwakeAt(s)') \in Nat
           /\ Cardinality(AwakeAt(s)') >= Cardinality(AwakeAt(s)) - 1
           /\ (p \in Receivers /\ Own[p] = s /\ at'[p] \notin Awake => at[p] \notin Awake)
                => Cardinality(AwakeAt(s)') >= Cardinality(AwakeAt(s))
           /\ p \in Receivers /\ Own[p] = s /\ at[p] \notin Awake /\ at'[p] \in Awake
                => Cardinality(AwakeAt(s)') = Cardinality(AwakeAt(s)) + 1
<1>1. AwakeAt(s)' = {r \in Receivers : Own[r] = s /\ at'[r] \in Awake}
  BY DEF AwakeAt, Awake
<1>2. AwakeAt(s)' \ {p} = AwakeAt(s) \ {p}
  BY <1>1 DEF AwakeAt
<1>3. /\ p \in AwakeAt(s) <=> p \in Receivers /\ Own[p] = s /\ at[p] \in Awake
      /\ p \in AwakeAt(s)' <=> p \in Receivers /\ Own[p] = s /\ at'[p] \in Awake
  BY <1>1 DEF AwakeAt
<1>4. /\ IsFiniteSet(AwakeAt(s)')
      /\ Cardinality(AwakeAt(s)) \in Nat /\ Cardinality(AwakeAt(s)') \in Nat
      /\ p \in AwakeAt(s) /\ p \in AwakeAt(s)' => Cardinality(AwakeAt(s)') = Cardinality(AwakeAt(s))
      /\ p \notin AwakeAt(s) /\ p \notin AwakeAt(s)' => Cardinality(AwakeAt(s)') = Cardinality(AwakeAt(s))
      /\ p \in AwakeAt(s) /\ p \notin AwakeAt(s)' => Cardinality(AwakeAt(s)') = Cardinality(AwakeAt(s)) - 1
      /\ p \notin AwakeAt(s) /\ p \in AwakeAt(s)' => Cardinality(AwakeAt(s)') = Cardinality(AwakeAt(s)) + 1
  BY <1>2, Recount
<1> QED
  BY <1>3, <1>4

\* A step of p that leaves the queues alone, wakes nobody and does not sleep.
Calm(p) ==
    /\ UNCHANGED <<messages, dropped, lost>>
    /\ \A q \in Tasks \ {p} : Moves(q) /\ target'[q] = target[q]
    /\ DOMAIN at' = Tasks /\ DOMAIN target' = Tasks
    /\ p \in Receivers =>
        /\ at'[p] \in Awake <=> at[p] \in Awake
        /\ at'[p] # "sleeping"
        /\ at'[p] # "idle" => target'[p] = Own[p]

LEMMA CalmKeeps ==
    ASSUME BroadcastInv, NEW p, Calm(p), NEW s \in Subs
    PROVE  OnTheirWay(s)'
<1> USE DEF Calm, BroadcastInv
<1>1. \A q \in Receivers \ {p} : at'[q] \in Awake <=> at[q] \in Awake
  BY OwnFacts DEF Moves, Awake
<1>2. /\ IsFiniteSet(AwakeAt(s))'
      /\ Cardinality(AwakeAt(s)) \in Nat /\ Cardinality(AwakeAt(s)') \in Nat
      /\ Cardinality(AwakeAt(s)') >= Cardinality(AwakeAt(s))
  BY <1>1, AwakeStep DEF OnTheirWay
<1>3. Asleep(s)' => Asleep(s)
  BY OwnFacts DEF Moves, Asleep
<1>4. Len(messages[s]) \in Nat
  BY LenProperties DEF BroadcastTypes
<1> QED
  BY <1>2, <1>3, <1>4 DEF OnTheirWay

LEMMA CalmKeepsPlaces ==
    ASSUME BroadcastInv, NEW p, Calm(p), UNCHANGED sleepers
    PROVE  Placed'
BY OwnFacts DEF BroadcastInv, Placed, Calm, Moves

Quiet(p) == Calm(p) /\ UNCHANGED <<capacity, lagCount, enqueued, accounted, latest>>

LEMMA QuietStep ==
    ASSUME BroadcastInv, NEW p, Quiet(p), UNCHANGED sleepers,
           message' \in [Senders -> Values]
    PROVE  BroadcastInv'
<1>1. Placed'
  BY CalmKeepsPlaces DEF Quiet
<1>2. BroadcastTypes'
  BY DEF BroadcastInv, BroadcastTypes, Quiet, Calm, Tasks
<1>3. \A s \in Subs : Queued(s)'
  BY DEF BroadcastInv, Queued, Quiet, Calm
<1> QED
  BY <1>1, <1>2, <1>3, CalmKeeps DEF BroadcastInv, Quiet

\* The steps that only move tasks.
QuietActions(p) ==
    \/ Close /\ p \notin Tasks
    \/ \E s \in Subs : (Subscribe(s) \/ CloseSubscriber(s)) /\ p \notin Tasks
    \/ p \in Tasks /\ (AbortTask(p) \/ LockRejects(p))
    \/ p \in Senders /\ (SendVisits(p) \/ \E m \in Messages : Send(p, m))
    \/ p \in Receivers /\ (Receive(p, Own[p]) \/ ReceiveFails(p))

LEMMA QuietActionsStep ==
    ASSUME BroadcastInv, NEW p, QuietActions(p)
    PROVE  BroadcastInv'
<1> DEFINE Rest == UNCHANGED <<capacity, sleepers>> /\ message' \in [Senders -> Values]
<1>0. /\ message \in [Senders -> Values] /\ DOMAIN at = Tasks /\ DOMAIN target = Tasks
      /\ \A r \in Receivers : at[r] # "idle" => target[r] = Own[r]
      /\ BroadcastTypes
  BY DEF BroadcastInv, BroadcastTypes, Placed
<1> SUFFICES Quiet(p) /\ Rest
  BY QuietStep
<1>1. CASE p \notin Tasks /\ (Close \/ \E s \in Subs : CloseSubscriber(s))
  <2>1. PICK who : at' = Rejected(who)
    BY <1>1 DEF Close, CloseSubscriber
  <2>2. Rest /\ target' = target /\ UNCHANGED <<messages, lagCount, enqueued, accounted, latest, dropped, lost>>
    BY <1>0, <1>1 DEF Close, CloseSubscriber, history
  <2> QED
    BY <1>0, <1>1, <2>1, <2>2, RejectedMoves, OwnFacts DEF Quiet, Calm
<1>2. CASE p \in Tasks /\ AbortTask(p)
  <2>1. at' = Rejected({p}) /\ at[p] # "idle"
    BY <1>2 DEF AbortTask
  <2>2. Rest /\ target' = target /\ UNCHANGED <<messages, lagCount, enqueued, accounted, latest, dropped, lost>>
    BY <1>0, <1>2 DEF AbortTask, history, subVars
  <2>3. Moves(p) /\ at'[p] # "sleeping"
    BY <1>2, <2>1 DEF Rejected, Moves
  <2>4. at'[p] \in Awake <=> at[p] \in Awake
    BY <2>3 DEF Moves, Awake
  <2>5. p \in Receivers => target'[p] = Own[p]
    BY <1>0, <2>1, <2>2
  <2> QED
    BY <1>0, <1>2, <2>1, <2>2, <2>3, <2>4, <2>5, RejectedMoves DEF Quiet, Calm
<1>3. CASE p \in Tasks /\ LockRejects(p)
  <2>1. /\ Rest /\ target' = target /\ UNCHANGED <<messages, lagCount, enqueued, accounted, latest, dropped, lost>>
        /\ at[p] = "rejected"
        /\ at' = [at EXCEPT ![p] = IF p \in Senders THEN "looping" ELSE "idle"]
    BY <1>0, <1>3 DEF LockRejects, history
  <2> QED
    BY <1>0, <1>3, <2>1, OwnFacts DEF Quiet, Calm, Moves, Awake
<1>4. CASE p \in Senders /\ SendVisits(p)
  <2>0. p \in Tasks /\ p \notin Receivers
    BY <1>4, OwnFacts DEF Tasks
  <2>1. Rest /\ UNCHANGED <<messages, lagCount, enqueued, accounted, latest, dropped, lost>>
    BY <1>0, <1>4 DEF SendVisits, history
  <2>2. /\ DOMAIN at' = Tasks /\ DOMAIN target' = Tasks
        /\ \A q \in Tasks \ {p} : at'[q] = at[q] /\ target'[q] = target[q]
    <3>1. CASE Ahead(p) = <<>> \/ (p \in aborted /\ ~Closed(Head(Ahead(p))))
      BY <1>0, <1>4, <2>0, <3>1 DEF SendVisits
    <3>2. CASE ~(Ahead(p) = <<>> \/ (p \in aborted /\ ~Closed(Head(Ahead(p)))))
      <4> DEFINE s == Head(Ahead(p))
      <4>1. /\ target' = [target EXCEPT ![p] = s]
            /\ UNCHANGED at \/ LockMutex(p, s, "entering", "inside")
        BY <1>4, <3>2 DEF SendVisits
      <4> HIDE DEF s
      <4> QED
        BY <1>0, <2>0, <4>1, LockMoves
    <3> QED
      BY <3>1, <3>2
  <2> QED
    BY <2>0, <2>1, <2>2 DEF Quiet, Calm, Moves
<1>5. CASE p \in Senders /\ \E m \in Messages : Send(p, m)
  <2>0. p \in Tasks /\ p \notin Receivers
    BY <1>5, OwnFacts DEF Tasks
  <2>1. /\ UNCHANGED <<capacity, sleepers, target, messages, lagCount, enqueued, accounted, latest, dropped, lost>>
        /\ at' = [at EXCEPT ![p] = "looping"]
        /\ \E m \in Messages : message' = [message EXCEPT ![p] = m]
    BY <1>5 DEF Send, subVars
  <2>2. message' \in [Senders -> Values]
    BY <1>0, <2>1 DEF Values
  <2> QED
    BY <1>0, <2>0, <2>1, <2>2 DEF Quiet, Calm, Moves
<1>6. CASE p \in Receivers /\ Receive(p, Own[p])
  <2>1. /\ Rest /\ UNCHANGED <<messages, lagCount, enqueued, accounted, latest, dropped, lost>>
        /\ at[p] = "idle" /\ target' = [target EXCEPT ![p] = Own[p]]
        /\ LockMutex(p, Own[p], "entering", "inside")
    BY <1>0, <1>6 DEF Receive, history
  <2>2. p \in Tasks
    BY <1>6, OwnFacts
  <2>3. /\ DOMAIN at' = Tasks
        /\ at'[p] \in {"entering", "inside"}
        /\ \A q \in Tasks \ {p} : at'[q] = at[q]
    BY <1>0, <2>1, <2>2, LockMoves
  <2> QED
    BY <1>0, <1>6, <2>1, <2>2, <2>3 DEF Quiet, Calm, Moves, Awake
<1>7. CASE p \in Receivers /\ ReceiveFails(p)
  <2>1. /\ Rest /\ UNCHANGED <<target, messages, lagCount, enqueued, accounted, latest, dropped, lost>>
        /\ at[p] = "failed"
        /\ UnlockMutex(p, target[p], "idle", at)
    BY <1>0, <1>7 DEF ReceiveFails, history
  <2>2. p \in Tasks
    BY <1>7, OwnFacts
  <2>3. DOMAIN at' = Tasks /\ at'[p] = "idle" /\ \A q \in Tasks \ {p} : Moves(q)
    BY <2>1, <2>2, UnlockMoves DEF Moves
  <2> QED
    BY <1>0, <1>7, <2>1, <2>2, <2>3 DEF Quiet, Calm, Awake
<1>8. CASE p \notin Tasks /\ \E s \in Subs : Subscribe(s)
  <2>1. Rest /\ UNCHANGED <<at, target, messages, lagCount, enqueued, accounted, latest, dropped, lost>>
    BY <1>0, <1>8 DEF Subscribe, taskVars, history
  <2> QED
    BY <1>0, <1>8, <2>1, OwnFacts DEF Quiet, Calm, Moves
<1> QED
  BY <1>1, <1>2, <1>3, <1>4, <1>5, <1>6, <1>7, <1>8 DEF QuietActions

\* Nobody but e has left the list, and nobody has joined it.
OthersStay(list, left, e) ==
    /\ \A i \in 1..Len(left) : \E j \in 1..Len(list) : left[i] = list[j]
    /\ \A i \in 1..Len(list) : list[i] # e => \E j \in 1..Len(left) : left[j] = list[i]

\* removeSafe() takes nobody else from the list.
LEMMA RemovedFrom ==
    ASSUME NEW Who, NEW list \in Seq(Who), NEW e
    PROVE  RemoveSafe(list, e) \in Seq(Who) /\ OthersStay(list, RemoveSafe(list, e), e)
<1> DEFINE left == RemoveSafe(list, e)
<1>2. Len(list) \in Nat
  BY LenProperties
<1> SUFFICES left \in Seq(Who) /\ OthersStay(list, left, e)
  OBVIOUS
<1>3. CASE left = list
  BY <1>3 DEF OthersStay
<1>4. CASE \E i \in 1..Len(list) :
                /\ list[i] = e
                /\ left \in Seq(Who)
                /\ Len(left) = Len(list) - 1
                /\ \A j \in 1..Len(list) - 1 : left[j] = IF j < i THEN list[j] ELSE list[j + 1]
  <2>1. PICK k \in 1..Len(list) :
                /\ list[k] = e
                /\ left \in Seq(Who)
                /\ Len(left) = Len(list) - 1
                /\ \A j \in 1..Len(list) - 1 : left[j] = IF j < k THEN list[j] ELSE list[j + 1]
    BY <1>4
  <2> HIDE DEF left
  <2>2. ASSUME NEW i \in 1..Len(left) PROVE \E j \in 1..Len(list) : left[i] = list[j]
    <3>1. i \in 1..Len(list) - 1 /\ i \in 1..Len(list) /\ i + 1 \in 1..Len(list)
      BY <1>2, <2>1
    <3> QED
      BY <2>1, <3>1
  <2>3. ASSUME NEW i \in 1..Len(list), list[i] # e PROVE \E j \in 1..Len(left) : left[j] = list[i]
    <3>1. CASE i < k
      BY <1>2, <2>1, <3>1
    <3>2. CASE i > k
      <4>1. i - 1 \in 1..Len(left) /\ ~(i - 1 < k) /\ (i - 1) + 1 = i
        BY <1>2, <2>1, <3>2
      <4>2. left[i - 1] = list[i]
        BY <2>1, <4>1
      <4> QED
        BY <4>1, <4>2
    <3> QED
      BY <2>1, <2>3, <3>1, <3>2
  <2> QED
    BY <2>1, <2>2, <2>3 DEF OthersStay
<1> QED
  BY <1>3, <1>4, RemoveSafeShape

LEMMA WaitResumesStep ==
    ASSUME BroadcastInv, NEW p \in Receivers, WaitResumes(p)
    PROVE  BroadcastInv'
<1>0. /\ BroadcastTypes /\ Placed
      /\ p \in Tasks /\ Own[p] \in Subs /\ target[p] = Own[p]
      /\ sleepers \in [Subs -> Seq(Receivers)]
  BY OwnFacts DEF BroadcastInv, WaitResumes, Placed, BroadcastTypes
<1> DEFINE s == Own[p]
<1>1. /\ UNCHANGED <<messages, dropped, lost, capacity, lagCount, enqueued, accounted, latest, target, message>>
      /\ sleepers' = [sleepers EXCEPT ![s] = RemoveSafe(@, p)]
      /\ \/ at[p] = "woken" /\ LockMutex(p, s, "relocking", "again")
         \/ at[p] = "quitting" /\ LockMutex(p, s, "failing", "failed")
  BY <1>0 DEF WaitResumes, history
<1>2. /\ DOMAIN at' = Tasks
      /\ \A q \in Tasks \ {p} : at'[q] = at[q]
      /\ \/ at[p] = "woken" /\ at'[p] \in {"relocking", "again"}
         \/ at[p] = "quitting" /\ at'[p] \in {"failing", "failed"}
  BY <1>0, <1>1, LockMoves
<1>3. Quiet(p)
  BY <1>0, <1>1, <1>2 DEF Quiet, Calm, Moves, Awake, BroadcastTypes
<1>4. sleepers' \in [Subs -> Seq(Receivers)] /\ \A x \in Subs : OthersStay(sleepers[x], sleepers'[x], p)
  <2>1. RemoveSafe(sleepers[s], p) \in Seq(Receivers) /\ OthersStay(sleepers[s], RemoveSafe(sleepers[s], p), p)
    BY <1>0, RemovedFrom
  <2>2. sleepers'[s] = RemoveSafe(sleepers[s], p) /\ \A x \in Subs \ {s} : sleepers'[x] = sleepers[x]
    BY <1>0, <1>1
  <2>3. sleepers' \in [Subs -> Seq(Receivers)]
    BY <1>0, <1>1, <2>1
  <2>4. OthersStay(sleepers[s], sleepers'[s], p)
    BY <2>1, <2>2
  <2> HIDE DEF s
  <2>5. ASSUME NEW x \in Subs PROVE OthersStay(sleepers[x], sleepers'[x], p)
    <3>1. CASE x = s
      BY <2>4, <3>1
    <3>2. CASE x # s
      BY <2>2, <3>2 DEF OthersStay
    <3> QED
      BY <3>1, <3>2
  <2> QED
    BY <2>3, <2>5
<1>5. Placed'
  <2>1. ASSUME NEW r \in Receivers, at'[r] # "idle" PROVE target'[r] = Own[r]
    <3>1. CASE r = p
      BY <1>0, <1>1, <3>1
    <3>2. CASE r # p
      <4>1. r \in Tasks \ {p}
        BY <3>2 DEF Tasks
      <4>2. at'[r] = at[r]
        BY <1>2, <4>1
      <4>3. at[r] # "idle"
        BY <2>1, <4>2
      <4> QED
        BY <1>0, <1>1, <4>3 DEF Placed
    <3> QED
      BY <3>1, <3>2
  <2>2. ASSUME NEW x \in Subs, NEW i \in 1..Len(sleepers'[x]) PROVE Own[sleepers'[x][i]] = x
    <3>1. PICK j \in 1..Len(sleepers[x]) : sleepers'[x][i] = sleepers[x][j]
      BY <1>4 DEF OthersStay
    <3>2. Own[sleepers[x][j]] = x
      BY <1>0 DEF Placed
    <3> QED
      BY <3>1, <3>2
  <2>3. ASSUME NEW r \in Receivers, at'[r] = "sleeping"
        PROVE  \E i \in 1..Len(sleepers'[Own[r]]) : sleepers'[Own[r]][i] = r
    <3>0. at'[p] # "sleeping"
      BY <1>2
    <3>1. r # p
      BY <2>3, <3>0
    <3>2. at[r] = "sleeping"
      BY <1>2, <2>3, <3>1, OwnFacts
    <3>3. PICK i \in 1..Len(sleepers[Own[r]]) : sleepers[Own[r]][i] = r
      BY <1>0, <3>2 DEF Placed
    <3>4. Own[r] \in Subs
      BY OwnFacts
    <3>5. \E j \in 1..Len(sleepers'[Own[r]]) : sleepers'[Own[r]][j] = sleepers[Own[r]][i]
      BY <1>4, <3>1, <3>3, <3>4 DEF OthersStay
    <3> QED
      BY <3>3, <3>5
  <2> QED
    BY <2>1, <2>2, <2>3 DEF Placed
<1>6. BroadcastTypes'
  BY <1>0, <1>1, <1>2, <1>4 DEF BroadcastTypes, Tasks
<1>7. \A x \in Subs : Queued(x)'
  BY <1>1 DEF BroadcastInv, Queued
<1> QED
  BY <1>3, <1>5, <1>6, <1>7, CalmKeeps DEF BroadcastInv, Quiet

LEMMA TailOfQueue ==
    ASSUME NEW queued \in Queues, queued # <<>>, NEW low \in Nat, NEW high \in Nat,
           Ordered(queued, low, high)
    PROVE  /\ Tail(queued) \in Queues /\ Len(queued) \in Nat /\ Len(Tail(queued)) = Len(queued) - 1
           /\ Head(queued)[1] \in Nat /\ low < Head(queued)[1] /\ Head(queued)[1] <= high
           /\ Ordered(Tail(queued), low, high)
           /\ Ordered(Tail(queued), Head(queued)[1], high)
<1>1. /\ Len(queued) \in Nat \ {0} /\ Tail(queued) \in Queues
      /\ Head(queued) = queued[1] /\ Len(Tail(queued)) = Len(queued) - 1
      /\ \A i \in 1..Len(Tail(queued)) : Tail(queued)[i] = queued[i + 1]
  BY EmptySeq, LenProperties, HeadTailProperties DEF Queues
<1>2. \A i \in 1..Len(queued) : queued[i] \in Nat \X Values
  BY ElementOfSeq DEF Queues
<1>3. \A i \in 1..Len(queued) : queued[i][1] \in Nat
  BY <1>2
<1>4. 1 \in 1..Len(queued) /\ \A i \in 1..Len(Tail(queued)) : i \in Nat /\ i + 1 \in 1..Len(queued) /\ 1 < i + 1
  BY <1>1
<1>5. low < queued[1][1] /\ queued[1][1] <= high
  BY <1>4 DEF Ordered
<1>6. ASSUME NEW i \in 1..Len(Tail(queued))
      PROVE  /\ low < Tail(queued)[i][1] /\ queued[1][1] < Tail(queued)[i][1]
             /\ Tail(queued)[i][1] <= high
  BY <1>1, <1>4 DEF Ordered
<1>7. ASSUME NEW i \in 1..Len(Tail(queued)), NEW j \in 1..Len(Tail(queued)), i < j
      PROVE  Tail(queued)[i][1] < Tail(queued)[j][1]
  <2>1. i + 1 < j + 1
    BY <1>4, <1>7
  <2> QED
    BY <1>1, <1>4, <2>1 DEF Ordered
<1> QED
  BY <1>1, <1>3, <1>4, <1>5, <1>6, <1>7 DEF Ordered

LEMMA AppendToQueue ==
    ASSUME NEW queued \in Queues, NEW low \in Nat, NEW high \in Nat, low <= high,
           Ordered(queued, low, high), NEW v \in Values
    PROVE  /\ Append(queued, <<high + 1, v>>) \in Queues
           /\ Len(Append(queued, <<high + 1, v>>)) = Len(queued) + 1
           /\ Ordered(Append(queued, <<high + 1, v>>), low, high + 1)
<1> DEFINE new == Append(queued, <<high + 1, v>>)
<1>1. /\ new \in Queues /\ Len(queued) \in Nat /\ Len(new) = Len(queued) + 1
      /\ \A i \in 1..Len(queued) : new[i] = queued[i]
      /\ new[Len(queued) + 1] = <<high + 1, v>>
  BY AppendProperties, LenProperties DEF Queues
<1>2. \A i \in 1..Len(queued) : queued[i] \in Nat \X Values
  BY ElementOfSeq DEF Queues
<1>3. \A i \in 1..Len(queued) : queued[i][1] \in Nat
  BY <1>2
<1> HIDE DEF new
<1>4. \A i \in 1..Len(new) :
        \/ i \in 1..Len(queued) /\ new[i] = queued[i]
        \/ i = Len(queued) + 1 /\ new[i][1] = high + 1
  BY <1>1
<1>5. \A i \in 1..Len(new) : low < new[i][1] /\ new[i][1] <= high + 1
  BY <1>3, <1>4 DEF Ordered
<1>6. \A i, j \in 1..Len(new) : i < j => new[i][1] < new[j][1]
  BY <1>1, <1>3, <1>4 DEF Ordered
<1> QED
  BY <1>1, <1>5, <1>6 DEF Ordered, new

LEMMA ReceiveLaggedStep ==
    ASSUME BroadcastInv, NEW p \in Receivers, ReceiveLagged(p)
    PROVE  BroadcastInv'
<1> DEFINE s == Own[p]
<1>0. /\ BroadcastTypes /\ Placed
      /\ p \in Tasks /\ s \in Subs /\ target[p] = s /\ at[p] = "inside"
  BY OwnFacts DEF BroadcastInv, ReceiveLagged, Placed
<1>1. /\ UNCHANGED <<messages, dropped, lost, capacity, sleepers, enqueued, latest, target, message>>
      /\ accounted' = [accounted EXCEPT ![s] = @ + lagCount[s]]
      /\ lagCount' = [lagCount EXCEPT ![s] = 0]
      /\ UnlockMutex(p, s, "idle", at)
  BY <1>0 DEF ReceiveLagged
<1>2. DOMAIN at' = Tasks /\ at'[p] = "idle" /\ \A q \in Tasks \ {p} : Moves(q)
  BY <1>0, <1>1, UnlockMoves DEF Moves
<1>3. Calm(p)
  BY <1>0, <1>1, <1>2 DEF Calm, Awake, BroadcastTypes
<1>4. BroadcastTypes'
  <2>1. accounted' \in [Subs -> Nat] /\ lagCount' \in [Subs -> Nat]
    BY <1>0, <1>1 DEF BroadcastTypes
  <2> QED
    BY <1>0, <1>1, <1>2, <2>1 DEF BroadcastTypes, Tasks
<1>5. ASSUME NEW x \in Subs PROVE Queued(x)'
  <2>1. Queued(x) /\ Len(messages[x]) \in Nat
    BY <1>0, LenProperties DEF BroadcastInv, BroadcastTypes
  <2>2. /\ accounted'[x] + lagCount'[x] = accounted[x] + lagCount[x]
        /\ accounted[x] \in Nat /\ lagCount[x] \in Nat /\ accounted'[x] \in Nat /\ lagCount'[x] \in Nat
    BY <1>0, <1>1 DEF BroadcastTypes
  <2>3. /\ messages'[x] = messages[x] /\ enqueued'[x] = enqueued[x] /\ latest'[x] = latest[x]
    BY <1>1
  <2>4. enqueued[x] = accounted'[x] + Len(messages[x]) + lagCount'[x]
    <3>1. enqueued[x] = accounted[x] + Len(messages[x]) + lagCount[x]
      BY <2>1 DEF Queued
    <3>2. \A n \in Nat : accounted[x] + n + lagCount[x] = accounted'[x] + n + lagCount'[x]
      BY <2>2
    <3> QED
      BY <2>1, <3>1, <3>2, Zenon
  <2>5. latest[x] <= enqueued[x] /\ Ordered(messages[x], latest[x], enqueued[x])
    BY <2>1 DEF Queued
  <2>6. Ordered(messages'[x], latest'[x], enqueued'[x])
    BY <2>3, <2>5, Zenon
  <2>7. Len(messages'[x]) = Len(messages[x])
    BY <2>3
  <2> QED
    BY <2>3, <2>4, <2>5, <2>6, <2>7 DEF Queued
<1> QED
  BY <1>1, <1>3, <1>4, <1>5, CalmKeeps, CalmKeepsPlaces DEF BroadcastInv

LEMMA ReceiveRunsStep ==
    ASSUME BroadcastInv, NEW p \in Receivers, ReceiveRuns(p)
    PROVE  BroadcastInv'
<1> DEFINE s == Own[p]
           first == Head(messages[s])
           empty == messages[s] = <<>>
           none == empty \/ first[2] = "falsy"
<1>0. /\ BroadcastTypes /\ Placed
      /\ p \in Tasks /\ s \in Subs /\ target[p] = s /\ at[p] \in {"again", "inside"}
      /\ \A x \in Subs : Queued(x) /\ OnTheirWay(x)
  BY OwnFacts DEF BroadcastInv, ReceiveRuns, Placed
<1>1. /\ UNCHANGED <<lost, capacity, lagCount, enqueued, target, message>>
      /\ messages' = [messages EXCEPT ![s] = IF empty THEN @ ELSE Tail(@)]
      /\ accounted' = [accounted EXCEPT ![s] = IF empty THEN @ ELSE @ + 1]
      /\ dropped' = [dropped EXCEPT ![s] = @ \/ (none /\ ~empty)]
      /\ latest' = [latest EXCEPT ![s] = IF none THEN @ ELSE first[1]]
      /\ sleepers' = [sleepers EXCEPT ![s] = IF none THEN Append(@, p) ELSE @]
      /\ UnlockMutex(p, s, IF ~none THEN "idle"
                        ELSE IF Closed(s) \/ p \in aborted THEN "quitting" ELSE "sleeping", at)
  BY <1>0, Zenon DEF ReceiveRuns
<1> HIDE DEF s, first, empty, none
<1>2. /\ DOMAIN at' = Tasks
      /\ \A q \in Tasks \ {p} : Moves(q)
      /\ at'[p] \in {"idle", "quitting", "sleeping"}
      /\ ~none => at'[p] = "idle"
  <2>1. PICK place \in {"idle", "quitting", "sleeping"} :
            UnlockMutex(p, s, place, at) /\ (~none => place = "idle")
    BY <1>1, Zenon
  <2> QED
    BY <1>0, <2>1, UnlockMoves DEF Moves
<1>3. /\ messages[s] \in Queues /\ accounted[s] \in Nat /\ enqueued[s] \in Nat
      /\ lagCount[s] \in Nat /\ latest[s] \in Nat
  BY <1>0 DEF BroadcastTypes
<1>6. /\ messages'[s] \in Queues /\ accounted'[s] \in Nat /\ latest'[s] \in Nat
      /\ Queued(s)'
      /\ Len(messages[s]) \in Nat /\ Len(messages'[s]) \in Nat
      /\ ~none => Len(messages'[s]) = Len(messages[s]) - 1
      /\ none => dropped'[s] \/ Len(messages'[s]) = 0
  <2>1. CASE empty
    <3>1. none /\ messages'[s] = messages[s] /\ accounted'[s] = accounted[s] /\ latest'[s] = latest[s]
      BY <1>0, <1>1, <2>1 DEF BroadcastTypes, none
    <3>2. Len(messages[s]) = 0
      BY <2>1 DEF empty
    <3>3. Queued(s)
      BY <1>0
    <3>4. Queued(s)'
      BY <1>1, <3>1, <3>3 DEF Queued, Ordered
    <3> QED
      BY <1>3, <3>1, <3>2, <3>4
  <2>2. CASE ~empty
    <3>1. /\ messages'[s] = Tail(messages[s]) /\ accounted'[s] = accounted[s] + 1
          /\ latest'[s] = IF none THEN latest[s] ELSE first[1]
          /\ none => dropped'[s]
          /\ enqueued'[s] = enqueued[s] /\ lagCount'[s] = lagCount[s]
      BY <1>0, <1>1, <2>2 DEF BroadcastTypes
    <3>2. /\ enqueued[s] = accounted[s] + Len(messages[s]) + lagCount[s]
          /\ latest[s] <= enqueued[s]
          /\ Ordered(messages[s], latest[s], enqueued[s])
      BY <1>0 DEF Queued
    <3>3. /\ Tail(messages[s]) \in Queues /\ Len(messages[s]) \in Nat /\ Len(Tail(messages[s])) = Len(messages[s]) - 1
          /\ first[1] \in Nat /\ first[1] <= enqueued[s]
          /\ Ordered(Tail(messages[s]), latest[s], enqueued[s])
          /\ Ordered(Tail(messages[s]), first[1], enqueued[s])
      BY <1>3, <2>2, <3>2, TailOfQueue DEF empty, first
    <3>4. Len(Tail(messages[s])) \in Nat
      BY <3>3, LenProperties DEF Queues
    <3>5. enqueued[s] = (accounted[s] + 1) + Len(Tail(messages[s])) + lagCount[s]
      BY <1>3, <3>2, <3>3
    <3>6. latest'[s] <= enqueued[s] /\ latest'[s] \in Nat /\ Ordered(Tail(messages[s]), latest'[s], enqueued[s])
      <4>1. CASE none
        BY <1>3, <3>1, <3>2, <3>3, <4>1
      <4>2. CASE ~none
        BY <1>3, <3>1, <3>2, <3>3, <4>2
      <4> QED
        BY <4>1, <4>2
    <3>7. Queued(s)'
      BY <3>1, <3>5, <3>6 DEF Queued, s
    <3> QED
      BY <1>3, <3>1, <3>3, <3>4, <3>6, <3>7
  <2> QED
    BY <2>1, <2>2
<1>7. ASSUME NEW x \in Subs, x # s
      PROVE  /\ messages'[x] = messages[x] /\ accounted'[x] = accounted[x] /\ latest'[x] = latest[x]
             /\ dropped'[x] = dropped[x] /\ sleepers'[x] = sleepers[x]
  BY <1>0, <1>1, <1>7 DEF BroadcastTypes
<1>8. BroadcastTypes'
  <2>1. /\ messages' \in [Subs -> Queues] /\ accounted' \in [Subs -> Nat] /\ latest' \in [Subs -> Nat]
        /\ dropped' \in [Subs -> BOOLEAN]
    BY <1>0, <1>1, <1>6 DEF BroadcastTypes
  <2>2. Append(sleepers[s], p) \in Seq(Receivers)
    BY <1>0, AppendProperties DEF BroadcastTypes
  <2>3. sleepers' \in [Subs -> Seq(Receivers)]
    BY <1>0, <1>1, <2>2 DEF BroadcastTypes
  <2> QED
    BY <1>0, <1>1, <1>2, <2>1, <2>3 DEF BroadcastTypes, Tasks
<1>9. ASSUME NEW x \in Subs PROVE Queued(x)'
  <2>1. CASE x = s
    BY <1>6, <2>1 DEF s
  <2>2. CASE x # s
    BY <1>0, <1>1, <1>7, <2>2 DEF Queued, Ordered
  <2> QED
    BY <2>1, <2>2
<1>10. ASSUME NEW x \in Subs PROVE OnTheirWay(x)'
  <2>1. \A q \in Receivers \ {p} : at'[q] \in Awake <=> at[q] \in Awake
    BY <1>2, OwnFacts DEF Moves, Awake
  <2>2. \A q \in Receivers \ {p} : at'[q] = "sleeping" => at[q] = "sleeping"
    BY <1>2, OwnFacts DEF Moves
  <2>3. /\ IsFiniteSet(AwakeAt(x))'
        /\ Cardinality(AwakeAt(x)) \in Nat /\ Cardinality(AwakeAt(x)') \in Nat
        /\ Cardinality(AwakeAt(x)') >= Cardinality(AwakeAt(x)) - 1
        /\ Own[p] # x => Cardinality(AwakeAt(x)') >= Cardinality(AwakeAt(x))
    BY <1>0, <2>1, AwakeStep DEF OnTheirWay
  <2>4. CASE x = s /\ none
    BY <1>6, <2>3, <2>4 DEF OnTheirWay
  <2>5. CASE x = s /\ ~none
    <3>1. Asleep(x)' => Asleep(x)
      BY <1>2, <2>2, <2>5 DEF Asleep
    <3>2. dropped[x] => dropped'[x]
      BY <1>0, <1>1, <2>5 DEF BroadcastTypes
    <3> QED
      BY <1>0, <1>1, <1>6, <2>3, <2>5, <3>1, <3>2 DEF OnTheirWay
  <2>6. CASE x # s
    <3>1. Asleep(x)' => Asleep(x)
      BY <2>2, <2>6 DEF Asleep, s
    <3>2. Len(messages[x]) \in Nat
      BY <1>0, LenProperties DEF BroadcastTypes, Queues
    <3> QED
      BY <1>0, <1>1, <1>7, <2>3, <2>6, <3>1, <3>2 DEF OnTheirWay, s
  <2> QED
    BY <2>4, <2>5, <2>6
<1>11. Placed'
  <2>1. /\ sleepers[s] \in Seq(Receivers) /\ Len(sleepers[s]) \in Nat
        /\ Len(Append(sleepers[s], p)) = Len(sleepers[s]) + 1
        /\ \A i \in 1..Len(sleepers[s]) : Append(sleepers[s], p)[i] = sleepers[s][i]
        /\ Append(sleepers[s], p)[Len(sleepers[s]) + 1] = p
    BY <1>0, AppendProperties, LenProperties DEF BroadcastTypes
  <2>2. sleepers'[s] = IF none THEN Append(sleepers[s], p) ELSE sleepers[s]
    BY <1>0, <1>1 DEF BroadcastTypes
  <2>3. ASSUME NEW r \in Receivers, at'[r] # "idle" PROVE target'[r] = Own[r]
    BY <1>0, <1>1, <1>2, <2>3, OwnFacts DEF Placed, Moves, s
  <2>4. ASSUME NEW x \in Subs, NEW i \in 1..Len(sleepers'[x]) PROVE Own[sleepers'[x][i]] = x
    <3>1. CASE x = s /\ none
      <4>1. \A j \in 1..Len(sleepers[s]) : Own[sleepers[s][j]] = s
        BY <1>0 DEF Placed
      <4>2. i \in 1..Len(sleepers[s]) \/ i = Len(sleepers[s]) + 1
        BY <2>1, <2>2, <3>1
      <4>3. CASE i \in 1..Len(sleepers[s])
        BY <2>1, <2>2, <3>1, <4>1, <4>3
      <4>4. CASE i = Len(sleepers[s]) + 1
        BY <2>1, <2>2, <3>1, <4>4 DEF s
      <4> QED
        BY <4>2, <4>3, <4>4
    <3>2. CASE ~(x = s /\ none)
      <4>1. sleepers'[x] = sleepers[x]
        BY <1>7, <2>2, <3>2
      <4> QED
        BY <1>0, <4>1 DEF Placed
    <3> QED
      BY <3>1, <3>2
  <2>5. ASSUME NEW r \in Receivers, at'[r] = "sleeping"
        PROVE  \E i \in 1..Len(sleepers'[Own[r]]) : sleepers'[Own[r]][i] = r
    <3>1. CASE r = p
      <4>1. none /\ sleepers'[s] = Append(sleepers[s], p)
        BY <1>2, <2>2, <2>5, <3>1
      <4>2. Len(sleepers[s]) + 1 \in 1..Len(sleepers'[s]) /\ sleepers'[s][Len(sleepers[s]) + 1] = p
        BY <2>1, <4>1
      <4> QED
        BY <3>1, <4>2 DEF s
    <3>2. CASE r # p
      <4>1. at[r] = "sleeping"
        BY <1>2, <2>5, <3>2, OwnFacts DEF Moves
      <4>2. PICK i \in 1..Len(sleepers[Own[r]]) : sleepers[Own[r]][i] = r
        BY <1>0, <4>1 DEF Placed
      <4>3. Own[r] \in Subs
        BY OwnFacts
      <4>4. CASE Own[r] = s /\ none
        <5>1. sleepers'[s] = Append(sleepers[s], p) /\ i \in 1..Len(sleepers[s]) /\ sleepers[s][i] = r
          BY <2>2, <4>2, <4>4
        <5>2. i \in 1..Len(sleepers'[s]) /\ sleepers'[s][i] = r
          BY <2>1, <5>1
        <5> QED
          BY <4>4, <5>2
      <4>5. CASE ~(Own[r] = s /\ none)
        <5>1. sleepers'[Own[r]] = sleepers[Own[r]]
          BY <1>7, <2>2, <4>3, <4>5
        <5> QED
          BY <4>2, <5>1
      <4> QED
        BY <4>4, <4>5
    <3> QED
      BY <3>1, <3>2
  <2> QED
    BY <2>3, <2>4, <2>5 DEF Placed
<1> QED
  BY <1>8, <1>9, <1>10, <1>11 DEF BroadcastInv

Counts(came, gone, here, missed) == came = gone + here + missed

\* One more message has come, and is there; or it is, and another one is missed.
LEMMA OneMore ==
    ASSUME NEW came \in Nat, NEW gone \in Nat, NEW here \in Nat, NEW missed \in Nat,
           Counts(came, gone, here, missed)
    PROVE  /\ Counts(came + 1, gone, here, missed + 1)
           /\ Counts(came + 1, gone, here + 1, missed)
BY DEF Counts

LEMMA EnqueueStep ==
    ASSUME BroadcastInv, NEW p \in Senders, Enqueue(p)
    PROVE  BroadcastInv'
<1> DEFINE s == target[p]
           full == Len(messages[s]) >= capacity
           h == Head(sleepers[s])
           wakes == sleepers[s] # <<>> /\ at[h] = "sleeping"
           oldest == IF full THEN Tail(messages[s]) ELSE messages[s]
<1>0. /\ BroadcastTypes /\ Placed
      /\ p \in Tasks /\ p \notin Receivers /\ at[p] = "inside"
      /\ \A x \in Subs : Queued(x) /\ OnTheirWay(x)
  BY OwnFacts DEF BroadcastInv, Enqueue, Tasks
<1>1. /\ UNCHANGED <<capacity, target, message, accounted, latest, dropped>>
      /\ messages' = [messages EXCEPT ![s] = Append(IF full THEN Tail(@) ELSE @, <<enqueued[s] + 1, message[p]>>)]
      /\ lagCount' = [lagCount EXCEPT ![s] = IF full THEN @ + 1 ELSE @]
      /\ enqueued' = [enqueued EXCEPT ![s] = @ + 1]
      /\ sleepers' = [sleepers EXCEPT ![s] = IF @ = <<>> THEN @ ELSE Tail(@)]
      /\ lost' = [lost EXCEPT ![s] = @ \/ (sleepers[s] # <<>> /\ Signalled(s) = at)]
      /\ UnlockMutex(p, s, "looping", Signalled(s))
  BY Zenon DEF Enqueue, Notify
<1>2. Signalled(s) = IF wakes THEN [at EXCEPT ![h] = "woken"] ELSE at
  BY DEF Signalled
<1> HIDE DEF s, full, h, wakes, oldest
<1>3. /\ DOMAIN at' = Tasks
      /\ \A q \in Tasks \ {p} : (wakes /\ q = h) \/ Moves(q)
      /\ \A q \in Tasks \ {p} : wakes /\ q = h => at[q] = "sleeping" /\ at'[q] = "woken"
  <2> DEFINE places == Signalled(s)
  <2>1. \A q \in Tasks : IF wakes /\ q = h THEN at[q] = "sleeping" /\ places[q] = "woken" ELSE places[q] = at[q]
    BY <1>0, <1>2 DEF wakes, BroadcastTypes
  <2>2. UnlockMutex(p, s, "looping", places)
    BY <1>1
  <2> HIDE DEF places
  <2>3. /\ DOMAIN at' = Tasks
        /\ \A q \in Tasks \ {p} :
                \/ at'[q] = places[q]
                \/ places[q] = "entering" /\ at'[q] = "inside"
                \/ places[q] = "relocking" /\ at'[q] = "again"
                \/ places[q] = "failing" /\ at'[q] = "failed"
    BY <1>0, <2>2, UnlockMoves
  <2> QED
    BY <2>1, <2>3 DEF Moves
<1>4. /\ \A q \in Receivers \ {h} : at'[q] \in Awake <=> at[q] \in Awake
      /\ \A q \in Receivers : at'[q] = "sleeping" => at[q] = "sleeping" /\ ~(wakes /\ q = h)
      /\ \A q \in Receivers : at'[q] # "idle" => at[q] # "idle"
      /\ h \in Receivers /\ at[h] \in Awake => at'[h] \in Awake
      /\ h \in Receivers /\ wakes => at[h] \notin Awake /\ at'[h] \in Awake
  <2>1. ASSUME NEW q \in Receivers PROVE q \in Tasks \ {p}
    BY <1>0, OwnFacts
  <2> QED
    BY <1>3, <2>1 DEF Moves, Awake
<1>5. ASSUME NEW x \in Subs
      PROVE  /\ messages[x] \in Queues /\ sleepers[x] \in Seq(Receivers)
             /\ Len(messages[x]) \in Nat /\ Len(sleepers[x]) \in Nat
             /\ enqueued[x] \in Nat /\ latest[x] \in Nat /\ accounted[x] \in Nat /\ lagCount[x] \in Nat
  BY <1>0, LenProperties DEF BroadcastTypes, Queues
<1>6. ASSUME NEW x \in Subs, x # s
      PROVE  /\ messages'[x] = messages[x] /\ lagCount'[x] = lagCount[x] /\ enqueued'[x] = enqueued[x]
             /\ sleepers'[x] = sleepers[x] /\ lost'[x] = lost[x]
  BY <1>0, <1>1, <1>6 DEF BroadcastTypes
<1>7. ASSUME s \in Subs
      PROVE  /\ messages'[s] \in Queues /\ lagCount'[s] \in Nat /\ enqueued'[s] \in Nat
             /\ Len(messages'[s]) \in Nat /\ Len(messages'[s]) <= Len(messages[s]) + 1
             /\ enqueued'[s] = accounted'[s] + Len(messages'[s]) + lagCount'[s]
             /\ Ordered(messages'[s], latest'[s], enqueued'[s])
             /\ latest'[s] <= enqueued'[s]
  <2>1. /\ messages'[s] = Append(oldest, <<enqueued[s] + 1, message[p]>>)
        /\ lagCount'[s] = IF full THEN lagCount[s] + 1 ELSE lagCount[s]
        /\ enqueued'[s] = enqueued[s] + 1
        /\ accounted'[s] = accounted[s] /\ latest'[s] = latest[s]
        /\ message[p] \in Values
    BY <1>0, <1>1, <1>7 DEF BroadcastTypes, oldest
  <2>2. /\ enqueued[s] = accounted[s] + Len(messages[s]) + lagCount[s]
        /\ latest[s] <= enqueued[s]
        /\ Ordered(messages[s], latest[s], enqueued[s])
    BY <1>0, <1>7 DEF Queued
  <2>3. full => messages[s] # <<>>
    BY <1>0, <1>5, <1>7 DEF full, BroadcastTypes
  <2>4. /\ oldest \in Queues /\ Len(oldest) = IF full THEN Len(messages[s]) - 1 ELSE Len(messages[s])
        /\ Ordered(oldest, latest[s], enqueued[s])
    <3>1. CASE full
      <4>1. /\ Tail(messages[s]) \in Queues /\ Len(Tail(messages[s])) = Len(messages[s]) - 1
            /\ Ordered(Tail(messages[s]), latest[s], enqueued[s])
        BY <1>5, <1>7, <2>2, <2>3, <3>1, TailOfQueue
      <4> QED
        BY <3>1, <4>1 DEF oldest
    <3>2. CASE ~full
      BY <1>5, <1>7, <2>2, <3>2 DEF oldest
    <3> QED
      BY <3>1, <3>2
  <2>5. /\ messages'[s] \in Queues
        /\ Len(messages'[s]) = Len(oldest) + 1
        /\ Ordered(messages'[s], latest[s], enqueued[s] + 1)
    <3>1. oldest \in Queues /\ latest[s] \in Nat /\ enqueued[s] \in Nat /\ latest[s] <= enqueued[s]
          /\ Ordered(oldest, latest[s], enqueued[s]) /\ message[p] \in Values
      BY <1>5, <1>7, <2>1, <2>2, <2>4
    <3> HIDE DEF s
    <3>2. /\ Append(oldest, <<enqueued[s] + 1, message[p]>>) \in Queues
          /\ Len(Append(oldest, <<enqueued[s] + 1, message[p]>>)) = Len(oldest) + 1
          /\ Ordered(Append(oldest, <<enqueued[s] + 1, message[p]>>), latest[s], enqueued[s] + 1)
      BY <3>1, AppendToQueue
    <3> QED
      BY <2>1, <3>2
  <2>6. Len(messages'[s]) \in Nat /\ Len(messages[s]) \in Nat
    BY <1>5, <1>7, <2>5, LenProperties DEF Queues
  <2>7. /\ Len(messages'[s]) <= Len(messages[s]) + 1
        /\ enqueued[s] + 1 = accounted[s] + Len(messages'[s]) + lagCount'[s]
    <3>0. Counts(enqueued[s], accounted[s], Len(messages[s]), lagCount[s])
      BY <2>2, Zenon DEF Counts
    <3>1. /\ Counts(enqueued[s] + 1, accounted[s], Len(messages[s]), lagCount[s] + 1)
          /\ Counts(enqueued[s] + 1, accounted[s], Len(messages[s]) + 1, lagCount[s])
      BY <1>5, <1>7, <3>0, OneMore, Zenon
    <3>2. CASE full
      <4>1. Len(messages'[s]) = Len(messages[s]) /\ lagCount'[s] = lagCount[s] + 1
        BY <2>1, <2>4, <2>5, <2>6, <3>2
      <4> QED
        BY <2>6, <3>1, <4>1 DEF Counts
    <3>3. CASE ~full
      <4>1. Len(messages'[s]) = Len(messages[s]) + 1 /\ lagCount'[s] = lagCount[s]
        BY <2>1, <2>4, <2>5, <2>6, <3>3
      <4> QED
        BY <2>6, <3>1, <4>1 DEF Counts
    <3> QED
      BY <3>2, <3>3
  <2>8. /\ enqueued'[s] = accounted'[s] + Len(messages'[s]) + lagCount'[s]
        /\ Ordered(messages'[s], latest'[s], enqueued'[s])
        /\ latest'[s] <= enqueued'[s]
    <3>1. \A m, n \in Nat : m <= n => m <= n + 1
      OBVIOUS
    <3>2. latest[s] <= enqueued[s] + 1
      BY <1>5, <1>7, <2>2, <3>1, Zenon
    <3> QED
      BY <2>1, <2>5, <2>7, <3>2
  <2>9. lagCount'[s] \in Nat /\ enqueued'[s] \in Nat
    BY <1>5, <1>7, <2>1
  <2> QED
    BY <2>5, <2>6, <2>7, <2>8, <2>9
<1>8. BroadcastTypes'
  <2>1. /\ messages' \in [Subs -> Queues] /\ lagCount' \in [Subs -> Nat] /\ enqueued' \in [Subs -> Nat]
        /\ lost' \in [Subs -> BOOLEAN]
    BY <1>0, <1>1, <1>7 DEF BroadcastTypes
  <2>2. sleepers' \in [Subs -> Seq(Receivers)]
    <3>1. ASSUME s \in Subs, sleepers[s] # <<>> PROVE Tail(sleepers[s]) \in Seq(Receivers)
      BY <1>5, <3>1, HeadTailProperties
    <3> QED
      BY <1>0, <1>1, <3>1 DEF BroadcastTypes
  <2> QED
    BY <1>0, <1>1, <1>3, <2>1, <2>2 DEF BroadcastTypes, Tasks
<1>9. ASSUME NEW x \in Subs PROVE Queued(x)'
  <2>1. CASE x = s
    BY <1>7, <2>1 DEF Queued
  <2>2. CASE x # s
    BY <1>0, <1>1, <1>6, <2>2 DEF Queued, Ordered
  <2> QED
    BY <2>1, <2>2
<1>10. ASSUME NEW x \in Subs PROVE OnTheirWay(x)'
  <2>1. /\ IsFiniteSet(AwakeAt(x))'
        /\ Cardinality(AwakeAt(x)) \in Nat /\ Cardinality(AwakeAt(x)') \in Nat
        /\ Cardinality(AwakeAt(x)') >= Cardinality(AwakeAt(x))
        /\ h \in Receivers /\ Own[h] = x /\ wakes => Cardinality(AwakeAt(x)') = Cardinality(AwakeAt(x)) + 1
    BY <1>0, <1>4, AwakeStep DEF OnTheirWay
  <2>2. Asleep(x)' => Asleep(x)
    BY <1>4 DEF Asleep
  <2>3. CASE x # s
    BY <1>0, <1>1, <1>5, <1>6, <2>1, <2>2, <2>3 DEF OnTheirWay
  <2>4. CASE x = s /\ wakes
    <3>1. h \in Receivers /\ Own[h] = x
      <4>1. sleepers[s] # <<>> /\ sleepers[s] \in Seq(Receivers) /\ Len(sleepers[s]) \in Nat
        BY <1>5, <2>4 DEF wakes
      <4>2. 1 \in 1..Len(sleepers[s]) /\ h = sleepers[s][1] /\ h \in Receivers
        BY <4>1, EmptySeq, HeadTailProperties, ElementOfSeq DEF h
      <4> QED
        BY <1>0, <2>4, <4>2 DEF Placed
    <3>2. lost[x] => lost'[x]
      BY <1>0, <1>1, <2>4 DEF BroadcastTypes
    <3>3. Len(messages[x]) <= Cardinality(AwakeAt(x)) => Len(messages'[x]) <= Cardinality(AwakeAt(x)')
      BY <1>5, <1>7, <2>1, <2>4, <3>1
    <3> QED
      BY <1>0, <1>1, <2>1, <2>2, <3>2, <3>3 DEF OnTheirWay
  <2>5. CASE x = s /\ ~wakes /\ sleepers[s] = <<>>
    <3>1. ~Asleep(x)
      BY <1>0, <2>5 DEF Asleep, Placed
    <3> QED
      BY <2>1, <2>2, <3>1 DEF OnTheirWay
  <2>6. CASE x = s /\ ~wakes /\ sleepers[s] # <<>>
    <3>1. lost'[x]
      BY <1>0, <1>1, <1>2, <2>6 DEF BroadcastTypes
    <3> QED
      BY <2>1, <3>1 DEF OnTheirWay
  <2> QED
    BY <2>3, <2>4, <2>5, <2>6
<1>11. Placed'
  <2>1. ASSUME NEW r \in Receivers, at'[r] # "idle" PROVE target'[r] = Own[r]
    BY <1>0, <1>1, <1>4, <2>1 DEF Placed
  <2>2. ASSUME s \in Subs, sleepers[s] # <<>>
        PROVE  /\ sleepers'[s] = Tail(sleepers[s])
               /\ Len(sleepers[s]) \in Nat /\ Len(Tail(sleepers[s])) = Len(sleepers[s]) - 1
               /\ h = sleepers[s][1]
               /\ \A i \in 1..Len(Tail(sleepers[s])) : Tail(sleepers[s])[i] = sleepers[s][i + 1]
    BY <1>0, <1>1, <1>5, <2>2, HeadTailProperties DEF BroadcastTypes, h
  <2>3. ASSUME NEW x \in Subs, x # s \/ sleepers[s] = <<>> PROVE sleepers'[x] = sleepers[x]
    BY <1>0, <1>1, <1>6, <2>3 DEF BroadcastTypes
  <2>4. ASSUME NEW x \in Subs, NEW i \in 1..Len(sleepers'[x]) PROVE Own[sleepers'[x][i]] = x
    <3>1. CASE x # s \/ sleepers[s] = <<>>
      BY <1>0, <2>3, <3>1 DEF Placed
    <3>2. CASE x = s /\ sleepers[s] # <<>>
      <4>1. i + 1 \in 1..Len(sleepers[s]) /\ sleepers'[x][i] = sleepers[s][i + 1]
        <5>1. Len(sleepers'[x]) = Len(sleepers[s]) - 1 /\ Len(sleepers[s]) \in Nat
          BY <2>2, <3>2
        <5>2. i \in 1..Len(sleepers'[x]) /\ i + 1 \in 1..Len(sleepers[s])
          BY <5>1
        <5> QED
          BY <2>2, <3>2, <5>2
      <4> QED
        BY <1>0, <3>2, <4>1 DEF Placed
    <3> QED
      BY <3>1, <3>2
  <2>5. ASSUME NEW r \in Receivers, at'[r] = "sleeping"
        PROVE  \E i \in 1..Len(sleepers'[Own[r]]) : sleepers'[Own[r]][i] = r
    <3>1. at[r] = "sleeping" /\ ~(wakes /\ r = h) /\ Own[r] \in Subs
      BY <1>4, <2>5, OwnFacts
    <3>2. PICK i \in 1..Len(sleepers[Own[r]]) : sleepers[Own[r]][i] = r
      BY <1>0, <3>1 DEF Placed
    <3>3. CASE Own[r] # s \/ sleepers[s] = <<>>
      <4>1. sleepers'[Own[r]] = sleepers[Own[r]]
        BY <2>3, <3>1, <3>3
      <4> QED
        BY <3>2, <4>1
    <3>4. CASE Own[r] = s /\ sleepers[s] # <<>>
      <4>1. i \in 1..Len(sleepers[s]) /\ sleepers[s][i] = r /\ s \in Subs
        BY <3>1, <3>2, <3>4
      <4>2. i # 1
        BY <2>2, <3>1, <3>4, <4>1 DEF wakes
      <4>3. i - 1 \in 1..Len(sleepers'[s]) /\ (i - 1) + 1 = i
        <5>1. Len(sleepers'[s]) = Len(sleepers[s]) - 1 /\ Len(sleepers[s]) \in Nat
          BY <2>2, <3>4, <4>1
        <5> QED
          BY <4>1, <4>2, <5>1
      <4>4. sleepers'[s][i - 1] = r
        BY <2>2, <3>4, <4>1, <4>3
      <4> QED
        BY <3>4, <4>3, <4>4
    <3> QED
      BY <3>3, <3>4
  <2> QED
    BY <2>1, <2>4, <2>5 DEF Placed
<1> QED
  BY <1>8, <1>9, <1>10, <1>11 DEF BroadcastInv

LEMMA BroadcastStarts == BroadcastInit => BroadcastInv
<1> SUFFICES ASSUME BroadcastInit PROVE BroadcastInv
  OBVIOUS
<1>1. BroadcastInit
  OBVIOUS
<1>2. BroadcastTypes
  BY <1>1, BroadcastAssumption DEF BroadcastAssumption, BroadcastTypes, BroadcastInit, PerSub, Values, Queues
<1>3. Placed
  BY <1>1, OwnFacts DEF Placed, BroadcastInit, PerSub
<1>4. ASSUME NEW s \in Subs PROVE Queued(s) /\ OnTheirWay(s)
  <2>1. messages[s] = <<>> /\ enqueued[s] = 0 /\ accounted[s] = 0 /\ latest[s] = 0 /\ lagCount[s] = 0
    BY <1>1 DEF BroadcastInit, PerSub
  <2>2. AwakeAt(s) = {} /\ ~Asleep(s)
    BY <1>1, OwnFacts DEF AwakeAt, Asleep, Awake, BroadcastInit
  <2> QED
    BY <2>1, <2>2, FS_EmptySet DEF Queued, Ordered, OnTheirWay
<1> QED
  BY <1>2, <1>3, <1>4 DEF BroadcastInv

LEMMA BroadcastKept == BroadcastInv /\ [BroadcastNext]_broadcastVars => BroadcastInv'
<1> SUFFICES ASSUME BroadcastInv, [BroadcastNext]_broadcastVars PROVE BroadcastInv'
  OBVIOUS
<1>1. CASE UNCHANGED broadcastVars
  <2>1. BroadcastTypes'
    BY <1>1 DEF broadcastVars, subVars, taskVars, history, BroadcastInv, BroadcastTypes, Tasks
  <2>2. Placed'
    BY <1>1 DEF broadcastVars, subVars, taskVars, history, BroadcastInv, Placed
  <2>3. ASSUME NEW s \in Subs PROVE Queued(s)' /\ OnTheirWay(s)'
    BY <1>1 DEF broadcastVars, subVars, taskVars, history, BroadcastInv, Queued, Ordered, OnTheirWay, AwakeAt, Asleep, Awake
  <2> QED
    BY <2>1, <2>2, <2>3 DEF BroadcastInv
<1>2. CASE BroadcastNext
  <2>1. PICK nobody : nobody \notin Tasks
    BY NoSetContainsEverything
  <2>2. QuietActions(nobody) => BroadcastInv'
    BY QuietActionsStep
  <2>3. \A p \in Tasks : QuietActions(p) => BroadcastInv'
    BY QuietActionsStep
  <2> QED
    BY <1>2, <2>1, <2>2, <2>3, OwnFacts, ReceiveLaggedStep, ReceiveRunsStep, WaitResumesStep, EnqueueStep
       DEF BroadcastNext, QuietActions, Tasks
<1> QED
  BY <1>1, <1>2

(***************************************************************************)
(* Each subscriber gets the messages in order or learns how many it        *)
(* missed, and does not sleep beside one, unless a signal went to a        *)
(* receiver that had aborted or a falsy message was dropped.  For any      *)
(* subscribers, senders and receivers, any capacities and any aborts       *)
(* (broadcast.ts).                                                         *)
(***************************************************************************)
THEOREM BroadcastReachesAll == BroadcastSpec => []SubscribersGetAll
<1>1. BroadcastInv => SubscribersGetAll
  <2> SUFFICES ASSUME BroadcastInv PROVE SubscribersGetAll
    OBVIOUS
  <2>1. NoMessageUncounted
    <3> SUFFICES ASSUME NEW s \in Subs
                 PROVE  /\ enqueued[s] = accounted[s] + Len(messages[s]) + lagCount[s]
                        /\ \A i \in DOMAIN messages[s] :
                            messages[s][i][1] > IF i = 1 THEN latest[s] ELSE messages[s][i - 1][1]
      BY DEF NoMessageUncounted
    <3>1. Queued(s) /\ messages[s] \in Queues /\ latest[s] \in Nat
      BY DEF BroadcastInv, BroadcastTypes
    <3>2. DOMAIN messages[s] = 1..Len(messages[s]) /\ Len(messages[s]) \in Nat
      BY <3>1, LenProperties DEF Queues
    <3>3. \A i \in 1..Len(messages[s]) : messages[s][i] \in Nat \X Values
      BY <3>1, ElementOfSeq DEF Queues
    <3>4. \A i \in 1..Len(messages[s]) : messages[s][i][1] \in Nat
      BY <3>3
    <3>5. ASSUME NEW i \in 1..Len(messages[s])
          PROVE  messages[s][i][1] > IF i = 1 THEN latest[s] ELSE messages[s][i - 1][1]
      <4>1. CASE i = 1
        BY <3>1, <3>4, <4>1 DEF Queued, Ordered
      <4>2. CASE i # 1
        <5>1. i - 1 \in 1..Len(messages[s]) /\ i - 1 < i
          BY <3>2, <4>2
        <5> QED
          BY <3>1, <3>4, <4>2, <5>1 DEF Queued, Ordered
      <4> QED
        BY <4>1, <4>2
    <3> QED
      BY <3>1, <3>2, <3>5 DEF Queued
  <2>2. NobodySleepsBesideAMessage
    <3> SUFFICES ASSUME NEW s \in Subs, messages[s] # <<>>,
                        NEW r \in Receivers, at[r] = "sleeping", target[r] = s,
                        ~lost[s], ~dropped[s]
                 PROVE  \E q \in Receivers : target[q] = s /\ at[q] \in {"woken", "relocking", "again"}
      BY DEF NobodySleepsBesideAMessage
    <3>1. Asleep(s)
      BY DEF BroadcastInv, Placed, Asleep
    <3>2. Len(messages[s]) <= Cardinality(AwakeAt(s)) /\ IsFiniteSet(AwakeAt(s))
      BY <3>1 DEF BroadcastInv, OnTheirWay
    <3>3. Len(messages[s]) \in Nat /\ Len(messages[s]) # 0
      BY EmptySeq, LenProperties DEF BroadcastInv, BroadcastTypes, Queues
    <3>4. AwakeAt(s) # {}
      BY <3>2, <3>3, FS_EmptySet
    <3> QED
      BY <3>4 DEF BroadcastInv, Placed, AwakeAt, Awake
  <2> QED
    BY <2>1, <2>2 DEF SubscribersGetAll
<1> QED
  BY <1>1, BroadcastStarts, BroadcastKept, PTL DEF BroadcastSpec
=============================================================================
