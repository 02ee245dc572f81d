--------------------------- MODULE EcmaArrayProofs ---------------------------
(***************************************************************************)
(* What removeSafe does to an array and internalSplice to a linked list,   *)
(* for every array and list, and how the size of a set of tasks changes    *)
(* when one task acts: the facts the other proofs rest on.                 *)
(***************************************************************************)
EXTENDS EcmaArray, LinkedList, SequenceTheorems, FiniteSetTheorems, TLAPS

\* The item e is in the array.
On(s, e) == \E i \in 1..Len(s) : s[i] = e

\* Wherever a and b are both in the array, a comes first.
Before(s, a, b) == \A i, j \in 1..Len(s) : s[i] = a /\ s[j] = b => i < j

-----------------------------------------------------------------------------
(***************************************************************************)
(* removeSafe leaves the array alone or closes the gap that one occurrence *)
(* leaves (remove-safe.ts).                                                *)
(***************************************************************************)
LEMMA RemoveSafeShape ==
    ASSUME NEW S, NEW s \in Seq(S), NEW e
    PROVE  \/ /\ RemoveSafe(s, e) = s
              /\ \A i \in 1..Len(s) : s[i] # e
           \/ \E i \in 1..Len(s) :
                /\ s[i] = e
                /\ RemoveSafe(s, e) \in Seq(S)
                /\ Len(RemoveSafe(s, e)) = Len(s) - 1
                /\ \A j \in 1..Len(s) - 1 :
                      RemoveSafe(s, e)[j] = IF j < i THEN s[j] ELSE s[j + 1]
<1>1. CASE \A i \in 1..Len(s) : s[i] # e
  BY <1>1 DEF RemoveSafe, Contains
<1>2. CASE \E i \in 1..Len(s) : s[i] = e
  <2> DEFINE i == CHOOSE i \in 1..Len(s) : s[i] = e
  <2>1. i \in 1..Len(s) /\ s[i] = e
    BY <1>2
  <2>2. RemoveSafe(s, e) = SubSeq(s, 1, i - 1) \o SubSeq(s, i + 1, Len(s))
    BY <1>2 DEF RemoveSafe, Contains, RemoveAt
  <2> HIDE DEF i
  <2>3. /\ SubSeq(s, 1, i - 1) \in Seq(S)
        /\ Len(SubSeq(s, 1, i - 1)) = i - 1
        /\ \A j \in 1..i - 1 : SubSeq(s, 1, i - 1)[j] = s[j]
    BY <2>1, SubSeqProperties
  <2>4. /\ SubSeq(s, i + 1, Len(s)) \in Seq(S)
        /\ Len(SubSeq(s, i + 1, Len(s))) = Len(s) - i
        /\ \A j \in 1..Len(s) - i :
              SubSeq(s, i + 1, Len(s))[j] = s[i + j]
    BY <2>1, SubSeqProperties
  <2>5. /\ RemoveSafe(s, e) \in Seq(S)
        /\ Len(RemoveSafe(s, e)) = Len(s) - 1
        /\ \A j \in 1..Len(s) - 1 :
              RemoveSafe(s, e)[j] = IF j < i THEN s[j] ELSE s[j + 1]
    <3> DEFINE l == SubSeq(s, 1, i - 1)
               r == SubSeq(s, i + 1, Len(s))
    <3>1. /\ l \o r \in Seq(S)
          /\ Len(l \o r) = Len(l) + Len(r)
          /\ \A k \in 1..Len(l) + Len(r) :
                (l \o r)[k] = IF k <= Len(l) THEN l[k] ELSE r[k - Len(l)]
      BY <2>3, <2>4, ConcatProperties
    <3> HIDE DEF l, r
    <3>2. Len(l) = i - 1 /\ \A j \in 1..i - 1 : l[j] = s[j]
      BY <2>3 DEF l
    <3>3. Len(r) = Len(s) - i /\ \A j \in 1..Len(s) - i : r[j] = s[i + j]
      BY <2>4 DEF r
    <3>4. RemoveSafe(s, e) = l \o r
      BY <2>2 DEF l, r
    <3>5. ASSUME NEW j \in 1..Len(s) - 1
          PROVE  (l \o r)[j] = IF j < i THEN s[j] ELSE s[j + 1]
      <4>1. CASE j < i
        BY <2>1, <3>1, <3>2, <3>3, <4>1
      <4>2. CASE ~(j < i)
        <5>1. (l \o r)[j] = r[j - (i - 1)] /\ j - (i - 1) \in 1..Len(s) - i
          BY <2>1, <3>1, <3>2, <3>3, <4>2
        <5>2. i + (j - (i - 1)) = j + 1
          BY <2>1
        <5> QED
          BY <3>3, <4>2, <5>1, <5>2
      <4> QED
        BY <4>1, <4>2
    <3>6. (i - 1) + (Len(s) - i) = Len(s) - 1
      BY <2>1, LenProperties
    <3>7. Len(RemoveSafe(s, e)) = Len(s) - 1
      BY <3>1, <3>2, <3>3, <3>4, <3>6, Zenon
    <3> QED
      BY <3>1, <3>4, <3>5, <3>7, Zenon
  <2> QED
    BY <2>1, <2>5
<1> QED
  BY <1>1, <1>2

(***************************************************************************)
(* Of an array without duplicates, removeSafe keeps every other item and   *)
(* the order of the items, and leaves no occurrence of the one removed     *)
(* (remove-safe.ts).                                                       *)
(***************************************************************************)
LEMMA RemoveSafeKeepsOrder ==
    ASSUME NEW S, NEW s \in Seq(S), NEW e, NEW r,
           r = RemoveSafe(s, e),
           \A i, j \in 1..Len(s) : s[i] = s[j] => i = j
    PROVE  /\ r \in Seq(S)
           /\ \A i \in 1..Len(r) : r[i] # e
           /\ \A i \in 1..Len(s) :
                 s[i] # e => \E j \in 1..Len(r) : r[j] = s[i]
           /\ \A i \in 1..Len(r) : \E j \in 1..Len(s) : s[j] = r[i]
           /\ \A i, j \in 1..Len(r) :
                 i < j => \E k, l \in 1..Len(s) :
                             k < l /\ s[k] = r[i] /\ s[l] = r[j]
<1>0. Len(s) \in Nat
  BY LenProperties
<1>1. CASE /\ r = s
           /\ \A i \in 1..Len(s) : s[i] # e
  BY <1>0, <1>1
<1>2. ASSUME NEW k \in 1..Len(s),
             s[k] = e,
             r \in Seq(S),
             Len(r) = Len(s) - 1,
             \A j \in 1..Len(s) - 1 :
                r[j] = IF j < k THEN s[j] ELSE s[j + 1]
      PROVE  /\ \A i \in 1..Len(r) : r[i] # e
             /\ \A i \in 1..Len(s) :
                   s[i] # e => \E j \in 1..Len(r) : r[j] = s[i]
             /\ \A i \in 1..Len(r) : \E j \in 1..Len(s) : s[j] = r[i]
             /\ \A i, j \in 1..Len(r) :
                   i < j => \E m, l \in 1..Len(s) :
                               m < l /\ s[m] = r[i] /\ s[l] = r[j]
  <2> DEFINE old(j) == IF j < k THEN j ELSE j + 1
  <2>1. ASSUME NEW j \in 1..Len(r)
        PROVE  old(j) \in 1..Len(s) /\ old(j) # k /\ r[j] = s[old(j)]
    BY <1>0, <1>2
  <2>2. \A i, j \in 1..Len(r) : i < j => old(i) < old(j)
    BY <1>0, <1>2
  <2>3. ASSUME NEW i \in 1..Len(s), i # k
        PROVE  \E j \in 1..Len(r) : r[j] = s[i]
    <3>1. CASE i < k
      <4>1. i \in 1..Len(r) /\ old(i) = i
        BY <1>0, <1>2, <3>1
      <4> QED
        BY <2>1, <4>1
    <3>2. CASE i > k
      <4>1. i - 1 \in 1..Len(r) /\ old(i - 1) = i
        BY <1>0, <1>2, <3>2
      <4> QED
        BY <2>1, <4>1
    <3> QED
      BY <1>0, <2>3, <3>1, <3>2
  <2> HIDE DEF old
  <2>4. \A i \in 1..Len(r) : r[i] # e
    BY <1>2, <2>1
  <2>5. \A i \in 1..Len(s) :
           s[i] # e => \E j \in 1..Len(r) : r[j] = s[i]
    BY <1>2, <2>3
  <2>6. \A i \in 1..Len(r) : \E j \in 1..Len(s) : s[j] = r[i]
    BY <2>1
  <2>7. \A i, j \in 1..Len(r) :
           i < j => \E m, l \in 1..Len(s) :
                       m < l /\ s[m] = r[i] /\ s[l] = r[j]
    BY <2>1, <2>2
  <2> QED
    BY <2>4, <2>5, <2>6, <2>7
<1> DEFINE Unchanged == /\ RemoveSafe(s, e) = s
                          /\ \A i \in 1..Len(s) : s[i] # e
             Closed(k) == /\ s[k] = e
                          /\ RemoveSafe(s, e) \in Seq(S)
                          /\ Len(RemoveSafe(s, e)) = Len(s) - 1
                          /\ \A j \in 1..Len(s) - 1 :
                                RemoveSafe(s, e)[j] =
                                  IF j < k THEN s[j] ELSE s[j + 1]
             Goal == /\ r \in Seq(S)
                     /\ \A i \in 1..Len(r) : r[i] # e
                     /\ \A i \in 1..Len(s) :
                           s[i] # e => \E j \in 1..Len(r) : r[j] = s[i]
                     /\ \A i \in 1..Len(r) :
                           \E j \in 1..Len(s) : s[j] = r[i]
                     /\ \A i, j \in 1..Len(r) :
                           i < j => \E k, l \in 1..Len(s) :
                                       k < l /\ s[k] = r[i] /\ s[l] = r[j]
<1>3. Unchanged \/ \E k \in 1..Len(s) : Closed(k)
  BY RemoveSafeShape
<1>4. Unchanged => Goal
  BY <1>1
<1>5. ASSUME NEW k \in 1..Len(s), Closed(k)
      PROVE  Goal
  BY <1>2, <1>5
<1> HIDE DEF Unchanged, Closed
<1>6. Goal
  BY <1>3, <1>4, <1>5
<1> QED
  BY <1>6

(***************************************************************************)
(* What removeSafe keeps of an array without duplicates (remove-safe.ts).  *)
(***************************************************************************)
LEMMA RemoveSafeFacts ==
    ASSUME NEW S, NEW s \in Seq(S), NEW e, Distinct(s)
    PROVE  /\ RemoveSafe(s, e) \in Seq(S)
           /\ Distinct(RemoveSafe(s, e))
           /\ \A q : On(RemoveSafe(s, e), q) <=> On(s, q) /\ q # e
           /\ \A a, b : Before(s, a, b) => Before(RemoveSafe(s, e), a, b)
<1> DEFINE r == RemoveSafe(s, e)
<1>1. /\ r \in Seq(S)
      /\ \A i \in 1..Len(r) : r[i] # e
      /\ \A i \in 1..Len(s) :
            s[i] # e => \E j \in 1..Len(r) : r[j] = s[i]
      /\ \A i \in 1..Len(r) : \E j \in 1..Len(s) : s[j] = r[i]
      /\ \A i, j \in 1..Len(r) :
            i < j => \E k, l \in 1..Len(s) :
                        k < l /\ s[k] = r[i] /\ s[l] = r[j]
  BY RemoveSafeKeepsOrder DEF Distinct
<1> HIDE DEF r
<1>2. Len(r) \in Nat /\ Len(s) \in Nat
  BY <1>1, LenProperties
<1>3. Distinct(r)
  <2> SUFFICES ASSUME NEW i \in 1..Len(r), NEW j \in 1..Len(r),
                      r[i] = r[j], i < j
               PROVE  FALSE
    BY <1>2 DEF Distinct
  <2> PICK k \in 1..Len(s), l \in 1..Len(s) :
             k < l /\ s[k] = r[i] /\ s[l] = r[j]
    BY <1>1
  <2> QED
    BY <1>2 DEF Distinct
<1>4. \A q : On(r, q) <=> On(s, q) /\ q # e
  <2>1. ASSUME NEW q, On(r, q)
        PROVE  On(s, q) /\ q # e
    <3> PICK i \in 1..Len(r) : r[i] = q
      BY <2>1 DEF On
    <3> QED
      BY <1>1 DEF On
  <2>2. ASSUME NEW q, On(s, q), q # e
        PROVE  On(r, q)
    <3> PICK i \in 1..Len(s) : s[i] = q
      BY <2>2 DEF On
    <3> QED
      BY <1>1, <2>2 DEF On
  <2> QED
    BY <2>1, <2>2
<1>5. ASSUME NEW a, NEW b, Before(s, a, b)
      PROVE  Before(r, a, b)
  <2> SUFFICES ASSUME NEW i \in 1..Len(r), NEW j \in 1..Len(r),
                      r[i] = a, r[j] = b, ~(i < j)
               PROVE  FALSE
    BY DEF Before
  <2>1. CASE i = j
    <3> PICK k \in 1..Len(s) : s[k] = r[i]
      BY <1>1
    <3> QED
      BY <1>2, <1>5, <2>1 DEF Before
  <2>2. CASE j < i
    <3> PICK k \in 1..Len(s), l \in 1..Len(s) :
               k < l /\ s[k] = r[j] /\ s[l] = r[i]
      BY <1>1, <2>2
    <3> QED
      BY <1>2, <1>5 DEF Before
  <2> QED
    BY <1>2, <2>1, <2>2
<1> QED
  BY <1>1, <1>3, <1>4, <1>5 DEF r

(***************************************************************************)
(* push() of an item that is not in the array: it comes after all others.  *)
(***************************************************************************)
LEMMA PushFacts ==
    ASSUME NEW S, NEW s \in Seq(S), NEW e \in S, Distinct(s), ~On(s, e)
    PROVE  /\ Append(s, e) \in Seq(S)
           /\ Distinct(Append(s, e))
           /\ \A q : On(Append(s, e), q) <=> On(s, q) \/ q = e
           /\ \A q : q # e => Before(Append(s, e), q, e)
           /\ \A a, b : Before(s, a, b) /\ a # e => Before(Append(s, e), a, b)
<1> DEFINE r == Append(s, e)
<1>1. /\ r \in Seq(S)
      /\ Len(r) = Len(s) + 1
      /\ \A i \in 1..Len(s) : r[i] = s[i]
      /\ r[Len(s) + 1] = e
      /\ Len(s) \in Nat
  BY AppendProperties, LenProperties
<1> HIDE DEF r
<1>2. \A i \in 1..Len(r) :
         \/ i \in 1..Len(s) /\ r[i] = s[i] /\ r[i] # e
         \/ i = Len(s) + 1 /\ r[i] = e
  BY <1>1 DEF On
<1>3. Distinct(r)
  BY <1>1, <1>2 DEF Distinct
<1>4. \A q : On(r, q) <=> On(s, q) \/ q = e
  <2>1. \A q : On(r, q) => On(s, q) \/ q = e
    BY <1>2 DEF On
  <2>2. \A i \in 1..Len(s) : i \in 1..Len(r)
    BY <1>1
  <2>3. \A q : On(s, q) => On(r, q)
    BY <1>1, <2>2 DEF On
  <2>4. On(r, e)
    BY <1>1 DEF On
  <2> QED
    BY <2>1, <2>3, <2>4
<1>5. \A q : q # e => Before(r, q, e)
  BY <1>1, <1>2 DEF Before
<1>6. \A a, b : Before(s, a, b) /\ a # e => Before(r, a, b)
  BY <1>1, <1>2 DEF Before
<1> QED
  BY <1>1, <1>3, <1>4, <1>5, <1>6 DEF r

(***************************************************************************)
(* shift() of an array without duplicates: the head is what comes before   *)
(* all others, and the rest keep their order.                              *)
(***************************************************************************)
LEMMA ShiftFacts ==
    ASSUME NEW S, NEW s \in Seq(S), s # <<>>, Distinct(s)
    PROVE  /\ Head(s) \in S
           /\ On(s, Head(s))
           /\ Tail(s) \in Seq(S)
           /\ Distinct(Tail(s))
           /\ \A q : On(Tail(s), q) <=> On(s, q) /\ q # Head(s)
           /\ \A a, b : Before(s, a, b) => Before(Tail(s), a, b)
           /\ \A q : On(s, q) => ~Before(s, q, Head(s))
<1> DEFINE r == Tail(s)
           h == Head(s)
<1>1. /\ h \in S
      /\ h = s[1]
      /\ r \in Seq(S)
      /\ Len(r) = Len(s) - 1
      /\ \A i \in 1..Len(r) : r[i] = s[i + 1]
      /\ Len(s) \in Nat
      /\ Len(s) > 0
  BY HeadTailProperties, LenProperties, EmptySeq
<1> HIDE DEF r, h
<1>2. \A i \in 1..Len(r) : i + 1 \in 1..Len(s) /\ r[i] = s[i + 1]
  BY <1>1
<1>3. \A i \in 1..Len(s) : i # 1 => i - 1 \in 1..Len(r) /\ r[i - 1] = s[i]
  BY <1>1
<1>4. 1 \in 1..Len(s)
  BY <1>1
<1>5. Distinct(r)
  BY <1>1, <1>2 DEF Distinct
<1>6. \A q : On(r, q) <=> On(s, q) /\ q # h
  <2>1. \A q : On(r, q) => On(s, q) /\ q # h
    BY <1>1, <1>2, <1>4 DEF On, Distinct
  <2>2. \A q : On(s, q) /\ q # h => On(r, q)
    BY <1>1, <1>3 DEF On
  <2> QED
    BY <2>1, <2>2
<1>7. \A a, b : Before(s, a, b) => Before(r, a, b)
  BY <1>1, <1>2 DEF Before
<1>8. \A q : On(s, q) => ~Before(s, q, h)
  BY <1>1, <1>4 DEF On, Before
<1>9. On(s, h)
  BY <1>1, <1>4 DEF On
<1> QED
  BY <1>1, <1>5, <1>6, <1>7, <1>8, <1>9 DEF r, h

(***************************************************************************)
(* splice(0, n) of an array without duplicates: what is taken comes before *)
(* what is left, and both keep their order.                                *)
(***************************************************************************)
LEMMA SplitFacts ==
    ASSUME NEW S, NEW s \in Seq(S), Distinct(s), NEW n \in 0..Len(s)
    PROVE  /\ SubSeq(s, 1, n) \in Seq(S) /\ Len(SubSeq(s, 1, n)) = n
           /\ SubSeq(s, n + 1, Len(s)) \in Seq(S)
           /\ Distinct(SubSeq(s, n + 1, Len(s)))
           /\ \A q : On(s, q) <=> \/ On(SubSeq(s, 1, n), q)
                                 \/ On(SubSeq(s, n + 1, Len(s)), q)
           /\ \A q : ~(On(SubSeq(s, 1, n), q) /\ On(SubSeq(s, n + 1, Len(s)), q))
           /\ \A a, b : Before(s, a, b) => Before(SubSeq(s, n + 1, Len(s)), a, b)
           /\ \A a, b : Before(s, a, b) /\ On(s, a) /\ On(SubSeq(s, 1, n), b)
                         => On(SubSeq(s, 1, n), a)
<1> DEFINE taken == SubSeq(s, 1, n)
           rest == SubSeq(s, n + 1, Len(s))
<1>1. /\ taken \in Seq(S) /\ Len(taken) = n /\ n \in Nat
      /\ \A i \in 1..n : taken[i] = s[i]
      /\ rest \in Seq(S) /\ Len(rest) = Len(s) - n
      /\ \A i \in 1..Len(rest) : rest[i] = s[i + n]
      /\ Len(s) \in Nat /\ n <= Len(s)
  OBVIOUS
<1> HIDE DEF taken, rest
<1>2. Distinct(rest)
  BY <1>1 DEF Distinct
<1>3. \A q : On(taken, q) <=> \E i \in 1..n : s[i] = q
  BY <1>1 DEF On
<1>4. \A q : On(rest, q) <=> \E i \in n + 1..Len(s) : s[i] = q
  <2>1. ASSUME NEW q, NEW i \in n + 1..Len(s), s[i] = q
        PROVE  On(rest, q)
    <3>1. i - n \in 1..Len(rest)
      BY <1>1
    <3>2. rest[i - n] = s[(i - n) + n] /\ (i - n) + n = i
      BY <1>1, <3>1
    <3> QED
      BY <2>1, <3>1, <3>2 DEF On
  <2>2. ASSUME NEW q, On(rest, q)
        PROVE  \E i \in n + 1..Len(s) : s[i] = q
    <3> PICK j \in 1..Len(rest) : rest[j] = q
      BY <2>2 DEF On
    <3>1. j + n \in n + 1..Len(s) /\ s[j + n] = q
      BY <1>1
    <3> QED
      BY <3>1
  <2> QED
    BY <2>1, <2>2
<1>5. \A q : On(s, q) <=> On(taken, q) \/ On(rest, q)
  <2>1. \A i \in 1..Len(s) : i \in 1..n \/ i \in n + 1..Len(s)
    BY <1>1
  <2>2. \A q : On(s, q) => On(taken, q) \/ On(rest, q)
    BY <1>3, <1>4, <2>1 DEF On
  <2>3. /\ \A i \in 1..n : i \in 1..Len(s)
        /\ \A i \in n + 1..Len(s) : i \in 1..Len(s)
    BY <1>1
  <2>4. \A q : On(taken, q) \/ On(rest, q) => On(s, q)
    BY <1>3, <1>4, <2>3 DEF On
  <2> QED
    BY <2>2, <2>4
<1>6. \A q : ~(On(taken, q) /\ On(rest, q))
  BY <1>1, <1>3, <1>4 DEF Distinct
<1>7. \A a, b : Before(s, a, b) => Before(rest, a, b)
  <2> SUFFICES ASSUME NEW a, NEW b, Before(s, a, b),
                      NEW i \in 1..Len(rest), NEW j \in 1..Len(rest),
                      rest[i] = a, rest[j] = b
               PROVE  i < j
    BY DEF Before
  <2>1. i + n \in 1..Len(s) /\ j + n \in 1..Len(s)
    BY <1>1
  <2>2. s[i + n] = a /\ s[j + n] = b
    BY <1>1
  <2>3. i + n < j + n
    BY <2>1, <2>2 DEF Before
  <2> QED
    BY <1>1, <2>3
<1>8. \A a, b : Before(s, a, b) /\ On(s, a) /\ On(taken, b) => On(taken, a)
  <2> SUFFICES ASSUME NEW a, NEW b, Before(s, a, b),
                      NEW i \in 1..Len(s), s[i] = a,
                      NEW j \in 1..n, s[j] = b
               PROVE  On(taken, a)
    BY <1>3 DEF On
  <2>1. i < j
    BY <1>1 DEF Before
  <2> QED
    BY <1>1, <1>3, <2>1
<1> QED
  BY <1>1, <1>2, <1>5, <1>6, <1>7, <1>8 DEF taken, rest

(***************************************************************************)
(* The items of an array.                                                  *)
(***************************************************************************)
LEMMA ItemsFacts ==
    ASSUME NEW S, NEW s \in Seq(S)
    PROVE  \A q : q \in ToSet(s) <=> On(s, q)
BY DEF ToSet, On

\* Contains, of the community modules, is membership of the list.
LEMMA ContainsIsOn == \A s, q : Contains(s, q) <=> On(s, q)
BY DEF Contains, On

-----------------------------------------------------------------------------
(***************************************************************************)
(* A count when one task alone may have entered or left what is counted.   *)
(***************************************************************************)
LEMMA Recount ==
    ASSUME NEW S, IsFiniteSet(S), NEW T, NEW p, T \ {p} = S \ {p}
    PROVE  /\ IsFiniteSet(T)
           /\ Cardinality(S) \in Nat /\ Cardinality(T) \in Nat
           /\ p \in S /\ p \in T => Cardinality(T) = Cardinality(S)
           /\ p \notin S /\ p \notin T => Cardinality(T) = Cardinality(S)
           /\ p \in S /\ p \notin T => Cardinality(T) = Cardinality(S) - 1
           /\ p \notin S /\ p \in T => Cardinality(T) = Cardinality(S) + 1
<1>1. /\ IsFiniteSet(S \ {p})
      /\ Cardinality(S \ {p}) = IF p \in S THEN Cardinality(S) - 1 ELSE Cardinality(S)
  BY FS_RemoveElement
<1>2. CASE p \in T
  <2>1. T = (S \ {p}) \cup {p}
    BY <1>2
  <2>2. /\ IsFiniteSet(T)
        /\ Cardinality(T) = Cardinality(S \ {p}) + 1
    BY <1>1, <2>1, FS_AddElement
  <2> QED
    BY <1>1, <1>2, <2>2, FS_CardinalityType
<1>3. CASE p \notin T
  <2>1. T = S \ {p}
    BY <1>3
  <2> QED
    BY <1>1, <1>3, <2>1, FS_CardinalityType
<1> QED
  BY <1>2, <1>3

-----------------------------------------------------------------------------
(***************************************************************************)
(* The lists of data/linked-list.ts, a chain and a count.                  *)
(***************************************************************************)
\* The arrays have no item in common.
Apart(s, t) == \A x : ~(On(s, x) /\ On(t, x))

LEMMA PartsAdd ==
    ASSUME NEW i \in Nat, NEW m \in Nat, NEW n \in Nat
    PROVE  (i + m) + (n - i) = n + m
OBVIOUS

LEMMA ConcatKeeps ==
    ASSUME NEW S, NEW s \in Seq(S), NEW t \in Seq(S)
    PROVE  /\ s \o t \in Seq(S) /\ Len(s \o t) = Len(s) + Len(t)
           /\ \A i \in 1..Len(s) : (s \o t)[i] = s[i]
           /\ \A i \in 1..Len(s) + Len(t) : i > Len(s) => (s \o t)[i] = t[i - Len(s)]
           /\ \A x : On(s \o t, x) <=> On(s, x) \/ On(t, x)
           /\ Distinct(s) /\ Distinct(t) /\ Apart(s, t) => Distinct(s \o t)
<1> DEFINE r == s \o t
<1>1. /\ r \in Seq(S) /\ Len(r) = Len(s) + Len(t)
      /\ \A i \in 1..Len(r) : r[i] = IF i <= Len(s) THEN s[i] ELSE t[i - Len(s)]
      /\ Len(s) \in Nat /\ Len(t) \in Nat
  BY LenProperties
<1> HIDE DEF r
<1>2. \A i \in 1..Len(s) : i \in 1..Len(r) /\ r[i] = s[i]
  BY <1>1
<1>3. \A i \in 1..Len(s) + Len(t) : i > Len(s) => i - Len(s) \in 1..Len(t) /\ r[i] = t[i - Len(s)]
  BY <1>1
<1>4. \A x : On(r, x) <=> On(s, x) \/ On(t, x)
  <2>1. ASSUME NEW x, On(r, x) PROVE On(s, x) \/ On(t, x)
    <3>1. PICK i \in 1..Len(r) : r[i] = x
      BY <2>1 DEF On
    <3>2. CASE i <= Len(s)
      BY <1>1, <3>1, <3>2 DEF On
    <3>3. CASE i > Len(s)
      BY <1>1, <1>3, <3>1, <3>3 DEF On
    <3> QED
      BY <1>1, <3>2, <3>3
  <2>2. ASSUME NEW x, On(s, x) PROVE On(r, x)
    BY <1>2, <2>2 DEF On
  <2>3. ASSUME NEW x, On(t, x) PROVE On(r, x)
    <3>1. PICK i \in 1..Len(t) : t[i] = x
      BY <2>3 DEF On
    <3>2. /\ i + Len(s) \in 1..Len(r) /\ i + Len(s) > Len(s) /\ (i + Len(s)) - Len(s) = i
      BY <1>1, <3>1
    <3>3. r[i + Len(s)] = t[i]
      BY <1>1, <1>3, <3>2
    <3> QED
      BY <3>1, <3>2, <3>3 DEF On
  <2> QED
    BY <2>1, <2>2, <2>3
<1>5. ASSUME Distinct(s), Distinct(t), Apart(s, t) PROVE Distinct(r)
  <2> SUFFICES ASSUME NEW i \in 1..Len(r), NEW j \in 1..Len(r), r[i] = r[j] PROVE i = j
    BY DEF Distinct
  <2>1. CASE i <= Len(s) /\ j <= Len(s)
    BY <1>1, <1>5, <2>1 DEF Distinct
  <2>2. CASE i > Len(s) /\ j > Len(s)
    <3>1. /\ i - Len(s) \in 1..Len(t) /\ j - Len(s) \in 1..Len(t)
          /\ t[i - Len(s)] = t[j - Len(s)]
      BY <1>1, <1>3, <2>2
    <3>2. i - Len(s) = j - Len(s)
      BY <1>5, <3>1 DEF Distinct
    <3> QED
      BY <1>1, <3>2
  <2>3. ASSUME NEW a \in 1..Len(r), NEW b \in 1..Len(r), a <= Len(s), b > Len(s), r[a] = r[b]
        PROVE  FALSE
    <3>1. a \in 1..Len(s) /\ r[a] = s[a]
      BY <1>1, <2>3
    <3>2. b - Len(s) \in 1..Len(t) /\ r[b] = t[b - Len(s)]
      BY <1>1, <1>3, <2>3
    <3>3. On(s, r[a]) /\ On(t, r[a])
      BY <2>3, <3>1, <3>2 DEF On
    <3> QED
      BY <1>5, <3>3 DEF Apart
  <2>4. ~(i <= Len(s) /\ j > Len(s)) /\ ~(j <= Len(s) /\ i > Len(s))
    BY <2>3
  <2>5. (i <= Len(s) \/ i > Len(s)) /\ (j <= Len(s) \/ j > Len(s))
    BY <1>1
  <2> QED
    BY <2>1, <2>2, <2>4, <2>5
<1> QED
  BY <1>1, <1>2, <1>3, <1>4, <1>5 DEF r

\* r is the list l with the items put in at the index, valid or not: none is twice
\* in the chain, and none is missing if the index is one that a sound list has;
\* behind the end, the items come last.
ItemsPut(S, l, index, items, r) ==
    /\ r.chain \in Seq(S) /\ Distinct(r.chain)
    /\ r.size = l.size + Len(items)
    /\ Len(r.chain) <= Len(l.chain) + Len(items)
    /\ \A x : On(r.chain, x) => On(l.chain, x) \/ On(items, x)
    /\ WellFormed(l) /\ (index <= l.size \/ l.chain = <<>>)
         => /\ Len(r.chain) = Len(l.chain) + Len(items)
            /\ \A x : On(l.chain, x) \/ On(items, x) => On(r.chain, x)
    /\ index >= l.size => r.chain = l.chain \o items \/ r.chain = items

(***************************************************************************)
(* What internalSplice(index, 0, items) makes of a list                    *)
(* (linked-list.ts:245).                                                   *)
(***************************************************************************)
LEMMA InsertedFacts ==
    ASSUME NEW S, NEW l, l.chain \in Seq(S), Distinct(l.chain), l.size \in Nat,
           Len(l.chain) <= l.size,
           NEW items \in Seq(S), Distinct(items), Apart(l.chain, items),
           NEW index \in Nat
    PROVE  ItemsPut(S, l, index, items, InternalSplice(l, index, 0, items))
<1> DEFINE r == InternalSplice(l, index, 0, items)
<1> DEFINE c == l.chain
           first == NodesBefore(l, index)
           rest == NodesFrom(l, index)
<1>1. Len(c) \in Nat /\ Len(items) \in Nat
  BY LenProperties
<1>2. \/ /\ index = l.size
         /\ first = c /\ rest = <<>>
      \/ /\ index # l.size /\ index < Len(c)
         /\ first = SubSeq(c, 1, index) /\ rest = SubSeq(c, index + 1, Len(c))
      \/ /\ index # l.size /\ ~(index < Len(c))
         /\ first = <<>> /\ rest = <<>>
  BY DEF NodesBefore, NodesFrom
<1>3. rest \in Seq(S) /\ Len(rest) \in Nat /\ SubSeq(rest, 1, Len(rest)) = rest
  <2>1. rest \in Seq(S)
    <3>1. CASE index # l.size /\ index < Len(c)
      <4>1. rest = SubSeq(c, index + 1, Len(c))
        BY <3>1 DEF NodesFrom
      <4> HIDE DEF rest
      <4> QED
        BY <1>1, <3>1, <4>1, SubSeqProperties
    <3>2. CASE ~(index # l.size /\ index < Len(c))
      <4>1. rest = <<>>
        BY <3>2 DEF NodesFrom
      <4> QED
        BY <4>1
    <3> QED
      BY <3>1, <3>2
  <2> HIDE DEF rest
  <2> QED
    BY <2>1, LenProperties
<1>4. /\ r.chain = first \o items \o rest
      /\ r.size = l.size + Len(items)
  <2>1. Deleted(l, index, 0) = 0
    <3> HIDE DEF rest
    <3>1. Deleted(l, index, 0) = IF 0 < Len(rest) THEN 0 ELSE Len(rest)
      BY DEF Deleted, rest
    <3> QED
      BY <1>3, <3>1
  <2>2. /\ r.chain = first \o items \o SubSeq(rest, 0 + 1, Len(rest))
        /\ r.size = l.size - 0 + Len(items)
    BY <2>1 DEF InternalSplice
  <2>3. 0 + 1 = 1 /\ l.size - 0 + Len(items) = l.size + Len(items)
    BY <1>1
  <2> HIDE DEF first, rest
  <2> QED
    BY <1>3, <2>2, <2>3, Zenon
<1> HIDE DEF first, rest, r
<1> SUFFICES ItemsPut(S, l, index, items, r)
  BY DEF r
<1> USE DEF ItemsPut
<1>5. CASE index = l.size
  <2>1. r.chain = c \o items
    <3>1. first = c /\ rest = <<>>
      BY <1>2, <1>5
    <3>2. (c \o items) \o <<>> = c \o items
      BY ConcatKeeps
    <3> QED
      BY <1>4, <3>1, <3>2, Zenon
  <2>2. /\ c \o items \in Seq(S) /\ Len(c \o items) = Len(c) + Len(items)
        /\ Distinct(c \o items)
        /\ \A x : On(c \o items, x) <=> On(c, x) \/ On(items, x)
    BY ConcatKeeps
  <2>3. Len(r.chain) <= Len(c) + Len(items)
    BY <1>1, <2>1, <2>2
  <2> QED
    BY <1>4, <2>1, <2>2, <2>3, Zenon
<1>6. CASE index # l.size /\ index < Len(c)
  <2>1. /\ first = SubSeq(c, 1, index) /\ rest = SubSeq(c, index + 1, Len(c))
        /\ index \in 0..Len(c)
    BY <1>1, <1>2, <1>6
  <2>2. /\ first \in Seq(S) /\ Len(first) = index /\ rest \in Seq(S) /\ Len(rest) = Len(c) - index
        /\ Distinct(first) /\ Distinct(rest)
        /\ \A x : On(c, x) <=> On(first, x) \/ On(rest, x)
        /\ Apart(first, rest)
    <3>1. /\ first \in Seq(S) /\ Len(first) = index /\ rest \in Seq(S) /\ Distinct(rest)
          /\ \A x : On(c, x) <=> On(first, x) \/ On(rest, x)
          /\ Apart(first, rest)
      BY <2>1, SplitFacts DEF Apart
    <3>2. /\ \A i \in 1..index : first[i] = c[i]
          /\ Len(rest) = Len(c) - index
      <4>1. first = SubSeq(c, 1, index) /\ rest = SubSeq(c, index + 1, Len(c))
        BY <2>1
      <4>2. \A i \in 1..index : SubSeq(c, 1, index)[i] = c[i]
        BY <1>1, <1>6
      <4>3. Len(SubSeq(c, index + 1, Len(c))) = Len(c) - index
        BY <1>1, <1>6
      <4> QED
        BY <4>1, <4>2, <4>3, Zenon
    <3>3. Distinct(first)
      <4> SUFFICES ASSUME NEW i \in 1..index, NEW j \in 1..index, first[i] = first[j]
                   PROVE  i = j
        BY <3>1 DEF Distinct
      <4>1. i \in 1..Len(c) /\ j \in 1..Len(c) /\ c[i] = c[j]
        BY <1>1, <2>1, <3>2
      <4> QED
        BY <4>1 DEF Distinct
    <3> QED
      BY <3>1, <3>2, <3>3
  <2>3. /\ first \o items \in Seq(S) /\ Len(first \o items) = index + Len(items)
        /\ \A x : On(first \o items, x) <=> On(first, x) \/ On(items, x)
        /\ Distinct(first \o items)
    <3>1. Apart(first, items)
      BY <2>2 DEF Apart
    <3>2. first \in Seq(S) /\ Distinct(first) /\ Len(first) = index
      BY <2>2
    <3>3. /\ first \o items \in Seq(S) /\ Len(first \o items) = Len(first) + Len(items)
          /\ \A x : On(first \o items, x) <=> On(first, x) \/ On(items, x)
          /\ Distinct(first \o items)
      BY <3>1, <3>2, ConcatKeeps
    <3> QED
      BY <3>2, <3>3, Zenon
  <2>4. Apart(first \o items, rest)
    BY <2>2, <2>3 DEF Apart
  <2> DEFINE head == first \o items
  <2>5. r.chain = head \o rest
    BY <1>4
  <2>6. head \in Seq(S) /\ Distinct(head) /\ Apart(head, rest) /\ Len(head) = index + Len(items)
    BY <2>3, <2>4
  <2>7. \A x : On(head, x) <=> On(first, x) \/ On(items, x)
    BY <2>3
  <2> HIDE DEF head
  <2>8. /\ head \o rest \in Seq(S) /\ Len(head \o rest) = Len(head) + Len(rest)
        /\ \A x : On(head \o rest, x) <=> On(head, x) \/ On(rest, x)
        /\ Distinct(head \o rest)
    BY <2>2, <2>6, ConcatKeeps
  <2>9. Len(r.chain) = Len(c) + Len(items)
    <3>1. Len(head \o rest) = (index + Len(items)) + (Len(c) - index)
      BY <2>2, <2>6, <2>8
    <3>2. (index + Len(items)) + (Len(c) - index) = Len(c) + Len(items)
      BY <1>1, PartsAdd, Zenon
    <3> QED
      BY <2>5, <3>1, <3>2, Zenon
  <2>10. \A x : On(r.chain, x) <=> On(c, x) \/ On(items, x)
    BY <2>2, <2>5, <2>7, <2>8
  <2>11. ~(index >= l.size)
    BY <1>1, <1>6
  <2> QED
    <3>1. Len(r.chain) <= Len(c) + Len(items)
      BY <1>1, <2>9
    <3> QED
      BY <1>4, <2>5, <2>8, <2>9, <2>10, <2>11, <3>1, Zenon
<1>7. CASE index # l.size /\ ~(index < Len(c))
  <2>1. r.chain = items
    <3>1. first = <<>> /\ rest = <<>>
      BY <1>2, <1>7
    <3>2. (<<>> \o items) \o <<>> = items
      OBVIOUS
    <3> QED
      BY <1>4, <3>1, <3>2, Zenon
  <2>2. WellFormed(l) /\ (index <= l.size \/ c = <<>>) => Len(c) = 0 /\ \A x : ~On(c, x)
    BY <1>1, <1>7 DEF WellFormed, On
  <2> QED
    BY <1>1, <1>4, <2>1, <2>2
<1> QED
  BY <1>5, <1>6, <1>7

\* r is the list l without its node k.
OneLess(S, l, k, r) ==
    /\ r.chain \in Seq(S) /\ Distinct(r.chain)
    /\ r.size = l.size - 1 /\ r.size \in Nat
    /\ Len(r.chain) = Len(l.chain) - 1
    /\ \A x : On(r.chain, x) <=> On(l.chain, x) /\ x # l.chain[k]
    /\ \A i, j \in 1..Len(r.chain) :
          i < j => \E a, b \in 1..Len(l.chain) :
                      a < b /\ l.chain[a] = r.chain[i] /\ l.chain[b] = r.chain[j]

(***************************************************************************)
(* unlinkNode: the item is gone, and the others keep their order           *)
(* (linked-list.ts:322).                                                   *)
(***************************************************************************)
LEMMA RemovedFacts ==
    ASSUME NEW S, NEW l, l.chain \in Seq(S), Distinct(l.chain), l.size \in Nat,
           Len(l.chain) <= l.size, NEW k \in 1..Len(l.chain)
    PROVE  OneLess(S, l, k, RemoveNodeAt(l, k))
<1> DEFINE r == RemoveNodeAt(l, k)
<1> DEFINE c == l.chain
           e == c[k]
<1>1. r.chain = RemoveAt(c, k) /\ r.size = l.size - 1
  BY DEF RemoveNodeAt, RemoveAt
<1> HIDE DEF r
<1>2. RemoveSafe(c, e) = RemoveAt(c, k)
  <2>1. Contains(c, e)
    BY ContainsIsOn DEF On
  <2>2. \A i \in 1..Len(c) : c[i] = e <=> i = k
    BY DEF Distinct
  <2>3. (CHOOSE i \in 1..Len(c) : c[i] = e) = k
    BY <2>2
  <2> QED
    BY <2>1, <2>3 DEF RemoveSafe
<1>3. /\ r.chain \in Seq(S) /\ Distinct(r.chain)
      /\ \A x : On(r.chain, x) <=> On(c, x) /\ x # e
      /\ \A a, b : Before(c, a, b) => Before(r.chain, a, b)
  BY <1>1, <1>2, RemoveSafeFacts
<1>4. Len(c) \in Nat /\ Len(c) >= 1
  BY LenProperties
<1>5. Len(r.chain) = Len(c) - 1
  <2>1. On(c, e)
    BY DEF On
  <2>2. ASSUME \A i \in 1..Len(c) : c[i] # e PROVE FALSE
    BY <2>2
  <2>3. Len(RemoveSafe(c, e)) = Len(c) - 1
    BY <2>2, RemoveSafeShape
  <2> QED
    BY <1>1, <1>2, <2>3
<1>6. \A i, j \in 1..Len(r.chain) :
         i < j => \E a, b \in 1..Len(c) : a < b /\ c[a] = r.chain[i] /\ c[b] = r.chain[j]
  <2> HIDE DEF c, e
  <2> SUFFICES ASSUME NEW i \in 1..Len(r.chain), NEW j \in 1..Len(r.chain), i < j
               PROVE  \E a, b \in 1..Len(c) : a < b /\ c[a] = r.chain[i] /\ c[b] = r.chain[j]
    OBVIOUS
  <2>1. On(c, r.chain[i]) /\ On(c, r.chain[j])
    BY <1>3 DEF On
  <2>2. PICK a \in 1..Len(c), b \in 1..Len(c) : c[a] = r.chain[i] /\ c[b] = r.chain[j]
    BY <2>1 DEF On
  <2>3. a # b
    BY <1>3, <1>4, <2>2 DEF Distinct
  <2>4. CASE b < a
    <3>1. \A x, y \in 1..Len(c) : c[x] = c[b] /\ c[y] = c[a] => x = b /\ y = a
      BY DEF Distinct, c
    <3>2. Before(c, c[b], c[a])
      BY <2>4, <3>1 DEF Before
    <3>3. Before(r.chain, r.chain[j], r.chain[i])
      BY <1>3, <2>2, <3>2
    <3>4. j < i
      BY <3>3 DEF Before
    <3> QED
      BY <1>4, <1>5, <3>4
  <2> QED
    BY <1>4, <2>2, <2>3, <2>4
<1>7. r.size \in Nat
  BY <1>1, <1>4
<1>8. OneLess(S, l, k, r)
  BY <1>1, <1>3, <1>5, <1>6, <1>7 DEF OneLess
<1> QED
  BY <1>8 DEF r

\* splice(0, 1) of a list that has nodes unlinks the first.
LEMMA DequeueRemoves ==
    ASSUME NEW S, NEW l, l.chain \in Seq(S), l.chain # <<>>, l.size \in Nat,
           Len(l.chain) <= l.size
    PROVE  /\ InternalSplice(l, 0, 1, <<>>) = RemoveNodeAt(l, 1)
           /\ Deleted(l, 0, 1) = 1
           /\ 1 \in 1..Len(l.chain) /\ Head(l.chain) = l.chain[1]
<1> DEFINE c == l.chain
<1>1. Len(c) \in Nat /\ Len(c) >= 1 /\ 0 # l.size /\ 0 < Len(c)
  BY LenProperties
<1>2. NodesBefore(l, 0) = SubSeq(c, 1, 1 - 1)
  BY <1>1 DEF NodesBefore
<1>3. NodesFrom(l, 0) = c
  <2>1. SubSeq(c, 0 + 1, Len(c)) = c
    BY LenProperties
  <2> QED
    BY <1>1, <2>1 DEF NodesFrom
<1>4. Deleted(l, 0, 1) = 1
  <2>1. Deleted(l, 0, 1) = IF 1 < Len(c) THEN 1 ELSE Len(c)
    BY <1>3, Zenon DEF Deleted
  <2> QED
    BY <1>1, <2>1
<1>5. SubSeq(c, 1, 1 - 1) \o <<>> = SubSeq(c, 1, 1 - 1) /\ Len(<<>>) = 0
  <2>1. SubSeq(c, 1, 1 - 1) = <<>>
    BY <1>1
  <2> QED
    BY <2>1
<1>6. l.size - 1 + 0 = l.size - 1
  BY <1>1
<1>7. InternalSplice(l, 0, 1, <<>>)
        = [chain |-> SubSeq(c, 1, 1 - 1) \o SubSeq(c, 1 + 1, Len(c)), size |-> l.size - 1]
  BY <1>2, <1>3, <1>4, <1>5, <1>6, Zenon DEF InternalSplice
<1>8. 1 \in 1..Len(c) /\ Head(c) = c[1]
  BY <1>1
<1> QED
  BY <1>4, <1>7, <1>8 DEF RemoveNodeAt

=============================================================================
