-------------------------- MODULE SemaphoreProofs --------------------------
(***************************************************************************)
(* No permit of a Semaphore is lost or left idle and no call is overtaken, *)
(* for any number of tasks and permits.  A bounded queue, whose places are *)
(* such permits, holds what was enqueued, in order and within its capacity.*)
(***************************************************************************)
EXTENDS SemaphoreUse, BlockingQueue, EcmaArrayProofs, FiniteSetTheorems, WellFoundedInduction

-----------------------------------------------------------------------------
(***************************************************************************)
(* Of permits that are finitely many, those of some of the tasks are too.  *)
(***************************************************************************)
LEMMA SumOfSome ==
    ASSUME NEW all, NEW some \in SUBSET all, NEW counts,
           IsFiniteSet(Permits(all, counts))
    PROVE  /\ IsFiniteSet(Permits(some, counts))
           /\ SumOf(some, counts) \in Nat
<1>1. Permits(some, counts) \subseteq Permits(all, counts)
  BY DEF Permits
<1> QED
  BY <1>1, FS_Subset, FS_CardinalityType DEF SumOf

(***************************************************************************)
(* The permits of two groups of tasks with no task in common are as many   *)
(* as those of the one and of the other.                                   *)
(***************************************************************************)
LEMMA SumOfBoth ==
    ASSUME NEW A, NEW B, A \cap B = {}, NEW counts,
           IsFiniteSet(Permits(A, counts)), IsFiniteSet(Permits(B, counts))
    PROVE  /\ IsFiniteSet(Permits(A \cup B, counts))
           /\ SumOf(A \cup B, counts) = SumOf(A, counts) + SumOf(B, counts)
<1>1. Permits(A \cup B, counts) = Permits(A, counts) \cup Permits(B, counts)
  BY DEF Permits
<1>2. Permits(A, counts) \cap Permits(B, counts) = {}
  <2> SUFFICES ASSUME NEW x \in Permits(A, counts), x \in Permits(B, counts)
               PROVE  FALSE
    OBVIOUS
  <2>1. PICK a \in A : x \in {a} \X (1..counts[a])
    BY DEF Permits
  <2>2. PICK b \in B : x \in {b} \X (1..counts[b])
    BY DEF Permits
  <2>3. x[1] = a /\ x[1] = b
    BY <2>1, <2>2
  <2> QED
    BY <2>3
<1>3. /\ Cardinality(Permits(A, counts)) \in Nat
      /\ Cardinality(Permits(B, counts)) \in Nat
  BY FS_CardinalityType
<1> DEFINE a == Permits(A, counts)
           b == Permits(B, counts)
<1>4. /\ IsFiniteSet(a \cup b)
      /\ Cardinality(a \cup b) = Cardinality(a) + Cardinality(b) - Cardinality(a \cap b)
  <2> HIDE DEF a, b
  <2>1. IsFiniteSet(a) /\ IsFiniteSet(b)
    BY DEF a, b
  <2> QED
    BY <2>1, FS_Union
<1>5. Cardinality(a \cap b) = 0
  BY <1>2, FS_EmptySet
<1>6. Cardinality(a \cup b) = Cardinality(a) + Cardinality(b)
  <2> HIDE DEF a, b
  <2> QED
    BY <1>3, <1>4, <1>5 DEF a, b
<1> QED
  BY <1>1, <1>4, <1>6 DEF SumOf

\* The permits of one task are its count.
LEMMA SumOfOne ==
    ASSUME NEW q, NEW counts, counts[q] \in Nat
    PROVE  /\ IsFiniteSet(Permits({q}, counts))
           /\ SumOf({q}, counts) = counts[q]
<1>1. Permits({q}, counts) = {q} \X (1..counts[q])
  BY DEF Permits
<1>2. IsFiniteSet(1..counts[q]) /\ Cardinality(1..counts[q]) = counts[q]
  BY FS_Interval
<1>3. IsFiniteSet({q}) /\ Cardinality({q}) = 1
  BY FS_Singleton
<1>4. /\ IsFiniteSet({q} \X (1..counts[q]))
      /\ Cardinality({q} \X (1..counts[q])) = 1 * counts[q]
  BY <1>2, <1>3, FS_Product
<1>5. 1 * counts[q] = counts[q]
  OBVIOUS
<1> QED
  BY <1>1, <1>4, <1>5, Zenon DEF SumOf

\* One more task adds its permits.
LEMMA SumOfOneMore ==
    ASSUME NEW some, NEW q, q \notin some, NEW counts, counts[q] \in Nat,
           IsFiniteSet(Permits(some, counts))
    PROVE  /\ IsFiniteSet(Permits(some \cup {q}, counts))
           /\ SumOf(some \cup {q}, counts) = SumOf(some, counts) + counts[q]
<1> DEFINE one == {q}
<1>1. IsFiniteSet(Permits(one, counts)) /\ SumOf(one, counts) = counts[q]
  BY SumOfOne
<1>2. some \cap one = {}
  OBVIOUS
<1> HIDE DEF one
<1>3. /\ IsFiniteSet(Permits(some \cup one, counts))
      /\ SumOf(some \cup one, counts) = SumOf(some, counts) + SumOf(one, counts)
  BY <1>1, <1>2, SumOfBoth
<1> QED
  BY <1>1, <1>3 DEF one

\* Only the counts of the tasks matter.
LEMMA SumOfSame ==
    ASSUME NEW tasks, NEW counts, NEW others, \A q \in tasks : counts[q] = others[q]
    PROVE  /\ Permits(tasks, counts) = Permits(tasks, others)
           /\ SumOf(tasks, counts) = SumOf(tasks, others)
<1>1. {{q} \X (1..counts[q]) : q \in tasks} = {{q} \X (1..others[q]) : q \in tasks}
  OBVIOUS
<1> QED
  BY <1>1 DEF Permits, SumOf

\* When the count of one task changes, the sum changes by as much.
LEMMA SumOfChange ==
    ASSUME NEW tasks, NEW q \in tasks, NEW counts, NEW others,
           \A r \in tasks \ {q} : counts[r] = others[r],
           counts[q] \in Nat, others[q] \in Nat,
           IsFiniteSet(Permits(tasks, counts))
    PROVE  /\ IsFiniteSet(Permits(tasks, others))
           /\ SumOf(tasks, others) = SumOf(tasks, counts) - counts[q] + others[q]
<1> DEFINE rest == tasks \ {q}
<1>1. rest \cup {q} = tasks /\ rest \cap {q} = {} /\ rest \subseteq tasks
  OBVIOUS
<1>2. IsFiniteSet(Permits(rest, counts)) /\ SumOf(rest, counts) \in Nat
  BY <1>1, SumOfSome
<1>3. /\ Permits(rest, others) = Permits(rest, counts)
      /\ SumOf(rest, others) = SumOf(rest, counts)
  BY SumOfSame
<1> HIDE DEF rest
<1>4. SumOf(tasks, counts) = SumOf(rest, counts) + counts[q]
  BY <1>1, <1>2, SumOfOneMore
<1>5. /\ IsFiniteSet(Permits(tasks, others))
      /\ SumOf(tasks, others) = SumOf(rest, others) + others[q]
  <2>1. IsFiniteSet(Permits(rest, others)) /\ q \notin rest
    BY <1>1, <1>2, <1>3
  <2> QED
    BY <1>1, <2>1, SumOfOneMore
<1> QED
  BY <1>2, <1>3, <1>4, <1>5

\* The tasks of a queue ask for finitely many permits.
LEMMA SumOfList ==
    ASSUME NEW S, NEW s \in Seq(S), NEW counts, \A q \in S : counts[q] \in Nat
    PROVE  /\ IsFiniteSet(Permits(ToSet(s), counts))
           /\ SumOf(ToSet(s), counts) \in Nat
<1> DEFINE T == {{q} \X (1..counts[q]) : q \in ToSet(s)}
           f == [i \in 1..Len(s) |-> {s[i]} \X (1..counts[s[i]])]
<1>1. f \in Surjection(1..Len(s), T)
  <2>1. \A i \in 1..Len(s) : s[i] \in ToSet(s)
    BY DEF ToSet
  <2>2. f \in [1..Len(s) -> T]
    BY <2>1
  <2>3. ASSUME NEW t \in T PROVE \E i \in 1..Len(s) : f[i] = t
    <3>1. PICK q \in ToSet(s) : t = {q} \X (1..counts[q])
      OBVIOUS
    <3>2. PICK i \in 1..Len(s) : s[i] = q
      BY DEF ToSet
    <3> QED
      BY <3>1, <3>2
  <2> QED
    BY <2>2, <2>3 DEF Surjection
<1>2. IsFiniteSet(T)
  BY <1>1, FS_Surjection, FS_Interval, LenProperties
<1>3. ASSUME NEW t \in T PROVE IsFiniteSet(t)
  <2>1. PICK q \in ToSet(s) : t = {q} \X (1..counts[q])
    OBVIOUS
  <2>2. q \in S
    BY DEF ToSet
  <2>3. t = Permits({q}, counts)
    BY <2>1 DEF Permits
  <2> QED
    BY <2>2, <2>3, SumOfOne
<1>4. Permits(ToSet(s), counts) = UNION T
  BY DEF Permits
<1> HIDE DEF T
<1> QED
  BY <1>2, <1>3, <1>4, FS_UNION, FS_CardinalityType DEF SumOf

-----------------------------------------------------------------------------
\* The tasks of the first n calls of a queue.
First(list, n) == ToSet(SubSeq(list, 1, n))

\* The first n calls of the queue are served, those rejected included.
Serves(list, permits, needs, n) ==
    /\ n \in 0..Len(list)
    /\ SumOf(First(list, n), needs) <= permits
    /\ value' = permits - SumOf(First(list, n), needs)
    /\ pending' = SubSeq(list, n + 1, Len(list))
    /\ promise' = [q \in Tasks |->
                     IF q \in First(list, n) /\ promise[q] = "pending"
                     THEN "resolved" ELSE promise[q]]

\* Among numbers that are not all too large, one is the largest.
LEMMA LargestOf ==
    ASSUME NEW last \in Nat, NEW ks \in SUBSET (0..last), ks # {}
    PROVE  \E k \in ks : \A j \in ks : j <= k
<1> DEFINE R == OpToRel(<, Nat)
           T == {last - k : k \in ks}
<1>1. IsWellFoundedOn(R, Nat)
  BY NatLessThanWellFounded
<1>2. T \subseteq Nat /\ T # {}
  <2>1. \A k \in ks : last - k \in Nat
    OBVIOUS
  <2> QED
    BY <2>1
<1>3. PICK x \in T : \A y \in T : ~ (<<y, x>> \in R)
  <2> HIDE DEF T, R
  <2> QED
    BY <1>1, <1>2, WFMin
<1>4. PICK k \in ks : x = last - k
  OBVIOUS
<1>5. ASSUME NEW j \in ks, j > k
      PROVE  FALSE
  <2>1. last - j \in T /\ last - j < x
    BY <1>4, <1>5
  <2>2. <<last - j, x>> \in R
    BY <1>2, <2>1 DEF OpToRel
  <2> QED
    BY <1>3, <2>1, <2>2
<1> QED
  BY <1>5

(***************************************************************************)
(* The tasks of one more call: the sum grows by its count.                 *)
(***************************************************************************)
LEMMA FirstFacts ==
    ASSUME NEW list \in Seq(Tasks), Distinct(list), NEW needs \in [Tasks -> Nat]
    PROVE  /\ SumOf(First(list, 0), needs) = 0
           /\ \A k \in 0..Len(list) :
                 /\ IsFiniteSet(Permits(First(list, k), needs))
                 /\ SumOf(First(list, k), needs) \in Nat
                 /\ First(list, k) \subseteq Tasks
                 /\ \A q : q \in First(list, k) <=> On(SubSeq(list, 1, k), q)
           /\ \A k \in 0..Len(list) - 1 :
                 SumOf(First(list, k + 1), needs)
                   = SumOf(First(list, k), needs) + needs[list[k + 1]]
<1>1. ASSUME NEW k \in 0..Len(list)
      PROVE  /\ SubSeq(list, 1, k) \in Seq(Tasks)
             /\ Len(SubSeq(list, 1, k)) = k
             /\ \A i \in 1..k : SubSeq(list, 1, k)[i] = list[i]
             /\ First(list, k) = {list[i] : i \in 1..k}
             /\ First(list, k) \subseteq Tasks
  <2>1. /\ SubSeq(list, 1, k) \in Seq(Tasks)
        /\ Len(SubSeq(list, 1, k)) = k
        /\ \A i \in 1..k : SubSeq(list, 1, k)[i] = list[i]
    BY LenProperties
  <2>2. First(list, k) = {list[i] : i \in 1..k}
    <3> DEFINE r == SubSeq(list, 1, k)
    <3> HIDE DEF r
    <3>1. DOMAIN r = 1..k /\ \A i \in 1..k : r[i] = list[i]
      BY <2>1 DEF r
    <3>2. First(list, k) = {r[i] : i \in 1..k}
      BY <3>1 DEF First, ToSet, r
    <3> QED
      BY <3>1, <3>2
  <2> QED
    BY <2>1, <2>2
<1>2. ASSUME NEW k \in 0..Len(list)
      PROVE  /\ IsFiniteSet(Permits(First(list, k), needs))
             /\ SumOf(First(list, k), needs) \in Nat
  BY <1>1, SumOfList DEF First
<1>3. ASSUME NEW k \in 0..Len(list)
      PROVE  \A q : q \in First(list, k) <=> On(SubSeq(list, 1, k), q)
  BY <1>1, ItemsFacts DEF First
<1>4. SumOf(First(list, 0), needs) = 0
  <2>1. First(list, 0) = {}
    BY <1>1, LenProperties
  <2>2. Permits({}, needs) = {}
    BY DEF Permits
  <2> QED
    BY <2>1, <2>2, FS_EmptySet DEF SumOf
<1>5. ASSUME NEW k \in 0..Len(list) - 1
      PROVE  SumOf(First(list, k + 1), needs)
               = SumOf(First(list, k), needs) + needs[list[k + 1]]
  <2> DEFINE q == list[k + 1]
             some == First(list, k)
  <2>1. Len(list) \in Nat /\ k + 1 \in 1..Len(list) /\ k \in 0..Len(list) /\ k + 1 \in 0..Len(list)
    BY LenProperties
  <2>2. First(list, k + 1) = some \cup {q}
    <3>1. 1..(k + 1) = (1..k) \cup {k + 1}
      OBVIOUS
    <3>2. {list[i] : i \in 1..(k + 1)} = {list[i] : i \in 1..k} \cup {list[k + 1]}
      BY <3>1
    <3> QED
      BY <1>1, <2>1, <3>2
  <2>3. q \notin some
    <3>1. \A i \in 1..k : i \in 1..Len(list) /\ i # k + 1
      BY <2>1
    <3>2. \A i \in 1..k : list[i] # q
      BY <2>1, <3>1 DEF Distinct
    <3>3. some = {list[i] : i \in 1..k}
      BY <1>1, <2>1
    <3> QED
      BY <3>2, <3>3
  <2>4. q \in Tasks
    BY <2>1
  <2>5. IsFiniteSet(Permits(some, needs)) /\ needs[q] \in Nat /\ q \notin some
    BY <1>2, <2>1, <2>3, <2>4
  <2> HIDE DEF some, q
  <2>6. SumOf(some \cup {q}, needs) = SumOf(some, needs) + needs[q]
    BY <2>5, SumOfOneMore
  <2> QED
    BY <2>2, <2>6 DEF some, q
<1> QED
  BY <1>1, <1>2, <1>3, <1>4, <1>5

(***************************************************************************)
(* handlePendingAcquisitions serves the first calls of the queue, and then *)
(* the permits do not suffice for the next one (semaphore.ts:158).         *)
(***************************************************************************)
LEMMA HandlerServes ==
    ASSUME NEW list \in Seq(Tasks), Distinct(list), NEW permits \in Nat,
           NEW needs \in [Tasks -> Nat],
           HandlePendingAcquisitions(list, permits, needs, promise)
    PROVE  \E n \in 0..Len(list) :
              /\ Serves(list, permits, needs, n)
              /\ n < Len(list) => value' < needs[list[n + 1]]
<1> DEFINE Fits(k) == SumOf(First(list, k), needs) <= permits
           Stops(k) == Fits(k) /\ (k < Len(list) => SumOf(First(list, k + 1), needs) > permits)
           n == CHOOSE k \in 0..Len(list) : Stops(k)
           ks == {k \in 0..Len(list) : Fits(k)}
<1>1. Len(list) \in Nat
  BY LenProperties
<1>2. 0 \in ks
  BY <1>1, FirstFacts
<1>3. PICK k \in ks : \A j \in ks : j <= k
  BY <1>1, <1>2, LargestOf
<1>4. Stops(k)
  <2> SUFFICES ASSUME k < Len(list), ~(SumOf(First(list, k + 1), needs) > permits)
               PROVE  FALSE
    OBVIOUS
  <2>1. k + 1 \in 0..Len(list)
    BY <1>1
  <2>2. SumOf(First(list, k + 1), needs) \in Nat
    BY <2>1, FirstFacts
  <2>3. k + 1 \in ks
    BY <2>1, <2>2
  <2> QED
    BY <1>1, <1>3, <2>3
<1>5. n \in 0..Len(list) /\ Stops(n)
  <2> HIDE DEF Stops
  <2> QED
    BY <1>4
<1>6. Serves(list, permits, needs, n)
  BY <1>5 DEF Serves, HandlePendingAcquisitions, First
<1>7. n < Len(list) => value' < needs[list[n + 1]]
  <2> SUFFICES ASSUME n < Len(list) PROVE value' < needs[list[n + 1]]
    OBVIOUS
  <2> HIDE DEF n
  <2>1. n \in 0..Len(list) - 1 /\ n + 1 \in 1..Len(list)
    BY <1>1, <1>5
  <2>2. /\ SumOf(First(list, n + 1), needs) = SumOf(First(list, n), needs) + needs[list[n + 1]]
        /\ SumOf(First(list, n), needs) \in Nat
    BY <1>5, <2>1, FirstFacts
  <2>3. needs[list[n + 1]] \in Nat
    BY <2>1
  <2> QED
    BY <1>5, <1>6, <2>2, <2>3 DEF Serves
<1> HIDE DEF n
<1> QED
  BY <1>5, <1>6, <1>7

(***************************************************************************)
(* A request for a run serves the first calls of the queue at once and     *)
(* leaves the next one waiting for more permits, or nobody and has them    *)
(* looked at after the run that is under way.                              *)
(***************************************************************************)
LEMMA RequestServes ==
    ASSUME NEW list \in Seq(Tasks), Distinct(list), NEW permits \in Nat,
           NEW needs \in [Tasks -> Nat],
           promise \in [Tasks -> {"pending", "resolved", "rejected"}],
           RequestRun(list, permits, needs, promise)
    PROVE  \E n \in 0..Len(list) :
              /\ Serves(list, permits, needs, n)
              /\ \/ /\ run = "none" /\ run' = "running" /\ ~queued'
                    /\ n < Len(list) => value' < needs[list[n + 1]]
                 \/ run # "none" /\ run' = run /\ queued'
<1>1. CASE run = "none"
  <2>1. /\ HandlePendingAcquisitions(list, permits, needs, promise)
        /\ run' = "running" /\ ~queued'
    BY <1>1 DEF RequestRun
  <2>2. \E n \in 0..Len(list) :
              /\ Serves(list, permits, needs, n)
              /\ n < Len(list) => value' < needs[list[n + 1]]
    BY <2>1, HandlerServes
  <2> QED
    BY <1>1, <2>1, <2>2
<1>2. CASE run # "none"
  <2>1. /\ run' = run /\ queued'
        /\ value' = permits /\ pending' = list /\ promise' = promise
    BY <1>2 DEF RequestRun
  <2>2. 0 \in 0..Len(list) /\ SumOf(First(list, 0), needs) = 0
    BY FirstFacts, LenProperties
  <2>3. First(list, 0) = {}
    BY LenProperties DEF First, ToSet
  <2>4. list = SubSeq(list, 0 + 1, Len(list))
    BY LenProperties
  <2>5. Serves(list, permits, needs, 0)
    BY <2>1, <2>2, <2>3, <2>4 DEF Serves
  <2> QED
    BY <1>2, <2>1, <2>2, <2>5
<1> QED
  BY <1>1, <1>2

\* The queue is cut in two: the calls that are served, and the others.
LEMMA CutFacts ==
    ASSUME SemTypeOK, NEW list \in Seq(Tasks), Distinct(list),
           NEW permits \in 0..MaxValue, NEW needs \in [Tasks -> Nat], NEW n,
           Serves(list, permits, needs, n)
    PROVE  /\ n \in 0..Len(list) /\ First(list, n) \subseteq Tasks
           /\ pending' \in Seq(Tasks) /\ Distinct(pending')
           /\ promise' \in [Tasks -> {"pending", "resolved", "rejected"}]
           /\ value' \in 0..MaxValue
           /\ value' + SumOf(First(list, n), needs) = permits
           /\ SumOf(First(list, n), needs) \in Nat
           /\ IsFiniteSet(Permits(First(list, n), needs))
           /\ \A q \in Tasks : On(list, q) <=> q \in First(list, n) \/ On(pending', q)
           /\ \A q \in Tasks : ~(q \in First(list, n) /\ On(pending', q))
           /\ \A a, b \in Tasks : Before(list, a, b) => Before(pending', a, b)
           /\ \A a, b \in Tasks :
                 Before(list, a, b) /\ On(list, a) /\ b \in First(list, n)
                 => a \in First(list, n)
           /\ \A q \in Tasks :
                 promise'[q] = IF q \in First(list, n) /\ promise[q] = "pending"
                               THEN "resolved" ELSE promise[q]
<1>1. /\ list \in Seq(Tasks) /\ Distinct(list) /\ n \in 0..Len(list)
      /\ needs \in [Tasks -> Nat]
      /\ pending' = SubSeq(list, n + 1, Len(list))
  BY DEF Serves
<1>2. /\ IsFiniteSet(Permits(First(list, n), needs))
      /\ SumOf(First(list, n), needs) \in Nat
      /\ First(list, n) \subseteq Tasks
      /\ \A q : q \in First(list, n) <=> On(SubSeq(list, 1, n), q)
  BY <1>1, FirstFacts
<1>3. /\ pending' \in Seq(Tasks) /\ Distinct(pending')
      /\ \A q : On(list, q) <=> On(SubSeq(list, 1, n), q) \/ On(pending', q)
      /\ \A q : ~(On(SubSeq(list, 1, n), q) /\ On(pending', q))
      /\ \A a, b : Before(list, a, b) => Before(pending', a, b)
      /\ \A a, b : Before(list, a, b) /\ On(list, a) /\ On(SubSeq(list, 1, n), b)
                   => On(SubSeq(list, 1, n), a)
  BY <1>1, SplitFacts
<1>4. /\ value' \in 0..MaxValue
      /\ value' + SumOf(First(list, n), needs) = permits
  <2>1. /\ permits \in 0..MaxValue
        /\ SumOf(First(list, n), needs) <= permits
        /\ value' = permits - SumOf(First(list, n), needs)
    BY DEF Serves
  <2> QED
    BY <1>2, <2>1, ValueAssumption
<1>5. /\ promise' \in [Tasks -> {"pending", "resolved", "rejected"}]
      /\ \A q \in Tasks :
            promise'[q] = IF q \in First(list, n) /\ promise[q] = "pending"
                          THEN "resolved" ELSE promise[q]
  <2>1. promise' = [q \in Tasks |->
                      IF q \in First(list, n) /\ promise[q] = "pending"
                      THEN "resolved" ELSE promise[q]]
    BY DEF Serves
  <2>2. promise \in [Tasks -> {"pending", "resolved", "rejected"}]
    BY DEF SemTypeOK
  <2> QED
    BY <2>1, <2>2
<1> QED
  BY <1>1, <1>2, <1>3, <1>4, <1>5

-----------------------------------------------------------------------------
(***************************************************************************)
(* Where the calls are.  A call that is not over waits in the queue, or    *)
(* was served, or rejected; a task makes none while it holds permits.      *)
(***************************************************************************)
CallInv == \A p \in Tasks :
    /\ pc[p] = "idle" => promise[p] = "pending" /\ need[p] = 0 /\ ~On(pending, p)
    /\ pc[p] # "idle" => need[p] \in Counts /\ held[p] = 0
    /\ pc[p] # "idle" /\ promise[p] = "pending" => On(pending, p)
    /\ On(pending, p) => promise[p] # "resolved"
    /\ p \in barged => held[p] > 0

\* Another run is requested during one only.
RunInv == run = "none" => ~queued

(***************************************************************************)
(* Unless another run is requested, the first call of the queue has been   *)
(* looked at: the permits do not suffice for it.                           *)
(***************************************************************************)
IdleInv ==
    ~queued /\ pending # <<>> /\ ~skipped
    => \/ value < need[Head(pending)]
       \/ promise[Head(pending)] = "rejected"

(***************************************************************************)
(* Those that were waiting before a call and still are come before it in   *)
(* the queue; when it has its permits there are none.                      *)
(***************************************************************************)
AheadInv == \A p \in Tasks :
    /\ ahead[p] \subseteq Waiting
    /\ p \in Waiting => \A q \in ahead[p] : Before(pending, q, p)
    /\ Has(p) /\ p \notin barged => ahead[p] = {}

OwnedInv == IsFiniteSet(Permits(Tasks, Owned)) /\ PermitsConserved

IInv == TypeOK /\ CallInv /\ RunInv /\ IdleInv /\ AheadInv /\ OwnedInv

-----------------------------------------------------------------------------
\* What the tasks own of the permits before the handler serves more.
Kept == [p \in Tasks |-> held'[p] + (IF Granted(p) THEN need[p] ELSE 0)]

(***************************************************************************)
(* A step that has the queue served, or asks for it.  The queue is that    *)
(* before the step, with the call of a task of "new" behind it; the        *)
(* permits are those before, with what the step gives back or makes up.    *)
(***************************************************************************)
ServeStep(new, list, permits, needs, n) ==
    /\ list \in Seq(Tasks) /\ Distinct(list)
    /\ \A q \in Tasks : On(list, q) <=> On(pending, q) \/ q \in new
    /\ \A a, b \in Tasks : Before(pending, a, b) /\ a \notin new => Before(list, a, b)
    /\ \A a, b \in Tasks : b \in new /\ a \notin new => Before(list, a, b)
    /\ \A q \in new : q \in Tasks /\ pc[q] = "idle" /\ held[q] = 0
    /\ needs \in [Tasks -> Nat] /\ need' = needs
    /\ \A q \in Tasks : IF q \in new THEN needs[q] \in Counts ELSE needs[q] = need[q]
    /\ pc' \in [Tasks -> PC]
    /\ \A q \in Tasks : pc'[q] = "idle" <=> pc[q] = "idle" /\ q \notin new
    /\ held' \in [Tasks -> Counts \cup {0}]
    /\ \A q \in Tasks : held'[q] = held[q] \/ held'[q] = 0
    /\ barged' = {q \in barged : held'[q] > 0}
    /\ permits \in 0..MaxValue
    /\ issued' \in Nat /\ issued' = permits + lost + SumOf(Tasks, Kept)
    /\ IsFiniteSet(Permits(Tasks, Kept))
    /\ Serves(list, permits, needs, n)
    /\ Remember

\* The same of a step that has the queue served.
LEMMA ServeFacts ==
    ASSUME TypeOK, NEW new, NEW list, NEW permits, NEW needs, NEW n,
           ServeStep(new, list, permits, needs, n)
    PROVE  /\ n \in 0..Len(list) /\ First(list, n) \subseteq Tasks
           /\ pending' \in Seq(Tasks) /\ Distinct(pending')
           /\ promise' \in [Tasks -> {"pending", "resolved", "rejected"}]
           /\ value' \in 0..MaxValue
           /\ value' + SumOf(First(list, n), needs) = permits
           /\ SumOf(First(list, n), needs) \in Nat
           /\ IsFiniteSet(Permits(First(list, n), needs))
           /\ \A q \in Tasks : On(list, q) <=> q \in First(list, n) \/ On(pending', q)
           /\ \A q \in Tasks : ~(q \in First(list, n) /\ On(pending', q))
           /\ \A a, b \in Tasks : Before(list, a, b) => Before(pending', a, b)
           /\ \A a, b \in Tasks :
                 Before(list, a, b) /\ On(list, a) /\ b \in First(list, n)
                 => a \in First(list, n)
           /\ \A q \in Tasks :
                 promise'[q] = IF q \in First(list, n) /\ promise[q] = "pending"
                               THEN "resolved" ELSE promise[q]
BY CutFacts DEF ServeStep, TypeOK

(***************************************************************************)
(* Serving the queue leaves the calls where they should be.                *)
(***************************************************************************)
LEMMA ServeCalls ==
    ASSUME TypeOK, CallInv, NEW new, NEW list, NEW permits, NEW needs, NEW n,
           ServeStep(new, list, permits, needs, n)
    PROVE  CallInv'
<1> SUFFICES ASSUME NEW p \in Tasks
             PROVE  /\ pc'[p] = "idle" => promise'[p] = "pending" /\ need'[p] = 0 /\ ~On(pending', p)
                    /\ pc'[p] # "idle" => need'[p] \in Counts /\ held'[p] = 0
                    /\ pc'[p] # "idle" /\ promise'[p] = "pending" => On(pending', p)
                    /\ On(pending', p) => promise'[p] # "resolved"
                    /\ p \in barged' => held'[p] > 0
  BY DEF CallInv
<1>1. /\ On(list, p) <=> p \in First(list, n) \/ On(pending', p)
      /\ ~(p \in First(list, n) /\ On(pending', p))
      /\ promise'[p] = IF p \in First(list, n) /\ promise[p] = "pending"
                       THEN "resolved" ELSE promise[p]
  BY ServeFacts
<1>2. /\ On(list, p) <=> On(pending, p) \/ p \in new
      /\ p \in new => pc[p] = "idle" /\ held[p] = 0
      /\ need' = needs
      /\ IF p \in new THEN needs[p] \in Counts ELSE needs[p] = need[p]
      /\ pc'[p] = "idle" <=> pc[p] = "idle" /\ p \notin new
      /\ held'[p] = held[p] \/ held'[p] = 0
      /\ p \in barged' => held'[p] > 0
  BY DEF ServeStep
<1>3. /\ pc[p] = "idle" => promise[p] = "pending" /\ need[p] = 0 /\ ~On(pending, p)
      /\ pc[p] # "idle" => need[p] \in Counts /\ held[p] = 0
      /\ pc[p] # "idle" /\ promise[p] = "pending" => On(pending, p)
      /\ On(pending, p) => promise[p] # "resolved"
  BY DEF CallInv
<1> QED
  BY <1>1, <1>2, <1>3

(***************************************************************************)
(* The queue is served in order: whoever gets its permits overtakes none.  *)
(***************************************************************************)
LEMMA ServeAhead ==
    ASSUME TypeOK, CallInv, AheadInv,
           NEW new, NEW list, NEW permits, NEW needs, NEW n,
           ServeStep(new, list, permits, needs, n)
    PROVE  /\ AheadInv'
           /\ ahead' \in [Tasks -> SUBSET Tasks]
<1>1. ahead' = [q \in Tasks |->
          IF pc'[q] = "idle" /\ held'[q] = 0 THEN {}
          ELSE (IF pc[q] = "idle" /\ held[q] = 0 THEN Waiting ELSE ahead[q])
               \cap Waiting']
  BY DEF ServeStep, Remember
<1>2. ahead' \in [Tasks -> SUBSET Tasks] /\ \A q \in Tasks : ahead'[q] \subseteq Waiting'
  <2>1. Waiting' \subseteq Tasks
    BY DEF Waiting
  <2> QED
    BY <1>1, <2>1
<1>3. \A q \in Tasks : q \in Waiting' <=> pc'[q] # "idle" /\ promise'[q] = "pending"
  BY DEF Waiting
<1>4. \A q \in Tasks : q \in Waiting <=> pc[q] # "idle" /\ promise[q] = "pending"
  BY DEF Waiting
<1>5. ASSUME NEW p \in Tasks, pc'[p] # "idle",
             p \in Waiting' \/ (p \in First(list, n) /\ promise[p] = "pending"),
             NEW q \in ahead'[p]
      PROVE  q \in Tasks /\ Before(list, q, p) /\ On(list, q) /\ q \in Waiting'
  <2>1. q \in Waiting' /\ q \in Tasks
    BY <1>2 DEF Waiting
  <2>2. On(list, q)
    BY <1>3, <2>1, ServeCalls, ServeFacts DEF CallInv
  <2>3. /\ pc'[p] = "idle" <=> pc[p] = "idle" /\ p \notin new
        /\ p \in new => pc[p] = "idle" /\ held[p] = 0
        /\ q \in new => pc[q] = "idle"
    BY <2>1 DEF ServeStep
  <2>4. promise[p] = "pending"
    <3>1. promise'[p] = IF p \in First(list, n) /\ promise[p] = "pending"
                        THEN "resolved" ELSE promise[p]
      BY ServeFacts
    <3> QED
      BY <1>3, <1>5, <3>1
  <2>5. CASE p \in new
    <3>1. q \in Waiting
      BY <1>1, <1>5, <2>3, <2>5
    <3>2. q \notin new
      BY <1>4, <2>1, <2>3, <3>1
    <3> QED
      BY <2>1, <2>2, <2>5, <3>2 DEF ServeStep
  <2>6. CASE p \notin new
    <3>1. pc[p] # "idle" /\ p \in Waiting
      BY <1>4, <1>5, <2>3, <2>4, <2>6
    <3>2. q \in ahead[p]
      BY <1>1, <1>5, <3>1
    <3>3. q \in Waiting /\ Before(pending, q, p)
      BY <3>1, <3>2 DEF AheadInv
    <3>4. q \notin new
      BY <1>4, <2>1, <2>3, <3>3
    <3> QED
      BY <2>1, <2>2, <3>3, <3>4 DEF ServeStep
  <2> QED
    BY <2>5, <2>6
<1>6. ASSUME NEW p \in Tasks, p \in Waiting', NEW q \in ahead'[p]
      PROVE  Before(pending', q, p)
  <2>1. q \in Tasks /\ Before(list, q, p)
    BY <1>3, <1>5, <1>6
  <2> QED
    BY <2>1, ServeFacts
<1>7. ASSUME NEW p \in Tasks, Has(p)', p \notin barged'
      PROVE  ahead'[p] = {}
  <2>1. Has(p)' <=> (pc'[p] # "idle" /\ promise'[p] = "resolved") \/ held'[p] > 0
    BY DEF Has, Granted
  <2>2. /\ pc'[p] = "idle" <=> pc[p] = "idle" /\ p \notin new
        /\ p \in new => pc[p] = "idle" /\ held[p] = 0
        /\ held'[p] = held[p] \/ held'[p] = 0
        /\ p \in barged' <=> p \in barged /\ held'[p] > 0
    BY DEF ServeStep
  <2>3. promise'[p] = IF p \in First(list, n) /\ promise[p] = "pending"
                      THEN "resolved" ELSE promise[p]
    BY ServeFacts
  <2>4. /\ Has(p) <=> (pc[p] # "idle" /\ promise[p] = "resolved") \/ held[p] > 0
        /\ Has(p) /\ p \notin barged => ahead[p] = {}
    BY DEF Has, Granted, AheadInv
  <2>5. /\ pc[p] = "idle" => promise[p] = "pending"
        /\ pc[p] # "idle" => held[p] = 0
        /\ p \in barged => held[p] > 0
    BY DEF CallInv
  <2>6. held[p] \in Nat /\ held'[p] \in Nat
    <3>1. held[p] \in Counts \cup {0}
      BY DEF TypeOK
    <3>2. held'[p] \in Counts \cup {0}
      BY DEF ServeStep
    <3>3. Counts \cup {0} \subseteq Nat
      BY CountAssumption
    <3> QED
      BY <3>1, <3>2, <3>3
  <2>7. CASE held'[p] > 0
    <3>1. held'[p] = held[p] /\ p \notin barged
      BY <1>7, <2>2, <2>6, <2>7
    <3>2. ahead[p] = {} /\ ~(pc[p] = "idle" /\ held[p] = 0)
      BY <2>4, <2>6, <2>7, <3>1
    <3> QED
      BY <1>1, <3>2
  <2>8. CASE pc'[p] # "idle" /\ promise[p] = "resolved"
    <3>1. pc[p] # "idle"
      BY <2>5, <2>8
    <3>2. ahead[p] = {}
      BY <2>4, <2>5, <2>6, <2>8, <3>1
    <3> QED
      BY <1>1, <3>1, <3>2
  <2>9. CASE pc'[p] # "idle" /\ p \in First(list, n) /\ promise[p] = "pending"
    <3> SUFFICES ASSUME NEW q \in ahead'[p]
                 PROVE  FALSE
      OBVIOUS
    <3>1. q \in Tasks /\ Before(list, q, p) /\ On(list, q) /\ q \in Waiting'
      BY <1>5, <2>9
    <3>2. q \in First(list, n)
      BY <2>9, <3>1, ServeFacts
    <3>3. promise'[q] # "pending"
      BY <3>1, <3>2, ServeFacts
    <3> QED
      BY <1>3, <3>1, <3>3
  <2> QED
    BY <1>7, <2>1, <2>3, <2>7, <2>8, <2>9
<1> QED
  BY <1>2, <1>6, <1>7 DEF AheadInv

\* Tasks that own nothing have no permits.
LEMMA SumOfNone ==
    ASSUME NEW tasks, NEW counts, \A q \in tasks : counts[q] = 0
    PROVE  IsFiniteSet(Permits(tasks, counts)) /\ SumOf(tasks, counts) = 0
<1>1. \A q \in tasks : {q} \X (1..counts[q]) = {}
  <2>1. 1..0 = {}
    OBVIOUS
  <2> QED
    BY <2>1
<1>2. Permits(tasks, counts) = {}
  BY <1>1 DEF Permits
<1> QED
  BY <1>2, FS_EmptySet DEF SumOf

(***************************************************************************)
(* The permits taken from the semaphore are owned by the calls that were   *)
(* served, or lost to those that were rejected (semaphore.ts:158).         *)
(***************************************************************************)
LEMMA ServeOwned ==
    ASSUME TypeOK, CallInv, NEW new, NEW list, NEW permits, NEW needs, NEW n,
           ServeStep(new, list, permits, needs, n)
    PROVE  OwnedInv' /\ lost' \in Nat
<1> DEFINE F == First(list, n)
           A == {q \in F : promise[q] = "pending"}
           R == {q \in F : promise[q] = "rejected"}
           L == {q \in Tasks : Served(q) /\ promise[q] = "rejected" /\ pc'[q] # "idle"}
           rest == Tasks \ A
<1>1. /\ F \subseteq Tasks /\ IsFiniteSet(Permits(F, needs))
      /\ value' \in 0..MaxValue /\ SumOf(F, needs) \in Nat
      /\ value' + SumOf(F, needs) = permits
  BY ServeFacts
<1>2. ASSUME NEW q \in F
      PROVE  /\ q \in Tasks /\ On(list, q) /\ ~On(pending', q)
             /\ promise[q] # "pending" => promise[q] = "rejected"
             /\ promise[q] = "rejected" => On(pending, q) /\ q \notin new
             /\ pc'[q] # "idle" /\ held'[q] = 0
             /\ promise[q] = "pending" => promise'[q] = "resolved"
  <2>1. q \in Tasks /\ On(list, q) /\ ~On(pending', q)
    BY <1>1, ServeFacts
  <2>2. /\ On(list, q) <=> On(pending, q) \/ q \in new
        /\ q \in new => pc[q] = "idle" /\ held[q] = 0
        /\ pc'[q] = "idle" <=> pc[q] = "idle" /\ q \notin new
        /\ held'[q] = held[q] \/ held'[q] = 0
    BY <2>1 DEF ServeStep
  <2>3. /\ pc[q] = "idle" => promise[q] = "pending" /\ ~On(pending, q)
        /\ pc[q] # "idle" => held[q] = 0
        /\ On(pending, q) => promise[q] # "resolved"
    BY <2>1 DEF CallInv
  <2>4. promise[q] \in {"pending", "resolved", "rejected"}
    BY <2>1 DEF TypeOK, SemTypeOK
  <2>5. promise[q] = "pending" => promise'[q] = "resolved"
    BY <2>1, ServeFacts
  <2> QED
    BY <2>1, <2>2, <2>3, <2>4, <2>5
<1>3. F = A \cup R /\ A \cap R = {} /\ A \subseteq Tasks /\ R \subseteq F /\ A \subseteq F
  BY <1>1, <1>2
<1>4. L = R
  <2>1. ASSUME NEW q \in L PROVE q \in R
    <3>1. On(pending, q) /\ ~On(pending', q) /\ promise[q] = "rejected" /\ q \in Tasks
      BY ContainsIsOn DEF Served
    <3>2. On(list, q)
      BY <3>1 DEF ServeStep
    <3>3. q \in F
      BY <3>1, <3>2, ServeFacts
    <3> QED
      BY <3>1, <3>3
  <2>2. ASSUME NEW q \in R PROVE q \in L
    BY <1>2, ContainsIsOn DEF Served
  <2> QED
    BY <2>1, <2>2
<1>5. lost' = lost + SumOf(R, need)
  <2>1. lost' = lost + SumOf(L, need)
    BY DEF ServeStep, Remember
  <2> QED
    BY <1>4, <2>1
<1>6. SumOf(R, need) = SumOf(R, needs)
  <2>1. \A q \in R : need[q] = needs[q]
    BY <1>2 DEF ServeStep
  <2> QED
    BY <2>1, SumOfSame
<1>7. /\ IsFiniteSet(Permits(A, needs)) /\ SumOf(A, needs) \in Nat
      /\ SumOf(R, needs) \in Nat
      /\ SumOf(F, needs) = SumOf(A, needs) + SumOf(R, needs)
  <2> HIDE DEF A, R, F
  <2>1. /\ IsFiniteSet(Permits(A, needs)) /\ SumOf(A, needs) \in Nat
        /\ IsFiniteSet(Permits(R, needs)) /\ SumOf(R, needs) \in Nat
    BY <1>1, <1>3, SumOfSome
  <2>2. SumOf(A \cup R, needs) = SumOf(A, needs) + SumOf(R, needs)
    BY <1>3, <2>1, SumOfBoth
  <2> QED
    BY <1>3, <2>1, <2>2
<1>8. ASSUME NEW q \in A
      PROVE  Owned'[q] = needs[q] /\ Kept[q] = 0
  <2>1. /\ q \in Tasks /\ pc'[q] # "idle" /\ held'[q] = 0
        /\ promise'[q] = "resolved" /\ promise[q] = "pending"
    BY <1>2
  <2>2. need'[q] = needs[q] /\ needs[q] \in Nat
    BY <2>1 DEF ServeStep
  <2> QED
    BY <2>1, <2>2 DEF Owned, Kept, Granted
<1>9. ASSUME NEW q \in rest
      PROVE  Owned'[q] = Kept[q]
  <2>1. promise'[q] = promise[q]
    BY ServeFacts
  <2>2. /\ q \in new => pc[q] = "idle"
        /\ pc'[q] = "idle" <=> pc[q] = "idle" /\ q \notin new
        /\ q \notin new => need'[q] = need[q]
    BY DEF ServeStep
  <2>3. pc[q] = "idle" => promise[q] # "resolved"
    BY DEF CallInv
  <2>4. Granted(q)' <=> pc'[q] # "idle" /\ promise'[q] = "resolved"
    BY DEF Granted
  <2>5. Granted(q) <=> pc[q] # "idle" /\ promise[q] = "resolved"
    BY DEF Granted
  <2>6. (Granted(q)' <=> Granted(q)) /\ (Granted(q) => need'[q] = need[q])
    BY <2>1, <2>2, <2>3, <2>4, <2>5
  <2>7. /\ Owned'[q] = held'[q] + (IF Granted(q)' THEN need'[q] ELSE 0)
        /\ Kept[q] = held'[q] + (IF Granted(q) THEN need[q] ELSE 0)
    BY DEF Owned, Kept
  <2> QED
    BY <2>6, <2>7
<1>10. SumOf(A, Owned') = SumOf(A, needs) /\ IsFiniteSet(Permits(A, Owned'))
  <2> HIDE DEF A
  <2> QED
    BY <1>7, <1>8, SumOfSame
<1>11. SumOf(A, Kept) = 0 /\ IsFiniteSet(Permits(A, Kept))
  <2> HIDE DEF A
  <2> QED
    BY <1>8, SumOfNone
<1>12. /\ SumOf(rest, Owned') = SumOf(rest, Kept) /\ SumOf(rest, Kept) \in Nat
       /\ IsFiniteSet(Permits(rest, Kept)) /\ IsFiniteSet(Permits(rest, Owned'))
  <2>1. rest \subseteq Tasks /\ IsFiniteSet(Permits(Tasks, Kept))
    BY DEF ServeStep
  <2> HIDE DEF rest
  <2>2. SumOf(rest, Kept) \in Nat /\ IsFiniteSet(Permits(rest, Kept))
    BY <2>1, SumOfSome
  <2>3. /\ Permits(rest, Owned') = Permits(rest, Kept)
        /\ SumOf(rest, Owned') = SumOf(rest, Kept)
    BY <1>9, SumOfSame
  <2> QED
    BY <2>2, <2>3
<1>13. /\ SumOf(Tasks, Owned') = SumOf(A, needs) + SumOf(rest, Kept)
       /\ IsFiniteSet(Permits(Tasks, Owned'))
       /\ SumOf(Tasks, Kept) = SumOf(rest, Kept)
  <2>1. A \cup rest = Tasks /\ A \cap rest = {}
    BY <1>3
  <2> HIDE DEF A, rest
  <2>2. /\ IsFiniteSet(Permits(A \cup rest, Owned'))
        /\ SumOf(A \cup rest, Owned') = SumOf(A, Owned') + SumOf(rest, Owned')
    <3> DEFINE owned == Owned'
    <3>1. IsFiniteSet(Permits(A, owned)) /\ IsFiniteSet(Permits(rest, owned))
      BY <1>10, <1>12
    <3> HIDE DEF owned
    <3>2. /\ IsFiniteSet(Permits(A \cup rest, owned))
          /\ SumOf(A \cup rest, owned) = SumOf(A, owned) + SumOf(rest, owned)
      BY <2>1, <3>1, SumOfBoth
    <3> QED
      BY <3>2 DEF owned
  <2>3. SumOf(A \cup rest, Kept) = SumOf(A, Kept) + SumOf(rest, Kept)
    BY <1>11, <1>12, <2>1, SumOfBoth
  <2> QED
    BY <1>10, <1>11, <1>12, <2>1, <2>2, <2>3
<1> HIDE DEF A, R, F, rest
<1>14. lost \in Nat /\ lost' \in Nat
  BY <1>5, <1>6, <1>7 DEF TypeOK
<1>15. issued' = value' + lost' + SumOf(Tasks, Owned')
  <2>1. issued' = permits + lost + SumOf(Tasks, Kept)
    BY DEF ServeStep
  <2> QED
    BY <1>1, <1>5, <1>6, <1>7, <1>12, <1>13, <1>14, <2>1
<1> QED
  BY <1>13, <1>14, <1>15 DEF OwnedInv, PermitsConserved, SumOf, Permits

\* A run starts and leaves a call waiting for more permits only, or the next
\* run will look.
Looked(list, needs, n) ==
    \/ /\ run # "running" /\ run' = "running" /\ ~queued'
       /\ n < Len(list) => value' < needs[list[n + 1]]
    \/ /\ run # "none" /\ run' = run /\ queued'

\* A step that has the queue served, or asks for it, keeps the invariant.
LEMMA ServeKeeps ==
    ASSUME IInv, NEW new, NEW list, NEW permits, NEW needs, NEW n,
           ServeStep(new, list, permits, needs, n),
           Looked(list, needs, n), queued' \in BOOLEAN
    PROVE  IInv'
<1> USE DEF IInv
<1>1. CallInv'
  BY ServeCalls
<1>2. AheadInv' /\ ahead' \in [Tasks -> SUBSET Tasks]
  BY ServeAhead
<1>3. OwnedInv' /\ lost' \in Nat
  BY ServeOwned
<1>4. RunInv'
  BY DEF Looked, RunInv
<1>5. IdleInv'
  <2> SUFFICES ASSUME ~queued', pending' # <<>>
               PROVE  value' < need'[Head(pending')]
    BY DEF IdleInv
  <2>1. n < Len(list) => value' < needs[list[n + 1]]
    BY DEF Looked
  <2>2. /\ list \in Seq(Tasks) /\ n \in 0..Len(list) /\ need' = needs
        /\ pending' = SubSeq(list, n + 1, Len(list))
    BY DEF ServeStep, Serves
  <2>3. n < Len(list) /\ Head(pending') = list[n + 1]
    BY <2>2, LenProperties
  <2> QED
    BY <2>1, <2>2, <2>3
<1>6. TypeOK'
  <2>1. /\ pending' \in Seq(Tasks) /\ Distinct(pending')
        /\ promise' \in [Tasks -> {"pending", "resolved", "rejected"}]
        /\ value' \in 0..MaxValue
    BY ServeFacts
  <2>2. need' \in [Tasks -> Nat] /\ pc' \in [Tasks -> PC]
    BY DEF ServeStep
  <2>3. run' \in {"none", "running", "resolved"}
    BY DEF Looked, TypeOK, SemTypeOK
  <2>4. SemTypeOK'
    BY <2>1, <2>2, <2>3 DEF SemTypeOK, Distinct
  <2>5. held' \in [Tasks -> Counts \cup {0}] /\ issued' \in Nat /\ barged' \subseteq Tasks
    BY DEF ServeStep, TypeOK
  <2>6. skipped' \in BOOLEAN
    BY DEF ServeStep, Remember, TypeOK
  <2> QED
    BY <1>2, <1>3, <2>4, <2>5, <2>6 DEF TypeOK
<1> QED
  BY <1>1, <1>2, <1>3, <1>4, <1>5, <1>6

-----------------------------------------------------------------------------
\* The permits owned do not change when no task's do.
LEMMA KeptIsOwned ==
    ASSUME OwnedInv, held' = held
    PROVE  IsFiniteSet(Permits(Tasks, Kept)) /\ SumOf(Tasks, Kept) = SumOf(Tasks, Owned)
<1>1. Kept = Owned
  BY DEF Kept, Owned
<1> QED
  BY <1>1 DEF OwnedInv

\* acquire(): the call is put behind the queue, which is served or will be.
LEMMA TakeKeeps ==
    ASSUME IInv, NEW p \in Tasks, NEW count \in Counts, Take(p, count), Remember
    PROVE  IInv'
<1> USE DEF IInv
<1> DEFINE list == Append(pending, p)
           needs == [need EXCEPT ![p] = count]
<1>1. /\ held[p] = 0 /\ pc[p] = "idle" /\ need' = needs
      /\ pc' = [pc EXCEPT ![p] = IF run = "none" THEN "current" ELSE "next"]
      /\ RequestRun(list, value, needs, promise)
      /\ held' = held /\ barged' = barged /\ issued' = issued
  BY DEF Take, Acquire
<1>2. /\ need \in [Tasks -> Nat] /\ needs \in [Tasks -> Nat]
      /\ value \in 0..MaxValue /\ value \in Nat
      /\ promise \in [Tasks -> {"pending", "resolved", "rejected"}]
      /\ pending \in Seq(Tasks) /\ Distinct(pending)
      /\ pc \in [Tasks -> PC]
      /\ held \in [Tasks -> Counts \cup {0}] /\ issued \in Nat
  BY CountAssumption, ValueAssumption DEF TypeOK, SemTypeOK
<1>3. ~On(pending, p)
  BY <1>1 DEF CallInv
<1>4. /\ list \in Seq(Tasks) /\ Distinct(list)
      /\ \A q : On(list, q) <=> On(pending, q) \/ q = p
      /\ \A q : q # p => Before(list, q, p)
      /\ \A a, b : Before(pending, a, b) /\ a # p => Before(list, a, b)
  BY <1>2, <1>3, PushFacts
<1> HIDE DEF list
<1>5. PICK n \in 0..Len(list) :
              /\ Serves(list, value, needs, n)
              /\ \/ /\ run = "none" /\ run' = "running" /\ ~queued'
                    /\ n < Len(list) => value' < needs[list[n + 1]]
                 \/ run # "none" /\ run' = run /\ queued'
  <2> HIDE DEF needs
  <2> QED
    BY <1>1, <1>2, <1>4, RequestServes
<1>6. pc' \in [Tasks -> PC] /\ \A q \in Tasks : pc'[q] = "idle" <=> pc[q] = "idle" /\ q # p
  BY <1>1, <1>2 DEF PC
<1>7. barged' = {q \in barged : held'[q] > 0}
  BY <1>1 DEF CallInv, TypeOK
<1>8. /\ issued' = value + lost + SumOf(Tasks, Kept)
      /\ IsFiniteSet(Permits(Tasks, Kept))
  BY <1>1, KeptIsOwned DEF OwnedInv, PermitsConserved
<1>9. \A q \in Tasks : IF q = p THEN needs[q] \in Counts ELSE needs[q] = need[q]
  BY <1>2
<1> HIDE DEF needs
<1>10. ServeStep({p}, list, value, needs, n)
  BY <1>1, <1>2, <1>4, <1>5, <1>6, <1>7, <1>8, <1>9 DEF ServeStep
<1>11. Looked(list, needs, n) /\ queued' \in BOOLEAN
  BY <1>1, <1>5 DEF Looked, RequestRun
<1> QED
  BY <1>10, <1>11, ServeKeeps

(***************************************************************************)
(* What release() of permits does, however many tasks own fewer then.      *)
(***************************************************************************)
LEMMA ReleaseKeeps ==
    ASSUME IInv, NEW count \in Nat, Release(count), Remember,
           held' \in [Tasks -> Counts \cup {0}],
           \A q \in Tasks : held'[q] = held[q] \/ held'[q] = 0,
           barged' = {q \in barged : held'[q] > 0},
           issued' \in Nat, issued' = value + count + lost + SumOf(Tasks, Kept),
           IsFiniteSet(Permits(Tasks, Kept))
    PROVE  IInv'
<1> USE DEF IInv
<1>1. /\ value + count <= MaxValue
      /\ RequestRun(pending, value + count, need, promise)
      /\ need' = need /\ pc' = pc
  BY DEF Release
<1>2. /\ need \in [Tasks -> Nat]
      /\ value + count \in 0..MaxValue /\ value + count \in Nat
      /\ promise \in [Tasks -> {"pending", "resolved", "rejected"}]
      /\ pending \in Seq(Tasks) /\ Distinct(pending)
      /\ pc \in [Tasks -> PC]
  BY <1>1, ValueAssumption DEF TypeOK, SemTypeOK
<1>3. PICK n \in 0..Len(pending) :
              /\ Serves(pending, value + count, need, n)
              /\ \/ /\ run = "none" /\ run' = "running" /\ ~queued'
                    /\ n < Len(pending) => value' < need[pending[n + 1]]
                 \/ run # "none" /\ run' = run /\ queued'
  BY <1>1, <1>2, RequestServes
<1>4. ServeStep({}, pending, value + count, need, n)
  BY <1>1, <1>2, <1>3 DEF ServeStep
<1>5. Looked(pending, need, n) /\ queued' \in BOOLEAN
  BY <1>1, <1>3 DEF Looked, RequestRun
<1> QED
  BY <1>4, <1>5, ServeKeeps

\* release() of what a task holds: its permits become available.
LEMMA GiveBackKeeps ==
    ASSUME IInv, NEW p \in Tasks, GiveBack(p), Remember
    PROVE  IInv'
<1> USE DEF IInv
<1>1. /\ held[p] > 0 /\ Release(held[p]) /\ held' = [held EXCEPT ![p] = 0]
      /\ barged' = barged \ {p} /\ issued' = issued
  BY DEF GiveBack
<1>2. /\ held \in [Tasks -> Counts \cup {0}] /\ held[p] \in Nat
      /\ held' \in [Tasks -> Counts \cup {0}]
      /\ \A q \in Tasks : held'[q] = IF q = p THEN 0 ELSE held[q]
  <2>1. held \in [Tasks -> Counts \cup {0}]
    BY DEF TypeOK
  <2>2. held[p] \in Counts \cup {0} /\ Counts \cup {0} \subseteq Nat
    BY <2>1, CountAssumption
  <2>3. held[p] \in Nat
    BY <2>2
  <2> QED
    BY <1>1, <2>1, <2>3
<1>3. barged' = {q \in barged : held'[q] > 0}
  BY <1>1, <1>2 DEF CallInv, TypeOK
<1>4. ~Granted(p)
  BY <1>1 DEF CallInv, Granted
<1>5. Owned[p] = held[p] /\ Kept[p] = 0 /\ \A q \in Tasks \ {p} : Owned[q] = Kept[q]
  BY <1>2, <1>4 DEF Owned, Kept
<1>6. /\ IsFiniteSet(Permits(Tasks, Kept))
      /\ SumOf(Tasks, Kept) = SumOf(Tasks, Owned) - held[p]
  <2>1. IsFiniteSet(Permits(Tasks, Owned)) /\ SumOf(Tasks, Owned) \in Nat
    BY SumOfSome DEF OwnedInv
  <2>2. /\ IsFiniteSet(Permits(Tasks, Kept))
        /\ SumOf(Tasks, Kept) = SumOf(Tasks, Owned) - Owned[p] + Kept[p]
    BY <1>2, <1>5, <2>1, SumOfChange
  <2> QED
    BY <1>2, <1>5, <2>1, <2>2
<1>7. issued' \in Nat /\ issued' = value + held[p] + lost + SumOf(Tasks, Kept)
  <2>1. SumOf(Tasks, Owned) \in Nat
    BY SumOfSome DEF OwnedInv
  <2>2. value \in Nat /\ lost \in Nat /\ issued \in Nat
    BY ValueAssumption DEF TypeOK, SemTypeOK
  <2> QED
    BY <1>1, <1>2, <1>6, <2>1, <2>2 DEF OwnedInv, PermitsConserved
<1> QED
  BY <1>1, <1>2, <1>3, <1>6, <1>7, ReleaseKeeps

\* release() of permits nobody acquired: there are so many more.
LEMMA PostKeeps ==
    ASSUME IInv, NEW count \in Posts, Post(count), Remember
    PROVE  IInv'
<1> USE DEF IInv
<1>1. /\ Release(count) /\ issued' = issued + count /\ held' = held /\ barged' = barged
  BY DEF Post
<1>2. /\ held' \in [Tasks -> Counts \cup {0}] /\ count \in Nat
      /\ value \in Nat /\ lost \in Nat /\ issued \in Nat
  BY <1>1, CountAssumption, ValueAssumption DEF TypeOK, SemTypeOK
<1>3. barged' = {q \in barged : held'[q] > 0}
  BY <1>1 DEF CallInv, TypeOK
<1>4. /\ IsFiniteSet(Permits(Tasks, Kept)) /\ SumOf(Tasks, Kept) = SumOf(Tasks, Owned)
      /\ SumOf(Tasks, Owned) \in Nat
  BY <1>1, KeptIsOwned, SumOfSome DEF OwnedInv
<1>5. issued' \in Nat /\ issued' = value + count + lost + SumOf(Tasks, Kept)
  BY <1>1, <1>2, <1>4 DEF OwnedInv, PermitsConserved
<1> QED
  BY <1>1, <1>2, <1>3, <1>4, <1>5, ReleaseKeeps

\* A step in which no call of the queue is served takes no permit away.
LEMMA NothingLost ==
    ASSUME TypeOK, Remember,
           \A q \in Tasks : On(pending, q) /\ ~On(pending', q) => pc'[q] = "idle"
    PROVE  lost' = lost
<1> DEFINE L == {q \in Tasks : Served(q) /\ promise[q] = "rejected" /\ pc'[q] # "idle"}
<1>1. L = {}
  BY ContainsIsOn DEF Served
<1>2. SumOf(L, need) = 0
  BY <1>1, SumOfNone
<1>3. lost' = lost + SumOf(L, need)
  BY DEF Remember
<1> QED
  BY <1>2, <1>3 DEF TypeOK

\* A step that leaves the queue and the calls alone keeps the invariant.
LEMMA QuietKeeps ==
    ASSUME IInv, Remember,
           UNCHANGED <<value, pending, need, promise, held, barged, issued>>,
           pc' \in [Tasks -> PC],
           \A q \in Tasks : pc'[q] = "idle" <=> pc[q] = "idle",
           run' \in {"none", "running", "resolved"},
           run # "running" => run' # "running",
           queued' = queued, run' = "none" => ~queued'
    PROVE  IInv'
<1> USE DEF IInv
<1>1. lost' = lost
  BY NothingLost
<1>2. ahead' = [q \in Tasks |->
          IF pc'[q] = "idle" /\ held'[q] = 0 THEN {}
          ELSE (IF pc[q] = "idle" /\ held[q] = 0 THEN Waiting ELSE ahead[q])
               \cap Waiting']
  BY DEF Remember
<1>3. Waiting' = Waiting /\ Waiting \subseteq Tasks
  BY DEF Waiting
<1>4. ahead' \in [Tasks -> SUBSET Tasks] /\ \A q \in Tasks : ahead'[q] \subseteq ahead[q]
  BY <1>2, <1>3 DEF TypeOK
<1>5. CallInv'
  BY DEF CallInv, On
<1>6. RunInv'
  BY DEF RunInv
<1>7. IdleInv'
  <2> SUFFICES ASSUME ~queued', pending' # <<>>, ~skipped'
               PROVE  value' < need'[Head(pending')] \/ promise'[Head(pending')] = "rejected"
    BY DEF IdleInv
  <2>1. ~skipped
    BY DEF Remember
  <2> QED
    BY <2>1 DEF IdleInv
<1>8. AheadInv'
  <2> SUFFICES ASSUME NEW p \in Tasks
               PROVE  /\ ahead'[p] \subseteq Waiting'
                      /\ p \in Waiting' => \A q \in ahead'[p] : Before(pending', q, p)
                      /\ Has(p)' /\ p \notin barged' => ahead'[p] = {}
    BY DEF AheadInv
  <2>1. /\ ahead[p] \subseteq Waiting
        /\ p \in Waiting => \A q \in ahead[p] : Before(pending, q, p)
        /\ Has(p) /\ p \notin barged => ahead[p] = {}
    BY DEF AheadInv
  <2>2. Has(p)' => Has(p)
    BY DEF Has, Granted
  <2> QED
    BY <1>3, <1>4, <2>1, <2>2 DEF Before
<1>9. OwnedInv'
  <2>1. Owned' = Owned
    BY DEF Owned, Granted
  <2> QED
    BY <1>1, <2>1 DEF OwnedInv, PermitsConserved, SumOf, Permits
<1>10. TypeOK'
  <2>1. skipped' \in BOOLEAN
    BY DEF Remember, TypeOK
  <2> QED
    BY <1>1, <1>4, <2>1 DEF TypeOK, SemTypeOK, Distinct
<1> QED
  BY <1>5, <1>6, <1>7, <1>8, <1>9, <1>10

\* A run is over: the next one serves the queue if it was asked for.
LEMMA RunEndsKeeps ==
    ASSUME IInv, RunEnds, UNCHANGED <<held, barged, issued>>, Remember
    PROVE  IInv'
<1> USE DEF IInv
<1>1. /\ need \in [Tasks -> Nat] /\ need' = need
      /\ value \in 0..MaxValue /\ value \in Nat
      /\ promise \in [Tasks -> {"pending", "resolved", "rejected"}]
      /\ pending \in Seq(Tasks) /\ Distinct(pending)
      /\ pc \in [Tasks -> PC]
      /\ held \in [Tasks -> Counts \cup {0}] /\ issued \in Nat
      /\ run = "resolved" /\ queued' = FALSE
  BY ValueAssumption DEF TypeOK, SemTypeOK, RunEnds
<1>2. CASE queued
  <2>1. /\ run' = "running"
        /\ HandlePendingAcquisitions(pending, value, need, promise)
        /\ pc' = [q \in Tasks |-> IF pc[q] = "next" THEN "current" ELSE pc[q]]
    BY <1>2 DEF RunEnds
  <2>2. PICK n \in 0..Len(pending) :
              /\ Serves(pending, value, need, n)
              /\ n < Len(pending) => value' < need[pending[n + 1]]
    BY <1>1, <2>1, HandlerServes
  <2>3. pc' \in [Tasks -> PC] /\ \A q \in Tasks : pc'[q] = "idle" <=> pc[q] = "idle"
    BY <1>1, <2>1 DEF PC
  <2>4. barged' = {q \in barged : held'[q] > 0}
    BY DEF CallInv, TypeOK
  <2>5. /\ issued' = value + lost + SumOf(Tasks, Kept)
        /\ IsFiniteSet(Permits(Tasks, Kept))
    BY KeptIsOwned DEF OwnedInv, PermitsConserved
  <2>6. ServeStep({}, pending, value, need, n)
    BY <1>1, <2>2, <2>3, <2>4, <2>5 DEF ServeStep
  <2>7. Looked(pending, need, n) /\ queued' \in BOOLEAN
    BY <1>1, <2>1, <2>2 DEF Looked
  <2> QED
    BY <2>6, <2>7, ServeKeeps
<1>3. CASE ~queued
  <2>1. /\ run' = "none" /\ ~queued'
        /\ UNCHANGED <<value, pending, need, promise, pc, held, barged, issued>>
    BY <1>1, <1>3 DEF RunEnds
  <2>2. queued' = queued
    BY <1>3, <2>1 DEF RunEnds, TypeOK, SemTypeOK
  <2>3. /\ pc' \in [Tasks -> PC] /\ run' \in {"none", "running", "resolved"}
        /\ \A q \in Tasks : pc'[q] = "idle" <=> pc[q] = "idle"
        /\ run # "running" => run' # "running"
        /\ run' = "none" => ~queued'
    BY <1>1, <2>1
  <2> QED
    BY <2>1, <2>2, <2>3, QuietKeeps
<1> QED
  BY <1>2, <1>3

\* The promise of a run is resolved: nobody's permits change.
LEMMA RunResolvesKeeps ==
    ASSUME IInv, RunResolves, UNCHANGED <<held, barged, issued>>, Remember
    PROVE  IInv'
<1>1. /\ run = "running" /\ run' = "resolved" /\ queued' = queued
      /\ UNCHANGED <<value, pending, need, promise, held, barged, issued>>
      /\ pc' = [q \in Tasks |-> IF pc[q] = "current" THEN "deferred" ELSE pc[q]]
  BY DEF RunResolves
<1>2. pc' \in [Tasks -> PC] /\ \A q \in Tasks : pc'[q] = "idle" <=> pc[q] = "idle"
  BY <1>1 DEF PC, IInv, TypeOK, SemTypeOK
<1> QED
  BY <1>1, <1>2, QuietKeeps

(***************************************************************************)
(* A step in which the tasks that wait, and the queue for those of them,   *)
(* stay or become fewer, and nobody but with tryAcquire() gets permits.    *)
(***************************************************************************)
LEMMA FewerKeepOrder ==
    ASSUME AheadInv, ahead \in [Tasks -> SUBSET Tasks], Remember,
           Waiting' \subseteq Waiting,
           \A a, b \in Tasks : Before(pending, a, b) => Before(pending', a, b),
           \A q \in Tasks : Has(q)' /\ q \notin barged'
               => \/ Has(q) /\ q \notin barged /\ ~(pc[q] = "idle" /\ held[q] = 0)
                  \/ pc'[q] = "idle" /\ held'[q] = 0
    PROVE  AheadInv' /\ ahead' \in [Tasks -> SUBSET Tasks]
<1>1. ahead' = [q \in Tasks |->
          IF pc'[q] = "idle" /\ held'[q] = 0 THEN {}
          ELSE (IF pc[q] = "idle" /\ held[q] = 0 THEN Waiting ELSE ahead[q])
               \cap Waiting']
  BY DEF Remember
<1>2. Waiting \subseteq Tasks
  BY DEF Waiting
<1>3. ahead' \in [Tasks -> SUBSET Tasks] /\ \A q \in Tasks : ahead'[q] \subseteq Waiting'
  BY <1>1, <1>2
<1>4. ASSUME NEW p \in Tasks, p \in Waiting', NEW q \in ahead'[p]
      PROVE  Before(pending', q, p)
  <2>1. p \in Waiting /\ pc[p] # "idle"
    BY <1>4 DEF Waiting
  <2>2. q \in ahead[p] /\ q \in Tasks
    BY <1>1, <1>2, <1>4, <2>1
  <2> QED
    BY <2>1, <2>2 DEF AheadInv
<1>5. ASSUME NEW p \in Tasks, Has(p)', p \notin barged'
      PROVE  ahead'[p] = {}
  <2>1. Has(p) /\ p \notin barged => ahead[p] = {}
    BY DEF AheadInv
  <2> QED
    BY <1>1, <1>5, <2>1
<1> QED
  BY <1>3, <1>4, <1>5 DEF AheadInv

\* tryAcquire(): the permits change hands, and no call waits for it.
LEMMA TryTakeKeeps ==
    ASSUME IInv, NEW p \in Tasks, NEW count \in Counts, TryTake(p, count), Remember
    PROVE  IInv'
<1> USE DEF IInv
<1>1. /\ pc[p] = "idle" /\ held[p] = 0 /\ value >= count
      /\ value' = value - count /\ held' = [held EXCEPT ![p] = count]
      /\ barged' = barged \cup {p}
      /\ UNCHANGED <<pending, need, promise, pc, run, queued, issued>>
  BY DEF TryTake, TryAcquire
<1>2. lost' = lost
  BY <1>1, NothingLost
<1>3. count \in Nat /\ count > 0 /\ value \in Nat /\ MaxValue \in Nat
  BY CountAssumption, ValueAssumption DEF TypeOK, SemTypeOK
<1>4. held' \in [Tasks -> Counts \cup {0}] /\ \A q \in Tasks : held'[q] = IF q = p THEN count ELSE held[q]
  BY <1>1 DEF TypeOK
<1>5. CallInv'
  BY <1>1, <1>3, <1>4 DEF CallInv, On
<1>6. AheadInv' /\ ahead' \in [Tasks -> SUBSET Tasks]
  <2>1. Waiting' = Waiting
    BY <1>1 DEF Waiting
  <2>2. \A a, b \in Tasks : Before(pending, a, b) => Before(pending', a, b)
    BY <1>1 DEF Before
  <2>3. ASSUME NEW q \in Tasks, Has(q)', q \notin barged'
        PROVE  Has(q) /\ q \notin barged /\ ~(pc[q] = "idle" /\ held[q] = 0)
    <3>1. q # p /\ q \notin barged
      BY <1>1, <2>3
    <3>2. Has(q) /\ ~(pc[q] = "idle" /\ held[q] = 0)
      BY <1>1, <1>4, <2>3, <3>1 DEF Has, Granted
    <3> QED
      BY <3>1, <3>2
  <2> QED
    BY <2>1, <2>2, <2>3, FewerKeepOrder DEF TypeOK
<1>7. RunInv' /\ IdleInv'
  <2>1. ~skipped' => ~skipped
    BY <1>1 DEF Remember
  <2>2. RunInv'
    BY <1>1 DEF RunInv
  <2>3. pending # <<>> => need[Head(pending)] \in Nat
    BY DEF TypeOK, SemTypeOK
  <2> QED
    BY <1>1, <1>3, <2>1, <2>2, <2>3 DEF IdleInv
<1>8. OwnedInv'
  <2>1. ~Granted(p) /\ \A q \in Tasks : Granted(q)' <=> Granted(q)
    BY <1>1 DEF Granted, CallInv
  <2>2. Owned[p] = 0 /\ Owned'[p] = count /\ \A q \in Tasks \ {p} : Owned[q] = Owned'[q]
    BY <1>1, <1>3, <1>4, <2>1 DEF Owned
  <2>3. IsFiniteSet(Permits(Tasks, Owned)) /\ SumOf(Tasks, Owned) \in Nat
    BY SumOfSome DEF OwnedInv
  <2> DEFINE owned == Owned'
  <2>4. owned[p] = count /\ \A q \in Tasks \ {p} : Owned[q] = owned[q]
    BY <2>2
  <2> HIDE DEF owned
  <2>5. /\ IsFiniteSet(Permits(Tasks, owned))
        /\ SumOf(Tasks, owned) = SumOf(Tasks, Owned) - Owned[p] + owned[p]
    BY <1>3, <2>2, <2>3, <2>4, SumOfChange
  <2>6. issued = value + lost + SumOf(Tasks, Owned) /\ lost \in Nat
    BY DEF OwnedInv, PermitsConserved, TypeOK
  <2>7. issued' = value' + lost' + SumOf(Tasks, owned)
    BY <1>1, <1>2, <1>3, <2>2, <2>3, <2>4, <2>5, <2>6
  <2> QED
    BY <2>5, <2>7 DEF OwnedInv, PermitsConserved, SumOf, Permits, owned
<1>9. TypeOK'
  <2>1. skipped' \in BOOLEAN
    BY DEF Remember, TypeOK
  <2>2. value' \in 0..MaxValue
    BY <1>1, <1>3 DEF TypeOK, SemTypeOK
  <2> QED
    BY <1>1, <1>2, <1>4, <1>6, <2>1, <2>2 DEF TypeOK, SemTypeOK, Distinct
<1> QED
  BY <1>5, <1>6, <1>7, <1>8, <1>9

\* A signal aborts: the call stays in the queue, and waits no more.
LEMMA AbortKeeps ==
    ASSUME IInv, NEW p \in Tasks, Abort(p), Remember
    PROVE  IInv'
<1> USE DEF IInv
<1>1. /\ pc[p] # "idle" /\ promise[p] = "pending"
      /\ promise' = [promise EXCEPT ![p] = "rejected"]
      /\ UNCHANGED <<value, pending, need, pc, run, queued, held, barged, issued>>
  BY DEF Abort, AbortAcquire
<1>2. lost' = lost
  BY <1>1, NothingLost
<1>3. /\ promise' \in [Tasks -> {"pending", "resolved", "rejected"}]
      /\ \A q \in Tasks : promise'[q] = IF q = p THEN "rejected" ELSE promise[q]
  BY <1>1 DEF TypeOK, SemTypeOK
<1>4. CallInv'
  BY <1>1, <1>3 DEF CallInv, On
<1>5. \A q \in Tasks : Granted(q)' <=> Granted(q)
  BY <1>1, <1>3 DEF Granted
<1>6. AheadInv' /\ ahead' \in [Tasks -> SUBSET Tasks]
  <2>1. Waiting' \subseteq Waiting
    BY <1>1, <1>3 DEF Waiting
  <2>2. \A a, b \in Tasks : Before(pending, a, b) => Before(pending', a, b)
    BY <1>1 DEF Before
  <2>3. ASSUME NEW q \in Tasks, Has(q)', q \notin barged'
        PROVE  Has(q) /\ q \notin barged /\ ~(pc[q] = "idle" /\ held[q] = 0)
    BY <1>1, <1>5, <2>3 DEF Has, Granted
  <2> QED
    BY <2>1, <2>2, <2>3, FewerKeepOrder DEF TypeOK
<1>7. RunInv' /\ IdleInv'
  <2>1. ~skipped' => ~skipped
    BY <1>1 DEF Remember
  <2>2. RunInv'
    BY <1>1 DEF RunInv
  <2>3. pending # <<>> => Head(pending) \in Tasks
    BY DEF TypeOK, SemTypeOK
  <2> QED
    BY <1>1, <1>3, <2>1, <2>2, <2>3 DEF IdleInv
<1>8. OwnedInv'
  <2>1. Owned' = Owned
    BY <1>1, <1>5 DEF Owned
  <2> QED
    BY <1>1, <1>2, <2>1 DEF OwnedInv, PermitsConserved, SumOf, Permits
<1>9. TypeOK'
  <2>1. skipped' \in BOOLEAN
    BY DEF Remember, TypeOK
  <2> QED
    BY <1>1, <1>2, <1>3, <1>6, <2>1 DEF TypeOK, SemTypeOK, Distinct
<1> QED
  BY <1>4, <1>6, <1>7, <1>8, <1>9

\* Of an array, removeSafe of another item keeps the head.
LEMMA RemoveKeepsHead ==
    ASSUME NEW s \in Seq(Tasks), s # <<>>, NEW e, Head(s) # e
    PROVE  Head(RemoveSafe(s, e)) = Head(s)
<1>1. Len(s) \in Nat /\ Len(s) > 0 /\ Head(s) = s[1]
  BY LenProperties
<1>2. ASSUME NEW i \in 1..Len(s), s[i] = e,
             RemoveSafe(s, e) \in Seq(Tasks),
             Len(RemoveSafe(s, e)) = Len(s) - 1,
             \A j \in 1..Len(s) - 1 :
                RemoveSafe(s, e)[j] = IF j < i THEN s[j] ELSE s[j + 1]
      PROVE  Head(RemoveSafe(s, e)) = Head(s)
  <2>1. i > 1 /\ 1 \in 1..Len(s) - 1
    BY <1>1, <1>2
  <2>2. RemoveSafe(s, e)[1] = s[1]
    BY <1>1, <1>2, <2>1
  <2> QED
    BY <1>1, <1>2, <2>1, <2>2
<1> QED
  BY <1>2, RemoveSafeShape

\* acquire() returns or throws: its permits are held, or it never had any.
LEMMA TakeSettlesKeeps ==
    ASSUME IInv, NEW p \in Tasks, TakeSettles(p), Remember
    PROVE  IInv'
<1> USE DEF IInv
<1>1. /\ pc[p] = "deferred" /\ promise[p] # "pending"
      /\ pending' = RemoveSafe(pending, p)
      /\ pc' = [pc EXCEPT ![p] = "idle"]
      /\ promise' = [promise EXCEPT ![p] = "pending"]
      /\ need' = [need EXCEPT ![p] = 0]
      /\ held' = [held EXCEPT ![p] = IF Granted(p) THEN need[p] ELSE 0]
      /\ UNCHANGED <<value, run, queued, barged, issued>>
  BY DEF TakeSettles, AcquireSettles
<1>2. /\ pending \in Seq(Tasks) /\ Distinct(pending)
      /\ promise \in [Tasks -> {"pending", "resolved", "rejected"}]
      /\ pc \in [Tasks -> PC] /\ need \in [Tasks -> Nat]
      /\ held \in [Tasks -> Counts \cup {0}]
  BY DEF TypeOK, SemTypeOK
<1>3. /\ pending' \in Seq(Tasks) /\ Distinct(pending')
      /\ \A q : On(pending', q) <=> On(pending, q) /\ q # p
      /\ \A a, b : Before(pending, a, b) => Before(pending', a, b)
  BY <1>1, <1>2, RemoveSafeFacts
<1>4. \A q \in Tasks :
          /\ promise'[q] = IF q = p THEN "pending" ELSE promise[q]
          /\ pc'[q] = IF q = p THEN "idle" ELSE pc[q]
          /\ need'[q] = IF q = p THEN 0 ELSE need[q]
          /\ q # p => held'[q] = held[q]
  BY <1>1, <1>2
<1>5. /\ held'[p] = IF promise[p] = "resolved" THEN need[p] ELSE 0
      /\ need[p] \in Counts /\ held[p] = 0
  BY <1>1, <1>2 DEF Granted, CallInv
<1>6. held' \in [Tasks -> Counts \cup {0}]
  BY <1>1, <1>2, <1>5
<1>7. Counts \subseteq Nat \ {0}
  BY CountAssumption
<1>8. lost' = lost
  BY <1>3, <1>4, NothingLost
<1>9. p \notin barged
  BY <1>5, <1>7 DEF CallInv
<1>10. CallInv'
  <2> SUFFICES ASSUME NEW q \in Tasks
               PROVE  /\ pc'[q] = "idle" => promise'[q] = "pending" /\ need'[q] = 0 /\ ~On(pending', q)
                      /\ pc'[q] # "idle" => need'[q] \in Counts /\ held'[q] = 0
                      /\ pc'[q] # "idle" /\ promise'[q] = "pending" => On(pending', q)
                      /\ On(pending', q) => promise'[q] # "resolved"
                      /\ q \in barged' => held'[q] > 0
    BY DEF CallInv
  <2>1. /\ pc[q] = "idle" => promise[q] = "pending" /\ need[q] = 0 /\ ~On(pending, q)
        /\ pc[q] # "idle" => need[q] \in Counts /\ held[q] = 0
        /\ pc[q] # "idle" /\ promise[q] = "pending" => On(pending, q)
        /\ On(pending, q) => promise[q] # "resolved"
        /\ q \in barged => held[q] > 0
    BY DEF CallInv
  <2> QED
    BY <1>1, <1>3, <1>4, <1>9, <2>1
<1>11. AheadInv' /\ ahead' \in [Tasks -> SUBSET Tasks]
  <2>1. Waiting' \subseteq Waiting
    BY <1>4 DEF Waiting
  <2>2. ASSUME NEW q \in Tasks, Has(q)', q \notin barged'
        PROVE  Has(q) /\ q \notin barged /\ ~(pc[q] = "idle" /\ held[q] = 0)
    <3>1. CASE q = p
      <4>1. held'[p] > 0 => promise[p] = "resolved"
        BY <1>5
      <4>2. Has(p)' => held'[p] > 0
        BY <1>4 DEF Has, Granted
      <4> QED
        BY <1>1, <1>9, <2>2, <3>1, <4>1, <4>2 DEF Has, Granted
    <3>2. CASE q # p
      <4>1. held[q] = held'[q] /\ pc[q] = pc'[q] /\ promise[q] = promise'[q]
        BY <1>4, <3>2
      <4> QED
        BY <1>1, <2>2, <4>1 DEF Has, Granted
    <3> QED
      BY <3>1, <3>2
  <2> QED
    BY <1>3, <2>1, <2>2, FewerKeepOrder DEF TypeOK
<1>12. RunInv' /\ IdleInv'
  <2>1. RunInv'
    BY <1>1 DEF RunInv
  <2> SUFFICES ASSUME ~queued', pending' # <<>>, ~skipped'
               PROVE  value' < need'[Head(pending')] \/ promise'[Head(pending')] = "rejected"
    BY <2>1 DEF IdleInv
  <2>2. pending # <<>>
    <3>1. On(pending', pending'[1])
      BY <1>3 DEF On
    <3>2. On(pending, pending'[1])
      BY <1>3, <3>1
    <3> QED
      BY <3>2 DEF On
  <2>3. Head(pending) \in Tasks /\ On(pending, Head(pending))
    BY <1>2, <2>2 DEF On
  <2>4. Head(pending) # p /\ ~skipped
    BY <1>1, <1>4, <2>2, <2>3 DEF Remember
  <2>5. Head(pending') = Head(pending)
    BY <1>1, <1>2, <2>2, <2>4, RemoveKeepsHead
  <2> QED
    BY <1>1, <1>4, <2>2, <2>3, <2>4, <2>5 DEF IdleInv
<1>13. OwnedInv'
  <2>1. ASSUME NEW q \in Tasks
        PROVE  held'[q] + (IF Granted(q)' THEN need'[q] ELSE 0)
                 = held[q] + (IF Granted(q) THEN need[q] ELSE 0)
    <3>1. CASE q = p
      <4>1. ~Granted(q)' /\ (Granted(q) <=> promise[p] = "resolved")
        BY <1>1, <1>4, <3>1 DEF Granted
      <4>2. need[p] \in Nat
        BY <1>2
      <4> QED
        BY <1>5, <3>1, <4>1, <4>2
    <3>2. CASE q # p
      BY <1>4, <3>2 DEF Granted
    <3> QED
      BY <3>1, <3>2
  <2>2. Owned' = Owned
    BY <2>1 DEF Owned
  <2> QED
    BY <1>1, <1>8, <2>2 DEF OwnedInv, PermitsConserved, SumOf, Permits
<1>14. TypeOK'
  <2>1. skipped' \in BOOLEAN
    BY DEF Remember, TypeOK
  <2>2. /\ promise' \in [Tasks -> {"pending", "resolved", "rejected"}]
        /\ pc' \in [Tasks -> PC] /\ need' \in [Tasks -> Nat]
    BY <1>1, <1>2 DEF PC
  <2> QED
    BY <1>1, <1>3, <1>6, <1>8, <1>11, <2>1, <2>2 DEF TypeOK, SemTypeOK, Distinct
<1> QED
  BY <1>10, <1>11, <1>12, <1>13, <1>14

-----------------------------------------------------------------------------
\* At the start everything is available and nobody waits.
LEMMA InitIInv == Init => IInv
<1> SUFFICES ASSUME Init PROVE IInv
  OBVIOUS
<1> USE DEF Init, SemInit
<1>1. TypeOK
  <2>1. pending \in Seq(Tasks) /\ Distinct(pending)
    BY DEF Distinct
  <2>2. value \in 0..MaxValue /\ issued \in Nat
    BY ValueAssumption
  <2> QED
    BY <2>1, <2>2 DEF TypeOK, SemTypeOK, PC
<1>2. CallInv /\ RunInv /\ IdleInv
  BY DEF CallInv, RunInv, IdleInv, On
<1>3. AheadInv
  BY DEF AheadInv, Has, Granted
<1>4. OwnedInv
  <2>1. \A q \in Tasks : Owned[q] = 0
    BY DEF Owned, Granted
  <2>2. IsFiniteSet(Permits(Tasks, Owned)) /\ SumOf(Tasks, Owned) = 0
    BY <2>1, SumOfNone
  <2> QED
    BY <2>2, ValueAssumption DEF OwnedInv, PermitsConserved
<1> QED
  BY <1>1, <1>2, <1>3, <1>4 DEF IInv

\* Nothing happens, and nothing changes.
LEMMA StutterKeeps ==
    ASSUME IInv, UNCHANGED vars
    PROVE  IInv'
<1> USE DEF vars, semVars, history
<1>1. TypeOK'
  BY DEF IInv, TypeOK, SemTypeOK, Distinct
<1>2. CallInv' /\ RunInv' /\ IdleInv'
  BY DEF IInv, CallInv, RunInv, IdleInv, On
<1>3. AheadInv'
  BY DEF IInv, AheadInv, Has, Granted, Waiting, Before
<1>4. OwnedInv'
  <2>1. Owned' = Owned
    BY DEF Owned, Granted
  <2> QED
    BY <2>1 DEF IInv, OwnedInv, PermitsConserved, SumOf, Permits
<1> QED
  BY <1>1, <1>2, <1>3, <1>4 DEF IInv

\* Every step of the tasks and of the event loop keeps the invariant.
LEMMA NextIInv == IInv /\ [Next]_vars => IInv'
<1> SUFFICES ASSUME IInv, [Next]_vars PROVE IInv'
  OBVIOUS
<1>1. CASE UNCHANGED vars
  BY <1>1, StutterKeeps
<1>2. CASE Next
  <2>1. Remember
    BY <1>2 DEF Next
  <2>2. ASSUME NEW p \in Tasks, NEW count \in Counts, TryTake(p, count)
        PROVE  IInv'
    BY <2>1, <2>2, TryTakeKeeps
  <2>3. ASSUME NEW p \in Tasks, NEW count \in Counts, Take(p, count)
        PROVE  IInv'
    BY <2>1, <2>3, TakeKeeps
  <2>4. ASSUME NEW p \in Tasks, TakeSettles(p)
        PROVE  IInv'
    BY <2>1, <2>4, TakeSettlesKeeps
  <2>5. ASSUME NEW p \in Tasks, Abort(p)
        PROVE  IInv'
    BY <2>1, <2>5, AbortKeeps
  <2>6. ASSUME NEW p \in Tasks, GiveBack(p)
        PROVE  IInv'
    BY <2>1, <2>6, GiveBackKeeps
  <2>7. ASSUME NEW count \in Posts, Post(count)
        PROVE  IInv'
    BY <2>1, <2>7, PostKeeps
  <2>8. CASE HandlerRuns
    BY <2>1, <2>8, RunResolvesKeeps, RunEndsKeeps DEF HandlerRuns
  <2> QED
    BY <1>2, <2>2, <2>3, <2>4, <2>5, <2>6, <2>7, <2>8 DEF Next
<1> QED
  BY <1>1, <1>2

(***************************************************************************)
(* No permit is lost but to an aborted call, none is left idle while the   *)
(* first call of the queue could have it, and no call of acquire() is      *)
(* overtaken by another, for any number of tasks and permits and whatever  *)
(* runs of the queue handler, aborts and releases fall together            *)
(* (semaphore.ts).                                                         *)
(***************************************************************************)
THEOREM SemaphoreKeepsOrder == Spec => []PermitsGoInOrder
<1>1. IInv => PermitsGoInOrder
  <2> SUFFICES ASSUME IInv PROVE PermitsGoInOrder
    OBVIOUS
  <2>1. FifoAcquisition
    BY DEF IInv, AheadInv, FifoAcquisition
  <2>2. NoPermitIdle
    BY DEF IInv, RunInv, IdleInv, NoPermitIdle
  <2> QED
    BY <2>1, <2>2 DEF IInv, OwnedInv, PermitsGoInOrder
<1> QED
  BY <1>1, InitIInv, NextIInv, PTL DEF Spec
-----------------------------------------------------------------------------
(***************************************************************************)
(* The queue of data/queue.ts.  What the calls do to its list.             *)
(***************************************************************************)
Increasing(s) == \A i, j \in 1..Len(s) : i < j => s[i] < s[j]

\* No item of a list has to come before one ahead of it, "by" being which have to.
Ordered(s, by) == \A a, b \in 1..Len(s) : a < b => s[b] \notin by[s[a]]

LEMMA ConcatOrdered ==
    ASSUME NEW S, NEW s \in Seq(S), NEW t \in Seq(S), NEW by,
           Ordered(s, by), Ordered(t, by),
           \A x, y : On(s, x) /\ On(t, y) => y \notin by[x]
    PROVE  Ordered(s \o t, by)
<1> DEFINE r == s \o t
<1>1. /\ Len(r) = Len(s) + Len(t) /\ Len(s) \in Nat /\ Len(t) \in Nat
      /\ \A i \in 1..Len(s) : r[i] = s[i]
      /\ \A i \in 1..Len(s) + Len(t) : i > Len(s) => r[i] = t[i - Len(s)]
  BY ConcatKeeps, LenProperties
<1> HIDE DEF r
<1> SUFFICES ASSUME NEW a \in 1..Len(r), NEW b \in 1..Len(r), a < b
             PROVE  r[b] \notin by[r[a]]
  BY DEF Ordered, r
<1>2. ASSUME NEW i \in 1..Len(r)
      PROVE  IF i <= Len(s) THEN i \in 1..Len(s) /\ r[i] = s[i]
             ELSE i - Len(s) \in 1..Len(t) /\ r[i] = t[i - Len(s)]
  BY <1>1
<1>3. CASE b <= Len(s)
  <2>1. a <= Len(s)
    BY <1>1, <1>3
  <2> QED
    BY <1>2, <1>3, <2>1 DEF Ordered
<1>4. CASE a <= Len(s) /\ b > Len(s)
  <2>1. On(s, r[a])
    BY <1>2, <1>4 DEF On
  <2>2. On(t, r[b])
    <3>1. ~(b <= Len(s))
      BY <1>1, <1>4
    <3> QED
      BY <1>2, <3>1 DEF On
  <2> QED
    BY <2>1, <2>2
<1>5. CASE a > Len(s)
  <2>1. ~(a <= Len(s)) /\ ~(b <= Len(s)) /\ a - Len(s) < b - Len(s)
    BY <1>1, <1>5
  <2> QED
    BY <1>2, <2>1 DEF Ordered
<1> QED
  BY <1>1, <1>3, <1>4, <1>5

-----------------------------------------------------------------------------
(***************************************************************************)
(* Where the items are.  A call that is not over has a batch of items that *)
(* have numbers but are not in the list, as many as it asks places for.    *)
(***************************************************************************)
BatchSizes == \A p \in Tasks :
    need[p] = Len(batch[p]) /\ (pc[p] = "idle" => batch[p] = <<>>)

BatchInv ==
    /\ \A p \in Tasks, i \in Numbers : On(batch[p], i) => i <= used /\ ~On(data.chain, i)
    /\ \A p \in Tasks : Increasing(batch[p])
    /\ \A p, q \in Tasks, i \in Numbers : On(batch[p], i) /\ On(batch[q], i) => p = q

\* The count is never less than the chain.
ChainInv ==
    /\ Len(data.chain) <= data.size
    /\ \A i \in Numbers : On(data.chain, i) => i <= used
    /\ LossNeedsShrink

\* What has to come before an item has a smaller number and no batch but its own.
EarlierInv ==
    /\ \A i \in Numbers : before[i] \subseteq 1..(i - 1)
    /\ \A p \in Tasks, i, j \in Numbers :
          i <= used /\ On(batch[p], j) /\ ~On(batch[p], i) => j \notin before[i]

\* A call on the list of the semaphore has no places yet, one that is not under
\* way is not on it.
PlaceCalls == \A p \in Tasks :
    /\ pc[p] = "idle" => promise[p] = "pending" /\ ~On(pending, p)
    /\ On(pending, p) => promise[p] # "resolved"

Grantees == {p \in Tasks : Granted(p)}
PlacesInv == IsFiniteSet(Permits(Grantees, need)) /\ PlacesConserved

ItemsInv == BatchInv /\ ChainInv /\ EarlierInv /\ FifoOrder
QueueInv == QueueTypeOK /\ BatchSizes /\ PlaceCalls /\ PlacesInv /\ ItemsInv

\* What the types of the list and the items are.
ItemTypes ==
    /\ data.size \in Nat /\ data.chain \in Seq(Numbers) /\ Distinct(data.chain)
    /\ start \in [Tasks -> Nat] /\ batch \in [Tasks -> Seq(Numbers)]
    /\ used \in 0..MaxItems /\ present \subseteq Numbers
    /\ before \in [Numbers -> SUBSET Numbers]
    /\ upset \subseteq Event

(***************************************************************************)
(* New items go into the list (linked-list.ts:180, 201).                   *)
(***************************************************************************)
LEMMA NumbersFacts == MaxItems \in Nat /\ \A i \in Numbers : i \in Nat /\ i > 0
BY QueueAssumption DEF Numbers

\* The lemma above, of the new value.
LEMMA InsertedInData ==
    ASSUME data.chain \in Seq(Numbers), Distinct(data.chain), data.size \in Nat,
           Len(data.chain) <= data.size,
           NEW items \in Seq(Numbers), Distinct(items), Apart(data.chain, items),
           NEW index \in Nat, data' = InternalSplice(data, index, 0, items)
    PROVE  /\ data'.chain \in Seq(Numbers) /\ Distinct(data'.chain)
           /\ data'.size = data.size + Len(items)
           /\ Len(data'.chain) <= Len(data.chain) + Len(items)
           /\ \A x : On(data'.chain, x) => On(data.chain, x) \/ On(items, x)
           /\ WellFormed(data) /\ (index <= data.size \/ data.chain = <<>>)
                => /\ Len(data'.chain) = Len(data.chain) + Len(items)
                   /\ \A x : On(data.chain, x) \/ On(items, x) => On(data'.chain, x)
           /\ index >= data.size => data'.chain = data.chain \o items \/ data'.chain = items
<1>1. ItemsPut(Numbers, data, index, items, InternalSplice(data, index, 0, items))
  BY InsertedFacts
<1>2. ItemsPut(Numbers, data, index, items, data')
  BY <1>1, Zenon
<1> QED
  BY <1>2, Zenon DEF ItemsPut

LEMMA FifoIsOrdered ==
    /\ data.chain \in Seq(Numbers)
         => (FifoOrder <=> ("grown" \notin upset => Ordered(data.chain, before)))
    /\ data'.chain \in Seq(Numbers)
         => (FifoOrder' <=> ("grown" \notin upset' => Ordered(data'.chain, before')))
<1>1. ASSUME data.chain \in Seq(Numbers) PROVE DOMAIN data.chain = 1..Len(data.chain)
  BY <1>1, LenProperties
<1>2. ASSUME data'.chain \in Seq(Numbers) PROVE DOMAIN data'.chain = 1..Len(data'.chain)
  BY <1>2, LenProperties
<1> QED
  BY <1>1, <1>2 DEF FifoOrder, Ordered

LEMMA InsertKeeps ==
    ASSUME ItemTypes, ChainInv, EarlierInv, FifoOrder, BatchInv,
           NEW index \in Nat, NEW items \in Seq(Numbers), Insert(index, items),
           Increasing(items),
           \A i \in Numbers : On(items, i) => i <= used' /\ ~On(data.chain, i),
           used' \in 0..MaxItems, used <= used',
           before' \in [Numbers -> SUBSET Numbers],
           \A i \in Numbers : i <= used \/ On(items, i) => before'[i] \subseteq 1..(i - 1),
           \A i \in Numbers : i <= used => before'[i] = before[i],
           \A i, j \in Numbers : On(data.chain, i) /\ On(items, j) => j \notin before[i]
    PROVE  /\ data'.size = data.size + Len(items)
           /\ data'.chain \in Seq(Numbers) /\ Distinct(data'.chain)
           /\ present' \subseteq Numbers /\ upset' \subseteq Event
           /\ \A i \in Numbers : On(data'.chain, i) => On(data.chain, i) \/ On(items, i)
           /\ ChainInv' /\ FifoOrder'
<1> DEFINE c == data.chain
           d == data'.chain
           u == data'
<1> USE DEF ItemTypes
<1>1. Distinct(items)
  <2> SUFFICES ASSUME NEW i \in 1..Len(items), NEW j \in 1..Len(items), items[i] = items[j]
               PROVE  i = j
    BY DEF Distinct
  <2>1. items[i] \in Nat /\ items[j] \in Nat /\ i \in Nat /\ j \in Nat
    <3>1. items[i] \in Numbers /\ items[j] \in Numbers
      OBVIOUS
    <3> QED
      BY <3>1, NumbersFacts
  <2>2. ~(i < j) /\ ~(j < i)
    BY <2>1 DEF Increasing
  <2> QED
    BY <2>1, <2>2
<1>2. Apart(c, items)
  <2> SUFFICES ASSUME NEW x, On(c, x), On(items, x) PROVE FALSE
    BY DEF Apart
  <2>1. x \in Numbers
    BY DEF On
  <2> QED
    BY <2>1
<1>3. u = InternalSplice(data, index, 0, items)
  BY DEF Insert
<1>4. Len(c) <= data.size /\ Len(c) \in Nat /\ Len(items) \in Nat
  BY LenProperties DEF ChainInv
<1>5. /\ d \in Seq(Numbers) /\ Distinct(d)
      /\ u.size = data.size + Len(items)
      /\ Len(d) <= Len(c) + Len(items)
      /\ \A x : On(d, x) => On(c, x) \/ On(items, x)
      /\ WellFormed(data) /\ (index <= data.size \/ c = <<>>)
           => Len(d) = Len(c) + Len(items) /\ \A x : On(c, x) \/ On(items, x) => On(d, x)
      /\ index >= data.size => d = c \o items \/ d = items
  <2>1. /\ data.chain \in Seq(Numbers) /\ Distinct(data.chain) /\ data.size \in Nat
        /\ Len(data.chain) <= data.size /\ Apart(data.chain, items)
    BY <1>2, <1>4
  <2> QED
    BY <1>1, <1>3, <2>1, InsertedInData, Zenon
<1>6. present' = present \cup ToSet(items) /\ \A x : x \in ToSet(items) <=> On(items, x)
  BY ItemsFacts DEF Insert
<1>7. /\ upset \subseteq upset' /\ upset' \subseteq Event
      /\ index < data.size => "grown" \in upset'
      /\ index > data.size /\ c # <<>> => "shrunk" \in upset'
  <2>1. upset' = upset
         \cup (IF index < data.size THEN {"grown"} ELSE {})
         \cup (IF index > data.size /\ data.chain # <<>> THEN {"shrunk"} ELSE {})
    BY DEF Insert
  <2> QED
    BY <2>1, Zenon DEF Event
<1>8. present' \subseteq Numbers
  <2>1. \A x : On(items, x) => x \in Numbers
    BY DEF On
  <2> QED
    BY <1>6, <2>1
<1>9. ChainInv'
  <2>1. Len(d) <= u.size
    BY <1>4, <1>5, LenProperties
  <2>2. \A i \in Numbers : On(d, i) => i <= used'
    <3> SUFFICES ASSUME NEW i \in Numbers, On(d, i) PROVE i <= used'
      OBVIOUS
    <3>1. On(c, i) \/ On(items, i)
      BY <1>5
    <3>2. i \in Nat
      BY DEF Numbers
    <3> QED
      BY <3>1, <3>2 DEF ChainInv
  <2>3. ASSUME "shrunk" \notin upset' PROVE ItemsKept'
    <3>1. "shrunk" \notin upset /\ (index <= data.size \/ c = <<>>)
      BY <1>7, <2>3
    <3>2. present = ToSet(c) /\ WellFormed(data)
      BY <3>1 DEF ChainInv, LossNeedsShrink, ItemsKept
    <3>3. Len(d) = Len(c) + Len(items) /\ \A x : On(c, x) \/ On(items, x) <=> On(d, x)
      BY <1>5, <3>1, <3>2
    <3>4. \A x : (x \in ToSet(c) <=> On(c, x)) /\ (x \in ToSet(d) <=> On(d, x))
      BY <1>5, ItemsFacts
    <3>5. present' = ToSet(d)
      BY <1>6, <3>2, <3>3, <3>4
    <3>6. u.size = Len(d)
      BY <1>4, <1>5, <3>2, <3>3 DEF WellFormed
    <3> QED
      BY <3>5, <3>6 DEF ItemsKept, WellFormed
  <2> QED
    BY <2>1, <2>2, <2>3 DEF ChainInv, LossNeedsShrink
<1>10. FifoOrder'
  <2> SUFFICES ASSUME "grown" \notin upset' PROVE Ordered(d, before')
    BY <1>5, FifoIsOrdered
  <2>1. "grown" \notin upset /\ index >= data.size
    BY <1>7
  <2>2. Ordered(items, before')
    <3> SUFFICES ASSUME NEW i \in 1..Len(items), NEW j \in 1..Len(items), i < j
                 PROVE  items[j] \notin before'[items[i]]
      BY DEF Ordered
    <3>1. items[i] \in Numbers /\ items[j] \in Numbers /\ On(items, items[i])
      BY DEF On
    <3>2. items[i] < items[j] /\ items[i] \in Nat /\ items[j] \in Nat
      BY <3>1, NumbersFacts DEF Increasing
    <3>3. before'[items[i]] \subseteq 1..(items[i] - 1)
      BY <3>1
    <3> QED
      BY <3>2, <3>3
  <2>3. CASE d = items
    BY <2>2, <2>3
  <2>4. CASE d = c \o items
    <3>1. Ordered(c, before)
      BY <2>1, FifoIsOrdered
    <3>2. \A x : On(c, x) => x \in Numbers /\ before'[x] = before[x]
      <4> SUFFICES ASSUME NEW x, On(c, x) PROVE x \in Numbers /\ before'[x] = before[x]
        OBVIOUS
      <4>1. x \in Numbers
        BY DEF On
      <4> QED
        BY <4>1 DEF ChainInv
    <3>3. Ordered(c, before')
      <4> SUFFICES ASSUME NEW i \in 1..Len(c), NEW j \in 1..Len(c), i < j
                   PROVE  c[j] \notin before'[c[i]]
        BY DEF Ordered
      <4>1. before'[c[i]] = before[c[i]]
        BY <3>2 DEF On
      <4> QED
        BY <3>1, <4>1 DEF Ordered
    <3>4. \A x, y : On(c, x) /\ On(items, y) => y \notin before'[x]
      <4> SUFFICES ASSUME NEW x, NEW y, On(c, x), On(items, y) PROVE y \notin before'[x]
        OBVIOUS
      <4>1. y \in Numbers
        BY DEF On
      <4>2. x \in Numbers /\ before'[x] = before[x]
        BY <3>2
      <4>3. y \notin before[x]
        BY <4>1, <4>2
      <4> QED
        BY <4>2, <4>3, Zenon
    <3>5. c \in Seq(Numbers) /\ items \in Seq(Numbers)
      OBVIOUS
    <3>6. Ordered(c \o items, before')
      BY <2>2, <3>3, <3>4, <3>5, ConcatOrdered
    <3> QED
      BY <2>4, <3>6
  <2> QED
    BY <1>5, <2>1, <2>3, <2>4
<1> QED
  BY <1>5, <1>8, <1>7, <1>9, <1>10

-----------------------------------------------------------------------------
(***************************************************************************)
(* The places of the queue.  The calls of the semaphore are served from    *)
(* "list", with "permits" places free: as in ServeStep, without its tasks. *)
(***************************************************************************)
PlaceStep(new, list, permits, needs, n) ==
    /\ list \in Seq(Tasks) /\ Distinct(list)
    /\ \A q \in Tasks : On(list, q) <=> On(pending, q) \/ q \in new
    /\ \A q \in new : q \in Tasks /\ pc[q] = "idle"
    /\ needs \in [Tasks -> Nat] /\ need' = needs
    /\ \A q \in Tasks : q \in new \/ needs[q] = need[q]
    /\ pc' \in [Tasks -> PC]
    /\ \A q \in Tasks : pc'[q] = "idle" <=> pc[q] = "idle" /\ q \notin new
    /\ permits \in 0..MaxValue
    /\ Serves(list, permits, needs, n)
    /\ RememberLost

\* A place that was free goes to a call, or is lost to one that was rejected.
LEMMA PlacesServe ==
    ASSUME SemTypeOK, PlaceCalls, lostPlaces \in Nat, IsFiniteSet(Permits(Grantees, need)),
           NEW new, NEW list, NEW permits, NEW needs, NEW n,
           PlaceStep(new, list, permits, needs, n)
    PROVE  /\ pending' \in Seq(Tasks) /\ Distinct(pending')
           /\ promise' \in [Tasks -> {"pending", "resolved", "rejected"}]
           /\ value' \in 0..MaxValue
           /\ PlaceCalls' /\ lostPlaces' \in Nat
           /\ IsFiniteSet(Permits(Grantees, need)')
           /\ SumOf(Grantees, need) \in Nat /\ SumOf(Grantees, need)' \in Nat
           /\ value' + lostPlaces' + SumOf(Grantees, need)'
                = permits + lostPlaces + SumOf(Grantees, need)
<1> DEFINE F == First(list, n)
           A == {q \in F : promise[q] = "pending"}
           R == {q \in F : promise[q] = "rejected"}
           L == {q \in Tasks : /\ promise[q] = "rejected" /\ pc'[q] # "idle"
                               /\ Contains(pending, q) /\ ~Contains(pending', q)}
<1>1. /\ F \subseteq Tasks /\ IsFiniteSet(Permits(F, needs))
      /\ value' \in 0..MaxValue /\ SumOf(F, needs) \in Nat
      /\ value' + SumOf(F, needs) = permits
      /\ pending' \in Seq(Tasks) /\ Distinct(pending')
      /\ promise' \in [Tasks -> {"pending", "resolved", "rejected"}]
      /\ \A q \in Tasks : On(list, q) <=> q \in F \/ On(pending', q)
      /\ \A q \in Tasks : ~(q \in F /\ On(pending', q))
      /\ \A q \in Tasks :
            promise'[q] = IF q \in F /\ promise[q] = "pending" THEN "resolved" ELSE promise[q]
  BY CutFacts DEF PlaceStep
<1>2. ASSUME NEW q \in Tasks
      PROVE  /\ On(list, q) <=> On(pending, q) \/ q \in new
             /\ q \in new => pc[q] = "idle"
             /\ q \in new \/ needs[q] = need[q]
             /\ pc'[q] = "idle" <=> pc[q] = "idle" /\ q \notin new
             /\ pc[q] = "idle" => promise[q] = "pending" /\ ~On(pending, q)
             /\ On(pending, q) => promise[q] # "resolved"
             /\ promise[q] \in {"pending", "resolved", "rejected"}
  BY DEF PlaceStep, PlaceCalls, SemTypeOK
<1>3. PlaceCalls'
  <2> SUFFICES ASSUME NEW q \in Tasks
               PROVE  /\ pc'[q] = "idle" => promise'[q] = "pending" /\ ~On(pending', q)
                      /\ On(pending', q) => promise'[q] # "resolved"
    BY DEF PlaceCalls
  <2> HIDE DEF F
  <2> QED
    BY <1>1, <1>2
<1>4. ASSUME NEW q \in F
      PROVE  /\ q \in Tasks /\ On(list, q) /\ ~On(pending', q)
             /\ promise[q] # "pending" => promise[q] = "rejected"
             /\ promise[q] = "rejected" => On(pending, q) /\ needs[q] = need[q]
             /\ pc'[q] # "idle"
             /\ promise[q] = "pending" => promise'[q] = "resolved"
  <2> HIDE DEF F
  <2>1. q \in Tasks /\ On(list, q) /\ ~On(pending', q)
    BY <1>1
  <2> QED
    BY <1>1, <1>2, <2>1
<1>5. F = A \cup R /\ A \cap R = {} /\ A \subseteq Tasks /\ R \subseteq F /\ A \subseteq F
  BY <1>1, <1>4
<1>6. L = R
  <2>1. ASSUME NEW q \in L PROVE q \in R
    <3>1. On(pending, q) /\ ~On(pending', q) /\ promise[q] = "rejected" /\ q \in Tasks
      BY ContainsIsOn
    <3>2. On(list, q)
      BY <1>2, <3>1
    <3>3. q \in F
      BY <1>1, <3>1, <3>2
    <3> QED
      BY <3>1, <3>3
  <2>2. ASSUME NEW q \in R PROVE q \in L
    BY <1>4, ContainsIsOn
  <2> QED
    BY <2>1, <2>2
<1>7. lostPlaces' = lostPlaces + SumOf(R, needs)
  <2>1. lostPlaces' = lostPlaces + SumOf(L, need)
    BY DEF PlaceStep, RememberLost
  <2>2. \A q \in R : need[q] = needs[q]
    BY <1>4
  <2>3. SumOf(R, need) = SumOf(R, needs)
    BY <2>2, SumOfSame
  <2> QED
    BY <1>6, <2>1, <2>3
<1>8. /\ IsFiniteSet(Permits(A, needs)) /\ SumOf(A, needs) \in Nat
      /\ SumOf(R, needs) \in Nat
      /\ SumOf(F, needs) = SumOf(A, needs) + SumOf(R, needs)
  <2> HIDE DEF A, R, F
  <2>1. /\ IsFiniteSet(Permits(A, needs)) /\ SumOf(A, needs) \in Nat
        /\ IsFiniteSet(Permits(R, needs)) /\ SumOf(R, needs) \in Nat
    BY <1>1, <1>5, SumOfSome
  <2>2. SumOf(A \cup R, needs) = SumOf(A, needs) + SumOf(R, needs)
    BY <1>5, <2>1, SumOfBoth
  <2> QED
    BY <1>5, <2>1, <2>2
<1> DEFINE G == Grantees
<1>9. Grantees' = G \cup A /\ G \cap A = {}
  <2>1. ASSUME NEW q \in Tasks PROVE q \in Grantees' <=> q \in G \/ q \in A
    <3>1. q \in Grantees' <=> pc'[q] # "idle" /\ promise'[q] = "resolved"
      BY DEF Grantees, Granted
    <3>2. q \in G <=> pc[q] # "idle" /\ promise[q] = "resolved"
      BY DEF Grantees, Granted
    <3>3. q \in A <=> q \in F /\ promise[q] = "pending"
      OBVIOUS
    <3>4. promise'[q] = IF q \in F /\ promise[q] = "pending" THEN "resolved" ELSE promise[q]
      BY <1>1
    <3>5. q \in F => pc'[q] # "idle"
      BY <1>4
    <3> HIDE DEF A, F, G
    <3> QED
      BY <1>2, <3>1, <3>2, <3>3, <3>4, <3>5
  <2>2. Grantees' \subseteq Tasks /\ G \subseteq Tasks /\ A \subseteq Tasks
    BY <1>5 DEF Grantees
  <2>3. G \cap A = {}
    BY DEF Grantees, Granted
  <2> HIDE DEF A, G
  <2> QED
    BY <2>1, <2>2, <2>3
<1>10. /\ Permits(G, needs) = Permits(G, need) /\ SumOf(G, needs) = SumOf(G, need)
       /\ SumOf(G, need) \in Nat
  <2>1. \A q \in G : needs[q] = need[q]
    BY <1>2 DEF Grantees, Granted
  <2>2. G \subseteq Grantees
    OBVIOUS
  <2> HIDE DEF G
  <2>3. Permits(G, needs) = Permits(G, need) /\ SumOf(G, needs) = SumOf(G, need)
    BY <2>1, SumOfSame
  <2>4. SumOf(G, need) \in Nat
    BY <2>2, SumOfSome
  <2> QED
    BY <2>3, <2>4
<1>11. /\ IsFiniteSet(Permits(G \cup A, needs))
       /\ SumOf(G \cup A, needs) = SumOf(G, needs) + SumOf(A, needs)
  <2>1. IsFiniteSet(Permits(G, needs))
    BY <1>10
  <2> HIDE DEF G, A
  <2> QED
    BY <1>8, <1>9, <2>1, SumOfBoth
<1>12. /\ Permits(Grantees, need)' = Permits(G \cup A, needs)
       /\ SumOf(Grantees, need)' = SumOf(G \cup A, needs)
  <2>1. need' = needs
    BY DEF PlaceStep
  <2> QED
    BY <1>9, <2>1
<1> HIDE DEF A, R, F, G
<1>13. permits \in Nat /\ value' \in Nat
  BY <1>1, ValueAssumption DEF PlaceStep
<1>14. /\ lostPlaces' \in Nat
       /\ value' + lostPlaces' + SumOf(Grantees, need)' = permits + lostPlaces + SumOf(G, need)
       /\ SumOf(Grantees, need)' \in Nat
  <2>1. /\ value' + SumOf(F, needs) = permits
        /\ SumOf(F, needs) = SumOf(A, needs) + SumOf(R, needs)
        /\ lostPlaces' = lostPlaces + SumOf(R, needs)
        /\ SumOf(Grantees, need)' = SumOf(G, need) + SumOf(A, needs)
    BY <1>1, <1>7, <1>8, <1>10, <1>11, <1>12, Zenon
  <2>2. /\ value' \in Nat /\ SumOf(A, needs) \in Nat /\ SumOf(R, needs) \in Nat
        /\ SumOf(G, need) \in Nat
    BY <1>8, <1>10, <1>13
  <2> QED
    BY <2>1, <2>2
<1>15. SumOf(Grantees, need) = SumOf(G, need) /\ IsFiniteSet(Permits(Grantees, need)')
  BY <1>11, <1>12 DEF G
<1> QED
  BY <1>1, <1>3, <1>10, <1>14, <1>15

-----------------------------------------------------------------------------
(***************************************************************************)
(* The items of a call have the next numbers.  What has to come before     *)
(* them has a smaller one, and is in no batch.                             *)
(***************************************************************************)
LEMMA NumberedFacts ==
    ASSUME ItemTypes, EarlierInv, NEW n \in Nat, Numbered(n)
    PROVE  /\ NextItems(n) \in Seq(Numbers) /\ Len(NextItems(n)) = n
           /\ Increasing(NextItems(n))
           /\ used \in Nat /\ used' \in 0..MaxItems /\ used' \in Nat /\ used <= used'
           /\ \A i \in Numbers : On(NextItems(n), i) <=> used < i /\ i <= used'
           /\ before' \in [Numbers -> SUBSET Numbers]
           /\ \A i \in Numbers : before'[i] \subseteq 1..(i - 1)
           /\ \A i \in Numbers : i <= used => before'[i] = before[i]
           /\ \A i \in Numbers, p \in Tasks : \A j :
                 On(NextItems(n), i) /\ On(batch[p], j) => j \notin before'[i]
<1> DEFINE next == NextItems(n)
<1>1. /\ used \in Nat /\ MaxItems \in Nat /\ used + n <= MaxItems /\ used' = used + n
      /\ used' \in 0..MaxItems /\ used' \in Nat /\ used <= used'
  BY NumbersFacts DEF ItemTypes, Numbered
<1>2. next \in Seq(Numbers) /\ Len(next) = n /\ \A k \in 1..n : next[k] = used + k
  <2>1. next = [k \in 1..n |-> used + k]
    BY DEF NextItems
  <2>2. \A k \in 1..n : used + k \in 1..MaxItems
    BY <1>1
  <2> HIDE DEF next
  <2> QED
    BY <2>1, <2>2 DEF Numbers
<1>3. Increasing(next)
  <2> HIDE DEF next
  <2> QED
    BY <1>1, <1>2 DEF Increasing
<1>4. \A i \in Numbers : On(next, i) <=> used < i /\ i <= used'
  <2> HIDE DEF next
  <2>1. ASSUME NEW i \in Numbers, On(next, i) PROVE used < i /\ i <= used'
    BY <1>1, <1>2, <2>1 DEF On
  <2>2. ASSUME NEW i \in Numbers, used < i, i <= used' PROVE On(next, i)
    <3>1. i - used \in 1..n /\ used + (i - used) = i
      BY <1>1, <2>2, NumbersFacts
    <3> QED
      BY <1>2, <3>1 DEF On
  <2> QED
    BY <2>1, <2>2
<1>5. \A i : i \in ToSet(next) <=> On(next, i)
  BY <1>2, ItemsFacts
<1> DEFINE taken == UNION {ToSet(batch[q]) : q \in Tasks}
<1>6. before' = [i \in Numbers |-> IF i \in ToSet(next) THEN (1..(i - 1)) \ taken ELSE before[i]]
  BY DEF Numbered
<1>7. \A i \in Numbers : before'[i] = IF On(next, i) THEN (1..(i - 1)) \ taken ELSE before[i]
  BY <1>5, <1>6
<1>8. \A i \in Numbers : before'[i] \subseteq 1..(i - 1) /\ 1..(i - 1) \subseteq Numbers
  <2> SUFFICES ASSUME NEW i \in Numbers
               PROVE  before'[i] \subseteq 1..(i - 1) /\ 1..(i - 1) \subseteq Numbers
    OBVIOUS
  <2>1. before[i] \subseteq 1..(i - 1)
    BY DEF EarlierInv
  <2>2. 1..(i - 1) \subseteq Numbers
    BY NumbersFacts DEF Numbers
  <2> HIDE DEF next, taken
  <2> QED
    BY <1>7, <2>1, <2>2
<1>9. before' \in [Numbers -> SUBSET Numbers]
  <2>1. before' = [i \in Numbers |-> before'[i]]
    BY <1>6
  <2> QED
    BY <1>8, <2>1
<1>10. ASSUME NEW i \in Numbers, NEW p \in Tasks, NEW j, On(next, i), On(batch[p], j)
       PROVE  j \notin before'[i]
  <2>1. j \in ToSet(batch[p])
    BY <1>10, ItemsFacts DEF ItemTypes
  <2>2. j \in taken
    BY <2>1
  <2> HIDE DEF taken, next
  <2> QED
    BY <1>7, <1>10, <2>2
<1>11. ASSUME NEW i \in Numbers, i <= used PROVE before'[i] = before[i]
  <2>1. ~On(next, i)
    BY <1>1, <1>4, <1>11, NumbersFacts
  <2> HIDE DEF next, taken
  <2> QED
    BY <1>7, <2>1
<1> HIDE DEF taken
<1> QED
  BY <1>1, <1>2, <1>3, <1>4, <1>8, <1>9, <1>10, <1>11

\* enqueue(): its items go in behind the others (queue.ts:11).
LEMMA EnqueueItems ==
    ASSUME ItemTypes, ItemsInv, NEW n \in Nat, Numbered(n),
           Insert(data.size, NextItems(n)), UNCHANGED <<start, batch>>
    PROVE  ItemTypes' /\ ItemsInv' /\ data'.size = data.size + n
<1> DEFINE next == NextItems(n)
<1>1. ChainInv /\ EarlierInv /\ FifoOrder /\ BatchInv /\ data.size \in Nat
  BY DEF ItemsInv, ItemTypes
<1>2. /\ next \in Seq(Numbers) /\ Len(next) = n /\ Increasing(next)
      /\ used \in Nat /\ used' \in 0..MaxItems /\ used' \in Nat /\ used <= used'
      /\ \A i \in Numbers : On(next, i) <=> used < i /\ i <= used'
      /\ before' \in [Numbers -> SUBSET Numbers]
      /\ \A i \in Numbers : before'[i] \subseteq 1..(i - 1)
      /\ \A i \in Numbers : i <= used => before'[i] = before[i]
      /\ \A i \in Numbers, p \in Tasks : \A j :
            On(next, i) /\ On(batch[p], j) => j \notin before'[i]
  BY <1>1, NumberedFacts
<1> HIDE DEF next
<1>3. \A i \in Numbers : On(data.chain, i) => i <= used /\ i \in Nat
  BY <1>1, NumbersFacts DEF ChainInv
<1>4. \A i \in Numbers : On(next, i) => i <= used' /\ ~On(data.chain, i)
  BY <1>2, <1>3
<1>5. \A i, j \in Numbers : On(data.chain, i) /\ On(next, j) => j \notin before[i]
  <2> SUFFICES ASSUME NEW i \in Numbers, NEW j \in Numbers, On(data.chain, i), On(next, j)
               PROVE  j \notin before[i]
    OBVIOUS
  <2>1. i <= used /\ used < j /\ i \in Nat /\ j \in Nat
    BY <1>2, <1>3, NumbersFacts
  <2>2. before[i] \subseteq 1..(i - 1)
    BY <1>1 DEF EarlierInv
  <2> QED
    BY <1>2, <2>1, <2>2
<1>6. /\ data'.size = data.size + Len(next)
      /\ data'.chain \in Seq(Numbers) /\ Distinct(data'.chain)
      /\ present' \subseteq Numbers /\ upset' \subseteq Event
      /\ \A i \in Numbers : On(data'.chain, i) => On(data.chain, i) \/ On(next, i)
      /\ ChainInv' /\ FifoOrder'
  <2>1. Insert(data.size, next)
    BY DEF next
  <2>2. \A i \in Numbers : i <= used \/ On(next, i) => before'[i] \subseteq 1..(i - 1)
    BY <1>2
  <2> QED
    BY <1>1, <1>2, <1>4, <1>5, <2>1, <2>2, InsertKeeps
<1>7. data'.size = data.size + n /\ data'.size \in Nat
  BY <1>1, <1>2, <1>6
<1>8. ItemTypes'
  BY <1>2, <1>6, <1>7 DEF ItemTypes
<1>9. BatchInv'
  <2>1. ASSUME NEW p \in Tasks, NEW i \in Numbers, On(batch[p], i)
        PROVE  i <= used' /\ ~On(data'.chain, i)
    <3>1. i <= used /\ ~On(data.chain, i) /\ i \in Nat
      BY <1>1, <2>1, NumbersFacts DEF BatchInv
    <3>2. ~On(next, i) /\ i <= used'
      BY <1>2, <3>1
    <3> QED
      BY <1>6, <3>1, <3>2
  <2> QED
    BY <1>1, <2>1 DEF BatchInv
<1>10. EarlierInv'
  <2>1. ASSUME NEW p \in Tasks, NEW i \in Numbers, NEW j \in Numbers,
               i <= used', On(batch[p], j), ~On(batch[p], i)
        PROVE  j \notin before'[i]
    <3>1. CASE On(next, i)
      BY <1>2, <2>1, <3>1
    <3>2. CASE ~On(next, i)
      <4>1. i <= used
        BY <1>2, <2>1, <3>2, NumbersFacts
      <4>2. before'[i] = before[i]
        BY <1>2, <4>1
      <4>3. j \notin before[i]
        BY <1>1, <2>1, <4>1 DEF EarlierInv
      <4> QED
        BY <4>2, <4>3
    <3> QED
      BY <3>1, <3>2
  <2> QED
    BY <1>2, <2>1 DEF EarlierInv
<1> QED
  BY <1>6, <1>7, <1>8, <1>9, <1>10 DEF ItemsInv

\* waitEnqueue(): its items have numbers and wait in its batch (queue.ts:19).
LEMMA WaitItems ==
    ASSUME ItemTypes, ItemsInv, NEW p \in Tasks, NEW n \in Nat, Numbered(n),
           start' = [start EXCEPT ![p] = data.size],
           batch' = [batch EXCEPT ![p] = NextItems(n)],
           UNCHANGED <<data, present, upset>>
    PROVE  ItemTypes' /\ ItemsInv'
<1> DEFINE next == NextItems(n)
<1>1. ChainInv /\ EarlierInv /\ FifoOrder /\ BatchInv /\ data.size \in Nat
  BY DEF ItemsInv, ItemTypes
<1>2. /\ next \in Seq(Numbers) /\ Increasing(next)
      /\ used \in Nat /\ used' \in 0..MaxItems /\ used' \in Nat /\ used <= used'
      /\ \A i \in Numbers : On(next, i) <=> used < i /\ i <= used'
      /\ before' \in [Numbers -> SUBSET Numbers]
      /\ \A i \in Numbers : before'[i] \subseteq 1..(i - 1)
      /\ \A i \in Numbers : i <= used => before'[i] = before[i]
      /\ \A i \in Numbers, q \in Tasks : \A j :
            On(next, i) /\ On(batch[q], j) => j \notin before'[i]
  BY <1>1, NumberedFacts
<1>3. batch' = [batch EXCEPT ![p] = next]
  OBVIOUS
<1> HIDE DEF next
<1>4. \A q \in Tasks : batch'[q] = IF q = p THEN next ELSE batch[q]
  BY <1>3 DEF ItemTypes
<1>5. ItemTypes'
  <2>1. batch' \in [Tasks -> Seq(Numbers)]
    BY <1>2, <1>3 DEF ItemTypes
  <2>2. start' \in [Tasks -> Nat]
    BY <1>1 DEF ItemTypes
  <2> QED
    BY <1>2, <2>1, <2>2 DEF ItemTypes, Distinct
<1>6. \A i \in Numbers : On(data.chain, i) => i <= used /\ i <= used' /\ ~On(next, i)
  <2> SUFFICES ASSUME NEW i \in Numbers, On(data.chain, i)
               PROVE  i <= used /\ i <= used' /\ ~On(next, i)
    OBVIOUS
  <2>1. i <= used
    BY <1>1 DEF ChainInv
  <2> QED
    BY <1>2, <2>1, NumbersFacts
<1>7. ChainInv'
  BY <1>1, <1>6 DEF ChainInv, LossNeedsShrink, ItemsKept, WellFormed
<1>8. FifoOrder'
  <2> SUFFICES ASSUME "grown" \notin upset PROVE Ordered(data.chain, before')
    <3>1. data.chain \in Seq(Numbers)
      BY DEF ItemTypes
    <3> QED
      BY <3>1, FifoIsOrdered
  <2> SUFFICES ASSUME NEW a \in 1..Len(data.chain), NEW b \in 1..Len(data.chain), a < b
               PROVE  data.chain[b] \notin before'[data.chain[a]]
    BY DEF Ordered
  <2>1. data.chain[a] \in Numbers /\ On(data.chain, data.chain[a]) /\ data.chain \in Seq(Numbers)
    BY DEF ItemTypes, On
  <2>2. before'[data.chain[a]] = before[data.chain[a]]
    BY <1>2, <1>6, <2>1
  <2>3. data.chain[b] \notin before[data.chain[a]]
    BY <1>1, <2>1, FifoIsOrdered DEF Ordered
  <2> QED
    BY <2>2, <2>3
<1>9. BatchInv'
  <2>1. ASSUME NEW q \in Tasks, NEW i \in Numbers, On(batch'[q], i)
        PROVE  i <= used' /\ ~On(data'.chain, i)
    <3>1. CASE q = p
      BY <1>2, <1>4, <1>6, <2>1, <3>1
    <3>2. CASE q # p
      <4>1. i <= used /\ ~On(data.chain, i)
        BY <1>1, <1>4, <2>1, <3>2 DEF BatchInv
      <4> QED
        BY <1>2, <4>1, NumbersFacts
    <3> QED
      BY <3>1, <3>2
  <2>2. \A q \in Tasks : Increasing(batch'[q])
    BY <1>1, <1>2, <1>4 DEF BatchInv
  <2>3. ASSUME NEW q \in Tasks, NEW i \in Numbers, On(batch[q], i)
        PROVE  ~On(next, i)
    <3>1. i <= used
      BY <1>1, <2>3 DEF BatchInv
    <3> QED
      BY <1>2, <3>1, NumbersFacts
  <2>4. ASSUME NEW q \in Tasks, NEW r \in Tasks, NEW i \in Numbers,
               On(batch'[q], i), On(batch'[r], i)
        PROVE  q = r
    BY <1>1, <1>4, <2>3, <2>4 DEF BatchInv
  <2> QED
    BY <2>1, <2>2, <2>4 DEF BatchInv
<1>10. EarlierInv'
  <2>1. ASSUME NEW q \in Tasks, NEW i \in Numbers, NEW j \in Numbers,
               i <= used', On(batch'[q], j), ~On(batch'[q], i)
        PROVE  j \notin before'[i]
    <3>1. i \in Nat /\ j \in Nat
      BY NumbersFacts
    <3>2. CASE q = p
      <4>1. i <= used /\ used < j
        BY <1>2, <1>4, <2>1, <3>1, <3>2
      <4>2. before'[i] \subseteq 1..(i - 1)
        BY <1>2
      <4> QED
        BY <1>2, <3>1, <4>1, <4>2
    <3>3. CASE q # p /\ On(next, i)
      BY <1>2, <1>4, <2>1, <3>3
    <3>4. CASE q # p /\ ~On(next, i)
      <4>1. i <= used
        BY <1>2, <2>1, <3>1, <3>4
      <4>2. before'[i] = before[i]
        BY <1>2, <4>1
      <4>3. j \notin before[i]
        BY <1>1, <1>4, <2>1, <3>4, <4>1 DEF EarlierInv
      <4> QED
        BY <4>2, <4>3
    <3> QED
      BY <3>2, <3>3, <3>4
  <2> QED
    BY <1>2, <2>1 DEF EarlierInv
<1> QED
  BY <1>5, <1>7, <1>8, <1>9, <1>10 DEF ItemsInv

\* waitEnqueue() after its await: its batch goes in where it was meant to, or
\* is given up.
LEMMA SettleItems ==
    ASSUME ItemTypes, ItemsInv, NEW p \in Tasks,
           batch' = [batch EXCEPT ![p] = <<>>], start' = [start EXCEPT ![p] = 0],
           UNCHANGED <<used, before>>,
           Insert(start[p], batch[p]) \/ UNCHANGED <<data, present, upset>>
    PROVE  /\ ItemTypes' /\ ItemsInv'
           /\ Insert(start[p], batch[p]) => data'.size = data.size + Len(batch[p])
<1>1. ChainInv /\ EarlierInv /\ FifoOrder /\ BatchInv /\ used \in Nat
  BY NumbersFacts DEF ItemsInv, ItemTypes
<1>2. /\ batch[p] \in Seq(Numbers) /\ start[p] \in Nat /\ Len(batch[p]) \in Nat
      /\ data.size \in Nat
  BY LenProperties DEF ItemTypes
<1>3. /\ Increasing(batch[p])
      /\ \A i \in Numbers : On(batch[p], i) => i <= used /\ ~On(data.chain, i)
  BY <1>1 DEF BatchInv
<1>4. \A i, j \in Numbers : On(data.chain, i) /\ On(batch[p], j) => j \notin before[i]
  BY <1>1, <1>3 DEF ChainInv, EarlierInv
<1>5. ASSUME Insert(start[p], batch[p])
      PROVE  /\ data'.size = data.size + Len(batch[p])
             /\ data'.chain \in Seq(Numbers) /\ Distinct(data'.chain)
             /\ present' \subseteq Numbers /\ upset' \subseteq Event
             /\ \A i \in Numbers : On(data'.chain, i) => On(data.chain, i) \/ On(batch[p], i)
             /\ ChainInv' /\ FifoOrder'
  <2>1. used' \in 0..MaxItems /\ used <= used' /\ before' \in [Numbers -> SUBSET Numbers]
    BY <1>1 DEF ItemTypes
  <2>2. /\ \A i \in Numbers : i <= used \/ On(batch[p], i) => before'[i] \subseteq 1..(i - 1)
        /\ \A i \in Numbers : i <= used => before'[i] = before[i]
    BY <1>1 DEF EarlierInv
  <2>3. \A i \in Numbers : On(batch[p], i) => i <= used' /\ ~On(data.chain, i)
    BY <1>3
  <2> QED
    BY <1>1, <1>2, <1>3, <1>4, <1>5, <2>1, <2>2, <2>3, InsertKeeps
<1>6. /\ data'.size \in Nat /\ data'.chain \in Seq(Numbers) /\ Distinct(data'.chain)
      /\ present' \subseteq Numbers /\ upset' \subseteq Event
      /\ \A i \in Numbers : On(data'.chain, i) => On(data.chain, i) \/ On(batch[p], i)
      /\ ChainInv' /\ FifoOrder'
  <2>1. CASE Insert(start[p], batch[p])
    BY <1>2, <1>5, <2>1
  <2>2. CASE UNCHANGED <<data, present, upset>>
    BY <1>1, <2>2 DEF ItemTypes, ChainInv, LossNeedsShrink, ItemsKept, WellFormed, FifoOrder, Distinct
  <2> QED
    BY <2>1, <2>2
<1>7. \A q \in Tasks : batch'[q] = IF q = p THEN <<>> ELSE batch[q]
  BY DEF ItemTypes
<1>8. \A i : ~On(<<>>, i)
  BY DEF On
<1>9. ItemTypes'
  <2>1. batch' \in [Tasks -> Seq(Numbers)] /\ start' \in [Tasks -> Nat]
    BY DEF ItemTypes
  <2>2. used' \in 0..MaxItems /\ before' \in [Numbers -> SUBSET Numbers]
    BY DEF ItemTypes
  <2> QED
    BY <1>6, <2>1, <2>2 DEF ItemTypes
<1>10. BatchInv'
  <2>1. ASSUME NEW q \in Tasks, NEW i \in Numbers, On(batch'[q], i)
        PROVE  i <= used' /\ ~On(data'.chain, i)
    <3>1. q # p /\ On(batch[q], i)
      BY <1>7, <1>8, <2>1
    <3>2. i <= used /\ ~On(data.chain, i) /\ ~On(batch[p], i)
      BY <1>1, <3>1 DEF BatchInv
    <3> QED
      BY <1>6, <3>2
  <2>2. \A q \in Tasks : Increasing(batch'[q])
    <3>1. Increasing(<<>>)
      BY DEF Increasing
    <3> QED
      BY <1>1, <1>7, <3>1 DEF BatchInv
  <2>3. ASSUME NEW q \in Tasks, NEW r \in Tasks, NEW i \in Numbers,
               On(batch'[q], i), On(batch'[r], i)
        PROVE  q = r
    BY <1>1, <1>7, <1>8, <2>3 DEF BatchInv
  <2> QED
    BY <2>1, <2>2, <2>3 DEF BatchInv
<1>11. EarlierInv'
  <2>1. ASSUME NEW q \in Tasks, NEW i \in Numbers, NEW j \in Numbers,
               i <= used', On(batch'[q], j), ~On(batch'[q], i)
        PROVE  j \notin before'[i]
    BY <1>1, <1>7, <1>8, <2>1 DEF EarlierInv
  <2> QED
    BY <1>1, <2>1 DEF EarlierInv
<1> QED
  BY <1>5, <1>6, <1>9, <1>10, <1>11 DEF ItemsInv

\* The list after some items left it: the others are in order.
Fewer(removed) ==
    /\ data'.size \in Nat /\ data'.chain \in Seq(Numbers) /\ Distinct(data'.chain)
    /\ Len(data'.chain) <= data'.size
    /\ WellFormed(data) => WellFormed(data)'
    /\ \A x : On(data'.chain, x) <=> On(data.chain, x) /\ x \notin removed
    /\ \A i, j \in 1..Len(data'.chain) :
          i < j => \E a, b \in 1..Len(data.chain) :
                      a < b /\ data.chain[a] = data'.chain[i] /\ data.chain[b] = data'.chain[j]
    /\ present' = present \ removed

LEMMA FewerItems ==
    ASSUME ItemTypes, ItemsInv, NEW removed, Fewer(removed),
           UNCHANGED <<start, batch, used, before, upset>>
    PROVE  ItemTypes' /\ ItemsInv'
<1>1. ChainInv /\ EarlierInv /\ FifoOrder /\ BatchInv
  BY DEF ItemsInv
<1>2. /\ data'.size \in Nat /\ data'.chain \in Seq(Numbers) /\ Distinct(data'.chain)
      /\ Len(data'.chain) <= data'.size
      /\ WellFormed(data) => WellFormed(data)'
      /\ \A x : On(data'.chain, x) <=> On(data.chain, x) /\ x \notin removed
      /\ present' = present \ removed
  BY DEF Fewer
<1>3. ItemTypes'
  BY <1>2 DEF ItemTypes
<1>4. BatchInv'
  BY <1>1, <1>2 DEF BatchInv
<1>5. EarlierInv'
  BY <1>1 DEF EarlierInv
<1>6. ChainInv'
  <2>1. ASSUME "shrunk" \notin upset PROVE ItemsKept'
    <3>1. present = ToSet(data.chain) /\ WellFormed(data)
      BY <1>1, <2>1 DEF ChainInv, LossNeedsShrink, ItemsKept
    <3>2. \A x : (x \in ToSet(data.chain) <=> On(data.chain, x))
                 /\ (x \in ToSet(data'.chain) <=> On(data'.chain, x))
      BY <1>2, ItemsFacts DEF ItemTypes
    <3>3. present' = ToSet(data'.chain)
      BY <1>2, <3>1, <3>2
    <3> QED
      BY <1>2, <3>1, <3>3 DEF ItemsKept, WellFormed
  <2>2. \A i \in Numbers : On(data'.chain, i) => i <= used'
    BY <1>1, <1>2 DEF ChainInv
  <2> QED
    BY <1>2, <2>1, <2>2 DEF ChainInv, LossNeedsShrink
<1>7. FifoOrder'
  <2> SUFFICES ASSUME "grown" \notin upset PROVE Ordered(data'.chain, before)
    BY <1>2, FifoIsOrdered
  <2> SUFFICES ASSUME NEW i \in 1..Len(data'.chain), NEW j \in 1..Len(data'.chain), i < j
               PROVE  data'.chain[j] \notin before[data'.chain[i]]
    BY DEF Ordered
  <2>1. PICK a \in 1..Len(data.chain), b \in 1..Len(data.chain) :
           a < b /\ data.chain[a] = data'.chain[i] /\ data.chain[b] = data'.chain[j]
    BY DEF Fewer
  <2>2. Ordered(data.chain, before)
    BY <1>1, FifoIsOrdered DEF ItemTypes
  <2>3. data.chain[b] \notin before[data.chain[a]]
    BY <2>1, <2>2 DEF Ordered
  <2> QED
    BY <2>1, <2>3
<1> QED
  BY <1>3, <1>4, <1>5, <1>6, <1>7 DEF ItemsInv

\* One item is taken out of the list.
LEMMA RemovedItems ==
    ASSUME ItemTypes, ItemsInv, NEW k \in 1..Len(data.chain), data' = RemoveNodeAt(data, k),
           present' = present \ {data.chain[k]},
           UNCHANGED <<start, batch, used, before, upset>>
    PROVE  ItemTypes' /\ ItemsInv' /\ data'.size + 1 = data.size
<1>1. /\ data.chain \in Seq(Numbers) /\ Distinct(data.chain) /\ data.size \in Nat
      /\ Len(data.chain) <= data.size /\ Len(data.chain) \in Nat
  BY LenProperties DEF ItemTypes, ItemsInv, ChainInv
<1>2. /\ data'.chain \in Seq(Numbers) /\ Distinct(data'.chain)
      /\ data'.size = data.size - 1 /\ data'.size \in Nat
      /\ Len(data'.chain) = Len(data.chain) - 1
      /\ \A x : On(data'.chain, x) <=> On(data.chain, x) /\ x # data.chain[k]
      /\ \A i, j \in 1..Len(data'.chain) :
            i < j => \E a, b \in 1..Len(data.chain) :
                        a < b /\ data.chain[a] = data'.chain[i] /\ data.chain[b] = data'.chain[j]
  <2>1. OneLess(Numbers, data, k, data')
    BY <1>1, RemovedFacts
  <2> QED
    BY <2>1 DEF OneLess
<1>3. /\ Len(data'.chain) <= data'.size /\ data'.size + 1 = data.size
      /\ WellFormed(data) => WellFormed(data)'
  <2>1. Len(data'.chain) <= data'.size /\ data'.size + 1 = data.size
    BY <1>1, <1>2
  <2>2. data.size = Len(data.chain) => data'.size = Len(data'.chain)
    BY <1>1, <1>2
  <2> QED
    BY <2>1, <2>2 DEF WellFormed
<1>4. Fewer({data.chain[k]})
  BY <1>2, <1>3 DEF Fewer
<1> QED
  BY <1>3, <1>4, FewerItems

\* clear()
LEMMA ClearedItems ==
    ASSUME ItemTypes, ItemsInv, data' = EmptyList, present' = {},
           UNCHANGED <<start, batch, used, before, upset>>
    PROVE  ItemTypes' /\ ItemsInv' /\ data'.size = 0
<1>1. data'.chain = <<>> /\ data'.size = 0 /\ Len(<<>>) = 0
  BY DEF EmptyList
<1>2. \A x : ~On(<<>>, x)
  BY DEF On
<1>3. <<>> \in Seq(Numbers) /\ Distinct(<<>>)
  BY DEF Distinct
<1>4. \A x : x \in present => x \in Numbers
  BY DEF ItemTypes
<1>5. WellFormed(data)'
  BY <1>1 DEF WellFormed
<1>6. ItemTypes'
  BY <1>1, <1>3 DEF ItemTypes
<1>7. BatchInv'
  BY <1>1, <1>2 DEF ItemsInv, BatchInv
<1>8. EarlierInv'
  BY DEF ItemsInv, EarlierInv
<1>9. ChainInv'
  <2>1. ToSet(<<>>) = {}
    BY DEF ToSet
  <2>2. ItemsKept'
    BY <1>1, <1>5, <2>1 DEF ItemsKept
  <2> QED
    BY <1>1, <1>2, <2>2 DEF ChainInv, LossNeedsShrink
<1>10. FifoOrder'
  <2>1. DOMAIN data'.chain = {}
    BY <1>1
  <2> QED
    BY <2>1 DEF FifoOrder
<1> QED
  BY <1>1, <1>6, <1>7, <1>8, <1>9, <1>10 DEF ItemsInv

\* A step that is none of the list's.
LEMMA SameItems ==
    ASSUME ItemTypes, ItemsInv,
           UNCHANGED <<data, start, batch, used, present, before, upset>>
    PROVE  ItemTypes' /\ ItemsInv'
BY DEF ItemTypes, ItemsInv, BatchInv, ChainInv, LossNeedsShrink, ItemsKept, WellFormed,
       EarlierInv, FifoOrder, Distinct

-----------------------------------------------------------------------------
\* What the places need: every one is free, taken, promised or lost.
LEMMA QueueFacts ==
    ASSUME QueueInv
    PROVE  /\ SemTypeOK /\ lostPlaces \in Nat /\ PlaceCalls /\ BatchSizes
           /\ ItemTypes /\ ItemsInv /\ start \in [Tasks -> 0..Capacity]
           /\ value \in 0..MaxValue /\ value \in Nat /\ MaxValue \in Nat
           /\ data.size \in 0..Capacity /\ data.size \in Nat
           /\ Capacity = MaxValue
           /\ IsFiniteSet(Permits(Grantees, need)) /\ SumOf(Grantees, need) \in Nat
           /\ MaxValue = value + data.size + lostPlaces + SumOf(Grantees, need)
<1>1. /\ SemTypeOK /\ lostPlaces \in Nat /\ PlaceCalls /\ BatchSizes /\ ItemsInv
      /\ start \in [Tasks -> 0..Capacity] /\ data.size \in 0..Capacity
      /\ Capacity = MaxValue
  BY DEF QueueInv, QueueTypeOK, Capacity
<1>2. value \in 0..MaxValue /\ value \in Nat /\ MaxValue \in Nat /\ data.size \in Nat
  BY <1>1, ValueAssumption DEF SemTypeOK
<1>3. ItemTypes
  <2>1. start \in [Tasks -> Nat]
    BY <1>1, <1>2
  <2> QED
    BY <1>2, <2>1 DEF QueueInv, QueueTypeOK, ItemTypes
<1>4. IsFiniteSet(Permits(Grantees, need)) /\ SumOf(Grantees, need) \in Nat
  BY SumOfSome DEF QueueInv, PlacesInv
<1>5. MaxValue = value + data.size + lostPlaces + SumOf(Grantees, need)
  BY <1>1 DEF QueueInv, PlacesInv, PlacesConserved, Grantees
<1> QED
  BY <1>1, <1>2, <1>3, <1>4, <1>5

LEMMA QueueFactsHold ==
    ASSUME SemTypeOK', lostPlaces' \in Nat, PlaceCalls', BatchSizes',
           ItemTypes', ItemsInv', start' \in [Tasks -> 0..Capacity],
           IsFiniteSet(Permits(Grantees, need)'), SumOf(Grantees, need)' \in Nat,
           MaxValue = value' + data'.size + lostPlaces' + SumOf(Grantees, need)'
    PROVE  QueueInv'
<1>1. value' \in 0..MaxValue /\ data'.size \in Nat /\ MaxValue \in Nat
  BY ValueAssumption DEF SemTypeOK, ItemTypes
<1>2. data'.size \in 0..Capacity
  <2> DEFINE taken == SumOf(Grantees, need)'
  <2>1. taken \in Nat /\ MaxValue = value' + data'.size + lostPlaces' + taken
    OBVIOUS
  <2> HIDE DEF taken
  <2> QED
    BY <1>1, <2>1 DEF Capacity
<1>3. QueueTypeOK'
  BY <1>2 DEF QueueTypeOK, ItemTypes, Distinct
<1>4. PlacesInv'
  BY DEF PlacesInv, PlacesConserved, Grantees, Capacity
<1> QED
  BY <1>3, <1>4 DEF QueueInv

\* A step that has the calls served, or asks for it, keeps the invariant.
LEMMA ServeKeepsQueue ==
    ASSUME QueueInv, NEW new, NEW list, NEW permits, NEW needs, NEW n,
           PlaceStep(new, list, permits, needs, n),
           run' \in {"none", "running", "resolved"}, queued' \in BOOLEAN,
           ItemTypes', ItemsInv', BatchSizes', start' \in [Tasks -> 0..Capacity],
           permits + data'.size = value + data.size
    PROVE  QueueInv'
<1>1. /\ SemTypeOK /\ PlaceCalls /\ lostPlaces \in Nat /\ IsFiniteSet(Permits(Grantees, need))
      /\ value \in Nat /\ data.size \in Nat /\ data'.size \in Nat /\ permits \in Nat
      /\ MaxValue = value + data.size + lostPlaces + SumOf(Grantees, need)
  BY QueueFacts, ValueAssumption DEF ItemTypes, PlaceStep
<1>2. /\ pending' \in Seq(Tasks) /\ Distinct(pending')
      /\ promise' \in [Tasks -> {"pending", "resolved", "rejected"}]
      /\ value' \in 0..MaxValue
      /\ PlaceCalls' /\ lostPlaces' \in Nat
      /\ IsFiniteSet(Permits(Grantees, need)')
      /\ SumOf(Grantees, need) \in Nat /\ SumOf(Grantees, need)' \in Nat
      /\ value' + lostPlaces' + SumOf(Grantees, need)'
           = permits + lostPlaces + SumOf(Grantees, need)
  BY <1>1, PlacesServe
<1>3. SemTypeOK'
  <2>1. need' \in [Tasks -> Nat] /\ pc' \in [Tasks -> PC]
    BY DEF PlaceStep
  <2> QED
    BY <1>2, <2>1 DEF SemTypeOK, Distinct
<1>4. MaxValue = value' + data'.size + lostPlaces' + SumOf(Grantees, need)'
  <2> DEFINE free == value      free2 == value'
             taken == data.size  taken2 == data'.size
             gone == lostPlaces  gone2 == lostPlaces'
             given == SumOf(Grantees, need)  given2 == SumOf(Grantees, need)'
  <2>1. /\ free \in Nat /\ taken \in Nat /\ gone \in Nat /\ given \in Nat
        /\ free2 \in Nat /\ taken2 \in Nat /\ gone2 \in Nat /\ given2 \in Nat
        /\ permits \in Nat /\ permits + taken2 = free + taken
        /\ free2 + gone2 + given2 = permits + gone + given
        /\ MaxValue = free + taken + gone + given
    BY <1>1, <1>2, ValueAssumption
  <2> HIDE DEF free, free2, taken, taken2, gone, gone2, given, given2
  <2>2. MaxValue = free2 + taken2 + gone2 + given2
    BY <2>1
  <2> QED
    BY <2>2 DEF free2, taken2, gone2, given2
<1> QED
  BY <1>2, <1>3, <1>4, QueueFactsHold

\* release() of the places of items that left the list.
LEMMA ReleaseKeepsQueue ==
    ASSUME QueueInv, NEW count \in Nat, Release(count), RememberLost,
           ItemTypes', ItemsInv', data'.size + count = data.size,
           UNCHANGED <<start, batch>>
    PROVE  QueueInv'
<1>1. /\ SemTypeOK /\ value \in Nat /\ MaxValue \in Nat /\ BatchSizes
      /\ start \in [Tasks -> 0..Capacity] /\ data'.size \in Nat
  BY QueueFacts DEF ItemTypes
<1>2. /\ value + count <= MaxValue
      /\ RequestRun(pending, value + count, need, promise)
      /\ need' = need /\ pc' = pc
  BY DEF Release
<1>3. /\ need \in [Tasks -> Nat]
      /\ value + count \in 0..MaxValue /\ value + count \in Nat
      /\ promise \in [Tasks -> {"pending", "resolved", "rejected"}]
      /\ pending \in Seq(Tasks) /\ Distinct(pending)
      /\ pc \in [Tasks -> PC] /\ run \in {"none", "running", "resolved"}
  BY <1>1, <1>2 DEF SemTypeOK
<1>4. PICK n \in 0..Len(pending) :
              /\ Serves(pending, value + count, need, n)
              /\ \/ /\ run = "none" /\ run' = "running" /\ ~queued'
                    /\ n < Len(pending) => value' < need[pending[n + 1]]
                 \/ run # "none" /\ run' = run /\ queued'
  BY <1>2, <1>3, RequestServes
<1>5. PlaceStep({}, pending, value + count, need, n)
  BY <1>2, <1>3, <1>4 DEF PlaceStep
<1>6. run' \in {"none", "running", "resolved"} /\ queued' \in BOOLEAN
  BY <1>2, <1>3, <1>4 DEF RequestRun
<1>7. BatchSizes'
  BY <1>1, <1>2 DEF BatchSizes
<1>8. (value + count) + data'.size = value + data.size
  BY <1>1
<1> QED
  BY <1>1, <1>5, <1>6, <1>7, <1>8, ServeKeepsQueue

\* A step in which no call of the semaphore is served loses no place.
LEMMA NoPlaceLost ==
    ASSUME lostPlaces \in Nat, RememberLost,
           \A q \in Tasks : On(pending, q) /\ ~On(pending', q) => pc'[q] = "idle"
    PROVE  lostPlaces' = lostPlaces
<1> DEFINE L == {q \in Tasks : /\ promise[q] = "rejected" /\ pc'[q] # "idle"
                               /\ Contains(pending, q) /\ ~Contains(pending', q)}
<1>1. L = {}
  BY ContainsIsOn
<1>2. SumOf(L, need) = 0
  BY <1>1, SumOfNone
<1>3. lostPlaces' = lostPlaces + SumOf(L, need)
  BY DEF RememberLost
<1> QED
  BY <1>2, <1>3

\* A step of no list, that leaves the calls and their places alone.
LEMMA QuietKeepsQueue ==
    ASSUME QueueInv, lostPlaces' = lostPlaces,
           SemTypeOK', PlaceCalls', BatchSizes',
           ItemTypes', ItemsInv', start' \in [Tasks -> 0..Capacity],
           need' = need, \A q \in Tasks : Granted(q)' <=> Granted(q),
           value' + data'.size = value + data.size
    PROVE  QueueInv'
<1>1. /\ IsFiniteSet(Permits(Grantees, need)) /\ SumOf(Grantees, need) \in Nat
      /\ lostPlaces \in Nat /\ value \in Nat /\ data.size \in Nat /\ MaxValue \in Nat
      /\ MaxValue = value + data.size + lostPlaces + SumOf(Grantees, need)
  BY QueueFacts
<1>2. Grantees' = Grantees
  BY DEF Grantees
<1>3. /\ Permits(Grantees, need)' = Permits(Grantees, need)
      /\ SumOf(Grantees, need)' = SumOf(Grantees, need)
  BY <1>2 DEF SumOf, Permits
<1>4. value' \in Nat /\ data'.size \in Nat
  BY <1>1 DEF SemTypeOK, ItemTypes
<1>5. MaxValue = value' + data'.size + lostPlaces' + SumOf(Grantees, need)'
  <2> DEFINE now == SumOf(Grantees, need)
  <2>1. MaxValue = value + data.size + lostPlaces + now /\ now \in Nat
    BY <1>1
  <2> HIDE DEF now
  <2>2. MaxValue = value' + data'.size + lostPlaces' + now
    BY <1>1, <1>4, <2>1
  <2> QED
    BY <1>3, <2>2 DEF now
<1>6. IsFiniteSet(Permits(Grantees, need)') /\ SumOf(Grantees, need)' \in Nat /\ lostPlaces' \in Nat
  BY <1>1, <1>3
<1> QED
  BY <1>5, <1>6, QueueFactsHold

-----------------------------------------------------------------------------
\* enqueue(): the places its items take were free (linked-list.ts:180).
LEMMA EnqueueKeeps ==
    ASSUME QueueInv, NEW n \in Sizes, Enqueue(n), RememberLost
    PROVE  QueueInv'
<1>1. /\ value >= n /\ value' = value - n
      /\ UNCHANGED <<pending, need, promise, pc, run, queued, start, batch>>
      /\ Numbered(n) /\ Insert(data.size, NextItems(n))
  BY DEF Enqueue, TryAcquire
<1>2. /\ SemTypeOK /\ lostPlaces \in Nat /\ PlaceCalls /\ BatchSizes
      /\ ItemTypes /\ ItemsInv /\ start \in [Tasks -> 0..Capacity]
      /\ value \in 0..MaxValue /\ value \in Nat /\ MaxValue \in Nat /\ data.size \in Nat
      /\ n \in Nat
  BY QueueFacts, QueueAssumption
<1>3. ItemTypes' /\ ItemsInv' /\ data'.size = data.size + n
  BY <1>1, <1>2, EnqueueItems
<1>4. value' \in 0..MaxValue /\ value' + data'.size = value + data.size
  BY <1>1, <1>2, <1>3
<1>5. SemTypeOK' /\ PlaceCalls' /\ BatchSizes' /\ start' \in [Tasks -> 0..Capacity]
  BY <1>1, <1>2, <1>4 DEF SemTypeOK, Distinct, PlaceCalls, On, BatchSizes
<1>6. lostPlaces' = lostPlaces
  BY <1>1, <1>2, NoPlaceLost
<1>7. \A q \in Tasks : Granted(q)' <=> Granted(q)
  BY <1>1 DEF Granted
<1> QED
  BY <1>1, <1>3, <1>4, <1>5, <1>6, <1>7, QuietKeepsQueue

\* waitEnqueue(): the call is put behind those that wait for places.
LEMMA WaitEnqueueKeeps ==
    ASSUME QueueInv, NEW p \in Tasks, NEW n \in Sizes, WaitEnqueue(p, n), RememberLost
    PROVE  QueueInv'
<1> DEFINE list == Append(pending, p)
           needs == [need EXCEPT ![p] = n]
<1>1. /\ pc[p] = "idle" /\ need' = needs
      /\ pc' = [pc EXCEPT ![p] = IF run = "none" THEN "current" ELSE "next"]
      /\ RequestRun(list, value, needs, promise)
      /\ Numbered(n) /\ start' = [start EXCEPT ![p] = data.size]
      /\ batch' = [batch EXCEPT ![p] = NextItems(n)]
      /\ UNCHANGED <<data, present, upset>>
  BY DEF WaitEnqueue, Acquire
<1>2. /\ SemTypeOK /\ PlaceCalls /\ BatchSizes /\ ItemTypes /\ ItemsInv
      /\ start \in [Tasks -> 0..Capacity] /\ data.size \in 0..Capacity
      /\ value \in 0..MaxValue /\ value \in Nat /\ MaxValue \in Nat /\ n \in Nat
  BY QueueFacts, QueueAssumption
<1>3. /\ need \in [Tasks -> Nat] /\ needs \in [Tasks -> Nat]
      /\ promise \in [Tasks -> {"pending", "resolved", "rejected"}]
      /\ pending \in Seq(Tasks) /\ Distinct(pending)
      /\ pc \in [Tasks -> PC] /\ run \in {"none", "running", "resolved"}
      /\ \A q \in Tasks : needs[q] = IF q = p THEN n ELSE need[q]
  BY <1>2 DEF SemTypeOK
<1>4. ~On(pending, p)
  BY <1>1, <1>2 DEF PlaceCalls
<1>5. /\ list \in Seq(Tasks) /\ Distinct(list)
      /\ \A q : On(list, q) <=> On(pending, q) \/ q = p
  BY <1>3, <1>4, PushFacts
<1> HIDE DEF list, needs
<1>6. PICK k \in 0..Len(list) :
              /\ Serves(list, value, needs, k)
              /\ \/ /\ run = "none" /\ run' = "running" /\ ~queued'
                    /\ k < Len(list) => value' < needs[list[k + 1]]
                 \/ run # "none" /\ run' = run /\ queued'
  BY <1>1, <1>2, <1>3, <1>5, RequestServes
<1>7. /\ pc' \in [Tasks -> PC]
      /\ \A q \in Tasks : pc'[q] = "idle" <=> pc[q] = "idle" /\ q # p
      /\ pc'[p] # "idle"
  BY <1>1, <1>3 DEF PC
<1>8. PlaceStep({p}, list, value, needs, k)
  BY <1>1, <1>2, <1>3, <1>5, <1>6, <1>7 DEF PlaceStep
<1>9. run' \in {"none", "running", "resolved"} /\ queued' \in BOOLEAN
  BY <1>1, <1>3, <1>6 DEF RequestRun
<1>10. ItemTypes' /\ ItemsInv'
  BY <1>1, <1>2, WaitItems
<1>11. start' \in [Tasks -> 0..Capacity]
  BY <1>1, <1>2
<1>12. BatchSizes'
  <2>1. Len(NextItems(n)) = n
    BY <1>1, <1>2, NumberedFacts DEF ItemsInv
  <2>2. \A q \in Tasks : batch'[q] = IF q = p THEN NextItems(n) ELSE batch[q]
    BY <1>1, <1>2 DEF ItemTypes
  <2> QED
    BY <1>1, <1>2, <1>3, <1>7, <2>1, <2>2 DEF BatchSizes
<1>13. value + data'.size = value + data.size
  BY <1>1
<1> QED
  BY <1>8, <1>9, <1>10, <1>11, <1>12, <1>13, ServeKeepsQueue

\* The signal of a call aborts.
LEMMA AbortEnqueueKeeps ==
    ASSUME QueueInv, NEW p \in Tasks, AbortEnqueue(p), RememberLost
    PROVE  QueueInv'
<1>1. /\ pc[p] # "idle" /\ promise[p] = "pending"
      /\ promise' = [promise EXCEPT ![p] = "rejected"]
      /\ UNCHANGED <<value, pending, need, pc, run, queued>>
      /\ UNCHANGED <<data, start, batch, used, present, before, upset>>
  BY DEF AbortEnqueue, AbortAcquire
<1>2. /\ SemTypeOK /\ lostPlaces \in Nat /\ PlaceCalls /\ BatchSizes
      /\ ItemTypes /\ ItemsInv /\ start \in [Tasks -> 0..Capacity]
  BY QueueFacts
<1>3. /\ promise' \in [Tasks -> {"pending", "resolved", "rejected"}]
      /\ \A q \in Tasks : promise'[q] = IF q = p THEN "rejected" ELSE promise[q]
  BY <1>1, <1>2 DEF SemTypeOK
<1>4. ItemTypes' /\ ItemsInv'
  BY <1>1, <1>2, SameItems
<1>5. SemTypeOK' /\ BatchSizes' /\ start' \in [Tasks -> 0..Capacity]
  BY <1>1, <1>2, <1>3 DEF SemTypeOK, Distinct, BatchSizes
<1>6. PlaceCalls'
  BY <1>1, <1>2, <1>3 DEF PlaceCalls, On
<1>7. lostPlaces' = lostPlaces
  BY <1>1, <1>2, NoPlaceLost
<1>8. \A q \in Tasks : Granted(q)' <=> Granted(q)
  BY <1>1, <1>3 DEF Granted
<1>9. value' + data'.size = value + data.size /\ need' = need
  BY <1>1
<1> QED
  BY <1>4, <1>5, <1>6, <1>7, <1>8, <1>9, QuietKeepsQueue

\* What leaves the list gives its places back.
LEMMA DequeueKeeps ==
    ASSUME QueueInv, Dequeue \/ RemoveOne \/ ClearQueue, RememberLost
    PROVE  QueueInv'
<1>1. /\ ItemTypes /\ ItemsInv /\ data.size \in Nat
      /\ data.chain \in Seq(Numbers) /\ Len(data.chain) <= data.size
  BY QueueFacts DEF ItemTypes, ItemsInv, ChainInv
<1>2. CASE Dequeue
  <2>1. /\ data.chain # <<>> /\ data' = InternalSplice(data, 0, 1, <<>>)
        /\ Release(Deleted(data, 0, 1)) /\ present' = present \ {Head(data.chain)}
        /\ UNCHANGED <<start, batch, used, before, upset>>
    BY <1>2 DEF Dequeue
  <2>2. /\ InternalSplice(data, 0, 1, <<>>) = RemoveNodeAt(data, 1)
        /\ Deleted(data, 0, 1) = 1
        /\ 1 \in 1..Len(data.chain) /\ Head(data.chain) = data.chain[1]
    BY <1>1, <2>1, DequeueRemoves
  <2>3. data' = RemoveNodeAt(data, 1) /\ Release(1) /\ present' = present \ {data.chain[1]}
    BY <2>1, <2>2, Zenon
  <2>4. ItemTypes' /\ ItemsInv' /\ data'.size + 1 = data.size
    BY <1>1, <2>1, <2>2, <2>3, RemovedItems
  <2>5. 1 \in Nat
    OBVIOUS
  <2> QED
    BY <2>1, <2>3, <2>4, <2>5, ReleaseKeepsQueue, Zenon
<1>3. CASE RemoveOne
  <2>1. PICK k \in DOMAIN data.chain :
           /\ data' = RemoveNodeAt(data, k) /\ Release(1)
           /\ present' = present \ {data.chain[k]}
           /\ UNCHANGED <<start, batch, used, before, upset>>
    BY <1>3 DEF RemoveOne
  <2>2. k \in 1..Len(data.chain)
    BY <1>1, LenProperties
  <2>3. ItemTypes' /\ ItemsInv' /\ data'.size + 1 = data.size
    BY <1>1, <2>1, <2>2, RemovedItems
  <2>4. 1 \in Nat
    OBVIOUS
  <2> QED
    BY <2>1, <2>3, <2>4, ReleaseKeepsQueue, Zenon
<1>4. CASE ClearQueue
  <2>1. /\ data' = EmptyList /\ Release(data.size) /\ present' = {}
        /\ UNCHANGED <<start, batch, used, before, upset>>
    BY <1>4 DEF ClearQueue
  <2>2. ItemTypes' /\ ItemsInv' /\ data'.size = 0
    BY <1>1, <2>1, ClearedItems
  <2>3. data'.size + data.size = data.size
    BY <1>1, <2>2
  <2> QED
    BY <1>1, <2>1, <2>2, <2>3, ReleaseKeepsQueue, Zenon
<1> QED
  BY <1>2, <1>3, <1>4

\* The promise of a run is resolved, or the run is over and the next starts.
LEMMA PlacesServedKeeps ==
    ASSUME QueueInv, PlacesServed, RememberLost
    PROVE  QueueInv'
<1>1. /\ SemTypeOK /\ lostPlaces \in Nat /\ PlaceCalls /\ BatchSizes
      /\ ItemTypes /\ ItemsInv /\ start \in [Tasks -> 0..Capacity]
      /\ value \in 0..MaxValue /\ value \in Nat
  BY QueueFacts
<1>2. UNCHANGED <<data, start, batch, used, present, before, upset>>
  BY DEF PlacesServed
<1>3. ItemTypes' /\ ItemsInv'
  BY <1>1, <1>2, SameItems
<1>4. /\ need \in [Tasks -> Nat] /\ pc \in [Tasks -> PC]
      /\ promise \in [Tasks -> {"pending", "resolved", "rejected"}]
      /\ pending \in Seq(Tasks) /\ Distinct(pending) /\ queued \in BOOLEAN
      /\ run \in {"none", "running", "resolved"}
  BY <1>1 DEF SemTypeOK
<1>5. ASSUME UNCHANGED <<value, pending, need, promise>>, queued' \in BOOLEAN,
             run' \in {"none", "running", "resolved"}, pc' \in [Tasks -> PC],
             \A q \in Tasks : pc'[q] = "idle" <=> pc[q] = "idle"
      PROVE  QueueInv'
  <2>1. SemTypeOK' /\ BatchSizes' /\ PlaceCalls' /\ start' \in [Tasks -> 0..Capacity]
    BY <1>1, <1>2, <1>5 DEF SemTypeOK, Distinct, BatchSizes, PlaceCalls, On
  <2>2. lostPlaces' = lostPlaces
    BY <1>1, <1>5, NoPlaceLost
  <2>3. \A q \in Tasks : Granted(q)' <=> Granted(q)
    BY <1>5 DEF Granted
  <2>4. value' + data'.size = value + data.size /\ need' = need
    BY <1>2, <1>5
  <2> QED
    BY <1>3, <2>1, <2>2, <2>3, <2>4, QuietKeepsQueue
<1>6. CASE RunResolves
  <2>1. /\ UNCHANGED <<value, pending, need, promise, queued>> /\ run' = "resolved"
        /\ pc' = [q \in Tasks |-> IF pc[q] = "current" THEN "deferred" ELSE pc[q]]
    BY <1>6 DEF RunResolves
  <2>2. pc' \in [Tasks -> PC] /\ \A q \in Tasks : pc'[q] = "idle" <=> pc[q] = "idle"
    BY <1>4, <2>1 DEF PC
  <2> QED
    BY <1>4, <1>5, <2>1, <2>2
<1>7. CASE RunEnds /\ queued
  <2>1. /\ run' = "running" /\ queued' = FALSE /\ need' = need
        /\ HandlePendingAcquisitions(pending, value, need, promise)
        /\ pc' = [q \in Tasks |-> IF pc[q] = "next" THEN "current" ELSE pc[q]]
    BY <1>7 DEF RunEnds
  <2>2. PICK n \in 0..Len(pending) :
              /\ Serves(pending, value, need, n)
              /\ n < Len(pending) => value' < need[pending[n + 1]]
    BY <1>1, <1>4, <2>1, HandlerServes
  <2>3. pc' \in [Tasks -> PC] /\ \A q \in Tasks : pc'[q] = "idle" <=> pc[q] = "idle"
    BY <1>4, <2>1 DEF PC
  <2>4. PlaceStep({}, pending, value, need, n)
    BY <1>1, <1>4, <2>1, <2>2, <2>3 DEF PlaceStep
  <2>5. /\ run' \in {"none", "running", "resolved"} /\ queued' \in BOOLEAN
        /\ start' \in [Tasks -> 0..Capacity]
        /\ value + data'.size = value + data.size
    BY <1>1, <1>2, <2>1
  <2>6. BatchSizes'
    BY <1>1, <1>2, <2>1, <2>3 DEF BatchSizes
  <2> QED
    BY <1>3, <2>4, <2>5, <2>6, ServeKeepsQueue
<1>8. CASE RunEnds /\ ~queued
  <2>1. UNCHANGED <<value, pending, need, promise, pc>> /\ run' = "none" /\ queued' = FALSE
    BY <1>8 DEF RunEnds
  <2> QED
    BY <1>4, <1>5, <2>1
<1> QED
  BY <1>6, <1>7, <1>8 DEF PlacesServed

\* waitEnqueue() after its await: its items are in its places, or it throws.
LEMMA WaitEnqueueSettlesKeeps ==
    ASSUME QueueInv, NEW p \in Tasks, WaitEnqueueSettles(p), RememberLost
    PROVE  QueueInv'
<1>1. /\ pc[p] = "deferred" /\ promise[p] # "pending"
      /\ pending' = RemoveSafe(pending, p)
      /\ pc' = [pc EXCEPT ![p] = "idle"]
      /\ promise' = [promise EXCEPT ![p] = "pending"]
      /\ need' = [need EXCEPT ![p] = 0]
      /\ UNCHANGED <<value, run, queued>>
      /\ start' = [start EXCEPT ![p] = 0]
      /\ batch' = [batch EXCEPT ![p] = <<>>]
      /\ UNCHANGED <<used, before>>
      /\ \/ Granted(p) /\ Insert(start[p], batch[p])
         \/ ~Granted(p) /\ UNCHANGED <<data, present, upset>>
  BY DEF WaitEnqueueSettles, AcquireSettles
<1>2. /\ SemTypeOK /\ lostPlaces \in Nat /\ PlaceCalls /\ BatchSizes
      /\ ItemTypes /\ ItemsInv /\ start \in [Tasks -> 0..Capacity]
      /\ value \in 0..MaxValue /\ value \in Nat /\ MaxValue \in Nat
      /\ data.size \in Nat /\ 0 \in 0..Capacity
      /\ IsFiniteSet(Permits(Grantees, need)) /\ SumOf(Grantees, need) \in Nat
      /\ MaxValue = value + data.size + lostPlaces + SumOf(Grantees, need)
  <2>1. Capacity = MaxValue /\ MaxValue \in Nat
    BY QueueFacts
  <2>2. 0 \in 0..Capacity
    BY <2>1
  <2> QED
    BY <2>2, QueueFacts
<1>3. /\ pending \in Seq(Tasks) /\ Distinct(pending)
      /\ promise \in [Tasks -> {"pending", "resolved", "rejected"}]
      /\ pc \in [Tasks -> PC] /\ need \in [Tasks -> Nat]
      /\ batch \in [Tasks -> Seq(Numbers)]
  BY <1>2 DEF SemTypeOK, ItemTypes
<1>4. /\ pending' \in Seq(Tasks) /\ Distinct(pending')
      /\ \A q : On(pending', q) <=> On(pending, q) /\ q # p
  BY <1>1, <1>3, RemoveSafeFacts
<1>5. \A q \in Tasks :
          /\ promise'[q] = IF q = p THEN "pending" ELSE promise[q]
          /\ pc'[q] = IF q = p THEN "idle" ELSE pc[q]
          /\ need'[q] = IF q = p THEN 0 ELSE need[q]
          /\ batch'[q] = IF q = p THEN <<>> ELSE batch[q]
  BY <1>1, <1>3
<1>6. /\ ItemTypes' /\ ItemsInv'
      /\ Insert(start[p], batch[p]) => data'.size = data.size + Len(batch[p])
  BY <1>1, <1>2, SettleItems
<1>7. SemTypeOK'
  <2>1. /\ promise' \in [Tasks -> {"pending", "resolved", "rejected"}]
        /\ pc' \in [Tasks -> PC] /\ need' \in [Tasks -> Nat]
    BY <1>1, <1>3 DEF PC
  <2> QED
    BY <1>1, <1>2, <1>4, <2>1 DEF SemTypeOK, Distinct
<1>8. PlaceCalls'
  BY <1>2, <1>4, <1>5 DEF PlaceCalls
<1>9. BatchSizes'
  <2>1. Len(<<>>) = 0
    OBVIOUS
  <2> QED
    BY <1>2, <1>5, <2>1 DEF BatchSizes
<1>10. start' \in [Tasks -> 0..Capacity]
  BY <1>1, <1>2
<1>11. lostPlaces' = lostPlaces
  <2>1. \A q \in Tasks : On(pending, q) /\ ~On(pending', q) => pc'[q] = "idle"
    BY <1>4, <1>5
  <2> QED
    BY <1>2, <2>1, NoPlaceLost
<1> DEFINE rest == Grantees \ {p}
<1>12. Grantees' = rest
  <2>1. \A q \in Tasks : Granted(q)' <=> Granted(q) /\ q # p
    BY <1>5 DEF Granted
  <2> QED
    BY <2>1 DEF Grantees
<1>13. /\ IsFiniteSet(Permits(rest, need)) /\ SumOf(rest, need) \in Nat
       /\ Permits(Grantees, need)' = Permits(rest, need)
       /\ SumOf(Grantees, need)' = SumOf(rest, need)
  <2>1. rest \subseteq Grantees /\ \A q \in rest : need'[q] = need[q]
    BY <1>5 DEF Grantees
  <2>2. Permits(Grantees, need)' = Permits(rest, need') /\ SumOf(Grantees, need)' = SumOf(rest, need')
    BY <1>12 DEF SumOf, Permits
  <2> HIDE DEF rest
  <2>3. IsFiniteSet(Permits(rest, need)) /\ SumOf(rest, need) \in Nat
    BY <1>2, <2>1, SumOfSome
  <2>4. Permits(rest, need') = Permits(rest, need) /\ SumOf(rest, need') = SumOf(rest, need)
    BY <2>1, SumOfSame
  <2> QED
    BY <2>2, <2>3, <2>4
<1>14. value' + data'.size + SumOf(rest, need) = value + data.size + SumOf(Grantees, need)
  <2> DEFINE sum == SumOf(rest, need)
             all == SumOf(Grantees, need)
             size == data.size
             size2 == data'.size
             m == need[p]
  <2>1. m \in Nat /\ m = Len(batch[p]) /\ sum \in Nat /\ size \in Nat
    BY <1>2, <1>3, <1>13 DEF BatchSizes
  <2>2. CASE Granted(p) /\ Insert(start[p], batch[p])
    <3>1. p \notin rest /\ rest \cup {p} = Grantees
      BY <2>2 DEF Grantees
    <3>2. SumOf(rest \cup {p}, need) = sum + m
      <4> HIDE DEF rest, sum, m
      <4> QED
        BY <1>13, <2>1, <3>1, SumOfOneMore DEF sum, m
    <3>3. all = sum + m
      BY <3>1, <3>2, Zenon
    <3>4. size2 = size + m /\ value' = value
      BY <1>1, <1>6, <2>1, <2>2
    <3> HIDE DEF sum, all, size, size2, m
    <3>5. value' + size2 + sum = value + size + all
      <4>1. /\ m \in Nat /\ sum \in Nat /\ size \in Nat /\ value \in Nat /\ value' = value
            /\ all = sum + m /\ size2 = size + m
        BY <1>2, <2>1, <3>3, <3>4
      <4> QED
        BY <4>1
    <3> QED
      BY <3>5 DEF sum, all, size, size2
  <2>3. CASE ~Granted(p) /\ data' = data
    <3>1. rest = Grantees
      BY <2>3 DEF Grantees
    <3> HIDE DEF rest
    <3> QED
      BY <1>1, <2>3, <3>1
  <2> QED
    BY <1>1, <2>2, <2>3
<1>15. MaxValue = value' + data'.size + lostPlaces' + SumOf(Grantees, need)'
  <2> DEFINE free == value        free2 == value'
             taken == data.size   taken2 == data'.size
             given == SumOf(Grantees, need)  given2 == SumOf(rest, need)
  <2>1. /\ free \in Nat /\ taken \in Nat /\ given \in Nat /\ lostPlaces \in Nat
        /\ free2 \in Nat /\ taken2 \in Nat /\ given2 \in Nat
        /\ free2 + taken2 + given2 = free + taken + given
        /\ MaxValue = free + taken + lostPlaces + given
    BY <1>1, <1>2, <1>6, <1>13, <1>14 DEF ItemTypes
  <2> HIDE DEF free, free2, taken, taken2, given, given2
  <2>2. MaxValue = free2 + taken2 + lostPlaces + given2
    BY <2>1
  <2> QED
    BY <1>11, <1>13, <2>2 DEF free2, taken2, given2
<1>16. IsFiniteSet(Permits(Grantees, need)') /\ SumOf(Grantees, need)' \in Nat /\ lostPlaces' \in Nat
  BY <1>2, <1>11, <1>13
<1> HIDE DEF rest
<1> QED
  BY <1>6, <1>7, <1>8, <1>9, <1>10, <1>15, <1>16, QueueFactsHold

-----------------------------------------------------------------------------
\* At the start the queue is empty and every place of it is free.
LEMMA InitQueueInv == QueueInit => QueueInv
<1> SUFFICES ASSUME QueueInit PROVE QueueInv
  OBVIOUS
<1>1. /\ value = MaxValue /\ pending = <<>> /\ need = [p \in Tasks |-> 0]
      /\ promise = [p \in Tasks |-> "pending"] /\ pc = [p \in Tasks |-> "idle"]
      /\ run = "none" /\ queued = FALSE
      /\ data.chain = <<>> /\ data.size = 0
      /\ start = [p \in Tasks |-> 0] /\ batch = [p \in Tasks |-> <<>>]
      /\ used = 0 /\ present = {} /\ before = [i \in Numbers |-> {}]
      /\ lostPlaces = 0 /\ upset = {}
  BY QueueAssumption DEF QueueInit, SemInit, EmptyList
<1>2. /\ MaxValue \in Nat /\ MaxItems \in Nat /\ Len(<<>>) = 0 /\ \A x : ~On(<<>>, x)
      /\ \A S : <<>> \in Seq(S) /\ Distinct(<<>>)
  BY ValueAssumption, QueueAssumption DEF On, Distinct
<1>3. \A p \in Tasks : batch[p] = <<>> /\ need[p] = 0 /\ ~Granted(p)
  BY <1>1 DEF Granted
<1>4. SemTypeOK
  <2>1. value \in 0..MaxValue
    BY <1>1, <1>2
  <2>2. pending \in Seq(Tasks) /\ Distinct(pending)
    BY <1>1, <1>2
  <2>3. /\ need \in [Tasks -> Nat]
        /\ promise \in [Tasks -> {"pending", "resolved", "rejected"}]
        /\ pc \in [Tasks -> PC]
    BY <1>1 DEF PC
  <2> QED
    BY <1>1, <2>1, <2>2, <2>3 DEF SemTypeOK
<1>5. QueueTypeOK
  <2>1. data.size \in 0..Capacity /\ used \in 0..MaxItems
    BY <1>1, <1>2 DEF Capacity
  <2>2. start \in [Tasks -> 0..Capacity]
    BY <1>1, <1>2 DEF Capacity
  <2>3. batch \in [Tasks -> Seq(Numbers)] /\ before \in [Numbers -> SUBSET Numbers]
    BY <1>1, <1>2
  <2>4. data.chain \in Seq(Numbers) /\ Distinct(data.chain)
    BY <1>1, <1>2
  <2>5. present \subseteq Numbers /\ lostPlaces \in Nat /\ upset \subseteq Event
    BY <1>1
  <2> QED
    BY <1>4, <2>1, <2>2, <2>3, <2>4, <2>5 DEF QueueTypeOK
<1>6. BatchSizes /\ PlaceCalls
  BY <1>1, <1>2, <1>3 DEF BatchSizes, PlaceCalls
<1>7. PlacesInv
  <2>1. Grantees = {}
    BY <1>3 DEF Grantees
  <2>2. IsFiniteSet(Permits(Grantees, need)) /\ SumOf(Grantees, need) = 0
    BY <2>1, SumOfNone
  <2> QED
    BY <1>1, <1>2, <2>2 DEF PlacesInv, PlacesConserved, Capacity, Grantees
<1>8. BatchInv
  BY <1>2, <1>3 DEF BatchInv, Increasing
<1>9. ChainInv
  <2>1. ToSet(<<>>) = {}
    BY DEF ToSet
  <2> QED
    BY <1>1, <1>2, <2>1 DEF ChainInv, LossNeedsShrink, ItemsKept, WellFormed
<1>10. EarlierInv
  BY <1>1, <1>2, <1>3 DEF EarlierInv
<1>11. FifoOrder
  BY <1>1 DEF FifoOrder
<1> QED
  BY <1>5, <1>6, <1>7, <1>8, <1>9, <1>10, <1>11 DEF QueueInv, ItemsInv

\* Nothing else changes the invariant.
LEMMA StutterKeepsQueue == QueueInv /\ UNCHANGED allVars => QueueInv'
<1> SUFFICES ASSUME QueueInv, UNCHANGED allVars PROVE QueueInv'
  OBVIOUS
<1>1. /\ UNCHANGED <<value, pending, need, promise, pc, run, queued>>
      /\ UNCHANGED <<data, start, batch, used, present, before, lostPlaces, upset>>
  BY DEF allVars, semVars, queueVars
<1>2. /\ SemTypeOK /\ PlaceCalls /\ BatchSizes /\ ItemTypes /\ ItemsInv
      /\ start \in [Tasks -> 0..Capacity]
  BY QueueFacts
<1>3. ItemTypes' /\ ItemsInv'
  BY <1>1, <1>2, SameItems
<1>4. SemTypeOK' /\ BatchSizes' /\ PlaceCalls' /\ start' \in [Tasks -> 0..Capacity]
  BY <1>1, <1>2 DEF SemTypeOK, Distinct, BatchSizes, PlaceCalls, On
<1>5. \A q \in Tasks : Granted(q)' <=> Granted(q)
  BY <1>1 DEF Granted
<1>6. value' + data'.size = value + data.size /\ need' = need /\ lostPlaces' = lostPlaces
  BY <1>1
<1> QED
  BY <1>3, <1>4, <1>5, <1>6, QuietKeepsQueue

LEMMA NextQueueInv == QueueInv /\ [QueueNext]_allVars => QueueInv'
<1> SUFFICES ASSUME QueueInv, [QueueNext]_allVars PROVE QueueInv'
  OBVIOUS
<1>1. ASSUME NEW n \in Sizes, Enqueue(n), RememberLost PROVE QueueInv'
  BY <1>1, EnqueueKeeps
<1>2. ASSUME NEW p \in Tasks, NEW n \in Sizes, WaitEnqueue(p, n), RememberLost PROVE QueueInv'
  BY <1>2, WaitEnqueueKeeps
<1>3. ASSUME NEW p \in Tasks, WaitEnqueueSettles(p), RememberLost PROVE QueueInv'
  BY <1>3, WaitEnqueueSettlesKeeps
<1>4. ASSUME NEW p \in Tasks, AbortEnqueue(p), RememberLost PROVE QueueInv'
  BY <1>4, AbortEnqueueKeeps
<1>5. CASE (Dequeue \/ RemoveOne \/ ClearQueue) /\ RememberLost
  BY <1>5, DequeueKeeps
<1>6. CASE PlacesServed /\ RememberLost
  BY <1>6, PlacesServedKeeps
<1>7. CASE UNCHANGED allVars
  BY <1>7, StutterKeepsQueue
<1> QED
  BY <1>1, <1>2, <1>3, <1>4, <1>5, <1>6, <1>7 DEF QueueNext

(***************************************************************************)
(* Whatever calls of enqueue(), waitEnqueue(), dequeue(), removeFirst()    *)
(* and clear() fall together, are aborted or wait: the list never exceeds  *)
(* its capacity and every place of it is accounted for, no item is lost    *)
(* unless the list shrank under a waiting call, and the items are in order *)
(* unless it grew under one (queue.ts:19, linked-list.ts:201).             *)
(***************************************************************************)
THEOREM QueueHoldsItems == QueueSpec => []QueueKeepsItems
<1>1. QueueInit => QueueInv
  BY InitQueueInv
<1>2. QueueInv /\ [QueueNext]_allVars => QueueInv'
  BY NextQueueInv
<1>3. QueueInv => QueueKeepsItems
  BY DEF QueueInv, PlacesInv, ItemsInv, ChainInv, QueueKeepsItems
<1> QED
  BY <1>1, <1>2, <1>3, PTL DEF QueueSpec
=============================================================================
