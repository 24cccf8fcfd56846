------------------------ MODULE SignalSemaphoreProofs ------------------------
(***************************************************************************)
(* What the operations on a signal semaphore preserve, for every number of *)
(* tasks.  Every object of src/pthreads is built on them, so the proofs    *)
(* about the objects cite these lemmas.                                    *)
(***************************************************************************)
EXTENDS SignalSemaphore, SequencesExt, SequenceTheorems, FiniteSetTheorems, TLAPS

-----------------------------------------------------------------------------
(***************************************************************************)
(* The requests at a set of positions                                      *)
(***************************************************************************)
\* A set of positions is finite.
LEMMA PositionsFinite ==
  ASSUME NEW n \in Nat, NEW w \in SUBSET (1..n)
  PROVE  IsFiniteSet(w) /\ Cardinality(w) \in Nat
<1>1. IsFiniteSet(1..n)
  <2>1. 1 \in Int /\ n \in Int
    OBVIOUS
  <2> QED
    BY <2>1, FS_Interval
<1> QED
  BY <1>1, FS_Subset, FS_CardinalityType

\* The rank of a position grows with the position.
LEMMA RankGrows ==
  ASSUME NEW n \in Nat, NEW w \in SUBSET (1..n), NEW i \in w, NEW j \in w, i < j
  PROVE  Rank(w, i) < Rank(w, j)
<1> DEFINE a == {k \in w : k <= i}
           b == {k \in w : k <= j}
<1>1. IsFiniteSet(w)
  BY PositionsFinite
<1>2. IsFiniteSet(b)
  <2>1. b \in SUBSET w
    OBVIOUS
  <2> QED
    BY <1>1, <2>1, FS_Subset
<1>3. a \in SUBSET b /\ j \in b /\ j \notin a
  <2>1. \A k \in w : k \in Int
    OBVIOUS
  <2>2. \A k \in w : k <= i => k <= j
    BY <2>1
  <2>3. a \in SUBSET b
    BY <2>2
  <2> QED
    BY <2>1, <2>3
<1>4. Cardinality(a) <= Cardinality(b) /\ Cardinality(a) # Cardinality(b)
  BY <1>2, <1>3, FS_Subset
<1>5. Cardinality(a) \in Nat /\ Cardinality(b) \in Nat
  BY <1>2, <1>3, FS_Subset, FS_CardinalityType
<1> QED
  BY <1>4, <1>5 DEF Rank

\* Each number up to the size of the set is the rank of one position.
LEMMA RankHits ==
  ASSUME NEW n \in Nat, NEW w \in SUBSET (1..n)
  PROVE  /\ IsFiniteSet(w) /\ Cardinality(w) \in Nat
         /\ \A i \in w : Rank(w, i) \in 1..Cardinality(w)
         /\ \A k \in 1..Cardinality(w) : \E i \in w : Rank(w, i) = k
<1> DEFINE c == Cardinality(w)
           f == [i \in w |-> Rank(w, i)]
<1>1. IsFiniteSet(w) /\ c \in Nat
  BY PositionsFinite
<1>2. ASSUME NEW i \in w PROVE Rank(w, i) \in 1..c
  <2> DEFINE a == {k \in w : k <= i}
  <2>1. a \in SUBSET w /\ i \in a
    <3>1. i \in Int
      OBVIOUS
    <3>2. i <= i
      BY <3>1
    <3> QED
      BY <3>2
  <2>2. IsFiniteSet(a) /\ Cardinality(a) <= c /\ Cardinality(a) \in Nat
    BY <1>1, <2>1, FS_Subset, FS_CardinalityType
  <2>3. Cardinality(a) # 0
    BY <2>1, <2>2, FS_EmptySet
  <2> QED
    BY <1>1, <2>2, <2>3 DEF Rank
<1>3. f \in Injection(w, 1..c)
  <2>1. f \in [w -> 1..c]
    BY <1>2
  <2>2. ASSUME NEW i \in w, NEW j \in w, i # j PROVE f[i] # f[j]
    <3>1. i < j \/ j < i
      BY <2>2
    <3>2. Rank(w, i) \in Int /\ Rank(w, j) \in Int
      BY <1>2
    <3>3. i < j => Rank(w, i) < Rank(w, j)
      BY RankGrows
    <3>4. j < i => Rank(w, j) < Rank(w, i)
      BY RankGrows
    <3> QED
      BY <3>1, <3>2, <3>3, <3>4
  <2> QED
    BY <2>1, <2>2 DEF Injection, IsInjective
<1>4. IsFiniteSet(1..c) /\ Cardinality(1..c) = c
  BY <1>1, FS_Interval
<1>5. f \in Surjection(w, 1..c)
  BY <1>1, <1>3, <1>4, FS_Injection
<1>6. \A k \in 1..c : \E i \in w : Rank(w, i) = k
  BY <1>5 DEF Surjection
<1> QED
  BY <1>1, <1>2, <1>6

\* f numbers the positions in w, in their order, and r is q at these positions.
Numbering(q, w, r, f) ==
  /\ f \in [1..Cardinality(w) -> w]
  /\ \A k, l \in 1..Cardinality(w) : k < l => f[k] < f[l]
  /\ \A i \in w : \E k \in 1..Cardinality(w) : f[k] = i
  /\ \A k \in 1..Cardinality(w) : r[k] = q[f[k]]

\* The requests that are picked are those at the positions of the set, each
\* of them once and in their order.
LEMMA PickLemma ==
  ASSUME NEW S, NEW q \in Seq(S), NEW w \in SUBSET (1..Len(q))
  PROVE  /\ IsFiniteSet(w) /\ Cardinality(w) \in Nat
         /\ Pick(q, w) \in Seq(S) /\ Len(Pick(q, w)) = Cardinality(w)
         /\ \E f : Numbering(q, w, Pick(q, w), f)
<1> DEFINE c == Cardinality(w)
           at(k) == CHOOSE i \in w : Rank(w, i) = k
           f == [k \in 1..c |-> at(k)]
<1>0. Len(q) \in Nat /\ \A i \in w : i \in 1..Len(q)
  OBVIOUS
<1>1. /\ IsFiniteSet(w) /\ c \in Nat
      /\ \A i \in w : Rank(w, i) \in 1..c
      /\ \A k \in 1..c : \E i \in w : Rank(w, i) = k
  BY <1>0, RankHits
<1>r. \A i, j \in w : i < j => Rank(w, i) < Rank(w, j)
  BY <1>0, RankGrows
<1>2. \A k \in 1..c : at(k) \in w /\ Rank(w, at(k)) = k
  BY <1>1
<1>3. Pick(q, w) = [k \in 1..c |-> q[at(k)]]
  BY DEF Pick
<1> HIDE DEF at
<1>i. \A k \in 1..c : at(k) \in 1..Len(q)
  BY <1>0, <1>2, Zenon
<1>4. ASSUME NEW i \in w, NEW j \in w, Rank(w, i) = Rank(w, j) PROVE i = j
  <2>1. Rank(w, i) \in Int
    BY <1>1
  <2>2. ~(i < j) /\ ~(j < i)
    BY <1>4, <2>1, <1>r
  <2> QED
    BY <1>0, <2>2
<1>5. \A k, l \in 1..c : k < l => at(k) < at(l)
  <2> SUFFICES ASSUME NEW k \in 1..c, NEW l \in 1..c, k < l PROVE at(k) < at(l)
    OBVIOUS
  <2>1. at(k) # at(l)
    BY <1>2
  <2>2. ~(at(l) < at(k))
    <3>1. at(l) < at(k) => l < k
      BY <1>2, <1>r
    <3> QED
      BY <3>1
  <2>3. at(k) \in Int /\ at(l) \in Int
    BY <1>i
  <2> QED
    BY <2>1, <2>2, <2>3
<1>6. \A i \in w : \E k \in 1..c : at(k) = i
  BY <1>1, <1>2, <1>4
<1>7. Pick(q, w) \in Seq(S) /\ Len(Pick(q, w)) = c
  <2>1. \A k \in 1..c : q[at(k)] \in S
    BY <1>i
  <2>2. Pick(q, w) \in [1..c -> S]
    BY <1>3, <2>1
  <2> QED
    BY <1>1, <2>2
<1>8. /\ f \in [1..c -> w]
      /\ \A k, l \in 1..c : k < l => f[k] < f[l]
      /\ \A i \in w : \E k \in 1..c : f[k] = i
      /\ \A k \in 1..c : Pick(q, w)[k] = q[f[k]]
  BY <1>2, <1>3, <1>5, <1>6
<1>9. Numbering(q, w, Pick(q, w), f)
  BY <1>8 DEF Numbering
<1> QED
  BY <1>1, <1>7, <1>9

-----------------------------------------------------------------------------
(***************************************************************************)
(* Both modes                                                              *)
(***************************************************************************)
\* t waits for the semaphore in this mode.
Waits(sem, t, shared) ==
  \E i \in 1..Len(sem.queue) : sem.queue[i].task = t /\ sem.queue[i].shared = shared

\* A semaphore that nobody has is free, its owner does not wait for it, and
\* nobody waits for it twice.
Orderly(sem) ==
  /\ sem \in Semaphore
  /\ sem.nest = 0 => sem = FreeSemaphore
  /\ ~Queued(sem, sem.owner)
  /\ \A i, j \in 1..Len(sem.queue) : sem.queue[i].task = sem.queue[j].task => i = j

\* What the fields of an orderly semaphore are.
LEMMA OrderlyTypes ==
  ASSUME NEW sem, Orderly(sem)
  PROVE  /\ sem.owner \in Task \cup {NoTask} /\ sem.nest \in Nat /\ sem.queue \in Seq(Request)
         /\ \A i \in 1..Len(sem.queue) :
              sem.queue[i] \in Request /\ sem.queue[i].task \in Task /\ sem.queue[i].shared \in BOOLEAN
         /\ sem = [owner |-> sem.owner, nest |-> sem.nest, queue |-> sem.queue]
<1>1. sem \in [owner : Task \cup {NoTask}, nest : Nat, queue : Seq(Request)]
  BY DEF Orderly, Semaphore
<1>2. \A i \in 1..Len(sem.queue) : sem.queue[i] \in Request
  BY <1>1
<1>3. \A r \in Request : r.task \in Task /\ r.shared \in BOOLEAN
  BY DEF Request
<1> QED
  BY <1>1, <1>2, <1>3

\* Who waits, waits in one of the modes, and in one only.
LEMMA WaitsInOneMode ==
  ASSUME NEW sem, Orderly(sem), NEW t
  PROVE  /\ Queued(sem, t) <=> Waits(sem, t, TRUE) \/ Waits(sem, t, FALSE)
         /\ ~(Waits(sem, t, TRUE) /\ Waits(sem, t, FALSE))
<1>1. \A i \in 1..Len(sem.queue) : sem.queue[i].shared \in BOOLEAN
  BY OrderlyTypes
<1>2. \A i, j \in 1..Len(sem.queue) : sem.queue[i].task = sem.queue[j].task => i = j
  BY DEF Orderly
<1> QED
  BY <1>1, <1>2 DEF Queued, Waits

\* A cleared semaphore is orderly and nobody waits for it.
LEMMA FreeOrderly ==
  Orderly(FreeSemaphore) /\ \A t, m : ~Queued(FreeSemaphore, t) /\ ~Waits(FreeSemaphore, t, m)
<1>1. FreeSemaphore.queue = <<>> /\ Len(<<>>) = 0
  BY DEF FreeSemaphore
<1>2. <<>> \in Seq(Request)
  OBVIOUS
<1>3. FreeSemaphore \in Semaphore
  BY <1>2 DEF FreeSemaphore, Semaphore
<1> QED
  BY <1>1, <1>3, SMT DEF Orderly, Queued, Waits

\* A request that is granted: the count goes up, and the owner is the task
\* that has got it first, if it is not shared.
LEMMA GrantedLemma ==
  ASSUME NEW sem, Orderly(sem), NEW t \in Task, ~Queued(sem, t), NEW m \in BOOLEAN,
         Grants(sem, t, m)
  PROVE  /\ Orderly(ObtainMode(sem, t, m))
         /\ ObtainMode(sem, t, m).queue = sem.queue
         /\ ObtainMode(sem, t, m).nest = sem.nest + 1
         /\ ObtainMode(sem, t, m).owner = IF sem.nest = 0 /\ ~m THEN t ELSE sem.owner
<1> DEFINE s == ObtainMode(sem, t, m)
           o == IF sem.nest = 0 /\ ~m THEN t ELSE sem.owner
<1>1. /\ sem.owner \in Task \cup {NoTask} /\ sem.nest \in Nat /\ sem.queue \in Seq(Request)
      /\ sem = [owner |-> sem.owner, nest |-> sem.nest, queue |-> sem.queue]
  BY OrderlyTypes
<1>2. s = [sem EXCEPT !.owner = o, !.nest = sem.nest + 1]
  BY DEF ObtainMode
<1>3. s = [owner |-> o, nest |-> sem.nest + 1, queue |-> sem.queue]
  BY <1>1, <1>2
<1>4. s.owner = o /\ s.nest = sem.nest + 1 /\ s.queue = sem.queue
  BY <1>3
<1>5. s \in Semaphore
  BY <1>1, <1>3 DEF Semaphore
<1>6. ~Queued(s, s.owner)
  BY <1>4 DEF Queued, Orderly
<1>7. s.nest # 0
  BY <1>1, <1>4
<1>8. Orderly(s)
  BY <1>4, <1>5, <1>6, <1>7 DEF Orderly
<1> QED
  BY <1>4, <1>8

\* A request that is not granted only joins those that wait.
LEMMA DeniedLemma ==
  ASSUME NEW sem, Orderly(sem), NEW t \in Task, ~Queued(sem, t), NEW m \in BOOLEAN,
         ~Grants(sem, t, m)
  PROVE  /\ Orderly(ObtainMode(sem, t, m))
         /\ ObtainMode(sem, t, m).nest = sem.nest
         /\ ObtainMode(sem, t, m).owner = sem.owner
         /\ \A u : Queued(ObtainMode(sem, t, m), u) <=> Queued(sem, u) \/ u = t
         /\ \A u, n : Waits(ObtainMode(sem, t, m), u, n) <=> Waits(sem, u, n) \/ (u = t /\ n = m)
<1> DEFINE s == ObtainMode(sem, t, m)
           r == [task |-> t, shared |-> m]
<1>1. /\ sem.owner \in Task \cup {NoTask} /\ sem.nest \in Nat /\ sem.queue \in Seq(Request)
      /\ sem = [owner |-> sem.owner, nest |-> sem.nest, queue |-> sem.queue]
  BY OrderlyTypes
<1>2. s = [sem EXCEPT !.queue = Append(sem.queue, r)]
  BY DEF ObtainMode
<1>3. s = [owner |-> sem.owner, nest |-> sem.nest, queue |-> Append(sem.queue, r)]
  BY <1>1, <1>2
<1>4. s.owner = sem.owner /\ s.nest = sem.nest /\ s.queue = Append(sem.queue, r)
  BY <1>3
<1>5. r \in Request
  BY DEF Request
<1>6. Append(sem.queue, r) \in Seq(Request)
  BY <1>1, <1>5
<1>7. s \in Semaphore
  BY <1>1, <1>3, <1>6 DEF Semaphore
<1>8. /\ Len(s.queue) = Len(sem.queue) + 1 /\ Len(sem.queue) \in Nat
      /\ \A i \in 1..Len(sem.queue) : s.queue[i] = sem.queue[i]
      /\ s.queue[Len(sem.queue) + 1].task = t /\ s.queue[Len(sem.queue) + 1].shared = m
  BY <1>1, <1>4
<1>d. 1..Len(s.queue) = 1..Len(sem.queue) \cup {Len(sem.queue) + 1}
  BY <1>8
<1>9. ASSUME NEW u, NEW n
      PROVE  Waits(s, u, n) <=> Waits(sem, u, n) \/ (u = t /\ n = m)
  <2> HIDE DEF s, r
  <2>1. ASSUME Waits(s, u, n) PROVE Waits(sem, u, n) \/ (u = t /\ n = m)
    <3>1. PICK i \in 1..Len(s.queue) : s.queue[i].task = u /\ s.queue[i].shared = n
      BY <2>1 DEF Waits
    <3> QED
      BY <1>8, <1>d, <3>1, Zenon DEF Waits
  <2>2. ASSUME Waits(sem, u, n) PROVE Waits(s, u, n)
    <3>1. PICK i \in 1..Len(sem.queue) : sem.queue[i].task = u /\ sem.queue[i].shared = n
      BY <2>2 DEF Waits
    <3>2. i \in 1..Len(s.queue) /\ s.queue[i].task = u /\ s.queue[i].shared = n
      BY <1>8, <1>d, <3>1
    <3> QED
      BY <3>2, Zenon DEF Waits
  <2>3. ASSUME u = t, n = m PROVE Waits(s, u, n)
    BY <1>8, <1>d, <2>3, Zenon DEF Waits
  <2> QED
    BY <2>1, <2>2, <2>3
<1>10. ASSUME NEW u PROVE Queued(s, u) <=> Queued(sem, u) \/ u = t
  <2> HIDE DEF s, r
  <2>1. ASSUME Queued(s, u) PROVE Queued(sem, u) \/ u = t
    <3>1. PICK i \in 1..Len(s.queue) : s.queue[i].task = u
      BY <2>1 DEF Queued
    <3> QED
      BY <1>8, <1>d, <3>1, Zenon DEF Queued
  <2>2. ASSUME Queued(sem, u) PROVE Queued(s, u)
    <3>1. PICK i \in 1..Len(sem.queue) : sem.queue[i].task = u
      BY <2>2 DEF Queued
    <3>2. i \in 1..Len(s.queue) /\ s.queue[i].task = u
      BY <1>8, <1>d, <3>1
    <3> QED
      BY <3>2, Zenon DEF Queued
  <2>3. ASSUME u = t PROVE Queued(s, u)
    BY <1>8, <1>d, <2>3, Zenon DEF Queued
  <2> QED
    BY <2>1, <2>2, <2>3
<1>11. \A i, j \in 1..Len(s.queue) : s.queue[i].task = s.queue[j].task => i = j
  <2>1. \A i \in 1..Len(sem.queue) : sem.queue[i].task # t
    BY DEF Queued
  <2>2. \A i, j \in 1..Len(sem.queue) : sem.queue[i].task = sem.queue[j].task => i = j
    BY DEF Orderly
  <2>3. \A i \in 1..Len(s.queue) : i \in 1..Len(sem.queue) \/ i = Len(sem.queue) + 1
    BY <1>8
  <2> QED
    BY <1>8, <2>1, <2>2, <2>3
<1>12. sem.nest # 0 /\ sem.owner # t
  BY DEF Grants
<1>13. Orderly(s)
  BY <1>4, <1>7, <1>10, <1>11, <1>12 DEF Orderly
<1> QED
  BY <1>4, <1>9, <1>10, <1>13

\* Of the requests for sem just those at the positions w wait for s.
PicksOut(sem, w, s) ==
  /\ s.queue \in Seq(Request)
  /\ \A u : Queued(s, u) <=> \E i \in w : sem.queue[i].task = u
  /\ \A u, m : Waits(s, u, m) <=> \E i \in w : sem.queue[i].task = u /\ sem.queue[i].shared = m
  /\ \A i, j \in 1..Len(s.queue) : s.queue[i].task = s.queue[j].task => i = j

\* After all but the requests at some positions are taken out, those wait.
LEMMA KeptWaits ==
  ASSUME NEW sem, Orderly(sem), NEW w, w \in SUBSET (1..Len(sem.queue)),
         NEW s, s.queue = Pick(sem.queue, w)
  PROVE  PicksOut(sem, w, s)
<1>1. sem.queue \in Seq(Request)
  BY OrderlyTypes
<1>2. s.queue \in Seq(Request) /\ Len(s.queue) = Cardinality(w) /\ Cardinality(w) \in Nat
  BY <1>1, PickLemma
<1>a. PICK f : Numbering(sem.queue, w, Pick(sem.queue, w), f)
  BY <1>1, PickLemma, Zenon
<1>3. /\ f \in [1..Cardinality(w) -> w]
      /\ \A k, l \in 1..Cardinality(w) : k < l => f[k] < f[l]
      /\ \A i \in w : \E k \in 1..Cardinality(w) : f[k] = i
      /\ \A k \in 1..Cardinality(w) : Pick(sem.queue, w)[k] = sem.queue[f[k]]
  BY <1>a DEF Numbering
<1>4. \A k \in 1..Len(s.queue) : f[k] \in w /\ s.queue[k] = sem.queue[f[k]]
  BY <1>2, <1>3
<1>5. \A i \in w : \E k \in 1..Len(s.queue) : f[k] = i
  BY <1>2, <1>3
<1>6. \A u : Queued(s, u) <=> \E i \in w : sem.queue[i].task = u
  BY <1>4, <1>5 DEF Queued
<1>7. ASSUME NEW u, NEW m
      PROVE  Waits(s, u, m) <=> \E i \in w : sem.queue[i].task = u /\ sem.queue[i].shared = m
  <2>1. ASSUME NEW k \in 1..Len(s.queue), s.queue[k].task = u, s.queue[k].shared = m
        PROVE  \E i \in w : sem.queue[i].task = u /\ sem.queue[i].shared = m
    BY <1>4, <2>1, Zenon
  <2>2. ASSUME NEW i \in w, sem.queue[i].task = u, sem.queue[i].shared = m
        PROVE  \E k \in 1..Len(s.queue) : s.queue[k].task = u /\ s.queue[k].shared = m
    <3>1. PICK k \in 1..Len(s.queue) : f[k] = i
      BY <1>5
    <3>2. s.queue[k] = sem.queue[i]
      BY <1>4, <3>1
    <3> QED
      BY <2>2, <3>2
  <2> QED
    BY <2>1, <2>2, Zenon DEF Waits
<1>8. ASSUME NEW k \in 1..Len(s.queue), NEW l \in 1..Len(s.queue), s.queue[k].task = s.queue[l].task
      PROVE  k = l
  <2>1. f[k] \in 1..Len(sem.queue) /\ f[l] \in 1..Len(sem.queue)
    BY <1>4
  <2>2. f[k] = f[l]
    BY <1>4, <1>8, <2>1 DEF Orderly
  <2>3. k \in Int /\ l \in Int /\ f[k] \in Int
    BY <2>1
  <2>4. ~(k < l) /\ ~(l < k)
    BY <1>2, <1>3, <2>2, <2>3
  <2> QED
    BY <2>3, <2>4
<1> QED
  BY <1>2, <1>6, <1>7, <1>8 DEF PicksOut

\* Vacate of a request that waits takes just this request out of the queue.
LEMMA WithdrawLemma ==
  ASSUME NEW sem, Orderly(sem), NEW t, Queued(sem, t)
  PROVE  /\ Orderly(Withdraw(sem, t))
         /\ Withdraw(sem, t).nest = sem.nest
         /\ Withdraw(sem, t).owner = sem.owner
         /\ \A u : Queued(Withdraw(sem, t), u) <=> Queued(sem, u) /\ u # t
         /\ \A u, m : Waits(Withdraw(sem, t), u, m) <=> Waits(sem, u, m) /\ u # t
<1> DEFINE s == Withdraw(sem, t)
           w == OthersThan(sem.queue, t)
<1>1. /\ sem.owner \in Task \cup {NoTask} /\ sem.nest \in Nat
      /\ sem = [owner |-> sem.owner, nest |-> sem.nest, queue |-> sem.queue]
  BY OrderlyTypes
<1>2. s = [sem EXCEPT !.queue = Pick(sem.queue, w)]
  BY DEF Withdraw
<1>3. s = [owner |-> sem.owner, nest |-> sem.nest, queue |-> Pick(sem.queue, w)]
  BY <1>1, <1>2
<1>4. s.owner = sem.owner /\ s.nest = sem.nest /\ s.queue = Pick(sem.queue, w)
  BY <1>3
<1>5. w \in SUBSET (1..Len(sem.queue))
  BY DEF OthersThan
<1>w. \A i : i \in w <=> i \in 1..Len(sem.queue) /\ sem.queue[i].task # t
  BY DEF OthersThan
<1> HIDE DEF s, w
<1>6. /\ s.queue \in Seq(Request)
      /\ \A u : Queued(s, u) <=> \E i \in w : sem.queue[i].task = u
      /\ \A u, m : Waits(s, u, m) <=> \E i \in w : sem.queue[i].task = u /\ sem.queue[i].shared = m
      /\ \A i, j \in 1..Len(s.queue) : s.queue[i].task = s.queue[j].task => i = j
  <2>1. PicksOut(sem, w, s)
    BY <1>4, <1>5, KeptWaits
  <2> QED
    BY <2>1 DEF PicksOut
<1>7. ASSUME NEW u PROVE Queued(s, u) <=> Queued(sem, u) /\ u # t
  <2>1. Queued(s, u) <=> \E i \in w : sem.queue[i].task = u
    BY <1>6
  <2> QED
    BY <2>1, <1>w, Zenon DEF Queued
<1>8. ASSUME NEW u, NEW m PROVE Waits(s, u, m) <=> Waits(sem, u, m) /\ u # t
  <2>1. Waits(s, u, m) <=> \E i \in w : sem.queue[i].task = u /\ sem.queue[i].shared = m
    BY <1>6
  <2> QED
    BY <2>1, <1>w, Zenon DEF Waits
<1>9. s \in Semaphore
  BY <1>1, <1>3, <1>4, <1>6 DEF Semaphore
<1>10. Orderly(s)
  <2>1. sem.nest # 0
    BY FreeOrderly DEF Orderly
  <2> QED
    BY <1>4, <1>6, <1>7, <1>9, <2>1 DEF Orderly
<1> QED
  BY <1>4, <1>7, <1>8, <1>10 DEF s

-----------------------------------------------------------------------------
(***************************************************************************)
(* The hand-over                                                           *)
(***************************************************************************)
\* The tasks that a release serves.
Handed(sem) == {u \in Task : Queued(sem, u) /\ ~Queued(Release(sem), u)}

\* s is sem after it was handed over to the tasks in N: to all of them that
\* wait to share it, or to one that does not share it.
HandedOver(sem, s, N) ==
  /\ Orderly(s)
  /\ IsFiniteSet(N)
  /\ s.nest = Cardinality(N)
  /\ N \subseteq Task
  /\ \A u : Queued(s, u) <=> Queued(sem, u) /\ u \notin N
  /\ \A u, m : Waits(s, u, m) <=> Waits(sem, u, m) /\ u \notin N
  /\ \A u \in N : Waits(sem, u, s.owner = NoTask)
  /\ \A u \in N : s.owner \in {u, NoTask}

\* Nobody waits: the semaphore is free.
LEMMA HandOverToNobody ==
  ASSUME NEW sem, Orderly(sem), sem.queue = <<>>
  PROVE  HandedOver(sem, FreeSemaphore, {})
<1>1. FreeSemaphore.nest = 0 /\ IsFiniteSet({}) /\ Cardinality({}) = 0
  BY FS_EmptySet DEF FreeSemaphore
<1>2. \A u, m : ~Queued(sem, u) /\ ~Waits(sem, u, m)
  BY DEF Queued, Waits
<1> QED
  BY <1>1, <1>2, FreeOrderly DEF HandedOver

\* A reader is the first: all readers are served.
LEMMA HandOverToReaders ==
  ASSUME NEW sem, Orderly(sem), sem.queue # <<>>, Head(sem.queue).shared,
         NEW s, s = Serve(sem.queue)
  PROVE  \E N \in SUBSET Task : HandedOver(sem, s, N)
<1> DEFINE q == sem.queue
           r == Readers(q)
           w == Writers(q)
           N == {q[i].task : i \in r}
           f == [i \in r |-> q[i].task]
<1>1. /\ q \in Seq(Request) /\ Len(q) \in Nat
      /\ \A i \in 1..Len(q) : q[i] \in Request /\ q[i].task \in Task /\ q[i].shared \in BOOLEAN
  BY OrderlyTypes
<1>2. s = [owner |-> NoTask, nest |-> Cardinality(r), queue |-> Pick(q, w)]
  BY DEF Serve
<1>3. s.owner = NoTask /\ s.nest = Cardinality(r) /\ s.queue = Pick(q, w)
  BY <1>2
<1>4. r \in SUBSET (1..Len(q)) /\ w \in SUBSET (1..Len(q))
  BY DEF Readers, Writers
<1>5. PicksOut(sem, w, s)
  BY <1>3, <1>4, KeptWaits
<1>6. IsFiniteSet(r) /\ Cardinality(r) \in Nat
  BY <1>1, <1>4, PositionsFinite
<1>7. 1 \in r
  <2>1. 1 \in 1..Len(q) /\ q[1] = Head(q)
    BY <1>1
  <2> QED
    BY <2>1 DEF Readers
<1>8. Cardinality(r) # 0
  BY <1>6, <1>7, FS_EmptySet
<1>9. \A i, j \in 1..Len(q) : q[i].task = q[j].task => i = j
  BY DEF Orderly
<1>10. f \in Bijection(r, N)
  <2>1. f \in Injection(r, N)
    BY <1>4, <1>9 DEF Injection, IsInjective
  <2>2. f \in Surjection(r, N)
    BY DEF Surjection
  <2> QED
    BY <2>1, <2>2 DEF Bijection
<1>11. IsFiniteSet(N) /\ Cardinality(N) = Cardinality(r)
  <2>1. ExistsBijection(r, N)
    BY <1>10 DEF ExistsBijection
  <2> HIDE DEF r, N, f
  <2> QED
    BY <1>6, <2>1, FS_Bijection
<1>r. \A i : i \in r <=> i \in 1..Len(q) /\ q[i].shared
  BY DEF Readers
<1>w. \A i : i \in w <=> i \in 1..Len(q) /\ ~q[i].shared
  BY DEF Writers
<1>n. \A u : u \in N <=> \E i \in r : q[i].task = u
  OBVIOUS
<1>12. N \subseteq Task
  BY <1>1, <1>4
<1> HIDE DEF r, w, N, f
<1>13. ASSUME NEW u PROVE Queued(s, u) <=> Queued(sem, u) /\ u \notin N
  <2>1. Queued(s, u) <=> \E i \in w : q[i].task = u
    BY <1>5 DEF PicksOut
  <2>2. ASSUME NEW i \in w, q[i].task = u PROVE u \notin N
    BY <1>r, <1>w, <1>n, <1>9, <2>2
  <2>3. ASSUME NEW i \in 1..Len(q), q[i].task = u, u \notin N PROVE i \in w
    BY <1>1, <1>r, <1>w, <1>n, <2>3
  <2> QED
    BY <1>w, <2>1, <2>2, <2>3, Zenon DEF Queued
<1>14. ASSUME NEW u, NEW m PROVE Waits(s, u, m) <=> Waits(sem, u, m) /\ u \notin N
  <2>1. Waits(s, u, m) <=> \E i \in w : q[i].task = u /\ q[i].shared = m
    BY <1>5 DEF PicksOut
  <2>2. ASSUME NEW i \in w, q[i].task = u PROVE u \notin N
    BY <1>r, <1>w, <1>n, <1>9, <2>2
  <2>3. ASSUME NEW i \in 1..Len(q), q[i].task = u, u \notin N PROVE i \in w
    BY <1>1, <1>r, <1>w, <1>n, <2>3
  <2> QED
    BY <1>w, <2>1, <2>2, <2>3, Zenon DEF Waits
<1>15. ASSUME NEW u \in N PROVE Waits(sem, u, TRUE)
  <2>1. PICK i \in r : q[i].task = u
    BY <1>n
  <2>2. i \in 1..Len(q) /\ q[i].shared = TRUE
    BY <1>r, <1>1
  <2> QED
    BY <2>1, <2>2 DEF Waits
<1>16. Orderly(s)
  <2>1. s \in Semaphore
    BY <1>2, <1>3, <1>5, <1>6 DEF Semaphore, PicksOut
  <2>2. ~Queued(s, NoTask)
    <3>1. ~Queued(sem, NoTask)
      BY <1>1, NoTaskAssumption DEF Queued
    <3> QED
      BY <3>1, <1>13
  <2> QED
    BY <1>3, <1>5, <1>8, <2>1, <2>2 DEF Orderly, PicksOut
<1>17. \A u \in N : Waits(sem, u, s.owner = NoTask) /\ s.owner \in {u, NoTask}
  BY <1>3, <1>15
<1>18. HandedOver(sem, s, N)
  BY <1>3, <1>11, <1>12, <1>13, <1>14, <1>16, <1>17 DEF HandedOver
<1> QED
  BY <1>12, <1>18

\* A writer is the first: only it is served.
LEMMA HandOverToWriter ==
  ASSUME NEW sem, Orderly(sem), sem.queue # <<>>, ~Head(sem.queue).shared,
         NEW s, s = Serve(sem.queue)
  PROVE  \E N \in SUBSET Task : HandedOver(sem, s, N)
<1> DEFINE q == sem.queue
           v == Head(q).task
<1>1. /\ q \in Seq(Request) /\ Len(q) \in Nat
      /\ \A i \in 1..Len(q) : q[i] \in Request /\ q[i].task \in Task /\ q[i].shared \in BOOLEAN
  BY OrderlyTypes
<1>2. s = [owner |-> v, nest |-> 1, queue |-> Tail(q)]
  BY DEF Serve
<1>3. /\ s.owner = v /\ s.nest = 1
      /\ s.queue \in Seq(Request)
      /\ Len(q) \in Nat \ {0}
      /\ Len(s.queue) = Len(q) - 1
      /\ \A i \in 1..Len(s.queue) : s.queue[i] = q[i + 1]
      /\ Head(q) = q[1] /\ 1 \in 1..Len(q)
  BY <1>1, <1>2
<1>4. v \in Task /\ q[1].shared = FALSE
  BY <1>1, <1>3
<1>5. \A i, j \in 1..Len(q) : q[i].task = q[j].task => i = j
  BY DEF Orderly
<1>6. \A i \in 1..Len(s.queue) : i + 1 \in 1..Len(q) /\ i + 1 # 1
  BY <1>3
<1>7. \A i \in 1..Len(q) : i # 1 => i - 1 \in 1..Len(s.queue) /\ s.queue[i - 1] = q[i]
  BY <1>3
<1>8. \A i \in 1..Len(s.queue) : s.queue[i].task # v
  BY <1>3, <1>5, <1>6
<1>9. ASSUME NEW u PROVE Queued(s, u) <=> Queued(sem, u) /\ u # v
  <2>1. ASSUME NEW i \in 1..Len(s.queue), s.queue[i].task = u
        PROVE  Queued(sem, u) /\ u # v
    <3>1. q[i + 1].task = u /\ i + 1 \in 1..Len(q)
      BY <1>3, <1>6, <2>1
    <3> QED
      BY <1>8, <2>1, <3>1, Zenon DEF Queued
  <2>2. ASSUME NEW i \in 1..Len(q), q[i].task = u, u # v
        PROVE  Queued(s, u)
    <3>1. i # 1
      BY <1>3, <2>2
    <3>2. i - 1 \in 1..Len(s.queue) /\ s.queue[i - 1].task = u
      BY <1>7, <2>2, <3>1
    <3> QED
      BY <3>2, Zenon DEF Queued
  <2> HIDE DEF v
  <2> QED
    BY <2>1, <2>2, Zenon DEF Queued, q
<1>10. ASSUME NEW u, NEW m PROVE Waits(s, u, m) <=> Waits(sem, u, m) /\ u # v
  <2>1. ASSUME NEW i \in 1..Len(s.queue), s.queue[i].task = u, s.queue[i].shared = m
        PROVE  Waits(sem, u, m) /\ u # v
    <3>1. q[i + 1].task = u /\ q[i + 1].shared = m
      BY <1>3, <2>1
    <3> QED
      BY <1>6, <1>8, <2>1, <3>1 DEF Waits
  <2>2. ASSUME NEW i \in 1..Len(q), q[i].task = u, q[i].shared = m, u # v
        PROVE  Waits(s, u, m)
    <3>1. i # 1
      BY <1>3, <2>2
    <3>2. i - 1 \in 1..Len(s.queue) /\ s.queue[i - 1] = q[i]
      BY <1>7, <3>1
    <3> QED
      BY <2>2, <3>2 DEF Waits
  <2> QED
    BY <2>1, <2>2, Zenon DEF Waits
<1>11. \A i, j \in 1..Len(s.queue) : s.queue[i].task = s.queue[j].task => i = j
  <2> SUFFICES ASSUME NEW i \in 1..Len(s.queue), NEW j \in 1..Len(s.queue),
                      s.queue[i].task = s.queue[j].task
               PROVE  i = j
    OBVIOUS
  <2>1. i + 1 \in 1..Len(q) /\ j + 1 \in 1..Len(q)
    BY <1>6
  <2>2. q[i + 1].task = q[j + 1].task
    BY <1>3
  <2>3. i + 1 = j + 1
    BY <1>5, <2>1, <2>2
  <2> QED
    BY <2>3
<1>12. s \in Semaphore
  BY <1>2, <1>3, <1>4 DEF Semaphore
<1>13. Orderly(s)
  <2>1. s.nest # 0 /\ ~Queued(s, s.owner)
    BY <1>3, <1>9
  <2> QED
    BY <1>11, <1>12, <2>1, Zenon DEF Orderly
<1>14. IsFiniteSet({v}) /\ Cardinality({v}) = 1
  BY FS_Singleton
<1>15. Waits(sem, v, FALSE)
  BY <1>3, <1>4 DEF Waits
<1>16. v # NoTask
  BY <1>4, NoTaskAssumption
<1>17. \A u \in {v} : Waits(sem, u, s.owner = NoTask) /\ s.owner \in {u, NoTask}
  BY <1>3, <1>15, <1>16
<1>18. HandedOver(sem, s, {v})
  BY <1>3, <1>4, <1>9, <1>10, <1>13, <1>14, <1>17 DEF HandedOver
<1> QED
  BY <1>4, <1>18

\* The last release hands the semaphore over to the tasks it serves.
LEMMA HandOverLemma ==
  ASSUME NEW sem, Orderly(sem), sem.nest = 1
  PROVE  HandedOver(sem, Release(sem), Handed(sem))
<1> DEFINE s == Release(sem)
<1>1. s = Serve(sem.queue)
  BY DEF Release
<1>2. \E N \in SUBSET Task : HandedOver(sem, s, N)
  <2>1. CASE sem.queue = <<>>
    BY <1>1, <2>1, HandOverToNobody DEF Serve
  <2>2. CASE sem.queue # <<>> /\ Head(sem.queue).shared
    BY <1>1, <2>2, HandOverToReaders
  <2>3. CASE sem.queue # <<>> /\ ~Head(sem.queue).shared
    BY <1>1, <2>3, HandOverToWriter
  <2> QED
    BY <2>1, <2>2, <2>3
<1>3. PICK N \in SUBSET Task : HandedOver(sem, s, N)
  BY <1>2
<1>4. \A u \in N : Queued(sem, u)
  <2>1. \A u \in N : Waits(sem, u, s.owner = NoTask)
    BY <1>3 DEF HandedOver
  <2> QED
    BY <2>1 DEF Waits, Queued
<1>5. Handed(sem) = N
  <2>1. \A u : Queued(s, u) <=> Queued(sem, u) /\ u \notin N
    BY <1>3 DEF HandedOver
  <2> QED
    BY <1>4, <2>1 DEF Handed
<1> QED
  BY <1>3, <1>5

-----------------------------------------------------------------------------
(***************************************************************************)
(* A semaphore that is never shared, nor obtained twice by a task          *)
(***************************************************************************)
\* t owns the semaphore or waits for it.
Involved(sem, t) == sem.owner = t \/ Queued(sem, t)

\* The semaphore is free, or has one owner at nesting level 1, and nobody
\* waits to share it.
WellFormed(sem) ==
  /\ Orderly(sem)
  /\ sem.owner = NoTask => sem = FreeSemaphore
  /\ sem.owner # NoTask => sem.nest = 1
  /\ \A t : ~Waits(sem, t, TRUE)

\* A cleared semaphore is well formed and has nobody in it.
LEMMA FreeWellFormed ==
  WellFormed(FreeSemaphore) /\ \A t \in Task : ~Involved(FreeSemaphore, t)
BY FreeOrderly, NoTaskAssumption DEF WellFormed, FreeSemaphore, Involved

\* The owner of a semaphore is the one task in it that does not wait.
LEMMA OwnerIsReady ==
  ASSUME NEW sem, WellFormed(sem), NEW t \in Task, Involved(sem, t)
  PROVE  ~Queued(sem, t) <=> sem.owner = t
BY DEF WellFormed, Orderly, Involved

\* ObtainSemaphore by a task that is not in the semaphore adds just this task,
\* and takes the semaphore from nobody.
LEMMA ObtainLemma ==
  ASSUME NEW sem, WellFormed(sem), NEW t \in Task, ~Involved(sem, t)
  PROVE  /\ WellFormed(Obtain(sem, t))
         /\ \A u \in Task : Involved(Obtain(sem, t), u) <=> Involved(sem, u) \/ u = t
         /\ \A u \in Task : sem.owner = u => Obtain(sem, t).owner = u
<1> DEFINE s == ObtainMode(sem, t, FALSE)
<1>1. Obtain(sem, t) = s
  BY DEF Obtain
<1>2. Orderly(sem) /\ ~Queued(sem, t) /\ sem.owner # t
  BY DEF WellFormed, Involved
<1>3. CASE sem.owner = NoTask
  <2>1. sem.nest = 0
    BY <1>3 DEF WellFormed, FreeSemaphore
  <2>2. Grants(sem, t, FALSE)
    BY <2>1 DEF Grants
  <2>3. Orderly(s) /\ s.queue = sem.queue /\ s.nest = 1 /\ s.owner = t
    <3>1. /\ Orderly(s) /\ s.queue = sem.queue /\ s.nest = sem.nest + 1
          /\ s.owner = IF sem.nest = 0 /\ ~FALSE THEN t ELSE sem.owner
      BY <1>2, <2>2, GrantedLemma
    <3>2. s.nest = 1
      <4>1. 0 + 1 = 1
        OBVIOUS
      <4>2. s.nest = sem.nest + 1
        BY <3>1
      <4> QED
        BY <2>1, <4>1, <4>2, Zenon
    <3>3. s.owner = t
      BY <2>1, <3>1
    <3> QED
      BY <3>1, <3>2, <3>3
  <2>4. \A u : Queued(s, u) <=> Queued(sem, u)
    BY <2>3 DEF Queued
  <2>5. \A u : ~Waits(s, u, TRUE)
    BY <2>3 DEF WellFormed, Waits
  <2>6. WellFormed(s)
    BY <2>3, <2>5, NoTaskAssumption DEF WellFormed
  <2> QED
    BY <1>1, <1>3, <2>3, <2>4, <2>6, NoTaskAssumption DEF Involved
<1>4. CASE sem.owner # NoTask
  <2>1. sem.nest = 1
    BY <1>4 DEF WellFormed
  <2>2. ~Grants(sem, t, FALSE)
    BY <1>2, <2>1 DEF Grants
  <2>3. /\ Orderly(s) /\ s.nest = sem.nest /\ s.owner = sem.owner
        /\ \A u : Queued(s, u) <=> Queued(sem, u) \/ u = t
        /\ \A u, n : Waits(s, u, n) <=> Waits(sem, u, n) \/ (u = t /\ n = FALSE)
    BY <1>2, <2>2, DeniedLemma
  <2>4. \A u : ~Waits(s, u, TRUE)
    BY <2>3 DEF WellFormed
  <2>5. WellFormed(s)
    BY <1>4, <2>1, <2>3, <2>4 DEF WellFormed
  <2> QED
    BY <1>1, <2>3, <2>5 DEF Involved
<1> QED
  BY <1>3, <1>4

\* ReleaseSemaphore by the owner takes just this task out of the semaphore.
LEMMA ReleaseLemma ==
  ASSUME NEW sem, WellFormed(sem), NEW t \in Task, sem.owner = t
  PROVE  /\ WellFormed(Release(sem))
         /\ \A u \in Task : Involved(Release(sem), u) <=> Involved(sem, u) /\ u # t
<1> DEFINE s == Release(sem)
           N == Handed(sem)
<1>1. sem.nest = 1 /\ Orderly(sem) /\ ~Queued(sem, t)
  BY NoTaskAssumption DEF WellFormed, Orderly
<1> HIDE DEF N
<1>2. /\ Orderly(s)
      /\ s.nest = Cardinality(N) /\ IsFiniteSet(N) /\ N \subseteq Task
      /\ \A u : Queued(s, u) <=> Queued(sem, u) /\ u \notin N
      /\ \A u, m : Waits(s, u, m) <=> Waits(sem, u, m) /\ u \notin N
      /\ \A u \in N : Waits(sem, u, s.owner = NoTask)
      /\ \A u \in N : s.owner \in {u, NoTask}
  <2>1. HandedOver(sem, s, N)
    BY <1>1, HandOverLemma DEF N
  <2> QED
    BY <2>1 DEF HandedOver
<1>3. \A u : ~Waits(s, u, TRUE)
  BY <1>2 DEF WellFormed
<1>4. \A u \in N : s.owner = u
  <2> SUFFICES ASSUME NEW u \in N PROVE s.owner = u
    OBVIOUS
  <2>1. s.owner # NoTask
    <3>1. s.owner = NoTask => Waits(sem, u, TRUE)
      BY <1>2
    <3> QED
      BY <3>1 DEF WellFormed
  <2> QED
    BY <1>2, <2>1
<1>5. \A u \in N : Queued(sem, u)
  BY DEF N, Handed
<1>6. CASE N = {}
  <2>1. s = FreeSemaphore
    BY <1>2, <1>6, FS_EmptySet DEF Orderly
  <2>2. WellFormed(s) /\ \A u \in Task : ~Involved(s, u)
    BY <2>1, FreeWellFormed
  <2>3. \A u : ~Queued(sem, u)
    BY <1>2, <1>6, <2>1, FreeOrderly
  <2> QED
    BY <2>2, <2>3 DEF Involved
<1>7. CASE N # {}
  <2>1. PICK u \in N : TRUE
    BY <1>7
  <2>2. N = {u} /\ s.owner = u /\ u \in Task
    BY <1>2, <1>4
  <2>3. s.nest = 1
    BY <1>2, <2>2, FS_Singleton
  <2>4. WellFormed(s)
    BY <1>2, <1>3, <2>2, <2>3, NoTaskAssumption DEF WellFormed
  <2> QED
    BY <1>1, <1>2, <1>5, <2>2, <2>4 DEF Involved
<1> QED
  BY <1>6, <1>7

-----------------------------------------------------------------------------
(***************************************************************************)
(* Counting: how many requests of each task are served                     *)
(***************************************************************************)
\* One pair for each of the S[t] requests of each task t.
Pairs(S) == UNION {{t} \X (1..S[t]) : t \in Task}

\* The members of Pairs.
LEMMA PairsMember ==
  ASSUME NEW S \in [Task -> Nat], NEW h
  PROVE  h \in Pairs(S) <=> \E t \in Task : \E n \in 1..S[t] : h = <<t, n>>
<1>1. h \in Pairs(S) <=> \E t \in Task : h \in {t} \X (1..S[t])
  BY DEF Pairs
<1>2. ASSUME NEW t \in Task
      PROVE  h \in {t} \X (1..S[t]) <=> \E n \in 1..S[t] : h = <<t, n>>
  OBVIOUS
<1> QED
  BY <1>1, <1>2

\* A pair is counted for its task.
LEMMA PairsOf ==
  ASSUME NEW S \in [Task -> Nat], NEW t \in Task, NEW n
  PROVE  <<t, n>> \in Pairs(S) <=> n \in 1..S[t]
<1>1. \A u, m : <<t, n>> = <<u, m>> <=> t = u /\ n = m
  OBVIOUS
<1>2. <<t, n>> \in Pairs(S) <=> \E u \in Task : \E m \in 1..S[u] : <<t, n>> = <<u, m>>
  BY PairsMember
<1> QED
  BY <1>1, <1>2, Zenon

\* No request is counted if no task has one.
LEMMA PairsNone ==
  ASSUME NEW S \in [Task -> Nat], \A t \in Task : S[t] = 0
  PROVE  Pairs(S) = {}
<1>1. \A t \in Task : 1..S[t] = {}
  OBVIOUS
<1> QED
  BY <1>1, PairsMember, Zenon

\* One request more is one pair more.
LEMMA PairsMore ==
  ASSUME NEW S \in [Task -> Nat], NEW t \in Task, NEW T,
         T = [S EXCEPT ![t] = @ + 1]
  PROVE  /\ T \in [Task -> Nat]
         /\ Pairs(T) = Pairs(S) \cup {<<t, S[t] + 1>>}
         /\ <<t, S[t] + 1>> \notin Pairs(S)
<1>1. T \in [Task -> Nat] /\ S[t] \in Nat
  OBVIOUS
<1>2. ASSUME NEW u \in Task, NEW n
      PROVE  n \in 1..T[u] <=> n \in 1..S[u] \/ (u = t /\ n = S[t] + 1)
  <2>1. CASE u = t
    <3>1. T[u] = S[t] + 1
      BY <2>1
    <3> QED
      BY <1>1, <2>1, <3>1
  <2>2. CASE u # t
    BY <2>2
  <2> QED
    BY <2>1, <2>2
<1>3. ASSUME NEW h
      PROVE  h \in Pairs(T) <=> h \in Pairs(S) \/ h = <<t, S[t] + 1>>
  <2>1. h \in Pairs(T) <=> \E u \in Task : \E n \in 1..T[u] : h = <<u, n>>
    BY <1>1, PairsMember
  <2>2. h \in Pairs(S) <=> \E u \in Task : \E n \in 1..S[u] : h = <<u, n>>
    BY PairsMember
  <2> QED
    BY <1>2, <2>1, <2>2, Zenon
<1>4. <<t, S[t] + 1>> \notin Pairs(S)
  <2>1. S[t] + 1 \notin 1..S[t]
    BY <1>1
  <2> QED
    BY <2>1, PairsOf
<1>5. Pairs(T) = Pairs(S) \cup {<<t, S[t] + 1>>}
  BY <1>3
<1> QED
  BY <1>1, <1>4, <1>5

\* One request less is one pair less.
LEMMA PairsLess ==
  ASSUME NEW S \in [Task -> Nat], NEW t \in Task, S[t] > 0, NEW T,
         T = [S EXCEPT ![t] = @ - 1]
  PROVE  /\ T \in [Task -> Nat]
         /\ Pairs(T) = Pairs(S) \ {<<t, S[t]>>}
         /\ <<t, S[t]>> \in Pairs(S)
<1>1. T \in [Task -> Nat] /\ S[t] \in Nat /\ T[t] = S[t] - 1 /\ T[t] \in Nat
  OBVIOUS
<1> DEFINE R == [T EXCEPT ![t] = @ + 1]
<1>2. S = R /\ T[t] + 1 = S[t]
  <2>1. T[t] + 1 = S[t]
    BY <1>1
  <2>2. R \in [Task -> Nat]
    BY <1>1
  <2>3. \A u \in Task : R[u] = S[u]
    BY <1>1, <2>1
  <2> QED
    BY <2>1, <2>2, <2>3
<1>3. /\ Pairs(S) = Pairs(T) \cup {<<t, S[t]>>}
      /\ <<t, S[t]>> \notin Pairs(T)
  BY <1>1, <1>2, PairsMore
<1> QED
  BY <1>1, <1>3

\* One request of each task in N is as many pairs as N has members.
LEMMA PairsOnce ==
  ASSUME NEW N \in SUBSET Task, IsFiniteSet(N), NEW S,
         S = [t \in Task |-> IF t \in N THEN 1 ELSE 0]
  PROVE  /\ S \in [Task -> Nat]
         /\ IsFiniteSet(Pairs(S)) /\ Cardinality(Pairs(S)) = Cardinality(N)
<1>1. S \in [Task -> Nat]
  OBVIOUS
<1> DEFINE f == [t \in N |-> <<t, 1>>]
<1>2. ASSUME NEW h PROVE h \in Pairs(S) <=> \E t \in N : h = <<t, 1>>
  <2>1. \A t \in Task : \A n : n \in 1..S[t] <=> t \in N /\ n = 1
    OBVIOUS
  <2>2. h \in Pairs(S) <=> \E u \in Task : \E n \in 1..S[u] : h = <<u, n>>
    BY <1>1, PairsMember
  <2> QED
    BY <2>1, <2>2, Zenon
<1>3. f \in Bijection(N, Pairs(S))
  <2>1. f \in [N -> Pairs(S)]
    BY <1>2
  <2>2. \A a, b \in N : f[a] = f[b] => a = b
    OBVIOUS
  <2>3. \A h \in Pairs(S) : \E a \in N : f[a] = h
    BY <1>2
  <2> QED
    BY <2>1, <2>2, <2>3 DEF Bijection, Injection, Surjection, IsInjective
<1>4. ExistsBijection(N, Pairs(S))
  BY <1>3 DEF ExistsBijection
<1> QED
  BY <1>1, <1>4, FS_Bijection

\* The count of the semaphore covers the requests of each task that are
\* served, and an owner has all of them.
Covers(sem, S) ==
  /\ Orderly(sem)
  /\ S \in [Task -> Nat]
  /\ IsFiniteSet(Pairs(S))
  /\ Cardinality(Pairs(S)) <= sem.nest
  /\ \A t \in Task : S[t] > 0 => sem.owner \in {t, NoTask}

\* The count covers nothing else.
Exact(sem, S) == sem.nest = Cardinality(Pairs(S))

\* A cleared semaphore counts nothing.
LEMMA FreeCounted ==
  ASSUME NEW S \in [Task -> Nat], \A t \in Task : S[t] = 0
  PROVE  Covers(FreeSemaphore, S) /\ Exact(FreeSemaphore, S)
<1>1. IsFiniteSet(Pairs(S)) /\ Cardinality(Pairs(S)) = 0
  BY PairsNone, FS_EmptySet
<1>2. FreeSemaphore.nest = 0
  BY DEF FreeSemaphore
<1> QED
  BY <1>1, <1>2, FreeOrderly DEF Covers, Exact

\* A semaphore at level 0 serves nobody.
LEMMA NothingCounted ==
  ASSUME NEW sem, NEW S, Covers(sem, S), sem.nest = 0
  PROVE  sem = FreeSemaphore /\ \A t \in Task : S[t] = 0
<1>1. S \in [Task -> Nat] /\ IsFiniteSet(Pairs(S)) /\ Cardinality(Pairs(S)) <= 0
  BY DEF Covers
<1>2. Cardinality(Pairs(S)) = 0
  BY <1>1, FS_CardinalityType
<1>3. Pairs(S) = {}
  BY <1>1, <1>2, FS_EmptySet
<1>4. ASSUME NEW t \in Task PROVE S[t] = 0
  <2>1. S[t] \in Nat
    BY <1>1
  <2>2. <<t, 1>> \notin Pairs(S)
    BY <1>3
  <2>3. 1 \notin 1..S[t]
    BY <1>1, <2>2, PairsOf
  <2> QED
    BY <2>1, <2>3
<1>5. sem = FreeSemaphore
  BY DEF Covers, Orderly
<1> QED
  BY <1>4, <1>5

\* A semaphore that serves t, or is owned, has a count.
LEMMA SomethingCounted ==
  ASSUME NEW sem, NEW S, Covers(sem, S), NEW t \in Task, S[t] > 0 \/ sem.owner = t
  PROVE  sem.nest > 0
<1>1. sem.nest \in Nat
  BY OrderlyTypes DEF Covers
<1>2. ASSUME sem.nest = 0 PROVE FALSE
  <2>1. S[t] = 0 /\ sem.owner = NoTask
    BY <1>2, NothingCounted DEF FreeSemaphore
  <2> QED
    BY <2>1, NoTaskAssumption
<1> QED
  BY <1>1, <1>2

\* A request that is granted is one request more that is served.
LEMMA GrantCounted ==
  ASSUME NEW sem, NEW S, Covers(sem, S), NEW t \in Task, ~Queued(sem, t),
         NEW m \in BOOLEAN, Grants(sem, t, m), NEW T, T = [S EXCEPT ![t] = @ + 1]
  PROVE  /\ Covers(ObtainMode(sem, t, m), T)
         /\ Covers(ObtainMode(sem, t, m), S)
         /\ Exact(sem, S) => Exact(ObtainMode(sem, t, m), T)
<1> DEFINE s == ObtainMode(sem, t, m)
           h == <<t, S[t] + 1>>
<1>1. /\ Orderly(sem) /\ sem.nest \in Nat /\ S \in [Task -> Nat] /\ IsFiniteSet(Pairs(S))
      /\ Cardinality(Pairs(S)) <= sem.nest /\ Cardinality(Pairs(S)) \in Nat
      /\ \A u \in Task : S[u] > 0 => sem.owner \in {u, NoTask}
  BY OrderlyTypes, FS_CardinalityType DEF Covers
<1>2. /\ Orderly(s) /\ s.nest = sem.nest + 1
      /\ s.owner = IF sem.nest = 0 /\ ~m THEN t ELSE sem.owner
  BY <1>1, GrantedLemma
<1>3. T \in [Task -> Nat] /\ Pairs(T) = Pairs(S) \cup {h} /\ h \notin Pairs(S)
  BY <1>1, PairsMore
<1> HIDE DEF s, h
<1>4. IsFiniteSet(Pairs(T)) /\ Cardinality(Pairs(T)) = Cardinality(Pairs(S)) + 1
  <2> DEFINE P == Pairs(S)
  <2>1. IsFiniteSet(P) /\ h \notin P /\ Pairs(T) = P \cup {h}
    BY <1>1, <1>3
  <2> HIDE DEF P
  <2>2. IsFiniteSet(P \cup {h}) /\ Cardinality(P \cup {h}) = Cardinality(P) + 1
    BY <2>1, FS_AddElement
  <2> QED
    BY <2>1, <2>2 DEF P
<1>5. ASSUME NEW u \in Task, u # t => S[u] > 0 PROVE s.owner \in {u, NoTask}
  <2>1. CASE sem.nest = 0
    <3>1. u = t /\ sem.owner = NoTask
      BY <1>5, <2>1, NothingCounted DEF FreeSemaphore
    <3> QED
      BY <1>2, <3>1
  <2>2. CASE sem.nest # 0
    <3>1. s.owner = sem.owner
      BY <1>2, <2>2
    <3>2. sem.owner \in {t, NoTask}
      BY <2>2 DEF Grants
    <3> QED
      BY <1>1, <1>5, <3>1, <3>2
  <2> QED
    BY <2>1, <2>2
<1>6. \A u \in Task : T[u] > 0 => s.owner \in {u, NoTask}
  BY <1>1, <1>5
<1>7. \A u \in Task : S[u] > 0 => s.owner \in {u, NoTask}
  BY <1>5
<1>8. Covers(s, T)
  BY <1>1, <1>2, <1>3, <1>4, <1>6 DEF Covers
<1>9. Covers(s, S)
  BY <1>1, <1>2, <1>7 DEF Covers
<1>10. Exact(sem, S) => Exact(s, T)
  BY <1>1, <1>2, <1>4 DEF Exact
<1> QED
  BY <1>8, <1>9, <1>10 DEF s

\* A request that is not granted changes no count.
LEMMA DenyCounted ==
  ASSUME NEW sem, NEW S, Covers(sem, S), NEW t \in Task, ~Queued(sem, t),
         NEW m \in BOOLEAN, ~Grants(sem, t, m)
  PROVE  /\ Covers(ObtainMode(sem, t, m), S)
         /\ Exact(sem, S) => Exact(ObtainMode(sem, t, m), S)
<1> DEFINE s == ObtainMode(sem, t, m)
<1>1. Orderly(sem)
  BY DEF Covers
<1>2. Orderly(s) /\ s.nest = sem.nest /\ s.owner = sem.owner
  BY <1>1, DeniedLemma
<1> HIDE DEF s
<1>3. Covers(s, S) /\ (Exact(sem, S) => Exact(s, S))
  BY <1>2 DEF Covers, Exact
<1> QED
  BY <1>3 DEF s

\* Nor does one that is taken back.
LEMMA WithdrawCounted ==
  ASSUME NEW sem, NEW S, Covers(sem, S), NEW t \in Task, Queued(sem, t)
  PROVE  /\ Covers(Withdraw(sem, t), S)
         /\ Exact(sem, S) => Exact(Withdraw(sem, t), S)
<1> DEFINE s == Withdraw(sem, t)
<1>1. Orderly(sem)
  BY DEF Covers
<1>2. Orderly(s) /\ s.nest = sem.nest /\ s.owner = sem.owner
  BY <1>1, WithdrawLemma
<1> HIDE DEF s
<1>3. Covers(s, S) /\ (Exact(sem, S) => Exact(s, S))
  BY <1>2 DEF Covers, Exact
<1> QED
  BY <1>3 DEF s

\* What is served after t has released the semaphore: one request less of t,
\* and those that it was handed over to.
Left(n) == IF n > 0 THEN n - 1 ELSE 0
After(sem, S, t) ==
  [u \in Task |-> (IF u = t THEN Left(S[u]) ELSE S[u]) + IF u \in Handed(sem) THEN 1 ELSE 0]

\* What a release by t does: the tasks that are served had nothing, and wait
\* no longer; nothing else changes hands.
Released(sem, S, t) ==
  LET s == Release(sem)
      N == Handed(sem)
  IN  /\ Covers(s, After(sem, S, t))
      /\ Exact(sem, S) /\ S[t] > 0 => Exact(s, After(sem, S, t))
      /\ t \notin N
      /\ N \subseteq Task
      /\ \A u : Queued(s, u) <=> Queued(sem, u) /\ u \notin N
      /\ \A u, m : Waits(s, u, m) <=> Waits(sem, u, m) /\ u \notin N
      /\ \A u \in N : S[u] = 0 /\ Waits(sem, u, s.owner = NoTask)
      /\ s.owner = sem.owner \/ \A u \in Task : u \in N \/ After(sem, S, t)[u] = 0
      /\ s.owner = sem.owner \/ s.nest = Cardinality(N)

\* A release that is not the last takes one request from t.
LEMMA ReleaseOne ==
  ASSUME NEW sem, NEW S, Covers(sem, S), NEW t \in Task, ~Queued(sem, t),
         S[t] > 0 \/ sem.owner = t, sem.nest # 1
  PROVE  Released(sem, S, t)
<1> DEFINE s == Release(sem)
           T == After(sem, S, t)
           h == <<t, S[t]>>
<1>1. /\ Orderly(sem) /\ S \in [Task -> Nat] /\ IsFiniteSet(Pairs(S))
      /\ Cardinality(Pairs(S)) <= sem.nest /\ Cardinality(Pairs(S)) \in Nat
      /\ \A u \in Task : S[u] > 0 => sem.owner \in {u, NoTask}
  BY FS_CardinalityType DEF Covers
<1>2. /\ sem.owner \in Task \cup {NoTask} /\ sem.nest \in Nat /\ sem.queue \in Seq(Request)
      /\ sem = [owner |-> sem.owner, nest |-> sem.nest, queue |-> sem.queue]
  BY <1>1, OrderlyTypes
<1>3. sem.nest > 1
  BY <1>2, SomethingCounted
<1>4. s = [owner |-> sem.owner, nest |-> sem.nest - 1, queue |-> sem.queue]
  BY <1>2 DEF Release
<1>5. s.owner = sem.owner /\ s.nest = sem.nest - 1 /\ s.queue = sem.queue
  BY <1>4
<1>6. \A u, m : (Queued(s, u) <=> Queued(sem, u)) /\ (Waits(s, u, m) <=> Waits(sem, u, m))
  BY <1>5 DEF Queued, Waits
<1>7. Handed(sem) = {}
  BY <1>6 DEF Handed
<1>8. s \in Semaphore
  BY <1>2, <1>3, <1>4 DEF Semaphore
<1>9. Orderly(s)
  <2>1. s.nest # 0
    BY <1>2, <1>3, <1>5
  <2>2. ~Queued(s, s.owner)
    BY <1>1, <1>5, <1>6 DEF Orderly
  <2>3. \A i, j \in 1..Len(s.queue) : s.queue[i].task = s.queue[j].task => i = j
    BY <1>1, <1>5 DEF Orderly
  <2> QED
    BY <1>8, <2>1, <2>2, <2>3, Zenon DEF Orderly
<1>10. T \in [Task -> Nat] /\ \A u \in Task : T[u] = IF u = t THEN Left(S[u]) ELSE S[u]
  <2>1. \A u \in Task : S[u] \in Nat /\ Left(S[u]) \in Nat
    BY <1>1 DEF Left
  <2>2. T = [u \in Task |-> (IF u = t THEN Left(S[u]) ELSE S[u]) + 0]
    BY <1>7 DEF After
  <2> QED
    BY <2>1, <2>2
<1> HIDE DEF s, T, h
<1>11. \A u \in Task : T[u] > 0 => s.owner \in {u, NoTask}
  <2>1. \A u \in Task : T[u] > 0 => S[u] > 0
    BY <1>1, <1>10 DEF Left
  <2> QED
    BY <1>1, <1>5, <2>1
<1>12. IsFiniteSet(Pairs(T)) /\ Cardinality(Pairs(T)) <= s.nest /\ (Exact(sem, S) /\ S[t] > 0 => Exact(s, T))
  <2>1. CASE S[t] > 0
    <3>1. T = [S EXCEPT ![t] = @ - 1]
      <4> DEFINE R == [S EXCEPT ![t] = @ - 1]
      <4>1. R \in [Task -> Nat]
        BY <1>1, <2>1
      <4>2. \A u \in Task : R[u] = T[u]
        BY <1>1, <1>10, <2>1 DEF Left
      <4> QED
        BY <1>10, <4>1, <4>2
    <3>2. Pairs(T) = Pairs(S) \ {h} /\ h \in Pairs(S)
      BY <1>1, <2>1, <3>1, PairsLess DEF h
    <3>3. IsFiniteSet(Pairs(T)) /\ Cardinality(Pairs(T)) = Cardinality(Pairs(S)) - 1
      <4> DEFINE P == Pairs(S)
      <4>1. IsFiniteSet(P) /\ h \in P /\ Pairs(T) = P \ {h}
        BY <1>1, <3>2
      <4> HIDE DEF P
      <4>2. IsFiniteSet(P \ {h}) /\ Cardinality(P \ {h}) = Cardinality(P) - 1
        BY <4>1, FS_RemoveElement
      <4> QED
        BY <4>1, <4>2 DEF P
    <3> QED
      BY <1>1, <1>2, <1>5, <3>3 DEF Exact
  <2>2. CASE ~(S[t] > 0)
    <3>1. sem.owner = t
      BY <2>2
    <3>2. \A u \in Task : S[u] = 0
      <4>1. \A u \in Task : S[u] \in Nat
        BY <1>1
      <4>2. \A u \in Task : u # t => ~(S[u] > 0)
        BY <1>1, <3>1, NoTaskAssumption
      <4> QED
        BY <2>2, <4>1, <4>2
    <3>3. \A u \in Task : T[u] = 0
      BY <1>10, <3>2 DEF Left
    <3>4. IsFiniteSet(Pairs(T)) /\ Cardinality(Pairs(T)) = 0
      BY <1>10, <3>3, PairsNone, FS_EmptySet
    <3> QED
      BY <1>2, <1>3, <1>5, <2>2, <3>4
  <2> QED
    BY <2>1, <2>2
<1>13. Covers(s, T)
  BY <1>9, <1>10, <1>11, <1>12 DEF Covers
<1> QED
  BY <1>5, <1>6, <1>7, <1>12, <1>13 DEF Released, s, T

\* The last release takes the last request from t.
LEMMA ReleaseLast ==
  ASSUME NEW sem, NEW S, Covers(sem, S), NEW t \in Task, ~Queued(sem, t),
         S[t] > 0 \/ sem.owner = t, sem.nest = 1
  PROVE  Released(sem, S, t)
<1> DEFINE s == Release(sem)
           T == After(sem, S, t)
           N == Handed(sem)
<1>1. /\ Orderly(sem) /\ S \in [Task -> Nat] /\ IsFiniteSet(Pairs(S))
      /\ Cardinality(Pairs(S)) <= 1
      /\ \A u \in Task : S[u] > 0 => sem.owner \in {u, NoTask}
  BY DEF Covers
<1>n. N \subseteq Task /\ \A u \in N : Queued(sem, u)
  BY DEF Handed
<1> HIDE DEF N
<1>2. /\ Orderly(s) /\ IsFiniteSet(N) /\ s.nest = Cardinality(N)
      /\ \A u : Queued(s, u) <=> Queued(sem, u) /\ u \notin N
      /\ \A u, m : Waits(s, u, m) <=> Waits(sem, u, m) /\ u \notin N
      /\ \A u \in N : Waits(sem, u, s.owner = NoTask)
      /\ \A u \in N : s.owner \in {u, NoTask}
  <2>1. HandedOver(sem, s, N)
    BY <1>1, HandOverLemma DEF N
  <2> QED
    BY <2>1 DEF HandedOver
<1>3. t \notin N
  BY <1>n
<1>4. ASSUME NEW u \in Task PROVE IF u = t THEN S[u] <= 1 ELSE S[u] = 0
  <2>1. \A v \in Task : S[v] \in Nat
    BY <1>1
  <2>2. ASSUME NEW a \in Pairs(S), NEW b \in Pairs(S) PROVE a = b
    <3> DEFINE P == Pairs(S)
    <3>1. IsFiniteSet(P) /\ Cardinality(P) <= 1 /\ a \in P /\ b \in P
      BY <1>1
    <3> HIDE DEF P
    <3>2. IsFiniteSet(P \ {a}) /\ Cardinality(P \ {a}) = Cardinality(P) - 1
      BY <3>1, FS_RemoveElement
    <3>3. Cardinality(P \ {a}) \in Nat /\ Cardinality(P) \in Nat
      BY <3>1, <3>2, FS_CardinalityType
    <3>4. Cardinality(P \ {a}) = 0
      BY <3>1, <3>2, <3>3
    <3>5. P \ {a} = {}
      BY <3>2, <3>4, FS_EmptySet
    <3> QED
      BY <3>1, <3>5
  <2>3. ASSUME NEW v \in Task, NEW n \in 1..S[v], NEW w \in Task, NEW k \in 1..S[w]
        PROVE  v = w /\ n = k
    <3>1. <<v, n>> \in Pairs(S) /\ <<w, k>> \in Pairs(S)
      BY <1>1, PairsOf
    <3>2. <<v, n>> = <<w, k>>
      BY <2>2, <3>1
    <3> QED
      BY <3>2
  <2>4. CASE u = t
    <3>1. ~(S[u] > 1)
      <4>1. ASSUME S[u] > 1 PROVE FALSE
        <5>1. 1 \in 1..S[u] /\ 2 \in 1..S[u]
          BY <2>1, <4>1
        <5> QED
          BY <2>3, <5>1
      <4> QED
        BY <4>1
    <3> QED
      BY <2>1, <2>4, <3>1
  <2>5. CASE u # t
    <3>1. ASSUME S[u] > 0 PROVE FALSE
      <4>1. 1 \in 1..S[u]
        BY <2>1, <3>1
      <4>2. sem.owner # t
        BY <1>1, <2>5, <3>1, NoTaskAssumption
      <4>3. 1 \in 1..S[t]
        BY <2>1, <4>2
      <4> QED
        BY <2>3, <2>5, <4>1, <4>3
    <3>2. S[u] \in Nat
      BY <2>1
    <3> QED
      BY <2>5, <3>1, <3>2
  <2> QED
    BY <2>4, <2>5
<1>5. T = [u \in Task |-> IF u \in N THEN 1 ELSE 0]
  <2>1. \A u \in Task : S[u] \in Nat
    BY <1>1
  <2>2. \A u \in Task : (IF u = t THEN Left(S[u]) ELSE S[u]) = 0
    BY <1>4, <2>1 DEF Left
  <2>3. T = [u \in Task |-> (IF u = t THEN Left(S[u]) ELSE S[u]) + IF u \in N THEN 1 ELSE 0]
    BY DEF After, N
  <2>4. T = [u \in Task |-> 0 + IF u \in N THEN 1 ELSE 0]
    BY <2>2, <2>3, Zenon
  <2> QED
    BY <2>4
<1> HIDE DEF s, T
<1>6. /\ T \in [Task -> Nat]
      /\ IsFiniteSet(Pairs(T)) /\ Cardinality(Pairs(T)) = Cardinality(N)
  BY <1>2, <1>5, <1>n, PairsOnce
<1>7. \A u \in Task : u \in N \/ T[u] = 0
  BY <1>5
<1>8. \A u \in Task : T[u] > 0 => s.owner \in {u, NoTask}
  BY <1>2, <1>7
<1>9. Covers(s, T) /\ Exact(s, T)
  <2>1. Cardinality(N) <= s.nest
    <3>1. Cardinality(N) \in Nat
      BY <1>2, FS_CardinalityType
    <3> QED
      BY <1>2, <3>1
  <2> QED
    BY <1>2, <1>6, <1>8, <2>1 DEF Covers, Exact
<1>10. \A u \in N : S[u] = 0
  BY <1>3, <1>4, <1>n
<1> QED
  BY <1>2, <1>3, <1>7, <1>9, <1>10, <1>n DEF Released, s, T, N

\* What a release by a task that has the semaphore does.
LEMMA ReleaseCounted ==
  ASSUME NEW sem, NEW S, Covers(sem, S), NEW t \in Task, ~Queued(sem, t),
         S[t] > 0 \/ sem.owner = t
  PROVE  Released(sem, S, t)
BY ReleaseOne, ReleaseLast

-----------------------------------------------------------------------------
(***************************************************************************)
(* exec's lists are sequences in the models, and Remove is RemoveAt        *)
(***************************************************************************)
\* Taking an element out of a sequence leaves the others in their order.
LEMMA RemoveAtLemma ==
  ASSUME NEW S, NEW s \in Seq(S), NEW i \in 1..Len(s)
  PROVE  /\ RemoveAt(s, i) \in Seq(S)
         /\ Len(RemoveAt(s, i)) = Len(s) - 1
         /\ \A j \in 1..(Len(s) - 1) :
              RemoveAt(s, i)[j] = IF j < i THEN s[j] ELSE s[j + 1]
<1> DEFINE a == SubSeq(s, 1, i - 1)
           b == SubSeq(s, i + 1, Len(s))
<1>1. /\ a \in Seq(S) /\ Len(a) = i - 1
      /\ \A j \in 1..(i - 1) : a[j] = s[j]
  OBVIOUS
<1>2. /\ b \in Seq(S) /\ Len(b) = Len(s) - i
      /\ \A j \in 1..(Len(s) - i) : b[j] = s[i + j]
  OBVIOUS
<1>3. RemoveAt(s, i) = a \o b
  BY DEF RemoveAt
<1> HIDE DEF a, b
<1>4. /\ a \o b \in Seq(S)
      /\ Len(a \o b) = Len(a) + Len(b)
      /\ \A j \in 1..(Len(a) + Len(b)) :
           (a \o b)[j] = IF j <= Len(a) THEN a[j] ELSE b[j - Len(a)]
  BY <1>1, <1>2, ConcatProperties
<1>5. ASSUME NEW j \in 1..(Len(s) - 1)
      PROVE  (a \o b)[j] = IF j < i THEN s[j] ELSE s[j + 1]
  <2>1. CASE j < i
    BY <1>1, <1>2, <1>4, <2>1
  <2>2. CASE ~(j < i)
    <3>1. j - (i - 1) \in 1..(Len(s) - i) /\ i + (j - (i - 1)) = j + 1
      BY <2>2
    <3>2. j \in 1..(Len(a) + Len(b)) /\ ~(j <= Len(a))
      BY <1>1, <1>2, <2>2
    <3>3. (a \o b)[j] = b[j - (i - 1)]
      BY <1>1, <1>4, <3>2
    <3>4. b[j - (i - 1)] = s[j + 1]
      BY <1>2, <3>1
    <3> QED
      BY <2>2, <3>3, <3>4
  <2> QED
    BY <2>1, <2>2
<1>6. Len(a) + Len(b) = Len(s) - 1
  BY <1>1, <1>2
<1>7. /\ a \o b \in Seq(S)
      /\ Len(a \o b) = Len(s) - 1
      /\ \A j \in 1..(Len(s) - 1) : (a \o b)[j] = IF j < i THEN s[j] ELSE s[j + 1]
  BY <1>4, <1>5, <1>6, Zenon
<1> QED
  BY <1>3, <1>7, Zenon

=============================================================================
