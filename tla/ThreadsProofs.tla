---------------------------- MODULE ThreadsProofs ----------------------------
(***************************************************************************)
(* Proofs about Threads, for every number of tasks, every size of the      *)
(* table and every program of creations, joins, detachments, cancellations *)
(* and ends.  The types need no assumption.  The rest is for two kinds of  *)
(* programs.  In the first main creates all threads, OneCreator: with two  *)
(* creators one of them may clear the parent of a thread of the other,     *)
(* when no process could be created.  In the second threads create threads *)
(* as they like, and each joins its own before it ends, AllJoined.         *)
(***************************************************************************)
EXTENDS Threads, SignalSemaphoreProofs

OneCreator == Creators \subseteq {Main}

-----------------------------------------------------------------------------
(***************************************************************************)
(* The inductive invariant                                                 *)
(***************************************************************************)
\* The types of all variables but the semaphore.
Types ==
  /\ pc \in [Task -> Points]
  /\ threads \in [Slot -> SlotType]
  /\ udata \in [Task -> Slot]
  /\ parentsig \in [Task -> BOOLEAN]
  /\ cur \in [Task -> Slot \cup {PTHREAD_THREADS_MAX}]
  /\ child \in [Task -> Task \cup {NoTask}]
  /\ wanted \in [Task -> Thread]
  /\ handles \subseteq [slot : Slot, thread : Thread, by : Task]
  /\ created \in Thread
  /\ exiting \in BOOLEAN
  /\ raced \subseteq Slot

\* The control points with thread_sem, or in its queue, and those that are
\* only reached with it in hand.
Locking == {"c_grab", "c_spawn", "c_assign", "j_clear", "t_free"}
Preparing == {"c_spawn", "c_assign"}

SemInv ==
  /\ WellFormed(thread_sem)
  /\ \A p \in Task : pc[p] \in Locking <=> Involved(thread_sem, p)
  /\ \A p \in Task : pc[p] \in Preparing => thread_sem.owner = p

Creating == {"c_grab", "c_spawn", "c_assign", "c_check"}
Joining == {"j_test", "j_sleep", "j_clear"}
Testing == {"x_parent", "x_detached"}
Unloading == {"x_scan", "x_delay", "unloaded"} \cup Testing

\* cur is a slot where it is used as one.
CurInv ==
  \A p \in Task :
    pc[p] \in Preparing \cup {"c_check", "x_delay"} \cup Testing \cup Joining
      => cur[p] \in Slot

\* Main creates threads, then calls the exit function, and never ends.
RoleInv ==
  /\ \A p \in Task : pc[p] \in Creating => p = Main
  /\ pc[Main] \in {"run"} \cup Creating \cup Joining \cup Unloading
  /\ exiting => pc[Main] \in Joining \cup Unloading
  /\ pc[Main] \in Unloading => exiting

\* The slot of main stays main's.
MainInv ==
  /\ threads[0].task = Main /\ ~threads[0].canceled
  /\ \A p \in Task : UsesSlot(p) => udata[p] # 0
  /\ \A p \in Task : pc[p] \in Joining => cur[p] # 0
  /\ \A h \in handles : h.slot # 0
  /\ pc[Main] \in Preparing \cup {"c_check"} => cur[Main] # 0
  /\ exiting => cur[Main] # 0

\* The thread in a slot is alone in it, and known there as soon as its
\* creator has stored its task.
UserInv ==
  \A p \in Task : UsesSlot(p) =>
    /\ threads[udata[p]].task = NoTask
         => pc[Main] = "c_assign" /\ cur[Main] = udata[p] /\ child[Main] = p
    /\ threads[udata[p]].parent = Main
    /\ ~threads[udata[p]].finished
    /\ pc[p] = "t_free" => threads[udata[p]].detached
    /\ \A q \in Task : UsesSlot(q) /\ udata[q] = udata[p] => q = p

\* The slot that is prepared for a thread is free and stays so.
PrepareInv ==
  pc[Main] \in Preparing =>
    /\ threads[cur[Main]].task = NoTask
    /\ threads[cur[Main]].parent = Main
    /\ pc[Main] = "c_spawn" => ~threads[cur[Main]].finished

\* A thread that can be joined.
Joinable(s) == threads[s].task # NoTask /\ ~threads[s].detached

\* Until main exits, those who may still join a thread and those who join one
\* now all have a thread of their own.
ClaimInv ==
  ~exiting =>
    /\ \A h \in handles : Joinable(h.slot)
    /\ \A p \in Task : pc[p] \in Joining => Joinable(cur[p])
    /\ \A g, h \in handles : g.slot = h.slot => g = h
    /\ \A p, q \in Task :
         pc[p] \in Joining /\ pc[q] \in Joining /\ cur[p] = cur[q] => p = q
    /\ \A p \in Task, h \in handles : pc[p] \in Joining => cur[p] # h.slot
    /\ pc[Main] = "c_check" =>
         /\ \A h \in handles : h.slot # cur[Main]
         /\ \A p \in Task : pc[p] \in Joining => cur[p] # cur[Main]

\* Who is about to clear a slot that was joined finds nobody in it.
ClearInv ==
  \A p, q \in Task : pc[p] = "j_clear" /\ UsesSlot(q) => udata[q] # cur[p]

\* The exit function leaves nobody behind but threads that are detached while
\* it is between its own test and those of pthread_join.
ExitInv ==
  exiting =>
    /\ \A p \in Task : UsesSlot(p) => udata[p] >= cur[Main] \/ udata[p] \in raced
    /\ pc[Main] \in Testing /\ threads[cur[Main]].detached => cur[Main] \in raced
    /\ pc[Main] = "unloaded" => cur[Main] = PTHREAD_THREADS_MAX

LInv == Types /\ SemInv /\ CurInv

IInv ==
  /\ LInv /\ RoleInv /\ MainInv /\ UserInv /\ PrepareInv
  /\ ClaimInv /\ ClearInv /\ ExitInv

-----------------------------------------------------------------------------
(***************************************************************************)
(* The slots                                                               *)
(***************************************************************************)
\* The slots of a table of at least one thread.
LEMMA SlotFacts ==
  /\ PTHREAD_THREADS_MAX \in Nat /\ PTHREAD_THREADS_MAX > 0
  /\ \A s : s \in Slot <=> s \in Nat /\ s < PTHREAD_THREADS_MAX
  /\ 0 \in Slot
BY ThreadsAssumption DEF Slot

\* A set of positions has a first one.
LEMMA MinLemma ==
  ASSUME NEW S \in SUBSET Nat, NEW n \in S
  PROVE  Min(S) \in S /\ \A m \in S : Min(S) <= m
<1> DEFINE w == {m \in 1..(n + 1) : m - 1 \in S}
<1>1. n + 1 \in Nat /\ w \in SUBSET (1..(n + 1)) /\ n + 1 \in w
  OBVIOUS
<1>w. \A m \in S : m <= n => m + 1 \in w
  OBVIOUS
<1>v. \A m \in w : m - 1 \in S /\ m - 1 <= n /\ m \in Nat
  OBVIOUS
<1> HIDE DEF w
<1>2. /\ Cardinality(w) \in Nat
      /\ \A i \in w : Rank(w, i) \in 1..Cardinality(w)
      /\ \A k \in 1..Cardinality(w) : \E i \in w : Rank(w, i) = k
  BY <1>1, RankHits
<1>3. Rank(w, n + 1) \in 1..Cardinality(w)
  BY <1>1, <1>2
<1>4. 1 \in 1..Cardinality(w)
  BY <1>2, <1>3
<1>5. PICK i \in w : Rank(w, i) = 1
  BY <1>2, <1>4
<1>6. ASSUME NEW j \in w PROVE ~(j < i)
  <2>1. j < i => Rank(w, j) < Rank(w, i)
    BY <1>1, RankGrows
  <2> QED
    BY <2>1, <1>2, <1>5
<1>7. \A m \in S : i - 1 <= m
  <2> SUFFICES ASSUME NEW m \in S PROVE i - 1 <= m
    OBVIOUS
  <2>1. CASE m <= n
    <3>1. m + 1 \in w
      BY <1>w, <2>1
    <3> QED
      BY <1>6, <1>v, <3>1
  <2>2. CASE ~(m <= n)
    BY <1>v, <2>2
  <2> QED
    BY <2>1, <2>2
<1>8. i - 1 \in S
  BY <1>v
<1> QED
  BY <1>7, <1>8 DEF Min

\* GetThreadId answers the first slot with a task, or the end of the table.
LEMMA GetThreadIdLemma ==
  ASSUME NEW x
  PROVE  /\ GetThreadId(x) \in Slot \cup {PTHREAD_THREADS_MAX}
         /\ GetThreadId(x) # PTHREAD_THREADS_MAX => threads[GetThreadId(x)].task = x
         /\ \A s \in Slot : threads[s].task = x => GetThreadId(x) <= s
<1> DEFINE S == Holds(x) \cup {PTHREAD_THREADS_MAX}
<1>1. S \in SUBSET Nat /\ PTHREAD_THREADS_MAX \in S
  BY SlotFacts DEF Holds
<1>2. GetThreadId(x) \in S /\ \A m \in S : GetThreadId(x) <= m
  BY <1>1, MinLemma DEF GetThreadId
<1> QED
  BY <1>2 DEF Holds

\* pthread_self answers a slot, for main its own one.
LEMMA SelfLemma ==
  ASSUME NEW p
  PROVE  /\ Self(p) \in Slot
         /\ threads[0].task = p => Self(p) = 0
<1>1. /\ GetThreadId(p) \in Slot \cup {PTHREAD_THREADS_MAX}
      /\ \A s \in Slot : threads[s].task = p => GetThreadId(p) <= s
  BY GetThreadIdLemma
<1>2. GetThreadId(p) \in Nat
  BY <1>1, SlotFacts
<1>3. Self(p) \in 0..PTHREAD_THREADS_MAX - 1
  BY <1>2, ThreadsAssumption DEF Self
<1>4. threads[0].task = p => GetThreadId(p) = 0
  BY <1>1, <1>2, SlotFacts
<1>5. 0 % PTHREAD_THREADS_MAX = 0
  BY SlotFacts
<1> QED
  BY <1>3, <1>4, <1>5 DEF Self, Slot

-----------------------------------------------------------------------------
(***************************************************************************)
(* The types, and thread_sem                                               *)
(***************************************************************************)
\* The fields of a slot.
LEMMA SlotFields ==
  ASSUME Types, NEW s \in Slot
  PROVE  /\ threads[s] \in SlotType
         /\ threads[s].task \in Task \cup {NoTask} /\ threads[s].parent \in Task \cup {NoTask}
         /\ threads[s].arg \in Thread /\ threads[s].ret \in Thread
         /\ threads[s].finished \in BOOLEAN /\ threads[s].detached \in BOOLEAN
         /\ threads[s].canceled \in BOOLEAN
BY DEF Types, SlotType

\* A slot with one field written is a slot.
LEMMA WrittenSlot ==
  ASSUME NEW inf \in SlotType
  PROVE  /\ \A x \in Task \cup {NoTask} : /\ [inf EXCEPT !.task = x] \in SlotType
                                         /\ [inf EXCEPT !.parent = x] \in SlotType
         /\ \A v \in Thread : [inf EXCEPT !.ret = v] \in SlotType
         /\ [inf EXCEPT !.finished = TRUE] \in SlotType
         /\ [inf EXCEPT !.detached = TRUE] \in SlotType
         /\ [inf EXCEPT !.canceled = TRUE] \in SlotType
BY DEF SlotType

\* A cleared slot, and one that is prepared for a thread.
LEMMA EmptyTyped ==
  /\ EmptySlot \in SlotType
  /\ \A p \in Task, v \in Thread, d \in DetachStates :
       [EmptySlot EXCEPT !.parent = p, !.arg = v, !.detached = d] \in SlotType
<1>1. 0 \in Thread /\ DetachStates \subseteq BOOLEAN
  BY ThreadsAssumption DEF Thread
<1>2. EmptySlot \in SlotType
  BY <1>1 DEF EmptySlot, SlotType
<1>3. ASSUME NEW p \in Task, NEW v \in Thread, NEW d \in DetachStates
      PROVE  [EmptySlot EXCEPT !.parent = p, !.arg = v, !.detached = d] \in SlotType
  BY <1>1, <1>2 DEF SlotType
<1> QED
  BY <1>2, <1>3

\* The invariant holds at the start.
LEMMA InitLInv == Init => LInv
<1> SUFFICES ASSUME Init PROVE LInv
  OBVIOUS
<1> USE DEF Init
<1>1. Types
  <2>1. EmptySlot \in SlotType /\ [EmptySlot EXCEPT !.task = Main] \in SlotType
    BY EmptyTyped, WrittenSlot, ThreadsAssumption
  <2>2. threads \in [Slot -> SlotType]
    BY <2>1
  <2>3. 0 \in Slot /\ 0 \in Thread
    BY SlotFacts, ThreadsAssumption DEF Thread
  <2> QED
    BY <2>2, <2>3, SlotFacts DEF Types, Points
<1>2. SemInv
  BY FreeWellFormed, ThreadsAssumption DEF SemInv, Locking, Preparing
<1>3. CurInv
  BY SlotFacts DEF CurInv
<1> QED
  BY <1>1, <1>2, <1>3 DEF LInv

\* A step leaves all of a slot but the value, which only the joiner reads.
Kept(s) ==
  /\ threads'[s].task = threads[s].task /\ threads'[s].parent = threads[s].parent
  /\ threads'[s].arg = threads[s].arg /\ threads'[s].finished = threads[s].finished
  /\ threads'[s].detached = threads[s].detached /\ threads'[s].canceled = threads[s].canceled

\* The end of a thread writes a value.
LEMMA EndWrites ==
  ASSUME Types, NEW p \in Task, NEW s \in Slot, End(p, s)
  PROVE  /\ threads' \in [Slot -> SlotType] /\ \A r \in Slot : Kept(r)
         /\ \A r \in Slot \ {s} : threads'[r] = threads[r]
         /\ threads'[s].ret = threads[udata[p]].arg
         /\ pc' = [pc EXCEPT ![p] = "t_test"] \/ pc' = [pc EXCEPT ![p] = "lost"]
<1>1. threads[udata[p]].arg \in Thread /\ threads[s] \in SlotType
  BY SlotFields DEF Types
<1> DEFINE inf == [threads[s] EXCEPT !.ret = threads[udata[p]].arg]
<1>2. inf \in SlotType
  BY <1>1, WrittenSlot
<1>3. threads' = [threads EXCEPT ![s] = inf]
  BY DEF End
<1>4. /\ inf.task = threads[s].task /\ inf.parent = threads[s].parent
      /\ inf.arg = threads[s].arg /\ inf.finished = threads[s].finished
      /\ inf.detached = threads[s].detached /\ inf.canceled = threads[s].canceled
      /\ inf.ret = threads[udata[p]].arg
  BY <1>1 DEF SlotType
<1> HIDE DEF inf
<1>5. /\ threads' \in [Slot -> SlotType] /\ \A r \in Slot : Kept(r)
      /\ threads'[s] = inf /\ \A r \in Slot \ {s} : threads'[r] = threads[r]
  BY <1>2, <1>3, <1>4 DEF Types, Kept
<1> QED
  BY <1>4, <1>5 DEF End, Goto

\* Grab prepares a free slot.
LEMMA GrabWrites ==
  ASSUME Types, NEW p \in Task, Grab(p)
  PROVE  LET s == cur'[p] IN
         /\ s \in Slot /\ threads[s].task = NoTask
         /\ cur' = [cur EXCEPT ![p] = s]
         /\ threads' \in [Slot -> SlotType]
         /\ \A r \in Slot \ {s} : threads'[r] = threads[r]
         /\ threads'[s].task = NoTask /\ threads'[s].parent = p
         /\ threads'[s].arg = wanted[p] /\ threads'[s].detached \in DetachStates
         /\ ~threads'[s].finished /\ ~threads'[s].canceled
<1> DEFINE s == GetThreadId(NoTask)
<1>1. s \in Slot /\ threads[s].task = NoTask
  BY GetThreadIdLemma DEF Grab, TableFull
<1> HIDE DEF s
<1>2. cur' = [cur EXCEPT ![p] = s] /\ cur'[p] = s
  BY DEF Grab, Types, s
<1>3. PICK d \in DetachStates :
        threads' = [threads EXCEPT ![s] =
                      [EmptySlot EXCEPT !.parent = p, !.arg = wanted[p], !.detached = d]]
  BY DEF Grab, s
<1> DEFINE inf == [EmptySlot EXCEPT !.parent = p, !.arg = wanted[p], !.detached = d]
<1>4. inf \in SlotType
  BY EmptyTyped DEF Types
<1>5. /\ inf.task = NoTask /\ inf.parent = p
      /\ inf.arg = wanted[p] /\ inf.detached \in DetachStates
      /\ ~inf.finished /\ ~inf.canceled
  BY DEF EmptySlot
<1> HIDE DEF inf
<1>6. threads' = [threads EXCEPT ![s] = inf]
  BY <1>3 DEF inf
<1>7. /\ threads' \in [Slot -> SlotType] /\ threads'[s] = inf
      /\ \A r \in Slot \ {s} : threads'[r] = threads[r]
  BY <1>1, <1>4, <1>6 DEF Types
<1> QED
  BY <1>1, <1>2, <1>5, <1>7

\* Only slot s is written.
OneSlot(s) ==
  /\ threads' \in [Slot -> SlotType]
  /\ \A r \in Slot \ {s} : threads'[r] = threads[r]

\* The slot holds what is written to it.
LEMMA SlotWritten ==
  ASSUME Types, NEW s \in Slot, NEW inf \in SlotType, threads' = [threads EXCEPT ![s] = inf]
  PROVE  OneSlot(s) /\ threads'[s] = inf
BY DEF Types, OneSlot

\* A step that stores a task leaves the rest of the slot alone.
LEMMA TaskWritten ==
  ASSUME Types, NEW s \in Slot, NEW x \in Task \cup {NoTask}, threads' = [threads EXCEPT ![s].task = x]
  PROVE  /\ OneSlot(s) /\ threads'[s].task = x
         /\ threads'[s].parent = threads[s].parent /\ threads'[s].arg = threads[s].arg
         /\ threads'[s].finished = threads[s].finished /\ threads'[s].detached = threads[s].detached
         /\ threads'[s].canceled = threads[s].canceled /\ threads'[s].ret = threads[s].ret
<1> DEFINE inf == [threads[s] EXCEPT !.task = x]
<1>1. threads[s] \in SlotType
  BY SlotFields
<1>2. inf \in SlotType
  BY <1>1, WrittenSlot
<1>3. /\ inf.task = x /\ inf.ret = threads[s].ret
      /\ inf.parent = threads[s].parent /\ inf.arg = threads[s].arg /\ inf.finished = threads[s].finished
      /\ inf.detached = threads[s].detached /\ inf.canceled = threads[s].canceled
  BY <1>1 DEF SlotType
<1>4. threads' = [threads EXCEPT ![s] = inf]
  OBVIOUS
<1> HIDE DEF inf
<1>5. OneSlot(s) /\ threads'[s] = inf
  BY <1>2, <1>4, SlotWritten, Zenon
<1> QED
  BY <1>3, <1>5

\* A step that clears the parent leaves the rest of the slot alone.
LEMMA ParentWritten ==
  ASSUME Types, NEW s \in Slot, threads' = [threads EXCEPT ![s].parent = NoTask]
  PROVE  /\ OneSlot(s) /\ threads'[s].parent = NoTask
         /\ threads'[s].task = threads[s].task /\ threads'[s].arg = threads[s].arg
         /\ threads'[s].finished = threads[s].finished /\ threads'[s].detached = threads[s].detached
         /\ threads'[s].canceled = threads[s].canceled
<1> DEFINE inf == [threads[s] EXCEPT !.parent = NoTask]
<1>1. threads[s] \in SlotType
  BY SlotFields
<1>2. inf \in SlotType
  BY <1>1, WrittenSlot
<1>3. /\ inf.parent = NoTask
      /\ inf.task = threads[s].task /\ inf.arg = threads[s].arg /\ inf.finished = threads[s].finished
      /\ inf.detached = threads[s].detached /\ inf.canceled = threads[s].canceled
  BY <1>1 DEF SlotType
<1>4. threads' = [threads EXCEPT ![s] = inf]
  OBVIOUS
<1> HIDE DEF inf
<1>5. OneSlot(s) /\ threads'[s] = inf
  BY <1>2, <1>4, SlotWritten, Zenon
<1> QED
  BY <1>3, <1>5

\* A step that marks the thread finished leaves the rest of the slot alone.
LEMMA FinishedWritten ==
  ASSUME Types, NEW s \in Slot, threads' = [threads EXCEPT ![s].finished = TRUE]
  PROVE  /\ OneSlot(s) /\ threads'[s].finished = TRUE
         /\ threads'[s].task = threads[s].task /\ threads'[s].parent = threads[s].parent
         /\ threads'[s].arg = threads[s].arg /\ threads'[s].detached = threads[s].detached
         /\ threads'[s].canceled = threads[s].canceled /\ threads'[s].ret = threads[s].ret
<1> DEFINE inf == [threads[s] EXCEPT !.finished = TRUE]
<1>1. threads[s] \in SlotType
  BY SlotFields
<1>2. inf \in SlotType
  BY <1>1, WrittenSlot
<1>3. /\ inf.finished = TRUE /\ inf.ret = threads[s].ret
      /\ inf.task = threads[s].task /\ inf.parent = threads[s].parent /\ inf.arg = threads[s].arg
      /\ inf.detached = threads[s].detached /\ inf.canceled = threads[s].canceled
  BY <1>1 DEF SlotType
<1>4. threads' = [threads EXCEPT ![s] = inf]
  OBVIOUS
<1> HIDE DEF inf
<1>5. OneSlot(s) /\ threads'[s] = inf
  BY <1>2, <1>4, SlotWritten, Zenon
<1> QED
  BY <1>3, <1>5

\* A step that detaches the thread leaves the rest of the slot alone.
LEMMA DetachedWritten ==
  ASSUME Types, NEW s \in Slot, threads' = [threads EXCEPT ![s].detached = TRUE]
  PROVE  /\ OneSlot(s) /\ threads'[s].detached = TRUE
         /\ threads'[s].task = threads[s].task /\ threads'[s].parent = threads[s].parent
         /\ threads'[s].arg = threads[s].arg /\ threads'[s].finished = threads[s].finished
         /\ threads'[s].canceled = threads[s].canceled
<1> DEFINE inf == [threads[s] EXCEPT !.detached = TRUE]
<1>1. threads[s] \in SlotType
  BY SlotFields
<1>2. inf \in SlotType
  BY <1>1, WrittenSlot
<1>3. /\ inf.detached = TRUE
      /\ inf.task = threads[s].task /\ inf.parent = threads[s].parent /\ inf.arg = threads[s].arg
      /\ inf.finished = threads[s].finished /\ inf.canceled = threads[s].canceled
  BY <1>1 DEF SlotType
<1>4. threads' = [threads EXCEPT ![s] = inf]
  OBVIOUS
<1> HIDE DEF inf
<1>5. OneSlot(s) /\ threads'[s] = inf
  BY <1>2, <1>4, SlotWritten, Zenon
<1> QED
  BY <1>3, <1>5

\* A step that cancels the thread leaves the rest of the slot alone.
LEMMA CanceledWritten ==
  ASSUME Types, NEW s \in Slot, threads' = [threads EXCEPT ![s].canceled = TRUE]
  PROVE  /\ OneSlot(s) /\ threads'[s].canceled = TRUE
         /\ threads'[s].task = threads[s].task /\ threads'[s].parent = threads[s].parent
         /\ threads'[s].arg = threads[s].arg /\ threads'[s].finished = threads[s].finished
         /\ threads'[s].detached = threads[s].detached
<1> DEFINE inf == [threads[s] EXCEPT !.canceled = TRUE]
<1>1. threads[s] \in SlotType
  BY SlotFields
<1>2. inf \in SlotType
  BY <1>1, WrittenSlot
<1>3. /\ inf.canceled = TRUE
      /\ inf.task = threads[s].task /\ inf.parent = threads[s].parent /\ inf.arg = threads[s].arg
      /\ inf.finished = threads[s].finished /\ inf.detached = threads[s].detached
  BY <1>1 DEF SlotType
<1>4. threads' = [threads EXCEPT ![s] = inf]
  OBVIOUS
<1> HIDE DEF inf
<1>5. OneSlot(s) /\ threads'[s] = inf
  BY <1>2, <1>4, SlotWritten, Zenon
<1> QED
  BY <1>3, <1>5

\* The calls of pthread_create keep the types.
LEMMA CreateTypes ==
  ASSUME LInv, NEW p \in Task,
         Create(p) \/ Grab(p) \/ GrabFails(p) \/ Spawn(p) \/ SpawnFails(p) \/ Assign(p) \/ Check(p)
  PROVE  Types'
<1> USE DEF Goto, taskVars, progVars, Points
<1>t. Types
  BY DEF LInv
<1>1. CASE Create(p)
  <2>1. created' \in Thread
    BY <1>1, ThreadsAssumption DEF Create, LInv, Types, Thread
  <2> QED
    BY <1>1, <2>1, <1>t DEF Create, Types
<1>2. CASE Grab(p)
  <2>1. threads' \in [Slot -> SlotType] /\ cur' \in [Task -> Slot \cup {PTHREAD_THREADS_MAX}]
    BY <1>t, <1>2, GrabWrites DEF Types
  <2>2. /\ pc' = [pc EXCEPT ![p] = "c_spawn"]
        /\ UNCHANGED <<udata, parentsig, child, wanted, handles, created, exiting, raced>>
    BY <1>2 DEF Grab
  <2> QED
    BY <2>1, <2>2, <1>t DEF Types
<1>3. CASE GrabFails(p)
  BY <1>3, <1>t DEF GrabFails, Types
<1>4. CASE Spawn(p)
  <2>1. cur[p] \in Slot
    BY <1>4 DEF Spawn, At, LInv, CurInv, Preparing
  <2> QED
    BY <1>4, <2>1, <1>t DEF Spawn, Types
<1>5. CASE SpawnFails(p)
  BY <1>5, <1>t DEF SpawnFails, Types
<1>6. CASE Assign(p)
  <2>1. cur[p] \in Slot /\ child[p] \in Task \cup {NoTask}
    BY <1>6 DEF Assign, At, LInv, CurInv, Preparing, Types
  <2>2. threads' = [threads EXCEPT ![cur[p]].task = child[p]]
    BY <1>6 DEF Assign
  <2>3. threads' \in [Slot -> SlotType]
    BY <1>t, <2>1, <2>2, TaskWritten DEF OneSlot
  <2>4. /\ pc' = [pc EXCEPT ![p] = "c_check"]
        /\ UNCHANGED <<cur, udata, parentsig, child, wanted, handles, created, exiting, raced>>
    BY <1>6 DEF Assign
  <2> QED
    BY <2>3, <2>4, <1>t DEF Types
<1>7. CASE Check(p)
  <2>1. cur[p] \in Slot
    BY <1>7 DEF Check, LInv, CurInv
  <2>2. threads' \in [Slot -> SlotType]
    <3>1. CASE threads' = [threads EXCEPT ![cur[p]].parent = NoTask]
      BY <1>t, <2>1, <3>1, ParentWritten DEF OneSlot
    <3>2. CASE threads' = threads
      BY <1>t, <3>2 DEF Types
    <3> QED
      BY <1>7, <3>1, <3>2 DEF Check
  <2>3. handles' \subseteq [slot : Slot, thread : Thread, by : Task]
    <3>1. Handle(p) \in [slot : Slot, thread : Thread, by : Task]
      BY <2>1, <1>t DEF Handle, Types
    <3>2. handles' \subseteq handles \cup {Handle(p)}
      BY <1>7 DEF Check
    <3> QED
      BY <1>t, <3>1, <3>2 DEF Types
  <2>4. /\ pc' = [pc EXCEPT ![p] = "run"]
        /\ UNCHANGED <<cur, udata, parentsig, child, wanted, created, exiting, raced>>
    BY <1>7 DEF Check
  <2> QED
    BY <2>2, <2>3, <2>4, <1>t DEF Types
<1> QED
  BY <1>1, <1>2, <1>3, <1>4, <1>5, <1>6, <1>7

\* The end of a thread keeps the types.
LEMMA EndTypes ==
  ASSUME LInv, NEW p \in Task,
         \/ Start(p) \/ Return(p) \/ Exit(p) \/ TestCancel(p)
         \/ TestDetached(p) \/ Finish(p) \/ Free(p) \/ Die(p)
  PROVE  Types'
<1> USE DEF taskVars, progVars, Points
<1>t. Types
  BY DEF LInv
<1>u. udata[p] \in Slot /\ Self(p) \in Slot
  BY <1>t, SelfLemma DEF Types
<1>1. CASE Start(p)
  BY <1>1, <1>t DEF Start, Goto, Types
<1>2. CASE Return(p) \/ Exit(p) \/ TestCancel(p)
  <2>1. PICK s \in Slot : End(p, s)
    BY <1>2, <1>u DEF Return, Exit, TestCancel
  <2>2. /\ threads' \in [Slot -> SlotType]
        /\ \/ pc' = [pc EXCEPT ![p] = "t_test"]
           \/ pc' = [pc EXCEPT ![p] = "lost"]
    BY <1>t, <2>1, EndWrites
  <2>3. UNCHANGED <<cur, udata, parentsig, child, wanted, handles, created, exiting, raced>>
    BY <1>2 DEF Return, Exit, TestCancel
  <2> QED
    BY <2>2, <2>3, <1>t DEF Types
<1>3. CASE TestDetached(p)
  BY <1>3, <1>t DEF TestDetached, Goto, Types
<1>4. CASE Finish(p)
  <2>1. threads' \in [Slot -> SlotType]
    <3>1. threads' = [threads EXCEPT ![udata[p]].finished = TRUE]
      BY <1>4 DEF Finish
    <3> QED
      BY <1>t, <1>u, <3>1, FinishedWritten DEF OneSlot
  <2>2. /\ pc' = [pc EXCEPT ![p] = "none"]
        /\ UNCHANGED <<cur, udata, child, wanted, handles, created, exiting, raced>>
    BY <1>4 DEF Finish, Goto, Forbidden
  <2>3. parentsig' \in [Task -> BOOLEAN]
    BY <1>4, <1>t, Zenon DEF Finish, Types
  <2> QED
    BY <2>1, <2>2, <2>3, <1>t DEF Types
<1>5. CASE Free(p)
  <2>1. threads' = [threads EXCEPT ![udata[p]] = EmptySlot]
    BY <1>5 DEF Free
  <2>2. threads' \in [Slot -> SlotType]
    BY <1>t, <1>u, <2>1, EmptyTyped, SlotWritten DEF OneSlot
  <2>3. /\ pc' = [pc EXCEPT ![p] = "t_die"]
        /\ UNCHANGED <<cur, udata, parentsig, child, wanted, handles, created, exiting, raced>>
    BY <1>5 DEF Free, Goto
  <2> QED
    BY <2>2, <2>3, <1>t DEF Types
<1>6. CASE Die(p)
  BY <1>6, <1>t DEF Die, Goto, Types
<1> QED
  BY <1>1, <1>2, <1>3, <1>4, <1>5, <1>6

\* A handle names a slot and a thread.
LEMMA HandleFields ==
  ASSUME Types, NEW h \in handles
  PROVE  h.slot \in Slot /\ h.thread \in Thread /\ h.by \in Task
BY DEF Types

\* pthread_join, pthread_detach and pthread_cancel keep the types.
LEMMA JoinTypes ==
  ASSUME LInv, NEW p \in Task,
         \/ Detach(p) \/ Cancel(p)
         \/ Join(p) \/ JoinTest(p) \/ JoinSleep(p) \/ JoinClear(p)
  PROVE  Types'
<1> USE DEF taskVars, progVars, Points
<1>t. Types
  BY DEF LInv
<1>1. CASE Detach(p)
  <2>1. PICK h \in handles :
          /\ threads' = IF threads[h.slot].task = NoTask THEN threads
                        ELSE [threads EXCEPT ![h.slot].detached = TRUE]
          /\ handles' = handles \ {h}
          /\ raced' \subseteq raced \cup {h.slot}
    BY <1>1 DEF Detach
  <2>2. threads' \in [Slot -> SlotType]
    <3>1. CASE threads' = [threads EXCEPT ![h.slot].detached = TRUE]
      BY <1>t, <3>1, HandleFields, DetachedWritten DEF OneSlot
    <3>2. CASE threads' = threads
      BY <1>t, <3>2 DEF Types
    <3> QED
      BY <2>1, <3>1, <3>2
  <2>3. UNCHANGED <<pc, cur, udata, parentsig, child, wanted, created, exiting>>
    BY <1>1 DEF Detach
  <2>4. raced' \subseteq Slot
    BY <1>t, <2>1, HandleFields DEF Types
  <2> QED
    BY <2>1, <2>2, <2>3, <2>4, <1>t DEF Types
<1>2. CASE Cancel(p)
  <2>1. PICK h \in handles : threads' = [threads EXCEPT ![h.slot].canceled = TRUE]
    BY <1>2 DEF Cancel
  <2>2. threads' \in [Slot -> SlotType]
    BY <1>t, <2>1, HandleFields, CanceledWritten DEF OneSlot
  <2>3. UNCHANGED <<pc, cur, udata, parentsig, child, wanted, handles, created, exiting, raced>>
    BY <1>2 DEF Cancel
  <2> QED
    BY <2>2, <2>3, <1>t DEF Types
<1>3. CASE Join(p)
  <2>1. PICK h \in handles :
          /\ handles' = handles \ {h}
          /\ cur' = [cur EXCEPT ![p] = h.slot]
          /\ wanted' = [wanted EXCEPT ![p] = h.thread]
          /\ \/ UNCHANGED <<pc, threads>>
             \/ End(p, Self(p))
             \/ Goto(p, "j_test") /\ UNCHANGED threads
    BY <1>3, Zenon DEF Join
  <2>2. h.slot \in Slot /\ h.thread \in Thread /\ Self(p) \in Slot
    BY <1>t, HandleFields, SelfLemma
  <2>3. threads' \in [Slot -> SlotType] /\ pc' \in [Task -> Points]
    <3>1. CASE UNCHANGED <<pc, threads>>
      BY <1>t, <3>1 DEF Types
    <3>2. CASE End(p, Self(p))
      <4>1. /\ threads' \in [Slot -> SlotType]
            /\ pc' = [pc EXCEPT ![p] = "t_test"] \/ pc' = [pc EXCEPT ![p] = "lost"]
        BY <1>t, <2>2, <3>2, EndWrites
      <4> QED
        BY <4>1, <1>t DEF Types
    <3>3. CASE Goto(p, "j_test") /\ UNCHANGED threads
      BY <1>t, <3>3 DEF Types, Goto
    <3> QED
      BY <2>1, <3>1, <3>2, <3>3
  <2>4. UNCHANGED <<udata, parentsig, child, created, exiting, raced>>
    BY <1>3 DEF Join
  <2> QED
    BY <2>1, <2>2, <2>3, <2>4, <1>t DEF Types
<1>4. CASE JoinTest(p) \/ JoinSleep(p)
  BY <1>4, <1>t DEF JoinTest, JoinSleep, Goto, Types
<1>5. CASE JoinClear(p)
  <2>1. cur[p] \in Slot /\ pc[p] = "j_clear"
    BY <1>5 DEF JoinClear, At, LInv, CurInv, Joining
  <2>2. threads' = [threads EXCEPT ![cur[p]] = EmptySlot]
    BY <1>5 DEF JoinClear
  <2>3. threads' \in [Slot -> SlotType]
    BY <1>t, <2>1, <2>2, EmptyTyped, SlotWritten DEF OneSlot
  <2>4. /\ pc' = [pc EXCEPT ![p] = "x_scan"] \/ pc' = [pc EXCEPT ![p] = "run"]
        /\ cur' = [cur EXCEPT ![p] = @ + 1] \/ cur' = cur
        /\ UNCHANGED <<udata, parentsig, child, wanted, handles, created, exiting, raced>>
    BY <1>5 DEF JoinClear, Goto
  <2>5. cur[p] + 1 \in Slot \cup {PTHREAD_THREADS_MAX}
    BY <2>1, SlotFacts
  <2> QED
    BY <2>3, <2>4, <2>5, <1>t DEF Types
<1> QED
  BY <1>1, <1>2, <1>3, <1>4, <1>5

\* The exit function keeps the types.
LEMMA ExitTypes ==
  ASSUME LInv, ExitFunc \/ ExitStep
  PROVE  Types'
<1> USE DEF taskVars, progVars, Points
<1>t. Types /\ Main \in Task
  BY ThreadsAssumption DEF LInv
<1>n. \A s \in Slot : s + 1 \in Slot \cup {PTHREAD_THREADS_MAX}
  BY SlotFacts
<1>1. CASE ExitFunc
  <2>1. 1 \in Slot \cup {PTHREAD_THREADS_MAX}
    BY SlotFacts
  <2> QED
    BY <1>1, <1>t, <2>1 DEF ExitFunc, Goto, Types
<1>2. CASE ExitStep
  <2>1. \E k \in Points : pc' = [pc EXCEPT ![Main] = k]
    BY <1>2 DEF ExitStep, Scan, ScanEnds, ScanSlot, ScanDelay, ScanParent, ScanDetached, PassSlot, Goto
  <2>2. cur' = cur \/ (cur' = [cur EXCEPT ![Main] = @ + 1] /\ pc[Main] \in Testing \cup {"x_delay"})
    BY <1>2 DEF ExitStep, Scan, ScanEnds, ScanSlot, ScanDelay, ScanParent, ScanDetached, PassSlot, Testing
  <2>3. pc[Main] \in Testing \cup {"x_delay"} => cur[Main] \in Slot
    BY <1>t DEF LInv, CurInv
  <2>4. UNCHANGED <<threads, udata, parentsig, child, wanted, handles, created, exiting, raced>>
    BY <1>2 DEF ExitStep, Scan, ScanDelay, ScanParent, ScanDetached
  <2> QED
    BY <2>1, <2>2, <2>3, <2>4, <1>n, <1>t DEF Types
<1> QED
  BY <1>1, <1>2

\* What a step of p does to thread_sem: it asks for it, keeps it, releases
\* it, or has nothing to do with it.  No other task goes in or out.
Elsewhere(p) ==
  \A q \in Task \ {p} :
    /\ pc'[q] \in Locking <=> pc[q] \in Locking
    /\ pc'[q] \in Preparing => pc[q] \in Preparing

Asks(p) ==
  /\ pc[p] \notin Locking /\ pc'[p] \in Locking \ Preparing
  /\ thread_sem' = Obtain(thread_sem, p)
Keeps(p) ==
  /\ pc[p] \in Locking /\ Ready(p) /\ pc'[p] \in Locking
  /\ thread_sem' = thread_sem
Releases(p) ==
  /\ pc[p] \in Locking /\ Ready(p) /\ pc'[p] \notin Locking
  /\ thread_sem' = Release(thread_sem)
Avoids(p) ==
  /\ pc[p] \notin Locking /\ pc'[p] \notin Locking
  /\ thread_sem' = thread_sem

SemStep(p) == Elsewhere(p) /\ (Asks(p) \/ Keeps(p) \/ Releases(p) \/ Avoids(p))

\* Each kind of steps keeps control points and semaphore in agreement.
LEMMA SemStepInv ==
  ASSUME SemInv, NEW p \in Task, SemStep(p)
  PROVE  SemInv'
<1>1. CASE Asks(p)
  <2>1. /\ WellFormed(thread_sem')
        /\ \A u \in Task : Involved(thread_sem', u) <=> Involved(thread_sem, u) \/ u = p
        /\ \A u \in Task : thread_sem.owner = u => thread_sem'.owner = u
    BY <1>1, ObtainLemma DEF SemInv, Asks
  <2> QED
    BY <1>1, <2>1 DEF SemInv, SemStep, Elsewhere, Asks
<1>2. CASE Keeps(p)
  <2>1. thread_sem.owner = p
    BY <1>2, OwnerIsReady DEF SemInv, Keeps, Ready
  <2> QED
    BY <1>2, <2>1 DEF SemInv, SemStep, Elsewhere, Keeps
<1>3. CASE Releases(p)
  <2>1. thread_sem.owner = p
    BY <1>3, OwnerIsReady DEF SemInv, Releases, Ready
  <2>2. /\ WellFormed(thread_sem')
        /\ \A u \in Task : Involved(thread_sem', u) <=> Involved(thread_sem, u) /\ u # p
    BY <1>3, <2>1, ReleaseLemma DEF SemInv, Releases
  <2>3. \A u \in Task : pc'[u] \notin Preparing
    BY <1>3, <2>1 DEF SemInv, SemStep, Elsewhere, Releases, Preparing, Locking
  <2> QED
    BY <1>3, <2>2, <2>3 DEF SemInv, SemStep, Elsewhere, Releases
<1>4. CASE Avoids(p)
  BY <1>4 DEF SemInv, SemStep, Elsewhere, Avoids, Preparing, Locking
<1> QED
  BY <1>1, <1>2, <1>3, <1>4 DEF SemStep

\* Where a step of p goes.
LEMMA Goes ==
  ASSUME Types, NEW p \in Task, NEW k, pc' = [pc EXCEPT ![p] = k]
  PROVE  pc'[p] = k /\ (\A q \in Task \ {p} : pc'[q] = pc[q]) /\ Elsewhere(p)
BY DEF Types, Elsewhere

\* Every step of a task is of one of these kinds.
LEMMA StepSem ==
  ASSUME LInv, NEW p \in Task, Create(p) \/ Step(p) \/ Detach(p) \/ Cancel(p)
  PROVE  SemStep(p)
<1> USE DEF Locking, Preparing, Goto
<1>t. Types
  BY DEF LInv
<1>u. udata[p] \in Slot /\ Self(p) \in Slot
  BY <1>t, SelfLemma DEF Types
<1>1. CASE Create(p)
  <2>1. pc' = [pc EXCEPT ![p] = "c_grab"]
    BY <1>1 DEF Create
  <2> QED
    BY <1>1, <1>t, <2>1, Goes DEF Create, Lock, SemStep, Asks
<1>2. CASE Grab(p) \/ SpawnFails(p)
  <2>1. pc' = [pc EXCEPT ![p] = "c_spawn"] \/ pc' = [pc EXCEPT ![p] = "c_assign"]
    BY <1>2 DEF Grab, SpawnFails
  <2> QED
    BY <1>2, <1>t, <2>1, Goes DEF Grab, SpawnFails, progVars, At, SemStep, Keeps
<1>3. CASE Spawn(p)
  <2>1. PICK q \in Task : pc[q] = "none" /\ pc' = [pc EXCEPT ![p] = "c_assign", ![q] = "start"]
    BY <1>3 DEF Spawn
  <2>2. pc[p] = "c_spawn" /\ pc'[p] = "c_assign" /\ Elsewhere(p)
    BY <1>3, <1>t, <2>1 DEF Spawn, At, Elsewhere, Types
  <2> QED
    BY <1>3, <2>2 DEF Spawn, At, SemStep, Keeps
<1>4. CASE GrabFails(p) \/ Assign(p) \/ Free(p) \/ JoinClear(p)
  <2>1. /\ pc[p] \in Locking /\ Ready(p) /\ thread_sem' = Release(thread_sem)
        /\ \E k \in {"run", "c_check", "t_die", "x_scan"} : pc' = [pc EXCEPT ![p] = k]
    BY <1>4 DEF GrabFails, Assign, Free, JoinClear, At, Unlock
  <2> QED
    BY <1>t, <2>1, Goes DEF SemStep, Releases
<1>5. CASE Check(p) \/ Start(p) \/ Finish(p) \/ Die(p) \/ JoinSleep(p)
  <2>1. /\ pc[p] \notin Locking /\ thread_sem' = thread_sem
        /\ \E k \in {"run", "none", "j_test"} : pc' = [pc EXCEPT ![p] = k]
    BY <1>5 DEF Check, Start, Finish, Forbidden, Die, JoinSleep
  <2> QED
    BY <1>t, <2>1, Goes DEF SemStep, Avoids
<1>6. CASE Return(p) \/ Exit(p) \/ TestCancel(p) \/ Join(p)
  <2>1. pc[p] \notin Locking /\ thread_sem' = thread_sem
    BY <1>6 DEF Return, Exit, TestCancel, Join, MayEnd
  <2>2. \/ pc' = pc
        \/ \E k \in {"t_test", "lost", "j_test"} : pc' = [pc EXCEPT ![p] = k]
    <3>1. CASE Join(p)
      BY <3>1 DEF Join, End
    <3>2. CASE Return(p) \/ Exit(p) \/ TestCancel(p)
      BY <3>2 DEF Return, Exit, TestCancel, End
    <3> QED
      BY <1>6, <3>1, <3>2
  <2> QED
    BY <1>t, <2>1, <2>2, Goes DEF SemStep, Avoids, Elsewhere
<1>7. CASE TestDetached(p) \/ JoinTest(p)
  <2>1. pc[p] \notin Locking
    BY <1>7 DEF TestDetached, JoinTest
  <2>2. \/ /\ \E k \in {"t_free", "j_clear"} : pc' = [pc EXCEPT ![p] = k]
           /\ thread_sem' = Obtain(thread_sem, p)
        \/ /\ \E k \in {"t_finish", "j_sleep"} : pc' = [pc EXCEPT ![p] = k]
           /\ thread_sem' = thread_sem
    BY <1>7 DEF TestDetached, JoinTest, Lock
  <2> QED
    BY <1>t, <2>1, <2>2, Goes DEF SemStep, Asks, Avoids
<1>8. CASE Detach(p) \/ Cancel(p)
  BY <1>8 DEF Detach, Cancel, SemStep, Elsewhere, Avoids
<1> QED
  BY <1>1, <1>2, <1>3, <1>4, <1>5, <1>6, <1>7, <1>8, Zenon DEF Step

\* The exit function asks for thread_sem in pthread_join only.
LEMMA ExitSem ==
  ASSUME LInv, ExitFunc \/ ExitStep
  PROVE  SemStep(Main)
<1>1. /\ pc[Main] \notin Locking /\ thread_sem' = thread_sem
      /\ \E k \in Unloading \cup {"j_test"} : pc' = [pc EXCEPT ![Main] = k]
  BY DEF ExitFunc, ExitStep, Scan, ScanEnds, ScanSlot, ScanDelay, ScanParent, ScanDetached, PassSlot,
         Goto, Locking, Unloading, Testing
<1>2. Types /\ Main \in Task
  BY ThreadsAssumption DEF LInv
<1> QED
  BY <1>1, <1>2, Goes DEF SemStep, Avoids, Elsewhere, Locking, Unloading, Testing

\* A step of a task leaves the slots of other tasks' calls alone.
LEMMA StepCur ==
  ASSUME LInv, NEW p \in Task, Create(p) \/ Step(p) \/ Detach(p) \/ Cancel(p)
  PROVE  CurInv'
<1> DEFINE Uses == Preparing \cup {"c_check", "x_delay"} \cup Testing \cup Joining
<1>t. Types /\ CurInv
  BY DEF LInv
<1> SUFFICES /\ pc'[p] \in Uses => cur'[p] \in Slot
             /\ \A q \in Task \ {p} : pc'[q] \in Uses => pc[q] \in Uses /\ cur'[q] = cur[q]
  BY <1>t DEF CurInv
<1> USE DEF Preparing, Testing, Joining, Goto
<1>1. CASE Grab(p)
  <2>1. cur'[p] \in Slot /\ cur' = [cur EXCEPT ![p] = cur'[p]]
    BY <1>1, <1>t, GrabWrites
  <2>2. pc' = [pc EXCEPT ![p] = "c_spawn"]
    BY <1>1 DEF Grab
  <2> QED
    BY <2>1, <2>2, <1>t DEF Types
<1>2. CASE Spawn(p)
  <2>1. PICK q \in Task : pc[q] = "none" /\ pc' = [pc EXCEPT ![p] = "c_assign", ![q] = "start"]
    BY <1>2 DEF Spawn
  <2>2. pc[p] = "c_spawn" /\ cur' = cur
    BY <1>2 DEF Spawn, At
  <2> QED
    BY <1>t, <2>1, <2>2 DEF Types, CurInv
<1>3. CASE Join(p)
  <2>1. PICK h \in handles : cur' = [cur EXCEPT ![p] = h.slot]
    BY <1>3 DEF Join
  <2>2. pc' = pc \/ \E k \in {"t_test", "lost", "j_test"} : pc' = [pc EXCEPT ![p] = k]
    BY <1>3 DEF Join, End
  <2> QED
    BY <1>t, <2>1, <2>2, HandleFields DEF Types
<1>4. CASE JoinClear(p)
  <2>1. /\ \E k \in {"run", "x_scan"} : pc' = [pc EXCEPT ![p] = k]
        /\ cur' = [cur EXCEPT ![p] = @ + 1] \/ cur' = cur
    BY <1>4 DEF JoinClear
  <2> QED
    BY <1>t, <2>1 DEF Types
<1>5. CASE SpawnFails(p) \/ Assign(p) \/ JoinTest(p) \/ JoinSleep(p)
  <2>1. /\ pc[p] \in Uses /\ cur' = cur
        /\ \E k \in Points : pc' = [pc EXCEPT ![p] = k]
    BY <1>5 DEF SpawnFails, Assign, JoinTest, JoinSleep, At, Points
  <2> QED
    BY <1>t, <2>1 DEF Types, CurInv
<1>6. CASE \/ Create(p) \/ GrabFails(p) \/ Check(p) \/ Start(p) \/ Return(p) \/ Exit(p)
           \/ TestCancel(p) \/ TestDetached(p) \/ Finish(p) \/ Free(p) \/ Die(p)
  <2>1. /\ cur' = cur
        /\ \E k \in Points \ Uses : pc' = [pc EXCEPT ![p] = k]
    BY <1>6 DEF Create, GrabFails, Check, Start, Return, Exit, TestCancel, TestDetached,
                Finish, Forbidden, Free, Die, End, taskVars, progVars, Points
  <2> QED
    BY <1>t, <2>1 DEF Types
<1>7. CASE Detach(p) \/ Cancel(p)
  BY <1>7, <1>t DEF Detach, Cancel, CurInv
<1> QED
  BY <1>1, <1>2, <1>3, <1>4, <1>5, <1>6, <1>7, Zenon DEF Step

\* So does the exit function.
LEMMA ExitCur ==
  ASSUME LInv, ExitFunc \/ ExitStep
  PROVE  CurInv'
<1>t. Types /\ CurInv /\ Main \in Task
  BY ThreadsAssumption DEF LInv
<1> DEFINE Uses == Preparing \cup {"c_check", "x_delay"} \cup Testing \cup Joining
<1>1. /\ \A q \in Task \ {Main} : pc'[q] = pc[q] /\ cur'[q] = cur[q]
      /\ pc'[Main] \in Uses => cur'[Main] = cur[Main] /\ cur[Main] < PTHREAD_THREADS_MAX
  <2>1. CASE ExitFunc
    BY <1>t, <2>1 DEF ExitFunc, Goto, Types, Preparing, Testing, Joining
  <2>2. CASE Scan
    BY <1>t, <2>2 DEF Scan, ScanEnds, ScanSlot, Goto, Types, Preparing, Testing, Joining
  <2>3. CASE ScanDelay \/ ScanParent \/ ScanDetached
    <3>1. cur[Main] \in Slot
      BY <1>t, <2>3 DEF ScanDelay, ScanParent, ScanDetached, CurInv, Testing
    <3> QED
      BY <1>t, <2>3, <3>1, SlotFacts DEF ScanDelay, ScanParent, ScanDetached, PassSlot, Goto, Types,
           Preparing, Testing, Joining
  <2> QED
    BY <2>1, <2>2, <2>3 DEF ExitStep
<1>2. cur[Main] < PTHREAD_THREADS_MAX => cur[Main] \in Slot
  BY <1>t, SlotFacts DEF Types
<1> QED
  BY <1>t, <1>1, <1>2 DEF CurInv

\* LInv is an invariant.
LEMMA LInvHolds == Spec => []LInv
<1>1. Init => LInv
  BY InitLInv
<1>2. LInv /\ [Next]_vars => LInv'
  <2> SUFFICES ASSUME LInv, [Next]_vars PROVE LInv'
    OBVIOUS
  <2>1. ASSUME NEW p \in Task, Create(p) \/ Step(p) \/ Detach(p) \/ Cancel(p) PROVE LInv'
    <3>1. Types'
      BY <2>1, CreateTypes, EndTypes, JoinTypes, Zenon DEF Step
    <3>2. SemInv'
      BY <2>1, StepSem, SemStepInv, Zenon DEF LInv
    <3> QED
      BY <2>1, <3>1, <3>2, StepCur, Zenon DEF LInv
  <2>2. CASE ExitFunc \/ ExitStep
    <3>1. SemInv'
      BY <2>2, ExitSem, SemStepInv, ThreadsAssumption DEF LInv
    <3> QED
      BY <2>2, <3>1, ExitTypes, ExitCur, Zenon DEF LInv
  <2>3. CASE UNCHANGED vars
    BY <2>3 DEF vars, taskVars, progVars, LInv, Types, SemInv, CurInv
  <2> QED
    BY <2>1, <2>2, <2>3, Zenon DEF Next
<1> QED
  BY <1>1, <1>2, PTL DEF Spec

\* The variables keep their types, whoever creates threads: the first free
\* slot of a table that is not full is a slot, and thread_sem is only
\* released by its owner.
THEOREM ThreadsTypeCorrect == Spec => []TypeOK
<1>1. LInv => TypeOK
  BY DEF LInv, Types, SemInv, WellFormed, Orderly, TypeOK
<1> QED
  BY <1>1, LInvHolds, PTL

-----------------------------------------------------------------------------
(***************************************************************************)
(* The threads of one creator                                              *)
(***************************************************************************)
\* The invariant holds at the start.
LEMMA InitIInv == Init => IInv
<1> SUFFICES ASSUME Init PROVE IInv
  OBVIOUS
<1>1. LInv
  BY InitLInv
<1>2. /\ pc = [p \in Task |-> IF p = Main THEN "run" ELSE "none"]
      /\ handles = {} /\ exiting = FALSE /\ Main \in Task
      /\ threads[0] = [EmptySlot EXCEPT !.task = Main]
  BY SlotFacts, ThreadsAssumption DEF Init
<1>3. threads[0].task = Main /\ ~threads[0].canceled
  BY <1>2 DEF EmptySlot
<1>4. pc[Main] = "run" /\ \A p \in Task : ~UsesSlot(p) /\ pc[p] \in {"run", "none"}
  BY <1>2 DEF UsesSlot
<1>5. RoleInv
  BY <1>2 DEF RoleInv, Creating, Joining, Testing, Unloading
<1>6. MainInv /\ UserInv /\ PrepareInv
  BY <1>2, <1>3, <1>4 DEF MainInv, UserInv, PrepareInv, Preparing, Joining
<1>7. ClaimInv /\ ClearInv /\ ExitInv
  BY <1>2, <1>4 DEF ClaimInv, ClearInv, ExitInv, Joining
<1> QED
  BY <1>1, <1>5, <1>6, <1>7 DEF IInv

\* Nothing ends main: its slot is never cancelled, and it finds it.
LEMMA MainRuns ==
  ASSUME RoleInv, MainInv
  PROVE  /\ ~Start(Main) /\ ~Return(Main) /\ ~Exit(Main) /\ ~TestCancel(Main)
         /\ ~TestDetached(Main) /\ ~Finish(Main) /\ ~Free(Main) /\ ~Die(Main)
         /\ ~threads[Self(Main)].canceled
         /\ pc[Main] # "none" /\ ~UsesSlot(Main)
<1>1. ~threads[Self(Main)].canceled
  BY SelfLemma DEF MainInv
<1>2. pc[Main] \notin {"none", "start", "t_test", "t_finish", "t_free", "t_die"}
  BY DEF RoleInv, Creating, Joining, Testing, Unloading
<1> QED
  BY <1>1, <1>2 DEF Start, Return, Exit, MayEnd, TestCancel, TestDetached, Finish, Free, At,
                    Die, UsesSlot

\* Only main creates threads, and it goes on doing so until it exits.
LEMMA RoleStep ==
  ASSUME OneCreator, Types, RoleInv, MainInv, NEW p \in Task,
         Create(p) \/ Step(p) \/ Detach(p) \/ Cancel(p)
  PROVE  RoleInv'
<1> USE DEF Creating, Joining, Testing, Unloading
<1>m. Main \in Task
  BY ThreadsAssumption
<1>1. CASE Spawn(p)
  <2>1. PICK q \in Task : pc[q] = "none" /\ pc' = [pc EXCEPT ![p] = "c_assign", ![q] = "start"]
    BY <1>1 DEF Spawn
  <2>2. p = Main /\ q # Main /\ exiting' = exiting /\ ~exiting
    BY <1>1, <2>1 DEF Spawn, At, progVars, RoleInv
  <2> QED
    BY <2>1, <2>2, <1>m DEF RoleInv, Types
<1>2. CASE Create(p) \/ Grab(p) \/ GrabFails(p) \/ SpawnFails(p) \/ Assign(p) \/ Check(p)
  <2>1. /\ p = Main /\ exiting' = exiting /\ ~exiting
        /\ \E k \in {"run", "c_grab", "c_spawn", "c_assign", "c_check"} : pc' = [pc EXCEPT ![p] = k]
    BY <1>2 DEF OneCreator, RoleInv, Create, Grab, GrabFails, SpawnFails, Assign, Check, At, Goto, progVars
  <2> QED
    BY <2>1, <1>m DEF RoleInv, Types
<1>3. CASE \/ Start(p) \/ Return(p) \/ Exit(p) \/ TestCancel(p) \/ TestDetached(p)
           \/ Finish(p) \/ Free(p) \/ Die(p)
  <2>1. /\ p # Main /\ exiting' = exiting
        /\ \E k \in {"run", "t_test", "lost", "t_free", "t_finish", "none", "t_die"} :
             pc' = [pc EXCEPT ![p] = k]
    BY <1>3, MainRuns DEF Start, Return, Exit, TestCancel, TestDetached, Finish, Free, Die,
                          End, Goto, Forbidden, progVars
  <2> QED
    BY <2>1, <1>m DEF RoleInv, Types
<1>4. CASE Join(p)
  <2>1. exiting' = exiting
    BY <1>4 DEF Join
  <2>2. CASE p = Main
    <3>1. pc[Main] = "run" /\ (pc' = pc \/ pc' = [pc EXCEPT ![p] = "j_test"])
      BY <1>4, <2>2, MainRuns DEF Join, Goto
    <3> QED
      BY <2>1, <2>2, <3>1, <1>m DEF RoleInv, Types
  <2>3. CASE p # Main
    <3>1. pc' = pc \/ \E k \in {"j_test", "t_test", "lost"} : pc' = [pc EXCEPT ![p] = k]
      BY <1>4 DEF Join, Goto, End
    <3> QED
      BY <2>1, <2>3, <3>1, <1>m DEF RoleInv, Types
  <2> QED
    BY <2>2, <2>3
<1>5. CASE JoinTest(p) \/ JoinSleep(p)
  <2>1. /\ pc[p] \in Joining /\ exiting' = exiting
        /\ \E k \in Joining : pc' = [pc EXCEPT ![p] = k]
    BY <1>5 DEF JoinTest, JoinSleep, Goto, progVars
  <2> QED
    BY <2>1, <1>m DEF RoleInv, Types
<1>6. CASE JoinClear(p)
  <2>1. /\ pc[p] \in Joining /\ exiting' = exiting
        /\ pc' = [pc EXCEPT ![p] = IF p = Main /\ exiting THEN "x_scan" ELSE "run"]
    BY <1>6 DEF JoinClear, At, Goto, progVars
  <2> QED
    BY <2>1, <1>m DEF RoleInv, Types
<1>7. CASE Detach(p) \/ Cancel(p)
  BY <1>7 DEF Detach, Cancel, progVars, RoleInv
<1> QED
  BY <1>1, <1>2, <1>3, <1>4, <1>5, <1>6, <1>7, Zenon DEF Step

\* The exit function is main's, and main stays in it.
LEMMA ExitRole ==
  ASSUME Types, RoleInv, ExitFunc \/ ExitStep
  PROVE  RoleInv' /\ exiting' = TRUE
<1>1. Main \in Task
  BY ThreadsAssumption
<1>2. CASE ExitFunc
  BY <1>1, <1>2 DEF ExitFunc, Goto, RoleInv, Types, Creating, Joining, Testing, Unloading
<1>3. CASE ExitStep
  <2>1. /\ exiting = TRUE /\ exiting' = exiting
    BY <1>3 DEF ExitStep, Scan, ScanDelay, ScanParent, ScanDetached, progVars, RoleInv, Unloading, Testing, Types
  <2>2. \E k \in Unloading \cup {"j_test"} : pc' = [pc EXCEPT ![Main] = k]
    BY <1>3 DEF ExitStep, Scan, ScanEnds, ScanSlot, ScanDelay, ScanParent, ScanDetached, PassSlot, Goto,
                Unloading, Testing
  <2> QED
    BY <1>1, <2>1, <2>2 DEF RoleInv, Types, Creating, Joining, Testing, Unloading
<1> QED
  BY <1>2, <1>3

\* What is left to prove of a step when the types and main's part are known.
Rest == MainInv /\ UserInv /\ PrepareInv /\ ClaimInv /\ ClearInv /\ ExitInv

\* A step that writes at most a value: nobody gets a slot or a claim to one,
\* and main does not move on in pthread_create or in the exit function.
Calm ==
  /\ \A s \in Slot : Kept(s)
  /\ \A q \in Task :
       /\ udata'[q] = udata[q]
       /\ UsesSlot(q)' => UsesSlot(q)
       /\ pc'[q] = "t_free" => pc[q] = "t_free" \/ threads[udata[q]].detached
       /\ pc'[q] \in Joining => pc[q] \in Joining /\ cur'[q] = cur[q]
       /\ pc'[q] = "j_clear" => pc[q] = "j_clear" \/ threads[cur[q]].finished
  /\ handles' \subseteq handles
  /\ exiting' = exiting /\ raced' = raced
  /\ pc'[Main] \in Preparing \cup {"c_check"} => pc'[Main] = pc[Main]
  /\ pc'[Main] \in Testing => pc[Main] \in Testing
  /\ pc[Main] = "c_assign" => pc'[Main] = pc[Main] /\ child'[Main] = child[Main]
  /\ pc'[Main] = "unloaded" => pc[Main] = "unloaded"
  /\ pc[Main] = "c_assign" \/ pc'[Main] \in Preparing \cup {"c_check"} \/ exiting
       => cur'[Main] = cur[Main]

\* A calm step keeps the invariant.
LEMMA CalmInv ==
  ASSUME IInv, Calm
  PROVE  Rest'
<1>t. Types /\ Main \in Task
  BY ThreadsAssumption DEF IInv, LInv
<1>k. \A s \in Slot : Kept(s)
  BY DEF Calm
<1>u. \A q \in Task : udata'[q] = udata[q] /\ udata[q] \in Slot /\ (UsesSlot(q)' => UsesSlot(q))
  BY <1>t DEF Calm, Types
<1>h. handles' \subseteq handles /\ exiting' = exiting /\ \A h \in handles : h.slot \in Slot
  BY <1>t, HandleFields DEF Calm
<1>j. \A q \in Task : pc'[q] \in Joining => pc[q] \in Joining /\ cur'[q] = cur[q] /\ cur[q] \in Slot
  BY DEF Calm, IInv, LInv, CurInv
<1>m. /\ pc'[Main] \in Preparing \cup {"c_check"} =>
           pc'[Main] = pc[Main] /\ cur'[Main] = cur[Main] /\ cur[Main] \in Slot
      /\ exiting => cur'[Main] = cur[Main]
      /\ pc'[Main] = "unloaded" => pc[Main] = "unloaded"
      /\ pc[Main] = "c_assign" =>
           pc'[Main] = "c_assign" /\ cur'[Main] = cur[Main] /\ child'[Main] = child[Main]
  BY <1>t DEF Calm, IInv, LInv, CurInv
<1>1. MainInv'
  BY <1>k, <1>u, <1>h, <1>j, <1>m, SlotFacts DEF IInv, MainInv, Kept
<1>2. UserInv'
  <2> SUFFICES ASSUME NEW q \in Task, UsesSlot(q)'
               PROVE  /\ threads'[udata'[q]].task = NoTask
                           => pc'[Main] = "c_assign" /\ cur'[Main] = udata'[q] /\ child'[Main] = q
                      /\ threads'[udata'[q]].parent = Main
                      /\ ~threads'[udata'[q]].finished
                      /\ pc'[q] = "t_free" => threads'[udata'[q]].detached
                      /\ \A r \in Task : UsesSlot(r)' /\ udata'[r] = udata'[q] => r = q
    BY DEF UserInv
  <2>1. UsesSlot(q) /\ udata[q] \in Slot /\ udata'[q] = udata[q] /\ Kept(udata[q])
    BY <1>k, <1>u
  <2>2. /\ threads[udata[q]].task = NoTask
             => pc[Main] = "c_assign" /\ cur[Main] = udata[q] /\ child[Main] = q
        /\ threads[udata[q]].parent = Main
        /\ ~threads[udata[q]].finished
        /\ pc[q] = "t_free" => threads[udata[q]].detached
        /\ \A r \in Task : UsesSlot(r) /\ udata[r] = udata[q] => r = q
    BY <2>1 DEF IInv, UserInv
  <2>3. pc'[q] = "t_free" => threads[udata[q]].detached
    BY <2>2 DEF Calm
  <2> QED
    BY <1>u, <1>m, <2>1, <2>2, <2>3 DEF Kept
<1>3. PrepareInv'
  BY <1>k, <1>m DEF IInv, PrepareInv, Kept
<1>4. ClaimInv'
  BY <1>k, <1>h, <1>j, <1>m DEF IInv, ClaimInv, Joinable, Kept
<1>5. ClearInv'
  <2> SUFFICES ASSUME NEW p \in Task, NEW q \in Task, pc'[p] = "j_clear", UsesSlot(q)'
               PROVE  udata'[q] # cur'[p]
    BY DEF ClearInv
  <2>1. UsesSlot(q) /\ udata'[q] = udata[q] /\ cur'[p] = cur[p]
    BY <1>u, <1>j DEF Joining
  <2>2. CASE pc[p] = "j_clear"
    BY <2>1, <2>2 DEF IInv, ClearInv
  <2>3. CASE threads[cur[p]].finished
    BY <2>1, <2>3 DEF IInv, UserInv
  <2> QED
    BY <2>2, <2>3 DEF Calm
<1>6. ExitInv'
  <2>1. pc'[Main] \in Testing => pc[Main] \in Testing /\ cur[Main] \in Slot
    BY <1>t DEF Calm, IInv, LInv, CurInv
  <2>2. raced' = raced
    BY DEF Calm
  <2> QED
    BY <1>k, <1>u, <1>h, <1>m, <2>1, <2>2 DEF IInv, ExitInv, Kept
<1> QED
  BY <1>1, <1>2, <1>3, <1>4, <1>5, <1>6 DEF Rest

\* A step that leaves the slots themselves alone writes nothing there.
LEMMA UnchangedKept ==
  ASSUME threads' = threads
  PROVE  \A s \in Slot : Kept(s)
BY DEF Kept

\* Most steps are calm.
LEMMA CalmSteps ==
  ASSUME IInv, RoleInv', NEW p \in Task,
         \/ Create(p) \/ GrabFails(p) \/ Start(p) \/ Return(p) \/ Exit(p) \/ TestCancel(p)
         \/ TestDetached(p) \/ Die(p) \/ JoinTest(p) \/ JoinSleep(p)
  PROVE  Calm
<1>t. Types /\ RoleInv /\ MainInv /\ Main \in Task
  BY ThreadsAssumption DEF IInv, LInv
<1>n. /\ ~Start(Main) /\ ~Return(Main) /\ ~Exit(Main) /\ ~TestCancel(Main)
      /\ ~TestDetached(Main) /\ ~Die(Main)
  BY <1>t, MainRuns
<1> USE DEF Joining, Preparing, Testing, UsesSlot
<1>1. CASE Create(p) \/ GrabFails(p)
  <2>1. /\ threads' = threads /\ udata' = udata /\ handles' = handles /\ exiting' = exiting /\ raced' = raced
        /\ cur' = cur
        /\ \/ pc[p] = "run" /\ pc' = [pc EXCEPT ![p] = "c_grab"]
           \/ pc[p] = "c_grab" /\ pc' = [pc EXCEPT ![p] = "run"]
        /\ child' = child
    BY <1>1 DEF Create, GrabFails, At, Goto, taskVars, progVars
  <2> QED
    BY <1>t, <2>1, UnchangedKept DEF Calm, Types
<1>2. CASE Return(p) \/ Exit(p) \/ TestCancel(p)
  <2>1. PICK s \in Slot : End(p, s)
    BY <1>2, <1>t, SelfLemma DEF Return, Exit, TestCancel, Types
  <2>2. /\ \A r \in Slot : Kept(r)
        /\ \/ pc' = [pc EXCEPT ![p] = "t_test"]
           \/ pc' = [pc EXCEPT ![p] = "lost"]
    BY <1>t, <2>1, EndWrites
  <2>3. /\ udata' = udata /\ handles' = handles /\ exiting' = exiting /\ raced' = raced
        /\ cur' = cur
        /\ pc[p] = "run" /\ p # Main /\ child' = child
    BY <1>2, <1>n DEF Return, Exit, TestCancel, MayEnd, taskVars, progVars
  <2> QED
    BY <1>t, <2>2, <2>3 DEF Calm, Types
<1>3. CASE Start(p) \/ Die(p)
  <2>1. /\ threads' = threads /\ udata' = udata /\ handles' = handles /\ exiting' = exiting /\ raced' = raced
        /\ cur' = cur
        /\ \/ pc[p] = "start" /\ pc' = [pc EXCEPT ![p] = "run"]
           \/ pc[p] = "t_die" /\ pc' = [pc EXCEPT ![p] = "none"]
        /\ p # Main /\ child' = child
    BY <1>3, <1>n DEF Start, Die, Goto, taskVars, progVars
  <2> QED
    BY <1>t, <2>1, UnchangedKept DEF Calm, Types
<1>4. CASE TestDetached(p)
  <2>1. /\ threads' = threads /\ udata' = udata /\ handles' = handles /\ exiting' = exiting /\ raced' = raced
        /\ cur' = cur
        /\ pc[p] = "t_test" /\ p # Main /\ child' = child
        /\ \/ threads[udata[p]].detached /\ pc' = [pc EXCEPT ![p] = "t_free"]
           \/ pc' = [pc EXCEPT ![p] = "t_finish"]
    BY <1>4, <1>n DEF TestDetached, Goto, taskVars, progVars
  <2> QED
    BY <1>t, <2>1, UnchangedKept DEF Calm, Types
<1>5. CASE JoinTest(p) \/ JoinSleep(p)
  <2>1. /\ threads' = threads /\ udata' = udata /\ handles' = handles /\ exiting' = exiting /\ raced' = raced
        /\ cur' = cur
        /\ pc[p] \in Joining /\ child' = child
        /\ \/ threads[cur[p]].finished /\ pc' = [pc EXCEPT ![p] = "j_clear"]
           \/ pc' = [pc EXCEPT ![p] = "j_sleep"]
           \/ pc' = [pc EXCEPT ![p] = "j_test"]
    BY <1>5 DEF JoinTest, JoinSleep, Finished, Goto, taskVars, progVars
  <2> QED
    BY <1>t, <2>1, UnchangedKept DEF Calm, Types
<1> QED
  BY <1>1, <1>2, <1>3, <1>4, <1>5

\* Outside of the moment between its start and the store of its task, a
\* thread is known in its slot.
LEMMA UsersAreKnown ==
  ASSUME IInv, pc[Main] # "c_assign", NEW q \in Task, UsesSlot(q)
  PROVE  threads[udata[q]].task # NoTask /\ udata[q] \in Slot
BY DEF IInv, UserInv, LInv, Types

\* The exit function tests a slot.
LEMMA TestsSlot ==
  ASSUME IInv
  PROVE  pc[Main] \in Testing => cur[Main] \in Slot
BY ThreadsAssumption DEF IInv, LInv, CurInv

\* No joinable slot is free; main's is neither free nor joined.
LEMMA ClaimsAreTaken ==
  ASSUME IInv, ~exiting, NEW s, threads[s].task = NoTask
  PROVE  /\ \A h \in handles : h.slot # s
         /\ \A q \in Task : pc[q] \in Joining => cur[q] # s
         /\ s # 0
<1>1. threads[0].task = Main /\ Main \in Task
  BY ThreadsAssumption DEF IInv, MainInv
<1>2. Main # NoTask
  BY <1>1, NoTaskAssumption
<1> QED
  BY <1>1, <1>2 DEF IInv, ClaimInv, Joinable

\* The free slot that Grab takes is nobody's.
LEMMA GrabRest ==
  ASSUME IInv, RoleInv', NEW p \in Task, Grab(p)
  PROVE  Rest'
<1>t. Types /\ Main \in Task
  BY ThreadsAssumption DEF IInv, LInv
<1>g. p = Main /\ ~exiting
  BY <1>t DEF Grab, At, IInv, RoleInv, Creating, Joining, Testing, Unloading
<1> DEFINE s == cur'[Main]
<1>1. /\ s \in Slot /\ threads[s].task = NoTask
      /\ cur' = [cur EXCEPT ![Main] = s]
      /\ \A r \in Slot \ {s} : threads'[r] = threads[r]
      /\ threads'[s].task = NoTask /\ threads'[s].parent = Main
      /\ ~threads'[s].finished /\ ~threads'[s].canceled
  BY <1>t, <1>g, GrabWrites
<1>2. /\ pc[Main] = "c_grab" /\ pc' = [pc EXCEPT ![Main] = "c_spawn"]
      /\ udata' = udata /\ handles' = handles /\ exiting' = exiting
  BY <1>g DEF Grab, At, Goto, taskVars, progVars
<1> HIDE DEF s
<1>3. /\ \A q \in Task \ {Main} : cur'[q] = cur[q] /\ pc'[q] = pc[q]
      /\ pc'[Main] = "c_spawn"
      /\ \A q \in Task : UsesSlot(q)' <=> UsesSlot(q)
  BY <1>t, <1>1, <1>2 DEF Types, UsesSlot
<1>4. \A q \in Task : UsesSlot(q) => udata[q] # s /\ udata[q] \in Slot /\ threads[udata[q]].task # NoTask
  BY <1>1, <1>2, UsersAreKnown
<1>5. /\ \A h \in handles : h.slot # s /\ h.slot \in Slot
      /\ \A q \in Task : pc[q] \in Joining => cur[q] # s /\ cur[q] \in Slot
      /\ s # 0
  BY <1>1, <1>g, <1>t, ClaimsAreTaken, HandleFields DEF IInv, LInv, CurInv
<1>6. MainInv'
  BY <1>1, <1>2, <1>3, <1>5, <1>g, SlotFacts DEF IInv, MainInv, Joining, s
<1>7. UserInv'
  BY <1>1, <1>2, <1>3, <1>4 DEF IInv, UserInv
<1>8. PrepareInv'
  BY <1>1, <1>3 DEF PrepareInv, s
<1>9. ClaimInv'
  BY <1>1, <1>2, <1>3, <1>5 DEF IInv, ClaimInv, Joinable, Joining
<1>10. ClearInv' /\ ExitInv'
  BY <1>2, <1>3, <1>g DEF IInv, ClearInv, ExitInv
<1> QED
  BY <1>6, <1>7, <1>8, <1>9, <1>10 DEF Rest

\* The thread that Spawn starts is the only one in the slot.
LEMMA SpawnRest ==
  ASSUME IInv, RoleInv', NEW p \in Task, Spawn(p)
  PROVE  Rest'
<1>t. Types /\ Main \in Task
  BY ThreadsAssumption DEF IInv, LInv
<1>g. p = Main /\ ~exiting
  BY <1>t DEF Spawn, At, IInv, RoleInv, Creating, Joining, Testing, Unloading
<1>1. PICK q \in Task :
        /\ pc[q] = "none"
        /\ pc' = [pc EXCEPT ![Main] = "c_assign", ![q] = "start"]
        /\ udata' = [udata EXCEPT ![q] = cur[Main]]
        /\ child' = [child EXCEPT ![Main] = q]
  BY <1>g DEF Spawn
<1>2. /\ pc[Main] = "c_spawn" /\ threads' = threads /\ cur' = cur
      /\ handles' = handles /\ exiting' = exiting
  BY <1>g DEF Spawn, At, progVars
<1>3. /\ q # Main /\ ~UsesSlot(q) /\ pc'[q] = "start" /\ pc'[Main] = "c_assign"
      /\ udata'[q] = cur[Main] /\ child'[Main] = q
      /\ \A r \in Task \ {q} : udata'[r] = udata[r] /\ (UsesSlot(r)' <=> UsesSlot(r))
      /\ \A r \in Task \ {Main, q} : pc'[r] = pc[r]
  BY <1>t, <1>1, <1>2 DEF Types, UsesSlot
<1>4. /\ threads[cur[Main]].task = NoTask /\ threads[cur[Main]].parent = Main
      /\ ~threads[cur[Main]].finished /\ cur[Main] # 0
  BY <1>2 DEF IInv, PrepareInv, MainInv, Preparing
<1>5. \A r \in Task : UsesSlot(r) => udata[r] # cur[Main] /\ threads[udata[r]].task # NoTask
  BY <1>2, <1>4, UsersAreKnown
<1>6. \A r \in Task : pc[r] \in Joining => cur[r] # cur[Main]
  BY <1>4, <1>g, ClaimsAreTaken
<1>7. MainInv'
  BY <1>2, <1>3, <1>4, <1>g DEF IInv, MainInv, Joining, UsesSlot
<1>8. UserInv'
  BY <1>2, <1>3, <1>4, <1>5 DEF IInv, UserInv
<1>9. PrepareInv'
  BY <1>2, <1>3, <1>4 DEF PrepareInv
<1>10. ClaimInv'
  BY <1>2, <1>3 DEF IInv, ClaimInv, Joinable, Joining
<1>11. ClearInv'
  BY <1>2, <1>3, <1>6 DEF IInv, ClearInv, Joining
<1>12. ExitInv'
  BY <1>2, <1>g DEF ExitInv
<1> QED
  BY <1>7, <1>8, <1>9, <1>10, <1>11, <1>12 DEF Rest

\* When no process could be created the slot stays free.
LEMMA SpawnFailsRest ==
  ASSUME IInv, RoleInv', NEW p \in Task, SpawnFails(p)
  PROVE  Rest'
<1>t. Types /\ Main \in Task
  BY ThreadsAssumption DEF IInv, LInv
<1>g. p = Main /\ ~exiting
  BY <1>t DEF SpawnFails, At, IInv, RoleInv, Creating, Joining, Testing, Unloading
<1>1. /\ pc[Main] = "c_spawn" /\ pc' = [pc EXCEPT ![Main] = "c_assign"]
      /\ threads' = threads /\ cur' = cur /\ udata' = udata
      /\ handles' = handles /\ exiting' = exiting
  BY <1>g DEF SpawnFails, At, Goto, progVars
<1>2. /\ pc'[Main] = "c_assign" /\ \A r \in Task \ {Main} : pc'[r] = pc[r]
      /\ \A r \in Task : UsesSlot(r)' <=> UsesSlot(r)
  BY <1>t, <1>1 DEF Types, UsesSlot
<1>3. \A r \in Task : UsesSlot(r) => threads[udata[r]].task # NoTask
  BY <1>1, UsersAreKnown
<1>4. MainInv' /\ PrepareInv'
  BY <1>1, <1>2, <1>g DEF IInv, MainInv, PrepareInv, Preparing, Joining
<1>5. UserInv'
  BY <1>1, <1>2, <1>3 DEF IInv, UserInv
<1>6. ClaimInv' /\ ClearInv' /\ ExitInv'
  BY <1>1, <1>2, <1>g DEF IInv, ClaimInv, ClearInv, ExitInv, Joinable, Joining
<1> QED
  BY <1>4, <1>5, <1>6 DEF Rest

\* The task that is stored is that of the thread in the slot, if it has one.
LEMMA AssignRest ==
  ASSUME IInv, RoleInv', NEW p \in Task, Assign(p)
  PROVE  Rest'
<1>t. Types /\ Main \in Task
  BY ThreadsAssumption DEF IInv, LInv
<1>g. p = Main /\ ~exiting
  BY <1>t DEF Assign, At, IInv, RoleInv, Creating, Joining, Testing, Unloading
<1> DEFINE s == cur[Main]
<1>1. /\ pc[Main] = "c_assign" /\ pc' = [pc EXCEPT ![Main] = "c_check"]
      /\ cur' = cur /\ udata' = udata /\ child' = child
      /\ handles' = handles /\ exiting' = exiting
      /\ threads' = [threads EXCEPT ![s].task = child[Main]]
  BY <1>g DEF Assign, At, Goto, taskVars, progVars
<1>2. s \in Slot /\ s # 0 /\ threads[s].task = NoTask /\ child[Main] \in Task \cup {NoTask}
  BY <1>1, <1>t DEF IInv, LInv, CurInv, Types, MainInv, PrepareInv, Preparing
<1>3. /\ OneSlot(s) /\ threads'[s].task = child[Main]
      /\ threads'[s].parent = threads[s].parent /\ threads'[s].finished = threads[s].finished
      /\ threads'[s].detached = threads[s].detached
  BY <1>t, <1>1, <1>2, TaskWritten
<1> HIDE DEF s
<1>4. /\ pc'[Main] = "c_check" /\ \A r \in Task \ {Main} : pc'[r] = pc[r]
      /\ \A r \in Task : UsesSlot(r)' <=> UsesSlot(r)
  BY <1>t, <1>1 DEF Types, UsesSlot
<1>5. /\ \A h \in handles : h.slot # s /\ h.slot \in Slot
      /\ \A q \in Task : pc[q] \in Joining => cur[q] # s /\ cur[q] \in Slot
  BY <1>2, <1>g, <1>t, ClaimsAreTaken, HandleFields DEF IInv, LInv, CurInv
<1>6. \A r \in Task : UsesSlot(r) => /\ udata[r] \in Slot
                                    /\ (udata[r] = s => child[Main] = r)
                                    /\ (udata[r] # s => threads[udata[r]].task # NoTask)
  BY <1>1, <1>2, <1>t DEF IInv, UserInv, Types, s
<1>7. MainInv'
  BY <1>1, <1>2, <1>3, <1>4, <1>g, SlotFacts DEF IInv, MainInv, Preparing, Joining, OneSlot, s
<1>8. UserInv'
  <2>1. \A r \in Task : r # NoTask
    BY NoTaskAssumption
  <2> QED
    BY <1>1, <1>3, <1>4, <1>6, <2>1 DEF IInv, UserInv, OneSlot
<1>9. PrepareInv'
  BY <1>4 DEF PrepareInv, Preparing
<1>10. ClaimInv'
  BY <1>1, <1>3, <1>4, <1>5 DEF IInv, ClaimInv, Joinable, Joining, OneSlot, s
<1>11. ClearInv' /\ ExitInv'
  BY <1>1, <1>4, <1>g DEF IInv, ClearInv, ExitInv
<1> QED
  BY <1>7, <1>8, <1>9, <1>10, <1>11 DEF Rest

\* Once pthread_create has looked at the slot again, the thread can be joined.
LEMMA CheckRest ==
  ASSUME IInv, RoleInv', NEW p \in Task, Check(p)
  PROVE  Rest'
<1>t. Types /\ Main \in Task
  BY ThreadsAssumption DEF IInv, LInv
<1>g. p = Main /\ ~exiting
  BY <1>t DEF Check, IInv, RoleInv, Creating, Joining, Testing, Unloading
<1> DEFINE s == cur[Main]
<1>1. /\ pc[Main] = "c_check" /\ pc' = [pc EXCEPT ![Main] = "run"]
      /\ cur' = cur /\ udata' = udata /\ child' = child /\ exiting' = exiting
  BY <1>g DEF Check, Goto, taskVars
<1>2. s \in Slot /\ s # 0
  BY <1>1, <1>t DEF IInv, LInv, CurInv, MainInv
<1>3. /\ pc'[Main] = "run" /\ \A r \in Task \ {Main} : pc'[r] = pc[r]
      /\ \A r \in Task : UsesSlot(r)' <=> UsesSlot(r)
  BY <1>t, <1>1 DEF Types, UsesSlot
<1>4. \A r \in Task : UsesSlot(r) => udata[r] \in Slot /\ threads[udata[r]].task # NoTask
  BY <1>1, UsersAreKnown
<1>5. /\ \A h \in handles : h.slot # s /\ h.slot \in Slot
      /\ \A q \in Task : pc[q] \in Joining => cur[q] # s /\ cur[q] \in Slot
  BY <1>1, <1>g, <1>t, HandleFields DEF IInv, LInv, CurInv, ClaimInv
<1>6. PrepareInv' /\ ExitInv' /\ ClearInv'
  BY <1>1, <1>3, <1>g DEF IInv, PrepareInv, Preparing, ExitInv, ClearInv
<1>7. CASE threads[s].task = NoTask
  <2>1. threads' = [threads EXCEPT ![s].parent = NoTask] /\ handles' = handles
    BY <1>7, <1>g DEF Check
  <2>2. /\ OneSlot(s) /\ threads'[s].task = threads[s].task
        /\ threads'[s].canceled = threads[s].canceled
    BY <1>t, <1>2, <2>1, ParentWritten
  <2> HIDE DEF s
  <2>3. \A r \in Task : UsesSlot(r) => udata[r] # s
    BY <1>4, <1>7
  <2>4. MainInv'
    BY <1>1, <1>2, <1>3, <1>g, <2>1, <2>2, SlotFacts DEF IInv, MainInv, Preparing, Joining, OneSlot
  <2>5. UserInv'
    BY <1>1, <1>3, <1>4, <2>2, <2>3 DEF IInv, UserInv, OneSlot
  <2>6. ClaimInv'
    BY <1>1, <1>3, <1>5, <2>1, <2>2 DEF IInv, ClaimInv, Joinable, Joining, OneSlot
  <2> QED
    BY <1>6, <2>4, <2>5, <2>6 DEF Rest
<1>8. CASE threads[s].task # NoTask
  <2>1. /\ threads' = threads
        /\ handles' = IF threads[s].detached THEN handles ELSE handles \cup {Handle(Main)}
    BY <1>8, <1>g DEF Check
  <2>2. Handle(Main).slot = s
    BY DEF Handle
  <2> HIDE DEF s
  <2>3. MainInv'
    BY <1>1, <1>2, <1>3, <1>g, <2>1, <2>2 DEF IInv, MainInv, Preparing, Joining
  <2>4. UserInv'
    BY <1>1, <1>3, <1>4, <2>1 DEF IInv, UserInv
  <2>5. ClaimInv'
    BY <1>1, <1>3, <1>5, <1>8, <2>1, <2>2 DEF IInv, ClaimInv, Joinable, Joining
  <2> QED
    BY <1>6, <2>3, <2>4, <2>5 DEF Rest
<1> QED
  BY <1>7, <1>8

\* A thread finishes in its own slot, and uses it no longer.
LEMMA FinishRest ==
  ASSUME IInv, RoleInv', NEW p \in Task, Finish(p)
  PROVE  Rest'
<1>t. Types /\ Main \in Task
  BY ThreadsAssumption DEF IInv, LInv
<1>g. p # Main /\ UsesSlot(p)
  <2>1. p # Main
    BY MainRuns DEF IInv
  <2> QED
    BY <2>1 DEF Finish, UsesSlot
<1> DEFINE s == udata[p]
<1>1. /\ pc[p] = "t_finish" /\ pc' = [pc EXCEPT ![p] = "none"]
      /\ cur' = cur /\ udata' = udata /\ child' = child
      /\ handles' = handles /\ exiting' = exiting /\ raced' = raced
      /\ threads' = [threads EXCEPT ![s].finished = TRUE]
  BY DEF Finish, Goto, Forbidden, progVars
<1>2. s \in Slot
  BY <1>t DEF Types
<1>3. /\ OneSlot(s) /\ threads'[s].task = threads[s].task
      /\ threads'[s].parent = threads[s].parent /\ threads'[s].detached = threads[s].detached
      /\ threads'[s].canceled = threads[s].canceled
  BY <1>t, <1>1, <1>2, FinishedWritten
<1>4. \A r \in Task : UsesSlot(r) => udata[r] \in Slot /\ (r # p => udata[r] # s)
  BY <1>g, <1>t DEF IInv, UserInv, Types
<1>5. pc[Main] = "c_spawn" => s # cur[Main]
  BY <1>g, UsersAreKnown DEF IInv, PrepareInv, Preparing
<1>6. \A h \in handles : h.slot \in Slot
  BY <1>t, HandleFields
<1>7. \A q \in Task : pc[q] \in Joining \cup Preparing => cur[q] \in Slot
  BY DEF IInv, LInv, CurInv
<1> HIDE DEF s
<1>8. /\ pc'[p] = "none" /\ pc'[Main] = pc[Main] /\ \A r \in Task \ {p} : pc'[r] = pc[r]
      /\ ~UsesSlot(p)' /\ \A r \in Task \ {p} : UsesSlot(r)' <=> UsesSlot(r)
  BY <1>t, <1>g, <1>1 DEF Types, UsesSlot
<1>9. MainInv' /\ PrepareInv'
  BY <1>1, <1>2, <1>3, <1>5, <1>7, <1>8, <1>t, SlotFacts
     DEF IInv, MainInv, PrepareInv, Preparing, Joining, OneSlot
<1>10. UserInv'
  BY <1>1, <1>3, <1>4, <1>8 DEF IInv, UserInv, OneSlot
<1>11. ClaimInv'
  <2>1. \A r \in Slot : Joinable(r) => Joinable(r)'
    BY <1>2, <1>3 DEF Joinable, OneSlot
  <2> QED
    BY <1>1, <1>6, <1>7, <1>8, <2>1 DEF IInv, ClaimInv, Joining
<1>12. ClearInv'
  BY <1>1, <1>8 DEF IInv, ClearInv
<1>13. ExitInv'
  BY <1>1, <1>3, <1>8, <1>t, TestsSlot DEF IInv, ExitInv, OneSlot
<1> QED
  BY <1>9, <1>10, <1>11, <1>12, <1>13 DEF Rest

\* The slot that a detached thread clears is its own, nobody joins it, and
\* it is not the one that main prepares with thread_sem in hand.
LEMMA FreeRest ==
  ASSUME IInv, RoleInv', NEW p \in Task, Free(p)
  PROVE  Rest'
<1>t. Types /\ Main \in Task
  BY ThreadsAssumption DEF IInv, LInv
<1>g. p # Main /\ UsesSlot(p)
  <2>1. p # Main
    BY MainRuns DEF IInv
  <2> QED
    BY <2>1 DEF Free, At, UsesSlot
<1> DEFINE s == udata[p]
<1>1. /\ pc[p] = "t_free" /\ pc' = [pc EXCEPT ![p] = "t_die"]
      /\ cur' = cur /\ udata' = udata /\ child' = child
      /\ handles' = handles /\ exiting' = exiting /\ raced' = raced
      /\ threads' = [threads EXCEPT ![s] = EmptySlot]
  BY DEF Free, At, Goto, taskVars, progVars
<1>2. s \in Slot /\ s # 0
  BY <1>t, <1>g DEF Types, IInv, MainInv
<1>3. OneSlot(s) /\ ~threads'[s].detached
  <2>1. OneSlot(s) /\ threads'[s] = EmptySlot
    BY <1>t, <1>1, <1>2, SlotWritten, EmptyTyped
  <2>2. ~EmptySlot.detached
    BY DEF EmptySlot
  <2> QED
    BY <2>1, <2>2
<1>4. \A r \in Task : UsesSlot(r) => udata[r] \in Slot /\ (r # p => udata[r] # s)
  BY <1>g, <1>t DEF IInv, UserInv, Types
<1>5. pc[Main] \notin Preparing
  <2>1. thread_sem.owner = p
    BY <1>1, OwnerIsReady DEF IInv, LInv, SemInv, Locking, Free, At, Ready
  <2> QED
    BY <1>g, <1>t, <2>1 DEF IInv, LInv, SemInv
<1>6. ~Joinable(s)
  BY <1>1, <1>g DEF IInv, UserInv, Joinable
<1>7. /\ \A h \in handles : h.slot \in Slot /\ (~exiting => h.slot # s)
      /\ \A q \in Task : pc[q] \in Joining => cur[q] \in Slot /\ (~exiting => cur[q] # s)
  BY <1>t, <1>6, HandleFields DEF IInv, LInv, CurInv, ClaimInv
<1> HIDE DEF s
<1>8. /\ pc'[p] = "t_die" /\ pc'[Main] = pc[Main] /\ \A r \in Task \ {p} : pc'[r] = pc[r]
      /\ ~UsesSlot(p)' /\ \A r \in Task \ {p} : UsesSlot(r)' <=> UsesSlot(r)
  BY <1>t, <1>g, <1>1 DEF Types, UsesSlot
<1>9. MainInv' /\ PrepareInv'
  BY <1>1, <1>2, <1>3, <1>5, <1>8, SlotFacts
     DEF IInv, MainInv, PrepareInv, Preparing, Joining, OneSlot
<1>10. UserInv'
  BY <1>1, <1>3, <1>4, <1>8 DEF IInv, UserInv, OneSlot
<1>11. ClaimInv'
  <2>1. \A r \in Slot : r # s /\ Joinable(r) => Joinable(r)'
    BY <1>3 DEF Joinable, OneSlot
  <2> QED
    BY <1>1, <1>7, <1>8, <2>1 DEF IInv, ClaimInv, Joining
<1>12. ClearInv'
  BY <1>1, <1>8 DEF IInv, ClearInv
<1>13. ExitInv'
  BY <1>1, <1>3, <1>8, <1>t, TestsSlot DEF IInv, ExitInv, OneSlot
<1> QED
  BY <1>9, <1>10, <1>11, <1>12, <1>13 DEF Rest

\* Detaching a thread gives up the only claim to it.
LEMMA DetachRest ==
  ASSUME IInv, RoleInv', NEW p \in Task, Detach(p)
  PROVE  Rest'
<1>t. Types /\ Main \in Task
  BY ThreadsAssumption DEF IInv, LInv
<1>1. PICK h \in handles :
        /\ threads' = IF threads[h.slot].task = NoTask THEN threads
                      ELSE [threads EXCEPT ![h.slot].detached = TRUE]
        /\ handles' = handles \ {h}
        /\ raced' = IF threads[h.slot].task # NoTask /\ AboutToJoin(h.slot)
                    THEN raced \cup {h.slot} ELSE raced
  BY DEF Detach
<1> DEFINE s == h.slot
<1>2. /\ pc' = pc /\ cur' = cur /\ udata' = udata /\ child' = child /\ exiting' = exiting
      /\ \A r \in Task : UsesSlot(r)' <=> UsesSlot(r)
  BY DEF Detach, taskVars, UsesSlot
<1>3. s \in Slot /\ \A g \in handles : g.slot \in Slot
  BY <1>t, HandleFields
<1>4. /\ \A r \in Slot \ {s} : threads'[r] = threads[r]
      /\ threads'[s].task = threads[s].task /\ threads'[s].parent = threads[s].parent
      /\ threads'[s].finished = threads[s].finished /\ threads'[s].canceled = threads[s].canceled
      /\ threads[s].detached => threads'[s].detached
      /\ raced \subseteq raced'
      /\ threads'[s].detached => threads[s].detached \/ ~AboutToJoin(s) \/ s \in raced'
  <2>1. CASE threads[s].task = NoTask
    BY <1>1, <2>1
  <2>2. CASE threads[s].task # NoTask
    <3>1. threads' = [threads EXCEPT ![s].detached = TRUE]
      BY <1>1, <2>2
    <3>2. raced \subseteq raced' /\ (AboutToJoin(s) => s \in raced')
      BY <1>1, <2>2
    <3> QED
      BY <1>t, <1>3, <3>1, <3>2, DetachedWritten DEF OneSlot
  <2> QED
    BY <2>1, <2>2
<1>5. \A q \in Task : /\ udata[q] \in Slot
                      /\ pc[q] \in Joining \cup Preparing => cur[q] \in Slot
  BY <1>t DEF IInv, LInv, CurInv, Types
<1>6. ~exiting => /\ \A g \in handles : g.slot = s => g = h
                  /\ \A q \in Task : pc[q] \in Joining => cur[q] # s
  BY DEF IInv, ClaimInv
<1> HIDE DEF s
<1>7. MainInv' /\ PrepareInv'
  BY <1>1, <1>2, <1>3, <1>4, <1>5, <1>t, SlotFacts DEF IInv, MainInv, PrepareInv
<1>8. UserInv'
  BY <1>2, <1>4, <1>5 DEF IInv, UserInv
<1>9. ClaimInv'
  <2>1. \A r \in Slot : r # s /\ Joinable(r) => Joinable(r)'
    BY <1>4 DEF Joinable
  <2> QED
    BY <1>1, <1>2, <1>3, <1>5, <1>6, <2>1 DEF IInv, ClaimInv
<1>10. ClearInv'
  BY <1>2 DEF IInv, ClearInv
<1>11. ExitInv'
  BY <1>2, <1>4, TestsSlot DEF IInv, ExitInv, AboutToJoin, Testing
<1> QED
  BY <1>7, <1>8, <1>9, <1>10, <1>11 DEF Rest

\* A cancellation only sets a mark in the slot of another thread than main.
LEMMA CancelRest ==
  ASSUME IInv, RoleInv', NEW p \in Task, Cancel(p)
  PROVE  Rest'
<1>t. Types /\ Main \in Task
  BY ThreadsAssumption DEF IInv, LInv
<1>1. PICK h \in handles : threads' = [threads EXCEPT ![h.slot].canceled = TRUE]
  BY DEF Cancel
<1> DEFINE s == h.slot
<1>2. /\ pc' = pc /\ cur' = cur /\ udata' = udata /\ child' = child
      /\ handles' = handles /\ exiting' = exiting /\ raced' = raced
      /\ \A r \in Task : UsesSlot(r)' <=> UsesSlot(r)
  BY DEF Cancel, taskVars, progVars, UsesSlot
<1>3. s \in Slot /\ s # 0 /\ \A g \in handles : g.slot \in Slot
  BY <1>t, HandleFields DEF IInv, MainInv
<1>4. /\ OneSlot(s)
      /\ threads'[s].task = threads[s].task /\ threads'[s].parent = threads[s].parent
      /\ threads'[s].finished = threads[s].finished /\ threads'[s].detached = threads[s].detached
  BY <1>1, <1>3, <1>t, CanceledWritten
<1>5. \A q \in Task : /\ udata[q] \in Slot
                      /\ pc[q] \in Joining \cup Preparing => cur[q] \in Slot
  BY <1>t DEF IInv, LInv, CurInv, Types
<1> HIDE DEF s
<1>6. MainInv' /\ PrepareInv'
  BY <1>2, <1>3, <1>4, <1>5, <1>t, SlotFacts DEF IInv, MainInv, PrepareInv, OneSlot
<1>7. UserInv'
  BY <1>2, <1>4, <1>5 DEF IInv, UserInv, OneSlot
<1>8. ClaimInv'
  <2>1. \A r \in Slot : Joinable(r) => Joinable(r)'
    BY <1>3, <1>4 DEF Joinable, OneSlot
  <2> QED
    BY <1>2, <1>3, <1>5, <2>1 DEF IInv, ClaimInv
<1>9. ClearInv'
  BY <1>2 DEF IInv, ClearInv
<1>10. ExitInv'
  BY <1>2, <1>4, TestsSlot DEF IInv, ExitInv, OneSlot
<1> QED
  BY <1>6, <1>7, <1>8, <1>9, <1>10 DEF Rest

\* A join moves the claim to a thread from the handle to the call.
LEMMA JoinRest ==
  ASSUME IInv, RoleInv', NEW p \in Task, Join(p)
  PROVE  Rest'
<1>t. Types /\ Main \in Task
  BY ThreadsAssumption DEF IInv, LInv
<1>1. PICK h \in handles :
        /\ handles' = handles \ {h}
        /\ cur' = [cur EXCEPT ![p] = h.slot]
        /\ \/ pc' = pc /\ threads' = threads
           \/ threads[Self(p)].canceled /\ End(p, Self(p))
           \/ pc' = [pc EXCEPT ![p] = "j_test"] /\ threads' = threads
  BY DEF Join, Goto
<1>2. /\ pc[p] = "run" /\ udata' = udata /\ child' = child
      /\ exiting' = exiting /\ raced' = raced
  BY DEF Join, taskVars
<1>3. h.slot \in Slot /\ h.slot # 0 /\ \A g \in handles : g.slot \in Slot
  BY <1>t, HandleFields DEF IInv, MainInv
<1>4. p = Main => ~exiting
  BY <1>2 DEF IInv, RoleInv, Joining, Testing, Unloading
<1>5. cur'[p] = h.slot /\ \A q \in Task \ {p} : cur'[q] = cur[q]
  BY <1>1, <1>t DEF Types
<1>6. CASE pc' = pc /\ threads' = threads
  <2>1. Calm
    BY <1>1, <1>2, <1>4, <1>5, <1>6, <1>t, UnchangedKept
       DEF Calm, UsesSlot, Joining, Preparing, Testing
  <2> QED
    BY <2>1, CalmInv
<1>7. CASE threads[Self(p)].canceled /\ End(p, Self(p))
  <2>1. p # Main
    BY <1>7, MainRuns DEF IInv
  <2>2. /\ \A r \in Slot : Kept(r)
        /\ \/ pc' = [pc EXCEPT ![p] = "t_test"]
           \/ pc' = [pc EXCEPT ![p] = "lost"]
    BY <1>7, <1>t, SelfLemma, EndWrites
  <2>3. \A q \in Task \ {p} : pc'[q] = pc[q]
    BY <2>2, <1>t DEF Types
  <2>4. pc'[p] \in {"t_test", "lost"}
    BY <2>2, <1>t DEF Types
  <2>5. Calm
    BY <1>1, <1>2, <1>5, <1>t, <2>1, <2>2, <2>3, <2>4
       DEF Calm, UsesSlot, Joining, Preparing, Testing
  <2> QED
    BY <2>5, CalmInv
<1>8. CASE pc' = [pc EXCEPT ![p] = "j_test"] /\ threads' = threads
  <2>1. /\ pc'[p] = "j_test" /\ \A q \in Task \ {p} : pc'[q] = pc[q]
        /\ \A q \in Task : UsesSlot(q)' <=> UsesSlot(q)
    BY <1>2, <1>8, <1>t DEF Types, UsesSlot
  <2>2. MainInv' /\ PrepareInv'
    BY <1>1, <1>2, <1>3, <1>4, <1>5, <1>8, <2>1 DEF IInv, MainInv, PrepareInv, Preparing
  <2>3. UserInv'
    BY <1>t, <1>2, <1>5, <1>8, <2>1 DEF IInv, UserInv
  <2>4. ClaimInv'
    BY <1>1, <1>2, <1>3, <1>5, <1>8, <2>1 DEF IInv, ClaimInv, Joinable, Joining
  <2>5. ClearInv' /\ ExitInv'
    BY <1>t, <1>2, <1>4, <1>5, <1>8, <2>1 DEF IInv, ClearInv, ExitInv, Testing
  <2> QED
    BY <2>2, <2>3, <2>4, <2>5 DEF Rest
<1> QED
  BY <1>1, <1>6, <1>7, <1>8

\* The slot that a join clears is the joined one, which nobody uses or
\* prepares any more.
LEMMA JoinClearRest ==
  ASSUME IInv, RoleInv', NEW p \in Task, JoinClear(p)
  PROVE  Rest'
<1>t. Types /\ Main \in Task
  BY ThreadsAssumption DEF IInv, LInv
<1> DEFINE s == cur[p]
<1>1. /\ pc[p] = "j_clear" /\ threads' = [threads EXCEPT ![s] = EmptySlot]
      /\ udata' = udata /\ child' = child /\ handles' = handles
      /\ exiting' = exiting /\ raced' = raced
      /\ \/ p = Main /\ exiting /\ pc' = [pc EXCEPT ![p] = "x_scan"]
            /\ cur' = [cur EXCEPT ![p] = @ + 1]
         \/ ~(p = Main /\ exiting) /\ pc' = [pc EXCEPT ![p] = "run"] /\ cur' = cur
  BY DEF JoinClear, At, Goto, taskVars, progVars
<1>2. s \in Slot /\ s # 0
  BY <1>1, <1>t DEF IInv, LInv, CurInv, MainInv, Joining
<1>3. OneSlot(s) /\ ~threads'[s].detached
  <2>1. OneSlot(s) /\ threads'[s] = EmptySlot
    BY <1>t, <1>1, <1>2, SlotWritten, EmptyTyped
  <2>2. ~EmptySlot.detached
    BY DEF EmptySlot
  <2> QED
    BY <2>1, <2>2
<1>4. \A r \in Task : UsesSlot(r) => udata[r] \in Slot /\ udata[r] # s
  BY <1>1, <1>t DEF IInv, ClearInv, Types
<1>5. pc[Main] \in Preparing => cur[Main] \in Slot /\ cur[Main] # s
  <2> SUFFICES ASSUME pc[Main] \in Preparing, cur[Main] = s PROVE FALSE
    BY <1>t DEF IInv, LInv, CurInv
  <2>1. ~exiting
    BY DEF IInv, RoleInv, Preparing, Joining, Testing, Unloading
  <2>2. threads[s].task = NoTask
    BY DEF IInv, PrepareInv
  <2> QED
    BY <1>1, <2>1, <2>2, ClaimsAreTaken DEF Joining
<1>6. /\ \A h \in handles : h.slot \in Slot /\ (~exiting => h.slot # s)
      /\ \A q \in Task : pc[q] \in Joining =>
           cur[q] \in Slot /\ (~exiting /\ q # p => cur[q] # s)
  BY <1>1, <1>t, HandleFields DEF IInv, LInv, CurInv, ClaimInv, Joining
<1>7. /\ pc'[p] \in {"run", "x_scan"} /\ \A q \in Task \ {p} : pc'[q] = pc[q] /\ cur'[q] = cur[q]
      /\ p = Main /\ exiting => cur'[p] = s + 1
      /\ ~(p = Main /\ exiting) => cur'[p] = cur[p]
  BY <1>1, <1>t DEF Types
<1>8. \A q \in Task : UsesSlot(q)' <=> UsesSlot(q)
  BY <1>1, <1>7, <1>t DEF UsesSlot
<1> HIDE DEF s
<1>9. s \in Nat
  BY <1>2, SlotFacts
<1>10. MainInv'
  <2>1. exiting' => cur'[Main] # 0
    BY <1>1, <1>7, <1>9, <1>t DEF IInv, MainInv
  <2> QED
    BY <1>1, <1>2, <1>3, <1>7, <1>8, <1>t, <2>1, SlotFacts
       DEF IInv, MainInv, Preparing, Joining, OneSlot
<1>11. PrepareInv'
  BY <1>1, <1>3, <1>5, <1>7, <1>t DEF IInv, PrepareInv, Preparing, OneSlot
<1>12. UserInv'
  BY <1>1, <1>3, <1>4, <1>7, <1>8, <1>t DEF IInv, UserInv, OneSlot
<1>13. ClaimInv'
  <2>1. \A r \in Slot : r # s /\ Joinable(r) => Joinable(r)'
    BY <1>3 DEF Joinable, OneSlot
  <2> QED
    BY <1>1, <1>6, <1>7, <1>t, <2>1 DEF IInv, ClaimInv, Joining
<1>14. ClearInv'
  BY <1>1, <1>7, <1>8 DEF IInv, ClearInv
<1>15. ExitInv'
  <2>1. \A r \in Task : UsesSlot(r) /\ exiting
          => udata[r] \in Nat /\ (udata[r] >= cur[Main] \/ udata[r] \in raced)
    BY <1>4, SlotFacts DEF IInv, ExitInv
  <2>2. \A r \in Task : UsesSlot(r) /\ exiting => udata[r] >= cur'[Main] \/ udata[r] \in raced
    BY <1>4, <1>7, <1>9, <1>t, <2>1 DEF s
  <2> QED
    BY <1>1, <1>3, <1>7, <1>8, <1>t, <2>2, TestsSlot DEF IInv, ExitInv, Testing, OneSlot
<1> QED
  BY <1>10, <1>11, <1>12, <1>13, <1>14, <1>15 DEF Rest

\* The exit function waits for a thread in each slot but main's.
LEMMA ExitFuncRest ==
  ASSUME IInv, RoleInv', ExitFunc \/ ExitStep
  PROVE  Rest'
<1>t. Types /\ Main \in Task
  BY ThreadsAssumption DEF IInv, LInv
<1>1. /\ threads' = threads /\ udata' = udata /\ handles' = handles /\ exiting' = TRUE
      /\ \A q \in Task \ {Main} : pc'[q] = pc[q] /\ cur'[q] = cur[q]
      /\ raced' = raced
      /\ pc'[Main] \in Unloading \cup {"j_test"} /\ pc[Main] \in {"run"} \cup Unloading
  <2>1. threads' = threads /\ udata' = udata /\ handles' = handles /\ raced' = raced
    BY DEF ExitFunc, ExitStep, Scan, ScanDelay, ScanParent, ScanDetached, taskVars, progVars
  <2>2. exiting' = TRUE
    BY <1>t, ExitRole DEF IInv
  <2>3. CASE ExitFunc
    BY <1>t, <2>1, <2>2, <2>3 DEF ExitFunc, Goto, Types, Unloading
  <2>4. CASE Scan
    BY <1>t, <2>1, <2>2, <2>4 DEF Scan, ScanEnds, ScanSlot, Goto, Types, Unloading, Testing
  <2>5. CASE ScanDelay \/ ScanParent \/ ScanDetached
    BY <1>t, <2>1, <2>2, <2>5
       DEF ScanDelay, ScanParent, ScanDetached, PassSlot, Goto, Types, Unloading, Testing
  <2> QED
    BY <2>3, <2>4, <2>5 DEF ExitStep
<1>2. \A q \in Task : UsesSlot(q)' <=> UsesSlot(q)
  BY <1>1, <1>t DEF UsesSlot, Unloading, Testing
<1>3. \A q \in Task : UsesSlot(q) => /\ udata[q] \in Slot /\ udata[q] \in Nat
                                    /\ threads[udata[q]].task # NoTask
                                    /\ threads[udata[q]].parent = Main
                                    /\ udata[q] # 0
  <2>1. pc[Main] # "c_assign"
    BY <1>1 DEF Unloading, Testing
  <2> QED
    BY <2>1, UsersAreKnown, SlotFacts DEF IInv, UserInv, MainInv
<1>4. /\ cur'[Main] # 0
      /\ \A q \in Task : UsesSlot(q) => udata[q] >= cur'[Main] \/ udata[q] \in raced
      /\ pc'[Main] \in Testing /\ threads[cur'[Main]].detached => cur'[Main] \in raced
      /\ pc'[Main] = "unloaded" => cur'[Main] = PTHREAD_THREADS_MAX
  <2>1. CASE ExitFunc
    <3>1. cur'[Main] = 1 /\ pc'[Main] = "x_scan"
      BY <1>t, <2>1 DEF ExitFunc, Goto, Types
    <3> QED
      BY <1>3, <3>1 DEF Testing
  <2>2. CASE ExitStep
    <3>1. /\ exiting /\ cur[Main] # 0 /\ cur[Main] \in Nat
          /\ \A q \in Task : UsesSlot(q) => udata[q] >= cur[Main] \/ udata[q] \in raced
          /\ pc[Main] \in Testing /\ threads[cur[Main]].detached => cur[Main] \in raced
      <4>1. pc[Main] \in Unloading
        BY <2>2 DEF ExitStep, Scan, ScanDelay, ScanParent, ScanDetached, Unloading, Testing
      <4>2. exiting
        BY <4>1 DEF IInv, RoleInv
      <4> QED
        BY <4>2, <1>t, SlotFacts DEF IInv, MainInv, ExitInv, Types
    <3>2. \/ cur'[Main] = cur[Main] /\ pc'[Main] \in {"x_delay", "j_test"}
          \/ cur'[Main] = cur[Main] /\ cur[Main] = PTHREAD_THREADS_MAX /\ pc'[Main] = "unloaded"
          \/ /\ cur'[Main] = cur[Main] /\ pc'[Main] \in Testing
             /\ threads[cur[Main]].detached => pc[Main] \in Testing
          \/ /\ cur'[Main] = cur[Main] + 1 /\ pc'[Main] = "x_scan"
             /\ \/ threads[cur[Main]].task = NoTask \/ threads[cur[Main]].parent = NoTask
                \/ threads[cur[Main]].detached /\ pc[Main] \in Testing
      <4>1. CASE Scan
        BY <1>t, <4>1 DEF Scan, ScanEnds, ScanSlot, Goto, Types, Testing
      <4>2. CASE ScanDelay \/ ScanParent \/ ScanDetached
        BY <1>t, <4>2 DEF ScanDelay, ScanParent, ScanDetached, PassSlot, InUse, Goto, Types, Testing
      <4> QED
        BY <2>2, <4>1, <4>2 DEF ExitStep
    <3>3. Main # NoTask
      BY <1>t, NoTaskAssumption
    <3>4. CASE /\ cur'[Main] = cur[Main] + 1 /\ pc'[Main] = "x_scan"
               /\ \/ threads[cur[Main]].task = NoTask \/ threads[cur[Main]].parent = NoTask
                  \/ threads[cur[Main]].detached /\ pc[Main] \in Testing
      <4>1. \A q \in Task : UsesSlot(q) => udata[q] # cur[Main] \/ udata[q] \in raced
        BY <1>3, <3>1, <3>3, <3>4
      <4> QED
        BY <1>3, <3>1, <3>4, <4>1 DEF Testing
    <3> QED
      BY <3>1, <3>2, <3>4 DEF Testing
  <2> QED
    BY <2>1, <2>2
<1>5. MainInv' /\ PrepareInv'
  BY <1>1, <1>2, <1>4 DEF IInv, MainInv, PrepareInv, Preparing, Unloading, Testing
<1>6. UserInv'
  <2>1. \A q \in Task : pc'[q] = "c_assign" => pc[q] = "c_assign"
    BY <1>1 DEF Unloading, Testing
  <2>2. \A q \in Task : pc'[q] = "t_free" => pc[q] = "t_free"
    BY <1>1 DEF Unloading, Testing
  <2> QED
    BY <1>1, <1>2, <1>3, <2>1, <2>2 DEF IInv, UserInv
<1>7. ClaimInv'
  BY <1>1 DEF ClaimInv
<1>8. ClearInv'
  BY <1>1, <1>2 DEF IInv, ClearInv, Unloading, Testing
<1>9. ExitInv'
  BY <1>1, <1>2, <1>4 DEF ExitInv
<1> QED
  BY <1>5, <1>6, <1>7, <1>8, <1>9 DEF Rest

\* The invariant holds for every program in which main creates all threads.
LEMMA IInvHolds ==
  ASSUME OneCreator
  PROVE  Spec => []IInv
<1>1. Init => IInv
  BY InitIInv
<1>2. IInv /\ LInv' /\ [Next]_vars => IInv'
  <2> SUFFICES ASSUME IInv, LInv', [Next]_vars PROVE IInv'
    OBVIOUS
  <2>t. Types /\ RoleInv /\ MainInv
    BY DEF IInv, LInv
  <2>1. ASSUME NEW p \in Task, Create(p) \/ Step(p) \/ Detach(p) \/ Cancel(p) PROVE IInv'
    <3>1. RoleInv'
      BY <2>t, <2>1, RoleStep, Zenon
    <3>2. CASE \/ Create(p) \/ GrabFails(p) \/ Start(p) \/ Return(p) \/ Exit(p) \/ TestCancel(p)
               \/ TestDetached(p) \/ Die(p) \/ JoinTest(p) \/ JoinSleep(p)
      <4>1. Calm
        BY <3>1, <3>2, CalmSteps, Zenon
      <4> QED
        BY <3>1, <4>1, CalmInv, Zenon DEF IInv, Rest
    <3>3. CASE Grab(p) \/ Spawn(p) \/ SpawnFails(p) \/ Assign(p) \/ Check(p)
      BY <3>1, <3>3, GrabRest, SpawnRest, SpawnFailsRest, AssignRest, CheckRest, Zenon
         DEF IInv, Rest
    <3>4. CASE Finish(p) \/ Free(p) \/ Detach(p) \/ Cancel(p) \/ Join(p) \/ JoinClear(p)
      BY <3>1, <3>4, FinishRest, FreeRest, DetachRest, CancelRest, JoinRest, JoinClearRest, Zenon
         DEF IInv, Rest
    <3> QED
      BY <2>1, <3>2, <3>3, <3>4, Zenon DEF Step
  <2>2. CASE ExitFunc \/ ExitStep
    <3>1. RoleInv'
      BY <2>t, <2>2, ExitRole, Zenon
    <3> QED
      BY <2>2, <3>1, ExitFuncRest, Zenon DEF IInv, Rest
  <2>3. CASE UNCHANGED vars
    BY <2>3 DEF vars, taskVars, progVars, IInv, RoleInv, MainInv, UserInv, PrepareInv,
                ClaimInv, Joinable, ClearInv, ExitInv, UsesSlot
  <2> QED
    BY <2>1, <2>2, <2>3, Zenon DEF Next
<1> QED
  BY <1>1, <1>2, LInvHolds, PTL DEF Spec

\* A step leaves the slot of a thread that is not the one that steps to it.
LEMMA OthersKeepSlots ==
  ASSUME IInv, [Next]_vars, NEW p \in Task, UsesSlot(p), pc'[p] = pc[p]
  PROVE  /\ threads'[udata[p]].arg = threads[udata[p]].arg
         /\ threads'[udata[p]].parent = threads[udata[p]].parent
<1> DEFINE s == udata[p]
           Untouched == threads'[s].arg = threads[s].arg /\ threads'[s].parent = threads[s].parent
<1> SUFFICES Untouched
  OBVIOUS
<1>t. Types /\ Main \in Task /\ s \in Slot
  BY ThreadsAssumption DEF IInv, LInv, Types
<1>1. ASSUME NEW q \in Task, Create(q) \/ Step(q) \/ Detach(q) \/ Cancel(q) PROVE Untouched
  <2>q. udata[q] \in Slot /\ Self(q) \in Slot /\ (pc[q] \in Preparing \cup {"c_check"} \cup Joining => cur[q] \in Slot)
    BY <1>t, SelfLemma DEF IInv, LInv, CurInv, Types
  <2>1. CASE threads' = threads
    BY <2>1
  <2>2. CASE Grab(q)
    <3>1. pc[Main] = "c_grab"
      BY <2>2 DEF Grab, At, IInv, RoleInv, Creating
    <3>2. threads[s].task # NoTask
      BY <3>1, UsersAreKnown
    <3> QED
      BY <1>t, <2>2, <3>2, GrabWrites
  <2>3. CASE Assign(q)
    <3>1. cur[q] \in Slot /\ child[q] \in Task \cup {NoTask} /\ threads' = [threads EXCEPT ![cur[q]].task = child[q]]
      BY <1>t, <2>q, <2>3 DEF Assign, At, Preparing, Types
    <3> QED
      BY <1>t, <3>1, TaskWritten DEF OneSlot
  <2>4. CASE Check(q)
    <3>1. CASE threads[cur[q]].task = NoTask
      <4>1. pc[Main] = "c_check" /\ cur[q] \in Slot /\ threads' = [threads EXCEPT ![cur[q]].parent = NoTask]
        BY <2>q, <2>4, <3>1 DEF Check, IInv, RoleInv, Creating
      <4>2. s # cur[q]
        BY <3>1, <4>1, UsersAreKnown
      <4> QED
        BY <1>t, <4>1, <4>2, ParentWritten DEF OneSlot
    <3> QED
      BY <2>1, <2>4, <3>1 DEF Check
  <2>5. ASSUME NEW r \in Slot, End(q, r) PROVE Untouched
    BY <1>t, <2>5, EndWrites DEF Kept
  <2>6. CASE Return(q) \/ Exit(q) \/ TestCancel(q) \/ Join(q)
    <3>1. threads' = threads \/ End(q, udata[q]) \/ End(q, Self(q))
      BY <2>6 DEF Return, Exit, TestCancel, Join
    <3> QED
      BY <2>1, <2>5, <2>q, <3>1, Zenon
  <2>7. CASE Finish(q)
    <3>1. threads' = [threads EXCEPT ![udata[q]].finished = TRUE]
      BY <2>7 DEF Finish
    <3> QED
      BY <1>t, <2>q, <3>1, FinishedWritten DEF OneSlot
  <2>8. CASE Free(q)
    <3>1. pc[q] = "t_free" /\ pc'[q] = "t_die" /\ threads' = [threads EXCEPT ![udata[q]] = EmptySlot]
      BY <1>t, <2>8 DEF Free, At, Goto, Types
    <3>2. UsesSlot(q) /\ q # p
      <4>1. q # Main
        BY <2>8, MainRuns DEF IInv
      <4> QED
        BY <3>1, <4>1 DEF UsesSlot
    <3>3. s # udata[q]
      BY <3>2 DEF IInv, UserInv
    <3> QED
      BY <1>t, <2>q, <3>1, <3>3, SlotWritten, EmptyTyped DEF OneSlot
  <2>9. CASE JoinClear(q)
    <3>1. pc[q] = "j_clear" /\ threads' = [threads EXCEPT ![cur[q]] = EmptySlot]
      BY <2>9 DEF JoinClear, At
    <3>2. s # cur[q]
      BY <3>1 DEF IInv, ClearInv
    <3> QED
      BY <1>t, <2>q, <3>1, <3>2, SlotWritten, EmptyTyped DEF OneSlot, Joining
  <2>10. CASE Detach(q)
    <3>1. PICK h \in handles : threads' = threads \/ threads' = [threads EXCEPT ![h.slot].detached = TRUE]
      BY <2>10 DEF Detach
    <3>2. h.slot \in Slot
      BY <1>t, HandleFields
    <3> QED
      BY <1>t, <2>1, <3>1, <3>2, DetachedWritten DEF OneSlot
  <2>11. CASE Cancel(q)
    <3>1. PICK h \in handles : threads' = [threads EXCEPT ![h.slot].canceled = TRUE]
      BY <2>11 DEF Cancel
    <3>2. h.slot \in Slot
      BY <1>t, HandleFields
    <3> QED
      BY <1>t, <3>1, <3>2, CanceledWritten DEF OneSlot
  <2>12. CASE \/ Create(q) \/ GrabFails(q) \/ Spawn(q) \/ SpawnFails(q) \/ Start(q)
              \/ TestDetached(q) \/ Die(q) \/ JoinTest(q) \/ JoinSleep(q)
    <3>1. threads' = threads
      BY <2>12 DEF Create, GrabFails, Spawn, SpawnFails, Start, TestDetached, Die, JoinTest, JoinSleep
    <3> QED
      BY <2>1, <3>1
  <2> QED
    BY <1>1, <2>2, <2>3, <2>4, <2>6, <2>7, <2>8, <2>9, <2>10, <2>11, <2>12, Zenon DEF Step
<1>2. CASE ExitFunc \/ ExitStep \/ UNCHANGED vars
  BY <1>2 DEF ExitFunc, ExitStep, Scan, ScanDelay, ScanParent, ScanDetached, vars
<1> QED
  BY <1>1, <1>2, Zenon DEF Next

\* The slot of a running thread is its own: pthread_create never prepares it
\* for another thread, and neither a join, nor the end of a detached thread,
\* nor a failed creation clears it.
THEOREM ThreadsKeepSlots ==
  ASSUME OneCreator
  PROVE  Spec => SlotKept
<1>1. IInv /\ [Next]_vars
      => [\A p \in Task :
            UsesSlot(p) /\ pc'[p] = pc[p]
              => /\ threads'[udata[p]].arg = threads[udata[p]].arg
                 /\ threads'[udata[p]].parent = threads[udata[p]].parent]_vars
  BY OthersKeepSlots
<1> QED
  BY <1>1, IInvHolds, PTL DEF Spec, SlotKept

\* When __pthread_Exit_Func has gone through the table a thread uses a slot
\* only if it was detached between the two tests of its slot: every other slot
\* was free, cleared by its detached thread, or joined.
THEOREM NobodyIsLeft ==
  ASSUME OneCreator
  PROVE  Spec => []NoThreadLeft
<1>1. IInv => NoThreadLeft
  <2> SUFFICES ASSUME IInv, pc[Main] = "unloaded", NEW p \in Task, UsesSlot(p), udata[p] \notin raced
               PROVE  FALSE
    BY DEF NoThreadLeft
  <2>1. exiting
    BY DEF IInv, RoleInv, Unloading
  <2>2. udata[p] >= PTHREAD_THREADS_MAX /\ udata[p] \in Slot
    BY <2>1 DEF IInv, ExitInv, LInv, Types
  <2> QED
    BY <2>2, SlotFacts
<1> QED
  BY <1>1, IInvHolds, PTL

-----------------------------------------------------------------------------
(***************************************************************************)
(* Threads that join the threads they have created                         *)
(***************************************************************************)
\* All threads are joined by those who created them.
AllJoined ==
  /\ JoinsAll /\ DetachStates \subseteq {FALSE}
  /\ ~Detaches /\ ~Cancels /\ ~Exits /\ ~SpawnMayFail

Claiming == Preparing \cup {"c_check"} \cup Joining
Active == {"run"} \cup Creating \cup Joining

\* Main has no thread left to join.
Closing == exiting /\ (cur[Main] # 1 \/ pc[Main] = "unloaded")

TreeRole ==
  /\ \A p \in Task \ {Main} : pc[p] \in {"none", "start", "t_test", "t_finish"} \cup Active
  /\ ~exiting => pc[Main] \in Active
  /\ exiting => pc[Main] \in {"x_scan", "unloaded"} \cup Testing \cup Joining /\ cur[Main] # 0
  /\ Closing => pc[Main] \in {"x_scan", "x_parent", "unloaded"}

PlainSlots == \A s \in Slot : ~threads[s].detached /\ ~threads[s].canceled

\* A thread is alone in its slot, and has a parent.
UserFits(p) ==
  UsesSlot(p) =>
    /\ threads[udata[p]].parent # NoTask
    /\ ~threads[udata[p]].finished
    /\ (threads[udata[p]].task = NoTask => pc[threads[udata[p]].parent] = "c_assign")
    /\ pc[p] \in {"t_test", "t_finish"} => threads[udata[p]].ret = threads[udata[p]].arg
    /\ \A q \in Task : UsesSlot(q) /\ udata[q] = udata[p] => q = p

\* The parent of a slot in use is in a call that deals with it, or still has
\* to join it; it runs in an older slot.
ClaimedByCall(s) == pc[threads[s].parent] \in Claiming /\ cur[threads[s].parent] = s
ClaimedByHandle(s) == \E h \in handles : h.slot = s /\ h.by = threads[s].parent

SlotFits(s) ==
  threads[s].parent # NoTask =>
    /\ ClaimedByCall(s) \/ ClaimedByHandle(s)
    /\ threads[s].task = NoTask =>
         pc[threads[s].parent] \in Preparing /\ cur[threads[s].parent] = s
    /\ threads[s].finished => threads[s].ret = threads[s].arg
    /\ threads[s].arg <= created
    /\ threads[s].parent # Main =>
         /\ pc[threads[s].parent] # "none"
         /\ threads[udata[threads[s].parent]].arg < threads[s].arg

\* The slot of a call is the caller's.
CallFits(p) ==
  /\ pc[p] \in Claiming =>
       /\ threads[cur[p]].parent = p
       /\ (threads[cur[p]].task = NoTask <=> pc[p] \in Preparing)
       /\ ~(p = Main /\ exiting) => /\ threads[cur[p]].arg = wanted[p]
                                    /\ \A h \in handles : h.slot # cur[p]
  /\ pc[p] = "c_spawn" => ~threads[cur[p]].finished
  /\ pc[p] = "j_clear" => threads[cur[p]].finished
  /\ pc[p] = "c_assign" => child[p] # NoTask
  /\ pc[p] \in Creating => /\ wanted[p] <= created
                           /\ p # Main => threads[udata[p]].arg < wanted[p]

\* So is the slot of a thread that is to be joined.
HandleFits(h) ==
  /\ (h.by = Main \/ pc[h.by] \in Active)
  /\ h.by = Main /\ exiting => h.slot = 1
  /\ threads[h.slot].parent = h.by /\ threads[h.slot].task # NoTask
  /\ threads[h.slot].arg = h.thread
  /\ \A g \in handles : g.slot = h.slot => g = h

UserTree == \A p \in Task : UserFits(p)
SlotTree == \A s \in Slot : SlotFits(s)
CallTree == \A p \in Task : CallFits(p)
HandleTree == \A h \in handles : HandleFits(h)

\* The thread that the exit function is about to join is one that main has
\* not joined yet.
TestTree ==
  pc[Main] = "x_detached" => \E h \in handles : h.by = Main /\ h.slot = cur[Main]

NobodyThere ==
  /\ \A p \in Task : ~UsesSlot(p)
  /\ \A s \in Slot : threads[s].parent = NoTask

TreeInv ==
  /\ TreeRole /\ PlainSlots /\ UserTree /\ SlotTree /\ CallTree /\ TestTree
  /\ (Closing => NobodyThere)
  /\ (~Closing => HandleTree)

\* The invariant holds at the start.
LEMMA InitTreeInv == Init => TreeInv
<1> SUFFICES ASSUME Init PROVE TreeInv
  OBVIOUS
<1>1. /\ pc = [p \in Task |-> IF p = Main THEN "run" ELSE "none"]
      /\ handles = {} /\ exiting = FALSE /\ Main \in Task
      /\ threads = [s \in Slot |-> IF s = 0 THEN [EmptySlot EXCEPT !.task = Main] ELSE EmptySlot]
  BY ThreadsAssumption DEF Init
<1>2. \A s \in Slot : ~threads[s].detached /\ ~threads[s].canceled /\ threads[s].parent = NoTask
  BY <1>1 DEF EmptySlot
<1>3. pc[Main] = "run" /\ \A p \in Task : ~UsesSlot(p) /\ pc[p] \in {"run", "none"}
  BY <1>1 DEF UsesSlot
<1>4. TreeRole /\ ~Closing
  BY <1>1 DEF TreeRole, Closing, Active
<1>5. UserTree /\ SlotTree
  BY <1>2, <1>3 DEF UserTree, UserFits, SlotTree, SlotFits
<1>6. CallTree /\ HandleTree
  BY <1>1, <1>3 DEF CallTree, CallFits, HandleTree, Claiming, Creating, Preparing, Joining
<1> QED
  BY <1>2, <1>3, <1>4, <1>5, <1>6 DEF TreeInv, PlainSlots, TestTree

\* Who is in a call, or ends, is neither main after its last join nor gone.
LEMMA TreeSteps ==
  ASSUME AllJoined, LInv, TreeInv, NEW p \in Task, Create(p) \/ Step(p) \/ Detach(p) \/ Cancel(p)
  PROVE  /\ ~Closing /\ HandleTree
         /\ \/ Create(p) \/ Grab(p) \/ GrabFails(p) \/ Spawn(p) \/ Assign(p) \/ Check(p)
            \/ Start(p) \/ Return(p) \/ TestDetached(p) \/ Finish(p)
            \/ Join(p) \/ JoinTest(p) \/ JoinSleep(p) \/ JoinClear(p)
<1>t. Types /\ Main \in Task
  BY ThreadsAssumption DEF LInv
<1>1. ~Detach(p) /\ ~Cancel(p) /\ ~SpawnFails(p) /\ ~Exit(p)
  BY DEF AllJoined, Detach, Cancel, SpawnFails, Exit
<1>2. ~threads[Self(p)].canceled
  BY SelfLemma DEF TreeInv, PlainSlots
<1>3. pc[p] \notin {"t_free", "t_die"}
  BY <1>t DEF TreeInv, TreeRole, Active, Creating, Joining, Testing
<1>4. ~TestCancel(p) /\ ~Free(p) /\ ~Die(p)
  BY <1>2, <1>3 DEF TestCancel, Free, Die, At
<1>5. \/ Create(p) \/ Grab(p) \/ GrabFails(p) \/ Spawn(p) \/ Assign(p) \/ Check(p)
      \/ Start(p) \/ Return(p) \/ TestDetached(p) \/ Finish(p)
      \/ Join(p) \/ JoinTest(p) \/ JoinSleep(p) \/ JoinClear(p)
  BY <1>1, <1>4, Zenon DEF Step
<1>6. pc[p] \notin {"none", "x_scan", "x_parent", "unloaded"}
  BY <1>5 DEF Create, Grab, GrabFails, Spawn, Assign, Check, Start, Return, MayEnd, TestDetached,
              Finish, Join, JoinTest, JoinSleep, JoinClear, At
<1>7. ~Closing
  <2> SUFFICES ASSUME Closing PROVE FALSE
    OBVIOUS
  <2>1. p # Main
    BY <1>6 DEF TreeInv, TreeRole
  <2> QED
    BY <1>3, <1>6, <2>1 DEF TreeInv, NobodyThere, UsesSlot
<1> QED
  BY <1>5, <1>7 DEF TreeInv

\* Main never ends, and the others never unload the program.
LEMMA TreeRoleStep ==
  ASSUME AllJoined, LInv, TreeInv, NEW p \in Task, Create(p) \/ Step(p) \/ Detach(p) \/ Cancel(p)
  PROVE  TreeRole' /\ exiting' = exiting /\ (JoinClear(p) \/ ~Closing')
<1> USE DEF Active, Creating, Joining, Goto
<1>t. Types /\ Main \in Task /\ TreeRole /\ ~Closing
  BY ThreadsAssumption, TreeSteps DEF LInv, TreeInv
<1>m. pc[Main] \in {"run"} \cup Creating => ~exiting
  BY <1>t DEF TreeRole, Closing, Testing
<1>1. CASE Spawn(p)
  <2>1. PICK q \in Task : pc[q] = "none" /\ pc' = [pc EXCEPT ![p] = "c_assign", ![q] = "start"]
    BY <1>1 DEF Spawn
  <2>2. pc[p] = "c_spawn" /\ q # Main /\ exiting' = exiting /\ cur' = cur
    BY <1>1, <1>t, <2>1 DEF Spawn, At, progVars, TreeRole, Testing
  <2>3. /\ pc'[p] = "c_assign" /\ pc'[q] = "start" /\ p # q
        /\ \A r \in Task \ {p, q} : pc'[r] = pc[r]
    BY <1>t, <2>1, <2>2 DEF Types
  <2> QED
    BY <2>2, <2>3, <1>t DEF TreeRole, Closing, Testing
<1>2. CASE JoinClear(p)
  <2>1. /\ pc[p] = "j_clear" /\ exiting' = exiting
        /\ \/ /\ p = Main /\ exiting /\ pc' = [pc EXCEPT ![p] = "x_scan"]
              /\ cur' = [cur EXCEPT ![p] = @ + 1]
           \/ ~(p = Main /\ exiting) /\ pc' = [pc EXCEPT ![p] = "run"] /\ cur' = cur
    BY <1>2 DEF JoinClear, At, progVars
  <2>2. /\ \A q \in Task \ {p} : pc'[q] = pc[q]
        /\ pc'[p] \in {"x_scan", "run"} /\ (pc'[p] = "x_scan" <=> p = Main /\ exiting)
    BY <1>t, <2>1 DEF Types
  <2>3. exiting => cur'[Main] # 0
    BY <1>t, <2>1, SlotFacts DEF TreeRole, Types
  <2> QED
    BY <1>2, <2>1, <2>2, <2>3, <1>t DEF TreeRole, Closing
<1>3. CASE \/ Create(p) \/ Grab(p) \/ GrabFails(p) \/ Assign(p) \/ Check(p) \/ Join(p)
  <2>1. /\ exiting' = exiting /\ pc[p] \in {"run"} \cup Creating
        /\ pc' = pc \/ \E k \in Active : pc' = [pc EXCEPT ![p] = k]
    <3>1. CASE Join(p)
      <4>1. ~threads[Self(p)].canceled
        BY <1>t, SelfLemma DEF TreeInv, PlainSlots
      <4> QED
        BY <3>1, <4>1 DEF Join
    <3> QED
      BY <1>3, <3>1 DEF Create, Grab, GrabFails, Assign, Check, At, progVars
  <2>2. (\A q \in Task \ {p} : pc'[q] = pc[q]) /\ pc'[p] \in Active
    BY <1>t, <2>1 DEF Types
  <2>3. p = Main => ~exiting
    BY <1>m, <2>1
  <2>4. p # Main => cur'[Main] = cur[Main]
    BY <1>3, <1>t DEF Create, Grab, GrabFails, Assign, Check, Join, Types
  <2> QED
    BY <1>t, <2>1, <2>2, <2>3, <2>4 DEF TreeRole, Closing
<1>4. CASE Start(p) \/ Return(p) \/ TestDetached(p) \/ Finish(p) \/ JoinTest(p) \/ JoinSleep(p)
  <2>1. /\ exiting' = exiting /\ cur' = cur
        /\ \/ pc[p] \in Joining /\ \E k \in Joining : pc' = [pc EXCEPT ![p] = k]
           \/ /\ p # Main
              /\ \E k \in {"run", "t_test", "t_finish", "none"} : pc' = [pc EXCEPT ![p] = k]
    <3>1. CASE TestDetached(p)
      <4>1. p # Main
        BY <1>t, <3>1 DEF TestDetached, TreeRole, Testing
      <4>2. ~threads[udata[p]].detached
        BY <1>t DEF TreeInv, PlainSlots, Types
      <4> QED
        BY <3>1, <4>1, <4>2 DEF TestDetached, progVars
    <3>2. CASE Start(p) \/ Finish(p)
      BY <1>t, <3>2 DEF Start, Finish, Forbidden, TreeRole, progVars, Testing
    <3>3. CASE Return(p)
      BY <3>3 DEF Return, MayEnd, End, progVars
    <3>4. CASE JoinTest(p) \/ JoinSleep(p)
      BY <3>4 DEF JoinTest, JoinSleep, progVars
    <3> QED
      BY <1>4, <3>1, <3>2, <3>3, <3>4
  <2>2. /\ \A q \in Task \ {p} : pc'[q] = pc[q]
        /\ \/ pc[p] \in Joining /\ pc'[p] \in Joining
           \/ p # Main /\ pc'[p] \in {"run", "t_test", "t_finish", "none"}
    BY <1>t, <2>1 DEF Types
  <2> QED
    BY <1>t, <2>1, <2>2 DEF TreeRole, Closing
<1> QED
  BY <1>1, <1>2, <1>3, <1>4, TreeSteps, Zenon

\* No task but main takes a thread from main, and main does nothing else
\* while it is about to join.
LEMMA TestTreeStep ==
  ASSUME AllJoined, LInv, TreeInv, NEW p \in Task, Create(p) \/ Step(p) \/ Detach(p) \/ Cancel(p)
  PROVE  TestTree'
<1> USE DEF Active, Creating, Joining, Goto
<1>t. Types /\ Main \in Task /\ TreeRole /\ ~Closing
  BY ThreadsAssumption, TreeSteps DEF LInv, TreeInv
<1> SUFFICES ASSUME pc'[Main] = "x_detached"
             PROVE  \E h \in handles' : h.by = Main /\ h.slot = cur'[Main]
  BY DEF TestTree
<1>1. \/ Create(p) \/ Grab(p) \/ GrabFails(p) \/ Spawn(p) \/ Assign(p) \/ Check(p)
      \/ Start(p) \/ Return(p) \/ TestDetached(p) \/ Finish(p)
      \/ Join(p) \/ JoinTest(p) \/ JoinSleep(p) \/ JoinClear(p)
  BY TreeSteps
<1>2. p # Main /\ pc[Main] = "x_detached"
  <2>1. CASE Spawn(p)
    BY <1>t, <2>1 DEF Spawn, Types
  <2>2. CASE Join(p)
    <3>1. ~threads[Self(p)].canceled
      BY <1>t, SelfLemma DEF TreeInv, PlainSlots
    <3> QED
      BY <1>t, <2>2, <3>1 DEF Join, Types
  <2>3. CASE \/ Create(p) \/ Grab(p) \/ GrabFails(p) \/ Assign(p) \/ Check(p)
             \/ Start(p) \/ Return(p) \/ TestDetached(p)
    BY <1>t, <2>3 DEF Create, Grab, GrabFails, Assign, Check, Start, Return, MayEnd, End,
                      TestDetached, Types
  <2>4. CASE Finish(p) \/ JoinTest(p) \/ JoinSleep(p) \/ JoinClear(p)
    BY <1>t, <2>4 DEF Finish, Forbidden, JoinTest, JoinSleep, JoinClear, At, Types
  <2> QED
    BY <1>1, <2>1, <2>2, <2>3, <2>4, Zenon
<1>3. PICK h \in handles : h.by = Main /\ h.slot = cur[Main]
  BY <1>2 DEF TreeInv, TestTree
<1>4. cur'[Main] = cur[Main]
  BY <1>t, <1>1, <1>2
     DEF Create, Grab, GrabFails, Spawn, Assign, Check, Start, Return, TestDetached, Finish,
         Join, JoinTest, JoinSleep, JoinClear, Types
<1>5. h \in handles'
  <2>1. CASE Join(p)
    BY <1>2, <1>3, <2>1 DEF Join, AllJoined
  <2>2. CASE Check(p)
    BY <2>2 DEF Check
  <2>3. CASE ~Join(p) /\ ~Check(p)
    BY <1>1, <2>3
       DEF Create, Grab, GrabFails, Spawn, Assign, Start, Return, TestDetached, Finish,
           JoinTest, JoinSleep, JoinClear, progVars
  <2> QED
    BY <2>1, <2>2, <2>3
<1> QED
  BY <1>3, <1>4, <1>5

\* What is left to prove of a step that does not close the program.
TreeRest == PlainSlots /\ UserTree /\ SlotTree /\ CallTree /\ HandleTree

\* A step that changes no claim to a slot.
Quiet ==
  /\ \A s \in Slot : /\ Kept(s)
                     /\ threads'[s].ret = threads[s].ret \/ threads'[s].ret = threads[s].arg
  /\ udata' = udata /\ handles' = handles /\ exiting' = exiting /\ cur' = cur /\ child' = child
  /\ created <= created'
  /\ \A q \in Task :
       /\ UsesSlot(q)' <=> UsesSlot(q)
       /\ pc'[q] \in Claiming <=> pc[q] \in Claiming
       /\ pc'[q] \in Preparing <=> pc[q] \in Preparing
       /\ pc'[q] = "c_spawn" <=> pc[q] = "c_spawn"
       /\ pc'[q] = "j_clear" => pc[q] = "j_clear" \/ threads[cur[q]].finished
       /\ pc'[q] \in {"t_test", "t_finish"} =>
            pc[q] \in {"t_test", "t_finish"} \/ threads'[udata[q]].ret = threads[udata[q]].arg
       /\ pc[q] \in Active /\ pc'[q] \notin Active => \A h \in handles : h.by # q
       /\ pc[q] \in Claiming \cup Creating => wanted'[q] = wanted[q]
       /\ pc'[q] \in Creating => pc[q] \in Creating \/ (wanted'[q] = created' /\ created' = created + 1)

\* A quiet step keeps the invariant.
LEMMA QuietInv ==
  ASSUME LInv, LInv', TreeInv, TreeRole', HandleTree, Quiet
  PROVE  TreeRest'
<1>t. Types /\ Types' /\ Main \in Task
  BY ThreadsAssumption DEF LInv
<1>k. \A s \in Slot : Kept(s)
  BY DEF Quiet
<1>u. \A q \in Task : udata[q] \in Slot /\ (UsesSlot(q)' <=> UsesSlot(q))
  BY <1>t DEF Quiet, Types
<1>v. udata' = udata /\ handles' = handles /\ exiting' = exiting /\ cur' = cur /\ child' = child
  BY DEF Quiet
<1>c. \A q \in Task : pc[q] \in Claiming => cur[q] \in Slot
  BY DEF LInv, CurInv, Claiming
<1>p. \A q \in Task :
       /\ pc'[q] \in Claiming <=> pc[q] \in Claiming
       /\ pc'[q] \in Preparing <=> pc[q] \in Preparing
       /\ pc'[q] = "c_spawn" <=> pc[q] = "c_spawn"
       /\ pc'[q] = "c_assign" <=> pc[q] = "c_assign"
  BY DEF Quiet, Preparing
<1>1. PlainSlots'
  BY <1>k DEF TreeInv, PlainSlots, Kept
<1>2. UserTree'
  <2> SUFFICES ASSUME NEW q \in Task, UsesSlot(q)' PROVE UserFits(q)'
    BY DEF UserTree, UserFits
  <2> DEFINE s == udata[q]
  <2>1. UsesSlot(q) /\ s \in Slot /\ udata'[q] = s /\ Kept(s)
    BY <1>k, <1>u, <1>v
  <2>2. UserFits(q)
    BY DEF TreeInv, UserTree
  <2>3. threads[s].parent \in Task
    BY <1>t, <2>1, <2>2, SlotFields DEF UserFits
  <2>4. pc'[q] \in {"t_test", "t_finish"} => threads'[s].ret = threads[s].arg
    BY <2>1, <2>2 DEF Quiet, UserFits
  <2> QED
    BY <1>p, <1>u, <1>v, <2>1, <2>2, <2>3, <2>4 DEF UserFits, Kept
<1>3. SlotTree'
  <2> SUFFICES ASSUME NEW s \in Slot, threads'[s].parent # NoTask PROVE SlotFits(s)'
    BY DEF SlotTree, SlotFits
  <2> DEFINE q == threads[s].parent
  <2>1. Kept(s) /\ threads'[s].parent = q /\ q # NoTask /\ q \in Task
    BY <1>k, <1>t, SlotFields DEF Kept
  <2>2. SlotFits(s)
    BY DEF TreeInv, SlotTree
  <2>3. threads[s].finished => threads'[s].ret = threads[s].arg
    BY <2>1, <2>2 DEF Quiet, SlotFits
  <2>4. threads[s].arg <= created'
    <3>1. threads[s].arg \in Nat /\ created \in Nat /\ created' \in Nat
      BY <1>t, SlotFields, ThreadsAssumption DEF Types, Thread
    <3> QED
      BY <2>1, <2>2, <3>1 DEF Quiet, SlotFits
  <2>5. ClaimedByCall(s)' \/ ClaimedByHandle(s)'
    BY <1>p, <1>v, <2>1, <2>2 DEF SlotFits, ClaimedByCall, ClaimedByHandle
  <2>6. threads'[udata[q]].arg = threads[udata[q]].arg
    BY <1>k, <1>u, <2>1 DEF Kept
  <2>7. q # Main /\ pc[q] # "none" => pc'[q] # "none"
    BY <1>u, <2>1, <1>t DEF UsesSlot, TreeInv, TreeRole, Active, Creating, Joining
  <2> QED
    BY <1>p, <1>u, <1>v, <2>1, <2>2, <2>3, <2>4, <2>5, <2>6, <2>7 DEF SlotFits, Kept
<1>4. CallTree'
  <2> SUFFICES ASSUME NEW p \in Task PROVE CallFits(p)'
    BY DEF CallTree
  <2>1. CallFits(p)
    BY DEF TreeInv, CallTree
  <2>2. pc[p] \in Claiming => Kept(cur[p])
    BY <1>k, <1>c
  <2>3. pc'[p] \in Claiming => wanted'[p] = wanted[p]
    BY <1>p DEF Quiet
  <2>4. /\ pc[p] = "c_spawn" => pc[p] \in Claiming
        /\ pc'[p] = "j_clear" => pc[p] \in Claiming /\ threads[cur[p]].finished
    <3>1. pc'[p] = "j_clear" => pc[p] \in Claiming
      BY <1>p DEF Claiming, Joining
    <3> QED
      BY <2>1, <3>1 DEF Claiming, Preparing, Quiet, CallFits
  <2>5. threads'[udata[p]].arg = threads[udata[p]].arg
    BY <1>k, <1>u DEF Kept
  <2>6. pc'[p] \in Creating => /\ wanted'[p] <= created'
                               /\ p # Main => threads[udata[p]].arg < wanted'[p]
    <3> SUFFICES ASSUME pc'[p] \in Creating
                 PROVE  /\ wanted'[p] <= created'
                        /\ p # Main => threads[udata[p]].arg < wanted'[p]
      OBVIOUS
    <3>1. /\ threads[udata[p]].arg \in Nat /\ created \in Nat /\ created' \in Nat /\ wanted[p] \in Nat
          /\ created <= created'
      BY <1>t, SlotFields, ThreadsAssumption DEF Types, Thread, Quiet
    <3>2. CASE pc[p] \in Creating
      BY <2>1, <3>1, <3>2 DEF Quiet, CallFits
    <3>3. CASE wanted'[p] = created' /\ created' = created + 1
      <4>1. p # Main => UsesSlot(p)
        BY <1>u DEF UsesSlot, Creating
      <4>2. UsesSlot(p) => threads[udata[p]].arg <= created
        BY <1>u DEF TreeInv, UserTree, UserFits, SlotTree, SlotFits
      <4> QED
        BY <3>1, <3>3, <4>1, <4>2
    <3> QED
      BY <3>2, <3>3 DEF Quiet
  <2> QED
    BY <1>p, <1>v, <2>1, <2>2, <2>3, <2>4, <2>5, <2>6 DEF CallFits, Kept
<1>5. HandleTree'
  <2> SUFFICES ASSUME NEW h \in handles PROVE HandleFits(h)'
    BY <1>v DEF HandleTree
  <2>1. h.slot \in Slot /\ h.by \in Task /\ Kept(h.slot)
    BY <1>k, <1>t, HandleFields
  <2>2. HandleFits(h)
    BY DEF HandleTree
  <2>3. h.by = Main \/ pc'[h.by] \in Active
    BY <2>1, <2>2 DEF Quiet, HandleFits
  <2> QED
    BY <1>v, <2>1, <2>2, <2>3 DEF HandleFits, Kept
<1> QED
  BY <1>1, <1>2, <1>3, <1>4, <1>5 DEF TreeRest

\* The steps that make and release no claim are quiet.
LEMMA QuietSteps ==
  ASSUME AllJoined, LInv, TreeInv, NEW p \in Task,
         \/ Create(p) \/ GrabFails(p) \/ Start(p) \/ Return(p) \/ TestDetached(p)
         \/ JoinTest(p) \/ JoinSleep(p)
  PROVE  Quiet
<1>t. Types /\ Main \in Task /\ TreeRole /\ ~Closing /\ udata[p] \in Slot /\ created \in Nat
  <2>1. Create(p) \/ Step(p)
    BY Zenon DEF Step
  <2> QED
    BY <2>1, ThreadsAssumption, TreeSteps DEF LInv, TreeInv, Types, Thread
<1>h. HandleTree
  BY <1>t DEF TreeInv
<1> USE DEF Claiming, Preparing, Active, Creating, Joining
<1>1. CASE Create(p)
  <2>1. /\ threads' = threads /\ udata' = udata /\ handles' = handles /\ exiting' = exiting /\ cur' = cur
        /\ child' = child /\ created' = created + 1
        /\ wanted' = [wanted EXCEPT ![p] = created + 1]
        /\ pc[p] = "run" /\ pc' = [pc EXCEPT ![p] = "c_grab"]
    BY <1>1 DEF Create, Goto, taskVars
  <2>2. /\ pc'[p] = "c_grab" /\ wanted'[p] = created'
        /\ \A q \in Task \ {p} : pc'[q] = pc[q] /\ wanted'[q] = wanted[q]
    BY <1>t, <2>1 DEF Types
  <2> QED
    BY <1>t, <2>1, <2>2, UnchangedKept DEF Quiet, UsesSlot
<1>2. CASE GrabFails(p) \/ Start(p) \/ JoinTest(p) \/ JoinSleep(p)
  <2>1. /\ threads' = threads /\ udata' = udata /\ handles' = handles /\ exiting' = exiting /\ cur' = cur
        /\ child' = child /\ created' = created /\ wanted' = wanted
        /\ \/ pc[p] = "c_grab" /\ pc' = [pc EXCEPT ![p] = "run"]
           \/ pc[p] = "start" /\ pc' = [pc EXCEPT ![p] = "run"]
           \/ /\ pc[p] \in Joining
              /\ \/ pc' = [pc EXCEPT ![p] = "j_clear"] /\ threads[cur[p]].finished
                 \/ \E k \in Joining \ {"j_clear"} : pc' = [pc EXCEPT ![p] = k]
    BY <1>2 DEF Finished, GrabFails, Start, JoinTest, JoinSleep, At, Goto, taskVars, progVars
  <2>2. /\ \A q \in Task \ {p} : pc'[q] = pc[q]
        /\ \/ pc[p] = "c_grab" /\ pc'[p] = "run"
           \/ pc[p] = "start" /\ pc'[p] = "run"
           \/ /\ pc[p] \in Joining /\ pc'[p] \in Joining
              /\ pc'[p] = "j_clear" => threads[cur[p]].finished
    BY <1>t, <2>1 DEF Types
  <2> QED
    BY <1>t, <2>1, <2>2, UnchangedKept DEF Quiet, UsesSlot
<1>3. CASE Return(p)
  <2>1. /\ End(p, udata[p]) /\ pc[p] = "run" /\ p # Main
        /\ \A h \in handles : h.by # p
    BY <1>3 DEF Return, MayEnd, AllJoined
  <2>2. pc' = [pc EXCEPT ![p] = "t_test"]
    BY <2>1 DEF End, Goto
  <2>3. /\ \A s \in Slot : Kept(s)
        /\ \A s \in Slot \ {udata[p]} : threads'[s] = threads[s]
        /\ threads'[udata[p]].ret = threads[udata[p]].arg
    BY <1>t, <2>1, EndWrites
  <2>4. /\ udata' = udata /\ handles' = handles /\ exiting' = exiting /\ cur' = cur
        /\ child' = child /\ created' = created /\ wanted' = wanted
    BY <1>3 DEF Return, taskVars, progVars
  <2>5. pc'[p] = "t_test" /\ \A q \in Task \ {p} : pc'[q] = pc[q]
    BY <1>t, <2>2 DEF Types
  <2> QED
    BY <1>t, <2>1, <2>3, <2>4, <2>5 DEF Quiet, UsesSlot
<1>4. CASE TestDetached(p)
  <2>1. ~threads[udata[p]].detached
    BY <1>t DEF TreeInv, PlainSlots
  <2>2. /\ threads' = threads /\ udata' = udata /\ handles' = handles /\ exiting' = exiting /\ cur' = cur
        /\ child' = child /\ created' = created /\ wanted' = wanted
        /\ pc[p] = "t_test" /\ pc' = [pc EXCEPT ![p] = "t_finish"]
    BY <1>4, <2>1 DEF TestDetached, Goto, taskVars, progVars
  <2>3. pc'[p] = "t_finish" /\ \A q \in Task \ {p} : pc'[q] = pc[q]
    BY <1>t, <2>2 DEF Types
  <2> QED
    BY <1>t, <2>2, <2>3, UnchangedKept DEF Quiet, UsesSlot
<1> QED
  BY <1>1, <1>2, <1>3, <1>4

\* Nobody claims the free slot that Grab takes.
LEMMA GrabTree ==
  ASSUME AllJoined, LInv, LInv', TreeInv, TreeRole', HandleTree, ~Closing', NEW p \in Task, Grab(p)
  PROVE  TreeRest'
<1>t. Types /\ Types' /\ Main \in Task /\ SemInv
  BY ThreadsAssumption DEF LInv
<1> DEFINE s == cur'[p]
<1>1. /\ s \in Slot /\ threads[s].task = NoTask
      /\ cur' = [cur EXCEPT ![p] = s]
      /\ \A r \in Slot \ {s} : threads'[r] = threads[r]
      /\ threads'[s].task = NoTask /\ threads'[s].parent = p /\ threads'[s].arg = wanted[p]
      /\ ~threads'[s].finished /\ ~threads'[s].canceled /\ ~threads'[s].detached
  BY <1>t, GrabWrites DEF AllJoined
<1>2. /\ pc[p] = "c_grab" /\ Ready(p) /\ pc' = [pc EXCEPT ![p] = "c_spawn"]
      /\ udata' = udata /\ handles' = handles /\ exiting' = exiting /\ child' = child
      /\ wanted' = wanted /\ created' = created
  BY DEF Grab, At, Goto, taskVars, progVars
<1> HIDE DEF s
<1>3. /\ \A q \in Task \ {p} : cur'[q] = cur[q] /\ pc'[q] = pc[q]
      /\ pc'[p] = "c_spawn" /\ cur'[p] = s
      /\ \A q \in Task : UsesSlot(q)' <=> UsesSlot(q)
  BY <1>t, <1>1, <1>2 DEF Types, UsesSlot
<1>4. threads[s].parent = NoTask
  <2> SUFFICES ASSUME threads[s].parent # NoTask PROVE FALSE
    OBVIOUS
  <2>1. threads[s].parent \in Task
    BY <1>1, <1>t, SlotFields
  <2>2. pc[threads[s].parent] \in Preparing
    BY <1>1 DEF TreeInv, SlotTree, SlotFits
  <2>3. thread_sem.owner = threads[s].parent
    BY <1>t, <2>1, <2>2 DEF SemInv
  <2>4. thread_sem.owner = p
    BY <1>2, <1>t, OwnerIsReady DEF SemInv, Ready, Locking
  <2> QED
    BY <1>2, <2>2, <2>3, <2>4 DEF Preparing
<1>n. \A q \in Task : q # NoTask
  BY NoTaskAssumption
<1>5. \A q \in Task : UsesSlot(q) => udata[q] # s /\ udata[q] \in Slot /\ threads[udata[q]].parent \in Task
  BY <1>4, <1>t, SlotFields DEF TreeInv, UserTree, UserFits, Types
<1>6. \A q \in Task : pc[q] \in Claiming => cur[q] # s /\ cur[q] \in Slot
  BY <1>4, <1>n DEF TreeInv, CallTree, CallFits, LInv, CurInv, Claiming
<1>7. \A h \in handles : h.slot # s /\ h.slot \in Slot /\ h.by \in Task
  BY <1>4, <1>n, <1>t, HandleFields DEF HandleTree, HandleFits
<1>8. /\ p # Main => pc[p] # "none" /\ udata[p] # s /\ udata[p] \in Slot
                     /\ threads[udata[p]].arg < wanted[p]
      /\ wanted[p] <= created
      /\ p = Main => ~exiting
  <2>1. p # Main => UsesSlot(p)
    BY <1>2 DEF UsesSlot
  <2> QED
    BY <1>2, <1>5, <2>1 DEF TreeInv, CallTree, CallFits, Creating, TreeRole, Joining, Testing
<1>9. PlainSlots'
  BY <1>1 DEF TreeInv, PlainSlots
<1>10. UserTree'
  <2> SUFFICES ASSUME NEW q \in Task, UsesSlot(q)' PROVE UserFits(q)'
    BY DEF UserTree, UserFits
  <2>1. UsesSlot(q) /\ udata[q] # s /\ udata[q] \in Slot /\ threads[udata[q]].parent \in Task
    BY <1>3, <1>5
  <2>2. UserFits(q)
    BY DEF TreeInv, UserTree
  <2>3. pc'[q] \in {"t_test", "t_finish"} => pc[q] \in {"t_test", "t_finish"}
    BY <1>3
  <2> QED
    BY <1>1, <1>2, <1>3, <2>1, <2>2, <2>3 DEF UserFits
<1>11. SlotTree'
  <2> SUFFICES ASSUME NEW r \in Slot, threads'[r].parent # NoTask PROVE SlotFits(r)'
    BY DEF SlotTree, SlotFits
  <2>1. CASE r = s
    BY <1>1, <1>2, <1>3, <1>8, <2>1 DEF SlotFits, ClaimedByCall, Claiming, Preparing
  <2>2. CASE r # s
    <3> DEFINE q == threads[r].parent
    <3>1. threads'[r] = threads[r] /\ q # NoTask /\ q \in Task
      BY <1>1, <1>t, <2>2, SlotFields
    <3>2. SlotFits(r)
      BY DEF TreeInv, SlotTree
    <3>3. ClaimedByCall(r)' \/ ClaimedByHandle(r)'
      BY <1>2, <1>3, <3>1, <3>2 DEF SlotFits, ClaimedByCall, ClaimedByHandle, Claiming, Preparing, Joining
    <3>4. q # Main => udata[q] # s /\ udata[q] \in Slot
      <4>1. q # Main => UsesSlot(q)
        BY <3>1, <3>2 DEF SlotFits, UsesSlot, TreeInv, TreeRole, Active, Creating, Joining
      <4> QED
        BY <1>5, <3>1, <4>1
    <3> QED
      BY <1>1, <1>2, <1>3, <3>1, <3>2, <3>3, <3>4 DEF SlotFits, Preparing
  <2> QED
    BY <2>1, <2>2
<1>12. CallTree'
  <2> SUFFICES ASSUME NEW q \in Task PROVE CallFits(q)'
    BY DEF CallTree
  <2>1. CASE q = p
    BY <1>1, <1>2, <1>3, <1>7, <1>8, <2>1 DEF CallFits, Claiming, Preparing
  <2>2. CASE q # p
    <3>1. pc[q] \in Creating /\ q # Main => udata[q] # s /\ udata[q] \in Slot
      BY <1>5 DEF UsesSlot, Creating
    <3>2. CallFits(q) /\ (pc[q] \in {"c_spawn", "j_clear"} => pc[q] \in Claiming)
      BY DEF TreeInv, CallTree, Claiming, Preparing, Joining
    <3> QED
      BY <1>1, <1>2, <1>3, <1>6, <2>2, <3>1, <3>2 DEF CallFits
  <2> QED
    BY <2>1, <2>2
<1>13. HandleTree'
  <2> SUFFICES ASSUME NEW h \in handles PROVE HandleFits(h)'
    BY <1>2 DEF HandleTree
  <2> QED
    BY <1>1, <1>2, <1>3, <1>7 DEF HandleTree, HandleFits, Active, Creating
<1> QED
  BY <1>9, <1>10, <1>11, <1>12, <1>13 DEF TreeRest

\* The slot in which Spawn starts a thread has none yet.
LEMMA SpawnTree ==
  ASSUME LInv, LInv', TreeInv, TreeRole', HandleTree, NEW p \in Task, Spawn(p)
  PROVE  TreeRest'
<1>t. Types /\ Types' /\ Main \in Task /\ TreeRole
  BY ThreadsAssumption DEF LInv, TreeInv
<1>1. PICK k \in Task :
        /\ pc[k] = "none"
        /\ pc' = [pc EXCEPT ![p] = "c_assign", ![k] = "start"]
        /\ udata' = [udata EXCEPT ![k] = cur[p]]
        /\ child' = [child EXCEPT ![p] = k]
  BY DEF Spawn
<1>2. /\ pc[p] = "c_spawn" /\ threads' = threads /\ cur' = cur
      /\ handles' = handles /\ exiting' = exiting /\ wanted' = wanted /\ created' = created
  BY DEF Spawn, At, progVars
<1>3. /\ k # p /\ k # Main /\ ~UsesSlot(k)
      /\ pc'[p] = "c_assign" /\ pc'[k] = "start" /\ udata'[k] = cur[p] /\ child'[p] = k
      /\ \A q \in Task \ {p, k} : pc'[q] = pc[q]
      /\ \A q \in Task \ {k} : udata'[q] = udata[q] /\ (UsesSlot(q)' <=> UsesSlot(q))
      /\ \A q \in Task \ {p} : child'[q] = child[q]
  BY <1>t, <1>1, <1>2 DEF Types, UsesSlot, TreeRole, Active, Creating, Joining, Testing
<1>n. \A q \in Task : q # NoTask
  BY NoTaskAssumption
<1>4. /\ cur[p] \in Slot /\ threads[cur[p]].parent = p /\ threads[cur[p]].task = NoTask
      /\ ~threads[cur[p]].finished
      /\ wanted[p] <= created
  BY <1>2 DEF TreeInv, CallTree, CallFits, Claiming, Preparing, Creating, LInv, CurInv
<1>5. \A q \in Task : UsesSlot(q) => /\ udata[q] # cur[p] /\ udata[q] \in Slot
                                    /\ threads[udata[q]].parent \in Task
  <2> SUFFICES ASSUME NEW q \in Task, UsesSlot(q)
               PROVE  /\ udata[q] # cur[p] /\ udata[q] \in Slot
                      /\ threads[udata[q]].parent \in Task
    OBVIOUS
  <2>1. UserFits(q) /\ udata[q] \in Slot
    BY <1>t DEF TreeInv, UserTree, Types
  <2>2. udata[q] # cur[p]
    BY <1>2, <1>4, <2>1 DEF UserFits
  <2> QED
    BY <1>t, <2>1, <2>2, SlotFields DEF UserFits
<1>6. \A s \in Slot : threads[s].parent # k
  <2> SUFFICES ASSUME NEW s \in Slot, threads[s].parent = k PROVE FALSE
    OBVIOUS
  <2> QED
    BY <1>1, <1>3, <1>n DEF TreeInv, SlotTree, SlotFits
<1>9. PlainSlots'
  BY <1>2 DEF TreeInv, PlainSlots
<1>10. UserTree'
  <2> SUFFICES ASSUME NEW q \in Task, UsesSlot(q)' PROVE UserFits(q)'
    BY DEF UserTree, UserFits
  <2>1. CASE q = k
    BY <1>2, <1>3, <1>4, <1>5, <1>n, <2>1 DEF UserFits
  <2>2. CASE q # k
    <3>1. /\ UsesSlot(q) /\ udata'[q] = udata[q] /\ udata[q] # cur[p] /\ udata[q] \in Slot
          /\ threads[udata[q]].parent \in Task
      BY <1>3, <1>5, <2>2
    <3>2. UserFits(q)
      BY DEF TreeInv, UserTree
    <3>3. pc'[q] \in {"t_test", "t_finish"} => pc[q] \in {"t_test", "t_finish"}
      BY <1>3, <2>2
    <3>4. threads[udata[q]].parent # k
      BY <1>6, <3>1
    <3>5. \A r \in Task : UsesSlot(r)' /\ udata'[r] = udata[q] => r = q
      BY <1>3, <3>1, <3>2 DEF UserFits
    <3> QED
      BY <1>2, <1>3, <3>1, <3>2, <3>3, <3>4, <3>5 DEF UserFits
  <2> QED
    BY <2>1, <2>2
<1>11. SlotTree'
  <2> SUFFICES ASSUME NEW s \in Slot, threads[s].parent # NoTask PROVE SlotFits(s)'
    BY <1>2 DEF SlotTree, SlotFits
  <2> DEFINE q == threads[s].parent
  <2>1. q \in Task /\ q # k
    BY <1>t, <1>6, SlotFields
  <2>2. SlotFits(s)
    BY DEF TreeInv, SlotTree
  <2>3. ClaimedByCall(s)' \/ ClaimedByHandle(s)'
    BY <1>2, <1>3, <2>1, <2>2 DEF SlotFits, ClaimedByCall, ClaimedByHandle, Claiming, Preparing, Joining
  <2> QED
    BY <1>2, <1>3, <2>1, <2>2, <2>3 DEF SlotFits, Preparing
<1>12. CallTree'
  <2> SUFFICES ASSUME NEW q \in Task PROVE CallFits(q)'
    BY DEF CallTree
  <2>1. CASE q = p
    <3>1. CallFits(p)
      BY DEF TreeInv, CallTree
    <3> QED
      BY <1>1, <1>2, <1>3, <1>4, <1>n, <2>1, <3>1 DEF CallFits, Claiming, Preparing, Creating
  <2>2. CASE q = k
    BY <1>3, <2>2 DEF CallFits, Claiming, Preparing, Creating, Joining
  <2>3. CASE q # p /\ q # k
    <3>1. CallFits(q)
      BY DEF TreeInv, CallTree
    <3>2. pc'[q] = pc[q] /\ udata'[q] = udata[q] /\ child'[q] = child[q]
      BY <1>3, <2>3
    <3> QED
      BY <1>2, <3>1, <3>2 DEF CallFits
  <2> QED
    BY <2>1, <2>2, <2>3
<1>13. HandleTree'
  <2> SUFFICES ASSUME NEW h \in handles PROVE HandleFits(h)'
    BY <1>2 DEF HandleTree
  <2>1. HandleFits(h) /\ h.by \in Task
    BY <1>t, HandleFields DEF HandleTree
  <2> QED
    BY <1>1, <1>2, <1>3, <2>1 DEF HandleFits, Active, Creating, Joining
<1> QED
  BY <1>9, <1>10, <1>11, <1>12, <1>13 DEF TreeRest

\* The task that Assign stores is that of a thread.
LEMMA AssignTree ==
  ASSUME LInv, LInv', TreeInv, TreeRole', HandleTree, NEW p \in Task, Assign(p)
  PROVE  TreeRest'
<1>t. Types /\ Types' /\ Main \in Task /\ TreeRole
  BY ThreadsAssumption DEF LInv, TreeInv
<1> DEFINE s == cur[p]
<1>1. /\ pc[p] = "c_assign" /\ pc' = [pc EXCEPT ![p] = "c_check"]
      /\ threads' = [threads EXCEPT ![s].task = child[p]]
      /\ cur' = cur /\ udata' = udata /\ child' = child /\ wanted' = wanted /\ created' = created
      /\ handles' = handles /\ exiting' = exiting
  BY DEF Assign, At, Goto, taskVars, progVars
<1>2. /\ s \in Slot /\ threads[s].parent = p /\ threads[s].task = NoTask
      /\ child[p] \in Task
  BY <1>1, <1>t DEF TreeInv, CallTree, CallFits, Claiming, Preparing, LInv, CurInv, Types
<1>n. \A q \in Task : q # NoTask
  BY NoTaskAssumption
<1>3. /\ OneSlot(s) /\ threads'[s].task = child[p]
      /\ threads'[s].parent = threads[s].parent /\ threads'[s].arg = threads[s].arg
      /\ threads'[s].finished = threads[s].finished /\ threads'[s].detached = threads[s].detached
      /\ threads'[s].canceled = threads[s].canceled /\ threads'[s].ret = threads[s].ret
  BY <1>t, <1>1, <1>2, TaskWritten
<1> HIDE DEF s
<1>4. /\ pc'[p] = "c_check" /\ \A q \in Task \ {p} : pc'[q] = pc[q]
      /\ \A q \in Task : UsesSlot(q)' <=> UsesSlot(q)
  BY <1>t, <1>1 DEF Types, UsesSlot
<1>5. \A r \in Slot : /\ threads'[r].parent = threads[r].parent /\ threads'[r].arg = threads[r].arg
                      /\ threads'[r].finished = threads[r].finished /\ threads'[r].ret = threads[r].ret
                      /\ threads'[r].detached = threads[r].detached /\ threads'[r].canceled = threads[r].canceled
                      /\ threads'[r].task = IF r = s THEN child[p] ELSE threads[r].task
  BY <1>3 DEF OneSlot
<1>6. \A q \in Task : udata[q] \in Slot
  BY <1>t DEF Types
<1>9. PlainSlots'
  BY <1>5 DEF TreeInv, PlainSlots
<1>10. UserTree'
  <2> SUFFICES ASSUME NEW q \in Task, UsesSlot(q)' PROVE UserFits(q)'
    BY DEF UserTree, UserFits
  <2>1. UsesSlot(q) /\ UserFits(q) /\ udata[q] \in Slot
    BY <1>4, <1>6 DEF TreeInv, UserTree
  <2>2. pc'[q] \in {"t_test", "t_finish"} => pc[q] \in {"t_test", "t_finish"}
    BY <1>4
  <2>3. threads[udata[q]].parent \in Task
    BY <1>t, <2>1, SlotFields DEF UserFits
  <2>4. threads'[udata[q]].task = NoTask => pc'[threads[udata[q]].parent] = "c_assign"
    <3> SUFFICES ASSUME threads'[udata[q]].task = NoTask PROVE pc'[threads[udata[q]].parent] = "c_assign"
      OBVIOUS
    <3>1. udata[q] # s /\ threads[udata[q]].task = NoTask
      BY <1>2, <1>5, <1>n, <2>1
    <3>2. pc[threads[udata[q]].parent] = "c_assign" /\ cur[threads[udata[q]].parent] = udata[q]
      BY <2>1, <3>1 DEF TreeInv, SlotTree, SlotFits, UserFits
    <3> QED
      BY <1>4, <2>3, <3>1, <3>2 DEF s
  <2> QED
    BY <1>1, <1>4, <1>5, <2>1, <2>2, <2>4 DEF UserFits
<1>11. SlotTree'
  <2> SUFFICES ASSUME NEW r \in Slot, threads[r].parent # NoTask PROVE SlotFits(r)'
    BY <1>5 DEF SlotTree, SlotFits
  <2> DEFINE q == threads[r].parent
  <2>1. q \in Task
    BY <1>t, SlotFields
  <2>2. SlotFits(r)
    BY DEF TreeInv, SlotTree
  <2>3. ClaimedByCall(r)' \/ ClaimedByHandle(r)'
    BY <1>1, <1>4, <1>5, <2>1, <2>2 DEF SlotFits, ClaimedByCall, ClaimedByHandle, Claiming, Preparing, Joining
  <2>4. threads'[r].task = NoTask => pc'[q] \in Preparing /\ cur[q] = r
    <3>1. threads'[r].task = NoTask => r # s /\ threads[r].task = NoTask
      BY <1>2, <1>5, <1>n
    <3> QED
      BY <1>4, <2>1, <2>2, <3>1 DEF SlotFits, s
  <2> QED
    BY <1>1, <1>4, <1>5, <1>6, <2>1, <2>2, <2>3, <2>4 DEF SlotFits
<1>12. CallTree'
  <2> SUFFICES ASSUME NEW q \in Task PROVE CallFits(q)'
    BY DEF CallTree
  <2>1. /\ CallFits(q) /\ (pc[q] \in Claiming => cur[q] \in Slot)
        /\ pc[q] \in {"c_spawn", "j_clear"} => pc[q] \in Claiming
    BY DEF TreeInv, CallTree, LInv, CurInv, Claiming, Preparing, Joining
  <2>2. CASE q = p
    BY <1>1, <1>2, <1>4, <1>5, <1>6, <1>n, <2>1, <2>2 DEF CallFits, Claiming, Preparing, Creating, s
  <2>3. CASE q # p
    <3>1. pc'[q] = pc[q]
      BY <1>4, <2>3
    <3>2. pc[q] \in Claiming => cur[q] # s
      BY <1>2, <2>1, <2>3 DEF CallFits
    <3> QED
      BY <1>1, <1>5, <1>6, <2>1, <3>1, <3>2 DEF CallFits
  <2> QED
    BY <2>2, <2>3
<1>13. HandleTree'
  <2> SUFFICES ASSUME NEW h \in handles PROVE HandleFits(h)'
    BY <1>1 DEF HandleTree
  <2>1. HandleFits(h) /\ h.by \in Task /\ h.slot \in Slot
    BY <1>t, HandleFields DEF HandleTree
  <2> QED
    BY <1>1, <1>2, <1>4, <1>5, <1>n, <2>1 DEF HandleFits, Active, Creating, Joining
<1> QED
  BY <1>9, <1>10, <1>11, <1>12, <1>13 DEF TreeRest

\* The slot that Check looks at has its thread, and becomes one to be joined.
LEMMA CheckTree ==
  ASSUME LInv, LInv', TreeInv, TreeRole', HandleTree, NEW p \in Task, Check(p)
  PROVE  TreeRest'
<1>t. Types /\ Types' /\ Main \in Task /\ TreeRole
  BY ThreadsAssumption DEF LInv, TreeInv
<1> DEFINE s == cur[p]
<1>1. pc[p] = "c_check" /\ (p = Main => ~exiting)
  BY <1>t DEF Check, TreeRole, Joining, Testing
<1>2. /\ s \in Slot /\ threads[s].parent = p /\ threads[s].task # NoTask
      /\ threads[s].arg = wanted[p] /\ ~threads[s].detached
      /\ \A h \in handles : h.slot # s
  BY <1>1 DEF TreeInv, CallTree, CallFits, PlainSlots, Claiming, Preparing, LInv, CurInv
<1>3. /\ pc' = [pc EXCEPT ![p] = "run"] /\ threads' = threads
      /\ handles' = handles \cup {Handle(p)}
      /\ cur' = cur /\ udata' = udata /\ child' = child /\ wanted' = wanted /\ created' = created
      /\ exiting' = exiting
  BY <1>2 DEF Check, Goto, taskVars
<1>4. Handle(p).slot = s /\ Handle(p).thread = wanted[p] /\ Handle(p).by = p
  BY DEF Handle
<1>5. /\ pc'[p] = "run" /\ \A q \in Task \ {p} : pc'[q] = pc[q]
      /\ \A q \in Task : UsesSlot(q)' <=> UsesSlot(q)
  BY <1>t, <1>1, <1>3 DEF Types, UsesSlot
<1> HIDE DEF s
<1>9. PlainSlots'
  BY <1>3 DEF TreeInv, PlainSlots
<1>10. UserTree'
  <2> SUFFICES ASSUME NEW q \in Task, UsesSlot(q)' PROVE UserFits(q)'
    BY DEF UserTree, UserFits
  <2>1. UsesSlot(q) /\ UserFits(q)
    BY <1>5 DEF TreeInv, UserTree
  <2>2. pc'[q] \in {"t_test", "t_finish"} => pc[q] \in {"t_test", "t_finish"}
    BY <1>5
  <2>3. threads[udata[q]].parent \in Task
    BY <1>t, <2>1, SlotFields DEF UserFits, Types
  <2> QED
    BY <1>1, <1>3, <1>5, <2>1, <2>2, <2>3 DEF UserFits
<1>11. SlotTree'
  <2> SUFFICES ASSUME NEW r \in Slot, threads[r].parent # NoTask PROVE SlotFits(r)'
    BY <1>3 DEF SlotTree, SlotFits
  <2> DEFINE q == threads[r].parent
  <2>1. q \in Task
    BY <1>t, SlotFields
  <2>2. SlotFits(r)
    BY DEF TreeInv, SlotTree
  <2>3. ClaimedByCall(r)' \/ ClaimedByHandle(r)'
    <3>1. CASE q = p /\ r = s
      BY <1>2, <1>3, <1>4, <3>1 DEF ClaimedByHandle
    <3>2. CASE ~(q = p /\ r = s)
      <4>1. ClaimedByCall(r) => ClaimedByCall(r)'
        BY <1>3, <1>5, <2>1, <3>2 DEF ClaimedByCall, s
      <4>2. ClaimedByHandle(r) => ClaimedByHandle(r)'
        BY <1>3 DEF ClaimedByHandle
      <4> QED
        BY <2>2, <4>1, <4>2 DEF SlotFits
    <3> QED
      BY <3>1, <3>2
  <2> QED
    BY <1>1, <1>3, <1>5, <2>1, <2>2, <2>3 DEF SlotFits, Preparing
<1>12. CallTree'
  <2> SUFFICES ASSUME NEW q \in Task PROVE CallFits(q)'
    BY DEF CallTree
  <2>1. CASE q = p
    BY <1>5, <2>1 DEF CallFits, Claiming, Preparing, Creating, Joining
  <2>2. CASE q # p
    <3>1. CallFits(q) /\ pc'[q] = pc[q]
      BY <1>5, <2>2 DEF TreeInv, CallTree
    <3>2. pc[q] \in Claiming => cur[q] # s
      BY <1>2, <2>2, <3>1 DEF CallFits
    <3> QED
      BY <1>3, <1>4, <3>1, <3>2 DEF CallFits
  <2> QED
    BY <2>1, <2>2
<1>13. HandleTree'
  <2> SUFFICES ASSUME NEW h \in handles' PROVE HandleFits(h)'
    BY DEF HandleTree
  <2>1. CASE h = Handle(p)
    BY <1>1, <1>2, <1>3, <1>4, <1>5, <2>1 DEF HandleFits, Active
  <2>2. CASE h \in handles
    <3>1. HandleFits(h) /\ h.by \in Task /\ h.slot # s
      BY <1>2, <1>t, <2>2, HandleFields DEF HandleTree
    <3> QED
      BY <1>3, <1>4, <1>5, <3>1 DEF HandleFits, Active
  <2> QED
    BY <1>3, <2>1, <2>2
<1> QED
  BY <1>9, <1>10, <1>11, <1>12, <1>13 DEF TreeRest

\* A thread that ends has joined all its children.
LEMMA FinishTree ==
  ASSUME LInv, LInv', TreeInv, TreeRole', HandleTree, NEW p \in Task, Finish(p)
  PROVE  TreeRest'
<1>t. Types /\ Types' /\ Main \in Task /\ TreeRole
  BY ThreadsAssumption DEF LInv, TreeInv
<1> DEFINE s == udata[p]
<1>1. /\ pc[p] = "t_finish" /\ pc' = [pc EXCEPT ![p] = "none"]
      /\ threads' = [threads EXCEPT ![s].finished = TRUE]
      /\ cur' = cur /\ udata' = udata /\ child' = child /\ wanted' = wanted /\ created' = created
      /\ handles' = handles /\ exiting' = exiting
  BY DEF Finish, Goto, Forbidden, progVars
<1>2. s \in Slot /\ p # Main /\ UsesSlot(p)
  BY <1>1, <1>t DEF Types, TreeRole, Active, Creating, Joining, UsesSlot, Testing
<1>3. /\ OneSlot(s) /\ threads'[s].finished = TRUE
      /\ threads'[s].task = threads[s].task /\ threads'[s].parent = threads[s].parent
      /\ threads'[s].arg = threads[s].arg /\ threads'[s].detached = threads[s].detached
      /\ threads'[s].canceled = threads[s].canceled /\ threads'[s].ret = threads[s].ret
  BY <1>t, <1>1, <1>2, FinishedWritten
<1>4. UserFits(p)
  BY DEF TreeInv, UserTree
<1>5. \A r \in Slot : /\ threads'[r].parent = threads[r].parent /\ threads'[r].arg = threads[r].arg
                      /\ threads'[r].task = threads[r].task /\ threads'[r].ret = threads[r].ret
                      /\ threads'[r].detached = threads[r].detached /\ threads'[r].canceled = threads[r].canceled
                      /\ (r # s => threads'[r].finished = threads[r].finished)
  BY <1>3 DEF OneSlot
<1>6. \A q \in Task : udata[q] \in Slot
  BY <1>t DEF Types
<1>7. threads[s].ret = threads[s].arg /\ \A q \in Task \ {p} : UsesSlot(q) => udata[q] # s
  BY <1>1, <1>2, <1>4 DEF UserFits
<1> HIDE DEF s
<1>8. /\ pc'[p] = "none" /\ \A q \in Task \ {p} : pc'[q] = pc[q]
      /\ ~UsesSlot(p)' /\ \A q \in Task \ {p} : UsesSlot(q)' <=> UsesSlot(q)
  BY <1>t, <1>1 DEF Types, UsesSlot
<1>c. \A r \in Slot : threads[r].parent # p
  <2> SUFFICES ASSUME NEW r \in Slot, threads[r].parent = p PROVE FALSE
    OBVIOUS
  <2>1. SlotFits(r) /\ p # NoTask
    BY NoTaskAssumption DEF TreeInv, SlotTree
  <2> QED
    BY <1>1, <1>2, <2>1
       DEF SlotFits, ClaimedByCall, ClaimedByHandle, HandleTree, HandleFits, Claiming, Preparing,
           Active, Creating, Joining
<1>9. PlainSlots'
  BY <1>5 DEF TreeInv, PlainSlots
<1>10. UserTree'
  <2> SUFFICES ASSUME NEW q \in Task, UsesSlot(q)' PROVE UserFits(q)'
    BY DEF UserTree, UserFits
  <2>1. UsesSlot(q) /\ q # p /\ UserFits(q) /\ udata[q] # s /\ udata[q] \in Slot
    BY <1>6, <1>7, <1>8 DEF TreeInv, UserTree
  <2>2. threads[udata[q]].parent \in Task \ {p}
    BY <1>c, <1>t, <2>1, SlotFields DEF UserFits
  <2>3. pc'[q] = pc[q] /\ pc'[threads[udata[q]].parent] = pc[threads[udata[q]].parent]
    BY <1>8, <2>1, <2>2
  <2>4. \A r \in Task : UsesSlot(r)' => UsesSlot(r)
    BY <1>8
  <2> QED
    BY <1>1, <1>5, <2>1, <2>3, <2>4 DEF UserFits
<1>11. SlotTree'
  <2> SUFFICES ASSUME NEW r \in Slot, threads[r].parent # NoTask PROVE SlotFits(r)'
    BY <1>5 DEF SlotTree, SlotFits
  <2> DEFINE q == threads[r].parent
  <2>1. q \in Task /\ q # p
    BY <1>c, <1>t, SlotFields
  <2>2. SlotFits(r) /\ pc'[q] = pc[q]
    BY <1>8, <2>1 DEF TreeInv, SlotTree
  <2>3. ClaimedByCall(r)' \/ ClaimedByHandle(r)'
    BY <1>1, <1>5, <2>2 DEF SlotFits, ClaimedByCall, ClaimedByHandle
  <2>4. threads'[r].finished => threads[r].ret = threads[r].arg
    BY <1>5, <1>7, <2>2 DEF SlotFits
  <2>5. threads'[udata[q]].arg = threads[udata[q]].arg
    BY <1>5, <1>6, <2>1
  <2> QED
    BY <1>1, <1>5, <2>1, <2>2, <2>3, <2>4, <2>5 DEF SlotFits
<1>12. CallTree'
  <2> SUFFICES ASSUME NEW q \in Task PROVE CallFits(q)'
    BY DEF CallTree
  <2>1. CASE q = p
    BY <1>8, <2>1 DEF CallFits, Claiming, Preparing, Creating, Joining
  <2>2. CASE q # p
    <3>1. CallFits(q) /\ pc'[q] = pc[q] /\ (pc[q] \in Claiming => cur[q] \in Slot)
      BY <1>8, <2>2 DEF TreeInv, CallTree, LInv, CurInv, Claiming
    <3>2. pc[q] \in {"c_spawn", "j_clear"} => pc[q] \in Claiming
      BY DEF Claiming, Preparing, Joining
    <3>3. pc[q] = "c_spawn" => cur[q] # s
      BY <1>2, <1>4, <3>1, <3>2 DEF UserFits, CallFits, s, Preparing
    <3> QED
      BY <1>1, <1>3, <1>5, <1>6, <3>1, <3>2, <3>3 DEF CallFits
  <2> QED
    BY <2>1, <2>2
<1>13. HandleTree'
  <2> SUFFICES ASSUME NEW h \in handles PROVE HandleFits(h)'
    BY <1>1 DEF HandleTree
  <2>1. HandleFits(h) /\ h.by \in Task /\ h.slot \in Slot
    BY <1>t, HandleFields DEF HandleTree
  <2>2. h.by # p
    BY <1>1, <1>2, <2>1 DEF HandleFits, Active, Creating, Joining
  <2> QED
    BY <1>1, <1>5, <1>8, <2>1, <2>2 DEF HandleFits
<1> QED
  BY <1>9, <1>10, <1>11, <1>12, <1>13 DEF TreeRest

\* A join finds the thread of its handle.
LEMMA JoinTree ==
  ASSUME AllJoined, LInv, LInv', TreeInv, TreeRole', HandleTree, NEW p \in Task, Join(p)
  PROVE  TreeRest'
<1>t. Types /\ Types' /\ Main \in Task /\ TreeRole
  BY ThreadsAssumption DEF LInv, TreeInv
<1>1. PICK h \in handles :
        /\ h.by = p
        /\ handles' = handles \ {h}
        /\ cur' = [cur EXCEPT ![p] = h.slot]
        /\ wanted' = [wanted EXCEPT ![p] = h.thread]
        /\ IF ~InUse(h.slot) \/ threads[h.slot].detached
           THEN UNCHANGED <<pc, threads>>
           ELSE IF threads[Self(p)].canceled THEN End(p, Self(p))
           ELSE Goto(p, "j_test") /\ UNCHANGED threads
  BY Zenon DEF Join, AllJoined
<1> DEFINE s == h.slot
<1>2. /\ pc[p] = "run" /\ (p = Main => ~exiting)
      /\ udata' = udata /\ child' = child /\ created' = created /\ exiting' = exiting
  BY <1>t DEF Join, taskVars, TreeRole, Joining, Testing
<1>n. \A q \in Task : q # NoTask
  BY NoTaskAssumption
<1>3. /\ s \in Slot /\ threads[s].parent = p /\ threads[s].task # NoTask /\ threads[s].arg = h.thread
      /\ ~threads[s].detached
      /\ \A g \in handles : g # h => g.slot # s
  <2>1. HandleFits(h) /\ s \in Slot
    BY <1>t, HandleFields DEF HandleTree
  <2> QED
    BY <1>1, <2>1 DEF HandleFits, TreeInv, PlainSlots
<1>4. ~threads[Self(p)].canceled
  BY <1>t, SelfLemma DEF TreeInv, PlainSlots
<1>5. pc' = [pc EXCEPT ![p] = "j_test"] /\ threads' = threads
  BY <1>1, <1>3, <1>4, <1>n DEF InUse, Goto
<1> HIDE DEF s
<1>6. /\ pc'[p] = "j_test" /\ cur'[p] = s /\ wanted'[p] = h.thread
      /\ \A q \in Task \ {p} : pc'[q] = pc[q] /\ cur'[q] = cur[q] /\ wanted'[q] = wanted[q]
      /\ \A q \in Task : UsesSlot(q)' <=> UsesSlot(q)
  BY <1>t, <1>1, <1>2, <1>5 DEF Types, UsesSlot, s
<1>9. PlainSlots'
  BY <1>5 DEF TreeInv, PlainSlots
<1>10. UserTree'
  <2> SUFFICES ASSUME NEW q \in Task, UsesSlot(q)' PROVE UserFits(q)'
    BY DEF UserTree, UserFits
  <2>1. UsesSlot(q) /\ UserFits(q)
    BY <1>6 DEF TreeInv, UserTree
  <2>2. pc'[q] \in {"t_test", "t_finish"} => pc[q] \in {"t_test", "t_finish"}
    BY <1>6
  <2>3. threads[udata[q]].parent \in Task
    BY <1>t, <2>1, SlotFields DEF UserFits, Types
  <2> QED
    BY <1>2, <1>5, <1>6, <2>1, <2>2, <2>3 DEF UserFits
<1>11. SlotTree'
  <2> SUFFICES ASSUME NEW r \in Slot, threads[r].parent # NoTask PROVE SlotFits(r)'
    BY <1>5 DEF SlotTree, SlotFits
  <2> DEFINE q == threads[r].parent
  <2>1. q \in Task
    BY <1>t, SlotFields
  <2>2. SlotFits(r)
    BY DEF TreeInv, SlotTree
  <2>3. ClaimedByCall(r)' \/ ClaimedByHandle(r)'
    <3>1. CASE r = s
      BY <1>3, <1>5, <1>6, <3>1 DEF ClaimedByCall, Claiming, Joining
    <3>2. CASE r # s
      <4>1. ClaimedByCall(r) => ClaimedByCall(r)'
        BY <1>2, <1>5, <1>6, <2>1 DEF ClaimedByCall, Claiming, Preparing, Joining
      <4>2. ClaimedByHandle(r) => ClaimedByHandle(r)'
        BY <1>1, <1>5, <3>2 DEF ClaimedByHandle, s
      <4> QED
        BY <2>2, <4>1, <4>2 DEF SlotFits
    <3> QED
      BY <3>1, <3>2
  <2> QED
    BY <1>2, <1>5, <1>6, <2>1, <2>2, <2>3 DEF SlotFits, Preparing
<1>12. CallTree'
  <2> SUFFICES ASSUME NEW q \in Task PROVE CallFits(q)'
    BY DEF CallTree
  <2>1. CASE q = p
    BY <1>1, <1>3, <1>5, <1>6, <2>1 DEF CallFits, Claiming, Preparing, Creating, Joining, s
  <2>2. CASE q # p
    <3>1. CallFits(q) /\ pc'[q] = pc[q] /\ cur'[q] = cur[q] /\ wanted'[q] = wanted[q]
      BY <1>6, <2>2 DEF TreeInv, CallTree
    <3> QED
      BY <1>1, <1>2, <1>5, <3>1 DEF CallFits
  <2> QED
    BY <2>1, <2>2
<1>13. HandleTree'
  <2> SUFFICES ASSUME NEW g \in handles' PROVE HandleFits(g)'
    BY DEF HandleTree
  <2>1. HandleFits(g) /\ g.by \in Task
    BY <1>1, <1>t, HandleFields DEF HandleTree
  <2> QED
    BY <1>1, <1>2, <1>5, <1>6, <2>1 DEF HandleFits, Active, Joining
<1> QED
  BY <1>9, <1>10, <1>11, <1>12, <1>13 DEF TreeRest

\* The oldest thread whose parent is not main would have a parent that is
\* older still.  So some thread of main runs as long as others have threads.
LEMMA MainsThreadRuns ==
  ASSUME Types, TreeInv, NEW s \in Slot, threads[s].parent \notin {NoTask, Main}
  PROVE  \E p \in Task : UsesSlot(p) /\ threads[udata[p]].parent = Main
<1> DEFINE Others == {r \in Slot : threads[r].parent \notin {NoTask, Main}}
           Ages == {threads[r].arg : r \in Others}
<1>1. Ages \in SUBSET Nat /\ threads[s].arg \in Ages
  BY SlotFields, ThreadsAssumption DEF Thread
<1>2. Min(Ages) \in Ages /\ \A n \in Ages : Min(Ages) <= n
  BY <1>1, MinLemma
<1>3. PICK r \in Others : threads[r].arg = Min(Ages)
  BY <1>2
<1> DEFINE p == threads[r].parent
<1>4. p \in Task /\ p # Main /\ r \in Slot
  BY <1>3, SlotFields
<1>5. pc[p] # "none" /\ threads[udata[p]].arg < threads[r].arg
  BY <1>4, NoTaskAssumption DEF TreeInv, SlotTree, SlotFits
<1>6. UsesSlot(p)
  BY <1>4, <1>5 DEF UsesSlot, TreeInv, TreeRole, Active, Creating, Joining
<1>7. udata[p] \in Slot /\ threads[udata[p]].parent # NoTask
  BY <1>4, <1>6 DEF Types, TreeInv, UserTree, UserFits
<1>8. threads[udata[p]].arg \in Nat /\ threads[r].arg \in Nat
  BY <1>4, <1>7, SlotFields, ThreadsAssumption DEF Thread
<1>9. threads[udata[p]].arg \notin Ages
  <2>1. \A n \in Ages : threads[r].arg <= n
    BY <1>2, <1>3
  <2> HIDE DEF Ages
  <2>2. threads[udata[p]].arg \in Ages => threads[r].arg <= threads[udata[p]].arg
    BY <2>1
  <2>3. ASSUME NEW a \in Nat, NEW b \in Nat, a < b PROVE ~(b <= a)
    BY <2>3
  <2> QED
    BY <1>5, <1>8, <2>2, <2>3
<1>10. threads[udata[p]].parent = Main
  BY <1>7, <1>9
<1> QED
  BY <1>4, <1>6, <1>10

\* When main's only thread has ended, or main has none, nobody is there.
LEMMA MainsLastThread ==
  ASSUME Types, TreeInv,
         \A s \in Slot : threads[s].parent = Main => threads[s].finished
  PROVE  /\ \A p \in Task : ~UsesSlot(p)
         /\ \A s \in Slot : threads[s].parent \in {NoTask, Main}
<1>1. \A p \in Task : UsesSlot(p) => /\ udata[p] \in Slot /\ ~threads[udata[p]].finished
                                    /\ threads[udata[p]].parent # NoTask
  BY DEF Types, TreeInv, UserTree, UserFits
<1>2. \A s \in Slot : threads[s].parent \in {NoTask, Main}
  BY <1>1, MainsThreadRuns
<1> QED
  BY <1>1, <1>2

\* A program with nobody there has the invariant.
LEMMA ClosedTree ==
  ASSUME TreeRole', PlainSlots', NobodyThere', Closing'
  PROVE  TreeInv'
<1>1. /\ \A p \in Task : ~UsesSlot(p)'
      /\ \A s \in Slot : threads'[s].parent = NoTask
  BY DEF NobodyThere
<1>2. UserTree' /\ SlotTree'
  <2>1. \A p \in Task : UserFits(p)'
    BY <1>1 DEF UserFits
  <2>2. \A s \in Slot : SlotFits(s)'
    BY <1>1 DEF SlotFits
  <2> QED
    BY <2>1, <2>2 DEF UserTree, SlotTree
<1>3. \A p \in Task : pc'[p] \in {"none", "x_scan", "x_parent", "unloaded"}
  BY <1>1 DEF TreeRole, Active, Creating, Joining, UsesSlot
<1>4. CallTree'
  BY <1>3 DEF CallTree, CallFits, Claiming, Preparing, Creating, Joining
<1>5. TestTree'
  BY ThreadsAssumption, <1>3 DEF TestTree
<1> QED
  BY <1>2, <1>4, <1>5 DEF TreeInv

\* The slot that a join clears has no user, and no other claim.
LEMMA JoinClearTree ==
  ASSUME LInv, LInv', TreeInv, TreeRole', TestTree', HandleTree, ~Closing,
         NEW p \in Task, JoinClear(p)
  PROVE  TreeInv'
<1>t. Types /\ Types' /\ Main \in Task /\ TreeRole
  BY ThreadsAssumption DEF LInv, TreeInv
<1> DEFINE s == cur[p]
<1>1. /\ pc[p] = "j_clear" /\ threads' = [threads EXCEPT ![s] = EmptySlot]
      /\ udata' = udata /\ child' = child /\ handles' = handles /\ exiting' = exiting
      /\ wanted' = wanted /\ created' = created
      /\ \/ p = Main /\ exiting /\ pc' = [pc EXCEPT ![p] = "x_scan"]
            /\ cur' = [cur EXCEPT ![p] = @ + 1]
         \/ ~(p = Main /\ exiting) /\ pc' = [pc EXCEPT ![p] = "run"] /\ cur' = cur
  BY DEF JoinClear, At, Goto, taskVars, progVars
<1>2. /\ s \in Slot /\ threads[s].parent = p /\ threads[s].task # NoTask /\ threads[s].finished
      /\ (~(p = Main /\ exiting) => \A h \in handles : h.slot # s)
  BY <1>1 DEF TreeInv, CallTree, CallFits, Claiming, Preparing, Joining, LInv, CurInv
<1>3. OneSlot(s) /\ threads'[s] = EmptySlot
  BY <1>t, <1>1, <1>2, SlotWritten, EmptyTyped
<1>4. /\ threads'[s].parent = NoTask /\ ~threads'[s].detached /\ ~threads'[s].canceled
      /\ \A r \in Slot \ {s} : threads'[r] = threads[r]
  BY <1>3 DEF OneSlot, EmptySlot
<1> HIDE DEF s
<1>5. \A q \in Task : UsesSlot(q) => udata[q] \in Slot /\ udata[q] # s /\ threads[udata[q]].parent \in Task
  BY <1>2, <1>t, SlotFields DEF TreeInv, UserTree, UserFits, Types
<1>6. PlainSlots'
  BY <1>4 DEF TreeInv, PlainSlots
<1>7. CASE p = Main /\ exiting
  <2>1. /\ cur'[Main] = s + 1 /\ s \in Nat /\ s = 1
        /\ \A q \in Task : UsesSlot(q)' <=> UsesSlot(q)
    BY <1>1, <1>2, <1>7, <1>t, SlotFacts DEF Types, Closing, UsesSlot, s
  <2>2. \A r \in Slot : threads[r].parent = Main => r = s
    <3> SUFFICES ASSUME NEW r \in Slot, threads[r].parent = Main PROVE r = s
      OBVIOUS
    <3>1. SlotFits(r) /\ Main # NoTask
      BY <1>t, NoTaskAssumption DEF TreeInv, SlotTree
    <3> QED
      BY <1>7, <2>1, <3>1
         DEF SlotFits, ClaimedByCall, ClaimedByHandle, HandleTree, HandleFits, s
  <2>3. /\ \A q \in Task : ~UsesSlot(q)
        /\ \A r \in Slot : threads[r].parent \in {NoTask, Main}
    <3>1. \A r \in Slot : threads[r].parent = Main => threads[r].finished
      BY <1>2, <2>2
    <3> QED
      BY <3>1, <1>t, MainsLastThread
  <2>4. NobodyThere'
    BY <1>4, <2>1, <2>2, <2>3 DEF NobodyThere
  <2>5. Closing'
    BY <1>1, <1>7, <2>1 DEF Closing
  <2> QED
    BY <1>6, <2>4, <2>5, ClosedTree
<1>8. CASE ~(p = Main /\ exiting)
  <2>1. pc' = [pc EXCEPT ![p] = "run"] /\ cur' = cur
    BY <1>1, <1>8
  <2>2. /\ pc'[p] = "run" /\ \A q \in Task \ {p} : pc'[q] = pc[q]
        /\ \A q \in Task : UsesSlot(q)' <=> UsesSlot(q)
        /\ ~Closing'
    BY <1>t, <1>1, <2>1 DEF Types, UsesSlot, Closing
  <2>3. UserTree'
    <3> SUFFICES ASSUME NEW q \in Task, UsesSlot(q)' PROVE UserFits(q)'
      BY DEF UserTree, UserFits
    <3>1. UsesSlot(q) /\ UserFits(q) /\ udata[q] \in Slot /\ udata[q] # s /\ threads[udata[q]].parent \in Task
      BY <1>5, <2>2 DEF TreeInv, UserTree
    <3>2. pc'[q] \in {"t_test", "t_finish"} => pc[q] \in {"t_test", "t_finish"}
      BY <2>2
    <3> QED
      BY <1>1, <1>4, <2>2, <3>1, <3>2 DEF UserFits
  <2>4. SlotTree'
    <3> SUFFICES ASSUME NEW r \in Slot, threads'[r].parent # NoTask PROVE SlotFits(r)'
      BY DEF SlotTree, SlotFits
    <3> DEFINE q == threads[r].parent
    <3>1. r # s /\ threads'[r] = threads[r]
      BY <1>4
    <3>2. SlotFits(r) /\ q \in Task
      BY <1>t, <3>1, SlotFields DEF TreeInv, SlotTree
    <3>3. ClaimedByCall(r)' \/ ClaimedByHandle(r)'
      <4>1. ClaimedByCall(r) => ClaimedByCall(r)'
        BY <2>1, <2>2, <3>1, <3>2 DEF ClaimedByCall, s
      <4>2. ClaimedByHandle(r) => ClaimedByHandle(r)'
        BY <1>1, <3>1 DEF ClaimedByHandle
      <4> QED
        BY <3>1, <3>2, <4>1, <4>2 DEF SlotFits
    <3>4. q # Main => threads'[udata[q]] = threads[udata[q]]
      <4>1. q # Main => UsesSlot(q)
        BY <3>1, <3>2 DEF SlotFits, UsesSlot, TreeInv, TreeRole, Active, Creating, Joining
      <4> QED
        BY <1>4, <1>5, <3>2, <4>1
    <3> QED
      BY <1>1, <2>1, <2>2, <3>1, <3>2, <3>3, <3>4 DEF SlotFits, Preparing
  <2>5. CallTree'
    <3> SUFFICES ASSUME NEW q \in Task PROVE CallFits(q)'
      BY DEF CallTree
    <3>1. CASE q = p
      BY <2>2, <3>1 DEF CallFits, Claiming, Preparing, Creating, Joining
    <3>2. CASE q # p
      <4>1. CallFits(q) /\ pc'[q] = pc[q] /\ (pc[q] \in Claiming => cur[q] \in Slot)
        BY <2>2, <3>2 DEF TreeInv, CallTree, LInv, CurInv, Claiming
      <4>2. pc[q] \in {"c_spawn", "j_clear"} => pc[q] \in Claiming
        BY DEF Claiming, Preparing, Joining
      <4>3. pc[q] \in Claiming => cur[q] # s
        BY <1>2, <3>2, <4>1 DEF CallFits
      <4>4. q # Main /\ pc[q] \in Creating => threads'[udata[q]] = threads[udata[q]]
        BY <1>4, <1>5 DEF UsesSlot, Creating
      <4> QED
        BY <1>1, <1>4, <2>1, <4>1, <4>2, <4>3, <4>4 DEF CallFits
    <3> QED
      BY <3>1, <3>2
  <2>6. HandleTree'
    <3> SUFFICES ASSUME NEW h \in handles PROVE HandleFits(h)'
      BY <1>1 DEF HandleTree
    <3>1. HandleFits(h) /\ h.by \in Task /\ h.slot \in Slot /\ h.slot # s
      BY <1>2, <1>8, <1>t, HandleFields DEF HandleTree
    <3> QED
      BY <1>1, <1>4, <2>2, <3>1 DEF HandleFits, Active
  <2> QED
    BY <1>6, <2>2, <2>3, <2>4, <2>5, <2>6 DEF TreeInv
<1> QED
  BY <1>7, <1>8

\* Main goes into the exit function, or there on to the join of its thread in
\* slot 1.
LEMMA MainMovesTree ==
  ASSUME LInv, LInv', TreeInv, TreeRole', TestTree', HandleTree, ~Closing',
         threads' = threads, udata' = udata, child' = child, handles' = handles,
         wanted' = wanted, created' = created, exiting',
         \A q \in Task \ {Main} : pc'[q] = pc[q] /\ cur'[q] = cur[q],
         pc[Main] \in {"run", "x_scan"} \cup Testing,
         pc'[Main] \in {"x_scan", "j_test"} \cup Testing,
         \A h \in handles : h.by = Main => h.slot = 1,
         pc'[Main] = "j_test" =>
           threads[cur'[Main]].parent = Main /\ threads[cur'[Main]].task # NoTask
  PROVE  TreeInv'
<1>t. Types /\ Types' /\ Main \in Task /\ TreeRole
  BY ThreadsAssumption DEF LInv, TreeInv
<1>1. \A q \in Task : UsesSlot(q)' <=> UsesSlot(q)
  BY DEF UsesSlot
<1>2. PlainSlots'
  BY DEF TreeInv, PlainSlots
<1>3. UserTree'
  <2> SUFFICES ASSUME NEW q \in Task, UsesSlot(q)' PROVE UserFits(q)'
    BY DEF UserTree, UserFits
  <2>1. UsesSlot(q) /\ UserFits(q) /\ q # Main
    BY <1>1 DEF TreeInv, UserTree, UsesSlot
  <2>2. threads[udata[q]].parent \in Task
    BY <1>t, <2>1, SlotFields DEF UserFits, Types
  <2> QED
    BY <1>1, <2>1, <2>2 DEF UserFits, Testing
<1>4. SlotTree'
  <2> SUFFICES ASSUME NEW r \in Slot, threads[r].parent # NoTask PROVE SlotFits(r)'
    BY DEF SlotTree, SlotFits
  <2> DEFINE q == threads[r].parent
  <2>1. q \in Task /\ SlotFits(r)
    BY <1>t, SlotFields DEF TreeInv, SlotTree
  <2>2. ClaimedByCall(r) => ClaimedByCall(r)'
    BY <2>1 DEF ClaimedByCall, Claiming, Preparing, Joining, Testing
  <2>3. ClaimedByHandle(r) => ClaimedByHandle(r)'
    BY DEF ClaimedByHandle
  <2>4. pc[q] \in Preparing /\ cur[q] = r => pc'[q] \in Preparing /\ cur'[q] = r
    BY <2>1 DEF Preparing, Testing
  <2> QED
    BY <2>1, <2>2, <2>3, <2>4 DEF SlotFits
<1>5. CallTree'
  <2> SUFFICES ASSUME NEW q \in Task PROVE CallFits(q)'
    BY DEF CallTree
  <2>1. CASE q = Main
    BY <2>1 DEF CallFits, Claiming, Preparing, Creating, Joining, Testing
  <2>2. CASE q # Main
    <3>1. CallFits(q) /\ pc'[q] = pc[q] /\ cur'[q] = cur[q]
      BY <2>2 DEF TreeInv, CallTree
    <3> QED
      BY <2>2, <3>1 DEF CallFits
  <2> QED
    BY <2>1, <2>2
<1>6. HandleTree'
  <2> SUFFICES ASSUME NEW h \in handles PROVE HandleFits(h)'
    BY DEF HandleTree
  <2>1. HandleFits(h) /\ h.by \in Task
    BY <1>t, HandleFields DEF HandleTree
  <2> QED
    BY <2>1 DEF HandleFits
<1> QED
  BY <1>2, <1>3, <1>4, <1>5, <1>6 DEF TreeInv

\* Main calls the exit function with at most the thread in slot 1 left.
LEMMA ExitFuncTree ==
  ASSUME AllJoined, LInv, LInv', TreeInv, ExitFunc
  PROVE  TreeInv'
<1>t. Types /\ Types' /\ Main \in Task /\ TreeRole
  BY ThreadsAssumption DEF LInv, TreeInv
<1>1. /\ pc[Main] = "run" /\ pc' = [pc EXCEPT ![Main] = "x_scan"]
      /\ cur' = [cur EXCEPT ![Main] = 1] /\ exiting'
      /\ threads' = threads /\ udata' = udata /\ child' = child /\ handles' = handles
      /\ wanted' = wanted /\ created' = created
  BY DEF ExitFunc, Goto, taskVars
<1>2. \A h \in handles : h.by = Main => h.slot = 1
  BY DEF ExitFunc, AllJoined
<1>3. HandleTree
  BY <1>1, <1>t DEF TreeInv, Closing, TreeRole, Joining
<1>4. /\ pc'[Main] = "x_scan" /\ cur'[Main] = 1
      /\ \A q \in Task \ {Main} : pc'[q] = pc[q] /\ cur'[q] = cur[q]
  BY <1>1, <1>t DEF Types
<1>5. TreeRole' /\ ~Closing' /\ TestTree'
  BY <1>1, <1>4, <1>t DEF TreeRole, Closing, TestTree
<1> QED
  BY <1>1, <1>2, <1>3, <1>4, <1>5, MainMovesTree

\* As long as main has a thread left, it is the one in slot 1, and that slot
\* is main's if it is anybody's.
LEMMA LastInSlot1 ==
  ASSUME LInv, TreeInv, exiting, ~Closing, pc[Main] \in {"x_scan"} \cup Testing
  PROVE  /\ cur[Main] = 1 /\ HandleTree
         /\ \A r \in Slot : threads[r].parent = Main => ClaimedByHandle(r) /\ r = 1
         /\ cur[Main] \in Slot /\ threads[cur[Main]].parent # NoTask
              => threads[cur[Main]].parent = Main /\ threads[cur[Main]].task # NoTask
<1>t. Types /\ Main \in Task
  BY ThreadsAssumption DEF LInv
<1>1. cur[Main] = 1 /\ HandleTree
  BY DEF TreeInv, Closing
<1>2. \A r \in Slot : threads[r].parent = Main => ClaimedByHandle(r) /\ r = 1
  <2> SUFFICES ASSUME NEW r \in Slot, threads[r].parent = Main PROVE ClaimedByHandle(r) /\ r = 1
    OBVIOUS
  <2>1. Main # NoTask
    BY <1>t, NoTaskAssumption
  <2>2. ClaimedByHandle(r)
    BY <2>1 DEF TreeInv, SlotTree, SlotFits, ClaimedByCall, Claiming, Preparing, Joining, Testing
  <2> QED
    BY <1>1, <2>2 DEF ClaimedByHandle, HandleTree, HandleFits
<1>3. ASSUME cur[Main] \in Slot, threads[cur[Main]].parent # NoTask
      PROVE  threads[cur[Main]].parent = Main
  <2> SUFFICES ASSUME threads[cur[Main]].parent # Main PROVE FALSE
    OBVIOUS
  <2>1. PICK q \in Task : UsesSlot(q) /\ threads[udata[q]].parent = Main
    BY <1>t, <1>3, MainsThreadRuns
  <2>2. udata[q] = cur[Main]
    BY <1>t, <1>1, <1>2, <2>1 DEF Types
  <2> QED
    BY <2>1, <2>2
<1>4. \A r \in Slot : threads[r].parent = Main => threads[r].task # NoTask
  BY <1>1, <1>2 DEF ClaimedByHandle, HandleTree, HandleFits
<1> QED
  BY <1>1, <1>2, <1>3, <1>4

\* When the exit function passes over a slot or ends, nobody is there.
LEMMA ScanPassesTree ==
  ASSUME LInv, LInv', TreeInv, exiting, exiting',
         threads' = threads, udata' = udata,
         \A q \in Task \ {Main} : pc'[q] = pc[q],
         pc[Main] \in {"x_scan", "x_parent"}, cur[Main] # 0,
         \/ /\ cur[Main] = PTHREAD_THREADS_MAX /\ cur'[Main] = cur[Main]
            /\ pc'[Main] = "unloaded"
         \/ /\ cur[Main] \in Slot /\ threads[cur[Main]].parent = NoTask
            /\ cur'[Main] = cur[Main] + 1 /\ pc'[Main] = "x_scan"
  PROVE  TreeInv'
<1>t. Types /\ Types' /\ Main \in Task /\ TreeRole /\ Main # NoTask
  BY ThreadsAssumption, NoTaskAssumption DEF LInv, TreeInv
<1>1. NobodyThere
  <2>1. CASE Closing
    BY <2>1 DEF TreeInv
  <2>2. CASE ~Closing
    <3>1. cur[Main] = 1 /\ \A r \in Slot : threads[r].parent = Main => r = 1
      BY <2>2, LastInSlot1 DEF Testing
    <3>2. \A r \in Slot : threads[r].parent # Main
      BY <1>t, <3>1, SlotFacts
    <3> QED
      BY <1>t, <3>2, MainsLastThread DEF NobodyThere
  <2> QED
    BY <2>1, <2>2
<1>2. NobodyThere'
  BY <1>1 DEF NobodyThere, UsesSlot
<1>3. /\ cur'[Main] # 0 /\ (cur'[Main] # 1 \/ pc'[Main] = "unloaded")
  BY <1>t, SlotFacts DEF Types
<1>4. Closing' /\ TreeRole'
  BY <1>3, <1>t DEF Closing, TreeRole
<1>5. PlainSlots'
  BY DEF TreeInv, PlainSlots
<1> QED
  BY <1>2, <1>4, <1>5, ClosedTree

\* The exit function passes over the free slots, and joins the thread that
\* main has left in slot 1.
LEMMA ScanTree ==
  ASSUME AllJoined, LInv, LInv', TreeInv, ExitStep
  PROVE  TreeInv'
<1>t. Types /\ Types' /\ Main \in Task /\ TreeRole /\ Main # NoTask
  BY ThreadsAssumption, NoTaskAssumption DEF LInv, TreeInv
<1> DEFINE c == cur[Main]
<1>1. /\ threads' = threads /\ udata' = udata /\ child' = child /\ handles' = handles
      /\ wanted' = wanted /\ created' = created /\ exiting' = exiting
      /\ pc[Main] \in {"x_scan"} \cup Testing
  <2>1. ~ScanDelay
    BY <1>t DEF ScanDelay, TreeRole, Active, Creating, Joining, Testing
  <2> QED
    BY <2>1 DEF ExitStep, Scan, ScanParent, ScanDetached, Testing, taskVars, progVars
<1>2. exiting /\ c \in Nat /\ c # 0 /\ (c < PTHREAD_THREADS_MAX => c \in Slot)
  <2>1. exiting /\ c # 0
    BY <1>1, <1>t DEF TreeRole, Active, Creating, Joining, Testing
  <2> QED
    BY <2>1, <1>t, SlotFacts DEF Types
<1>3. pc[Main] \in Testing => c \in Slot
  BY <1>t DEF LInv, CurInv
<1>4. \/ /\ pc[Main] = "x_scan" /\ c = PTHREAD_THREADS_MAX
         /\ pc'[Main] = "unloaded" /\ cur'[Main] = c
      \/ /\ pc[Main] = "x_scan" /\ c \in Slot /\ pc'[Main] = "x_parent" /\ cur'[Main] = c
      \/ /\ pc[Main] = "x_parent" /\ c \in Slot /\ threads[c].parent = NoTask
         /\ pc'[Main] = "x_scan" /\ cur'[Main] = c + 1
      \/ /\ pc[Main] = "x_parent" /\ c \in Slot /\ threads[c].parent # NoTask
         /\ pc'[Main] = "x_detached" /\ cur'[Main] = c
      \/ /\ pc[Main] = "x_detached" /\ c \in Slot /\ pc'[Main] = "j_test" /\ cur'[Main] = c
  <2>1. c \in Slot => ~threads[c].detached
    BY DEF TreeInv, PlainSlots
  <2>2. CASE Scan
    <3>1. CASE ScanEnds
      BY <1>t, <2>2, <3>1 DEF Scan, ScanEnds, Goto, Types
    <3>2. CASE ScanSlot
      BY <1>2, <1>t, <2>1, <2>2, <3>2 DEF Scan, ScanSlot, Goto, Types
    <3> QED
      BY <2>2, <3>1, <3>2 DEF Scan
  <2>3. CASE ScanParent
    BY <1>3, <1>t, <2>3 DEF ScanParent, PassSlot, InUse, Testing, Goto, Types
  <2>4. CASE ScanDetached
    BY <1>3, <1>t, <2>1, <2>4 DEF ScanDetached, Testing, Goto, Types
  <2> QED
    BY <1>1, <2>2, <2>3, <2>4 DEF ExitStep, ScanDelay, Testing
<1>5. \A q \in Task \ {Main} : pc'[q] = pc[q] /\ cur'[q] = cur[q]
  BY <1>t DEF ExitStep, Scan, ScanEnds, ScanSlot, ScanParent, ScanDetached, ScanDelay, PassSlot,
              Goto, Types
<1> HIDE DEF c
<1>6. CASE \/ c = PTHREAD_THREADS_MAX /\ pc'[Main] = "unloaded" /\ cur'[Main] = c
              /\ pc[Main] = "x_scan"
           \/ /\ pc[Main] = "x_parent" /\ c \in Slot /\ threads[c].parent = NoTask
              /\ pc'[Main] = "x_scan" /\ cur'[Main] = c + 1
  BY <1>1, <1>2, <1>5, <1>6, ScanPassesTree DEF c
<1>7. CASE Closing /\ pc[Main] = "x_scan" /\ pc'[Main] = "x_parent" /\ cur'[Main] = c
  <2>1. NobodyThere /\ c # 1
    BY <1>7 DEF TreeInv, Closing, c
  <2>2. Closing' /\ TreeRole'
    BY <1>1, <1>2, <1>5, <1>7, <1>t, <2>1 DEF TreeRole, Closing, Testing
  <2>3. NobodyThere' /\ PlainSlots'
    BY <1>1, <1>5, <2>1 DEF NobodyThere, UsesSlot, TreeInv, PlainSlots
  <2> QED
    BY <2>2, <2>3, ClosedTree
<1>8. CASE /\ ~Closing /\ c \in Slot /\ cur'[Main] = c
           /\ \/ pc'[Main] = "x_parent"
              \/ pc'[Main] = "x_detached" /\ threads[c].parent # NoTask
              \/ pc'[Main] = "j_test" /\ pc[Main] = "x_detached"
  <2>1. /\ c = 1 /\ HandleTree
        /\ \A r \in Slot : threads[r].parent = Main => ClaimedByHandle(r) /\ r = 1
        /\ threads[c].parent # NoTask
              => threads[c].parent = Main /\ threads[c].task # NoTask
    BY <1>1, <1>2, <1>8, LastInSlot1 DEF c
  <2>2. pc'[Main] = "j_test" => threads[c].parent # NoTask
    <3> SUFFICES ASSUME pc[Main] = "x_detached" PROVE threads[c].parent # NoTask
      BY <1>8
    <3>1. PICK h \in handles : h.by = Main /\ h.slot = c
      BY DEF TreeInv, TestTree, c
    <3> QED
      BY <1>t, <2>1, <3>1 DEF HandleTree, HandleFits
  <2>3. TestTree'
    BY <1>1, <1>8, <2>1 DEF TestTree, ClaimedByHandle
  <2>4. TreeRole' /\ ~Closing'
    BY <1>1, <1>2, <1>5, <1>8, <1>t, <2>1 DEF TreeRole, Closing, Joining, Testing
  <2>5. \A h \in handles : h.by = Main => h.slot = 1
    BY <1>2, <2>1 DEF HandleTree, HandleFits
  <2>6. pc[Main] \in {"run", "x_scan"} \cup Testing /\ pc'[Main] \in {"x_scan", "j_test"} \cup Testing
    BY <1>1, <1>8 DEF Testing
  <2>7. pc'[Main] = "j_test" =>
          threads[cur'[Main]].parent = Main /\ threads[cur'[Main]].task # NoTask
    BY <1>8, <2>1, <2>2
  <2>8. exiting'
    BY <1>1, <1>2
  <2> QED
    BY <1>1, <1>5, <2>1, <2>3, <2>4, <2>5, <2>6, <2>7, <2>8, MainMovesTree
<1>9. Closing => pc[Main] # "x_detached" /\ (c \in Slot => threads[c].parent = NoTask)
  BY <1>t DEF TreeRole, TreeInv, NobodyThere
<1> QED
  BY <1>4, <1>6, <1>7, <1>8, <1>9

\* The invariant holds for every program that joins all its threads.
LEMMA TreeInvHolds ==
  ASSUME AllJoined
  PROVE  Spec => []TreeInv
<1>1. Init => TreeInv
  BY InitTreeInv
<1>2. LInv /\ LInv' /\ TreeInv /\ [Next]_vars => TreeInv'
  <2> SUFFICES ASSUME LInv, LInv', TreeInv, [Next]_vars PROVE TreeInv'
    OBVIOUS
  <2>1. ASSUME NEW p \in Task, Create(p) \/ Step(p) \/ Detach(p) \/ Cancel(p) PROVE TreeInv'
    <3>1. /\ ~Closing /\ HandleTree
          /\ \/ Create(p) \/ Grab(p) \/ GrabFails(p) \/ Spawn(p) \/ Assign(p) \/ Check(p)
             \/ Start(p) \/ Return(p) \/ TestDetached(p) \/ Finish(p)
             \/ Join(p) \/ JoinTest(p) \/ JoinSleep(p) \/ JoinClear(p)
      BY <2>1, TreeSteps
    <3>2. TreeRole' /\ (JoinClear(p) \/ ~Closing') /\ TestTree'
      BY <2>1, TreeRoleStep, TestTreeStep
    <3>3. CASE JoinClear(p)
      BY <3>1, <3>2, <3>3, JoinClearTree
    <3>4. CASE ~Closing'
      <4>1. CASE \/ Create(p) \/ GrabFails(p) \/ Start(p) \/ Return(p) \/ TestDetached(p)
                 \/ JoinTest(p) \/ JoinSleep(p)
        <5>1. Quiet
          BY <4>1, QuietSteps, Zenon
        <5> QED
          BY <3>1, <3>2, <3>4, <5>1, QuietInv DEF TreeInv, TreeRest
      <4>2. CASE Grab(p) \/ Spawn(p) \/ Assign(p) \/ Check(p) \/ Finish(p) \/ Join(p)
        <5>1. TreeRest'
          BY <3>1, <3>2, <3>4, <4>2, GrabTree, SpawnTree, AssignTree, CheckTree, FinishTree, JoinTree, Zenon
        <5> QED
          BY <3>2, <3>4, <5>1 DEF TreeInv, TreeRest
      <4> QED
        BY <3>1, <3>3, <4>1, <4>2, Zenon
    <3> QED
      BY <3>2, <3>3, <3>4
  <2>2. CASE ExitFunc \/ ExitStep
    BY <2>2, ExitFuncTree, ScanTree
  <2>3. CASE UNCHANGED vars
    <3>1. /\ threads' = threads /\ udata' = udata /\ child' = child /\ handles' = handles
          /\ wanted' = wanted /\ created' = created /\ exiting' = exiting /\ pc' = pc /\ cur' = cur
      BY <2>3 DEF vars, taskVars, progVars
    <3> QED
      BY <3>1 DEF TreeInv, TreeRole, PlainSlots, UserTree, UserFits, SlotTree, SlotFits, CallTree,
                  CallFits, HandleTree, HandleFits, Closing, NobodyThere, UsesSlot, TestTree,
                  ClaimedByCall, ClaimedByHandle
  <2> QED
    BY <2>1, <2>2, <2>3, Zenon DEF Next
<1> QED
  BY <1>1, <1>2, LInvHolds, PTL DEF Spec

\* A thread that runs has a parent that is there and can be signalled: who
\* joins its children outlives them.
THEOREM ParentsOutlive ==
  ASSUME AllJoined
  PROVE  Spec => []ParentIsThere
<1>1. LInv /\ TreeInv => ParentIsThere
  <2> SUFFICES ASSUME LInv, TreeInv, NEW p \in Task, UsesSlot(p)
               PROVE  \E q \in Task : /\ q = threads[udata[p]].parent
                                      /\ pc[q] \notin {"none", "t_die", "unloaded"}
    BY DEF ParentIsThere
  <2> DEFINE q == threads[udata[p]].parent
  <2>1. q # NoTask /\ udata[p] \in Slot /\ Types
    BY DEF TreeInv, UserTree, UserFits, LInv, Types
  <2>2. q \in Task
    BY <2>1, SlotFields
  <2>3. CASE q = Main
    <3>1. ~Closing
      BY DEF TreeInv, NobodyThere
    <3> QED
      BY <2>2, <2>3, <3>1 DEF TreeInv, TreeRole, Closing, Active, Creating, Joining, Testing
  <2>4. CASE q # Main
    <3>1. pc[q] # "none"
      BY <2>1, <2>4 DEF TreeInv, SlotTree, SlotFits
    <3> QED
      BY <2>2, <2>4, <3>1 DEF TreeInv, TreeRole, Active, Creating, Joining
  <2> QED
    BY <2>3, <2>4
<1> QED
  BY <1>1, LInvHolds, TreeInvHolds, PTL

\* The program is unloaded when no thread runs in it any more.
THEOREM NothingUnloadedRuns ==
  ASSUME AllJoined
  PROVE  Spec => []NoUnloadedCode
<1>1. TreeInv => NoUnloadedCode
  <2> SUFFICES ASSUME TreeInv, pc[Main] = "unloaded", NEW p \in Task \ {Main} PROVE pc[p] = "none"
    BY DEF NoUnloadedCode
  <2>1. Closing
    BY DEF TreeInv, TreeRole, Closing, Active, Creating, Joining
  <2> QED
    BY <2>1 DEF TreeInv, NobodyThere, UsesSlot, TreeRole, Active, Creating, Joining
<1> QED
  BY <1>1, TreeInvHolds, PTL

\* Only a join that finds its thread finished asks for thread_sem.
LEMMA JoinsSeeTheEnd ==
  ASSUME LInv, [Next]_vars, NEW p \in Task, pc[p] = "j_test", pc'[p] = "j_clear"
  PROVE  threads[cur[p]].finished
<1>t. Types /\ Main \in Task
  BY ThreadsAssumption DEF LInv
<1>1. pc[p] \notin Locking /\ pc'[p] \in Locking
  BY DEF Locking
<1>2. ASSUME NEW q \in Task, Create(q) \/ Step(q) \/ Detach(q) \/ Cancel(q)
      PROVE  threads[cur[p]].finished
  <2>1. q = p
    BY <1>1, <1>2, StepSem DEF SemStep, Elsewhere
  <2>2. \/ Grab(p) \/ GrabFails(p) \/ Spawn(p) \/ SpawnFails(p) \/ Assign(p) \/ Check(p)
        \/ Start(p) \/ Return(p) \/ Exit(p) \/ TestCancel(p)
        \/ TestDetached(p) \/ Finish(p) \/ Free(p) \/ Die(p)
        \/ Join(p) \/ JoinSleep(p) \/ JoinClear(p)
        \/ Create(p) \/ Detach(p) \/ Cancel(p)
        => pc[p] # "j_test"
    BY DEF Grab, GrabFails, Spawn, SpawnFails, Assign, Check, Start, Return, Exit, MayEnd, TestCancel,
           TestDetached, Finish, Free, Die, Join, JoinSleep, JoinClear, Create, Detach, Cancel, At
  <2>3. JoinTest(p)
    BY <1>2, <2>1, <2>2, Zenon DEF Step
  <2>4. ~Finished(p) => pc'[p] = "j_sleep"
    BY <2>3, <1>t DEF JoinTest, Goto, Types
  <2> QED
    BY <2>4 DEF Finished
<1>3. CASE ExitFunc \/ ExitStep
  <2>1. SemStep(Main) /\ pc[Main] # "j_test"
    BY <1>3, ExitSem DEF ExitFunc, ExitStep, Scan, ScanDelay, ScanParent, ScanDetached
  <2> QED
    BY <1>1, <2>1 DEF SemStep, Elsewhere
<1>4. CASE UNCHANGED vars
  BY <1>1, <1>4 DEF vars
<1> QED
  BY <1>2, <1>3, <1>4, Zenon DEF Next, ExitStep

\* A join returns the value of the thread it was called for.
THEOREM JoinsTheRightThread ==
  ASSUME AllJoined
  PROVE  Spec => JoinGetsItsThread
<1>1. LInv /\ TreeInv /\ [Next]_vars
      => [\A p \in Task :
            pc[p] = "j_test" /\ pc'[p] = "j_clear" /\ ~(p = Main /\ exiting)
              => threads[cur[p]].ret = wanted[p]]_vars
  <2> SUFFICES ASSUME LInv, TreeInv, [Next]_vars, NEW p \in Task,
                      pc[p] = "j_test", pc'[p] = "j_clear", ~(p = Main /\ exiting)
               PROVE  threads[cur[p]].ret = wanted[p]
    BY Zenon
  <2>1. /\ cur[p] \in Slot /\ threads[cur[p]].parent = p /\ p # NoTask
        /\ threads[cur[p]].arg = wanted[p]
    BY NoTaskAssumption DEF TreeInv, CallTree, CallFits, Claiming, Joining, LInv, CurInv
  <2>2. threads[cur[p]].finished => threads[cur[p]].ret = wanted[p]
    BY <2>1 DEF TreeInv, SlotTree, SlotFits
  <2>3. threads[cur[p]].finished
    BY JoinsSeeTheEnd
  <2> QED
    BY <2>2, <2>3
<1> QED
  BY <1>1, LInvHolds, TreeInvHolds, PTL DEF Spec, JoinGetsItsThread

\* A step that writes a slot whose thread still runs leaves its parent and
\* its argument alone.
LEMMA TreeKeepsSlots ==
  ASSUME AllJoined, LInv, TreeInv, [Next]_vars, NEW p \in Task, UsesSlot(p)
  PROVE  /\ threads'[udata[p]].arg = threads[udata[p]].arg
         /\ threads'[udata[p]].parent = threads[udata[p]].parent
<1> DEFINE s == udata[p]
           Untouched == threads'[s].arg = threads[s].arg /\ threads'[s].parent = threads[s].parent
<1> SUFFICES Untouched
  OBVIOUS
<1>t. Types /\ Main \in Task /\ s \in Slot
  BY ThreadsAssumption DEF LInv, Types
<1>u. UserFits(p) /\ threads[s].parent \in Task /\ SlotFits(s)
  BY <1>t, SlotFields DEF TreeInv, UserTree, UserFits, SlotTree
<1>1. CASE threads' = threads
  BY <1>1
<1>2. ASSUME NEW q \in Task, Create(q) \/ Step(q) \/ Detach(q) \/ Cancel(q) PROVE Untouched
  <2>1. /\ HandleTree
        /\ \/ Create(q) \/ Grab(q) \/ GrabFails(q) \/ Spawn(q) \/ Assign(q) \/ Check(q)
           \/ Start(q) \/ Return(q) \/ TestDetached(q) \/ Finish(q)
           \/ Join(q) \/ JoinTest(q) \/ JoinSleep(q) \/ JoinClear(q)
    BY <1>2, TreeSteps
  <2>2. CallFits(q) /\ udata[q] \in Slot /\ (pc[q] \in Claiming => cur[q] \in Slot)
    BY <1>t DEF TreeInv, CallTree, LInv, CurInv, Claiming, Types
  <2>3. CASE Grab(q)
    <3>1. cur'[q] \in Slot /\ threads[cur'[q]].task = NoTask
          /\ \A r \in Slot \ {cur'[q]} : threads'[r] = threads[r]
      BY <1>t, <2>3, GrabWrites
    <3>2. s # cur'[q]
      <4> SUFFICES ASSUME s = cur'[q] PROVE FALSE
        OBVIOUS
      <4>1. pc[threads[s].parent] = "c_assign" /\ pc[q] = "c_grab" /\ Ready(q)
        BY <1>u, <2>3, <3>1 DEF UserFits, Grab, At
      <4>2. thread_sem.owner = threads[s].parent /\ thread_sem.owner = q
        BY <1>u, <4>1, OwnerIsReady DEF LInv, SemInv, Preparing, Locking, Ready
      <4> QED
        BY <4>1, <4>2
    <3> QED
      BY <1>t, <3>1, <3>2
  <2>4. CASE Assign(q)
    <3>1. cur[q] \in Slot /\ child[q] \in Task \cup {NoTask}
          /\ threads' = [threads EXCEPT ![cur[q]].task = child[q]]
      BY <1>t, <2>2, <2>4 DEF Assign, At, Claiming, Preparing, Types
    <3> QED
      BY <1>t, <3>1, TaskWritten DEF OneSlot
  <2>5. CASE Check(q)
    <3>1. threads[cur[q]].task # NoTask
      BY <2>2, <2>5 DEF Check, CallFits, Claiming, Preparing
    <3> QED
      BY <1>1, <2>5, <3>1 DEF Check
  <2>6. CASE Return(q)
    <3>1. End(q, udata[q])
      BY <2>6 DEF Return
    <3> QED
      BY <1>t, <2>2, <3>1, EndWrites DEF Kept
  <2>7. CASE Finish(q)
    <3>1. threads' = [threads EXCEPT ![udata[q]].finished = TRUE]
      BY <2>7 DEF Finish
    <3> QED
      BY <1>t, <2>2, <3>1, FinishedWritten DEF OneSlot
  <2>8. CASE Join(q)
    <3>1. ~threads[Self(q)].canceled
      BY <1>t, SelfLemma DEF TreeInv, PlainSlots
    <3> QED
      BY <1>1, <2>8, <3>1 DEF Join
  <2>9. CASE JoinClear(q)
    <3>1. pc[q] = "j_clear" /\ threads' = [threads EXCEPT ![cur[q]] = EmptySlot]
      BY <2>9 DEF JoinClear, At
    <3>2. cur[q] \in Slot /\ threads[cur[q]].finished
      BY <2>2, <3>1 DEF CallFits, Claiming, Joining
    <3>3. s # cur[q]
      BY <1>u, <3>2 DEF UserFits
    <3> QED
      BY <1>t, <3>1, <3>2, <3>3, SlotWritten, EmptyTyped DEF OneSlot
  <2>10. CASE \/ Create(q) \/ GrabFails(q) \/ Spawn(q) \/ Start(q) \/ TestDetached(q)
              \/ JoinTest(q) \/ JoinSleep(q)
    <3>1. threads' = threads
      BY <2>10 DEF Create, GrabFails, Spawn, Start, TestDetached, JoinTest, JoinSleep
    <3> QED
      BY <1>1, <3>1
  <2> QED
    BY <2>1, <2>3, <2>4, <2>5, <2>6, <2>7, <2>8, <2>9, <2>10, Zenon
<1>3. CASE ExitFunc \/ ExitStep \/ UNCHANGED vars
  BY <1>1, <1>3 DEF ExitFunc, ExitStep, Scan, ScanDelay, ScanParent, ScanDetached, vars
<1> QED
  BY <1>2, <1>3, Zenon DEF Next, ExitStep

\* Threads that join their children keep their slots too, however deep they
\* create threads.
THEOREM JoinedKeepSlots ==
  ASSUME AllJoined
  PROVE  Spec => SlotKept
<1>1. LInv /\ TreeInv /\ [Next]_vars
      => [\A p \in Task :
            UsesSlot(p) /\ pc'[p] = pc[p]
              => /\ threads'[udata[p]].arg = threads[udata[p]].arg
                 /\ threads'[udata[p]].parent = threads[udata[p]].parent]_vars
  BY TreeKeepsSlots
<1> QED
  BY <1>1, LInvHolds, TreeInvHolds, PTL DEF Spec, SlotKept

=============================================================================
