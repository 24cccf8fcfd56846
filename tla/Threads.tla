------------------------------- MODULE Threads -------------------------------
(***************************************************************************)
(* The life of threads in src/pthreads/pthread.c: pthread_create,          *)
(* StarterFunc, pthread_exit, pthread_detach, pthread_join, pthread_cancel *)
(* and __pthread_Exit_Func over the table threads[], which is shared by    *)
(* all of them and only partly protected by thread_sem.                    *)
(*                                                                         *)
(* A task is its address.  The address of a dead task is free for the next *)
(* CreateNewProc, and whatever still points to it then points to the new   *)
(* task.  The control points of a task:                                    *)
(*   none  start  run            not there, in StarterFunc before the      *)
(*                               start routine, in the start routine       *)
(*   c_grab c_spawn c_assign c_check          pthread_create               *)
(*   j_test j_sleep j_clear                   pthread_join                 *)
(*   t_test t_finish t_free t_die             the end of StarterFunc       *)
(*   x_scan x_delay x_parent x_detached unloaded                           *)
(*                               __pthread_Exit_Func                       *)
(*   lost                        pthread_exit jumped through the jmp_buf   *)
(*                               of another thread                         *)
(* c_grab, j_clear and t_free are reached by asking for thread_sem.        *)
(***************************************************************************)
EXTENDS SignalSemaphore, FiniteSets, FiniteSetsExt

CONSTANTS
  Main,                  \* the task of main()
  PTHREAD_THREADS_MAX,
  MaxCreates,            \* a bound: the calls of pthread_create
  Creators, Joiners,     \* the tasks that call pthread_create, pthread_join
  SpawnMayFail,          \* may CreateNewProc return NULL?
  DetachStates,          \* the values attr gives to inf->detached
  Detaches, Cancels,     \* does the program call pthread_detach, _cancel?
  Exits,                 \* do threads end by pthread_exit?
  JoinsAll,              \* do threads join their children before they end, and
                         \* main all of them but the one in slot 1?
  EarlyStart,            \* may a child run before its creator runs on?
  AddressReuse           \* may a task get the address of a dead one?

ASSUME ThreadsAssumption ==
  /\ Main \in Task
  /\ PTHREAD_THREADS_MAX \in Nat \ {0}
  /\ MaxCreates \in Nat
  /\ Creators \subseteq Task
  /\ Joiners \subseteq Task
  /\ DetachStates \subseteq BOOLEAN
  /\ {SpawnMayFail, Detaches, Cancels, Exits, JoinsAll, EarlyStart,
      AddressReuse} \subseteq BOOLEAN

VARIABLES
  pc,
  threads,      \* threads[], the fields that control depends on
  thread_sem,
  udata,        \* tc_UserData: the slot of the thread a task runs
  parentsig,    \* is SIGF_PARENT set in a task's received signals?
  cur,          \* the slot a task creates, joins or scans
  child,        \* what CreateNewProc returned to a task
  wanted,       \* the thread whose value the caller of pthread_join expects
  handles,      \* the threads the program has still to join or detach
  created,      \* how often pthread_create has been called
  exiting,      \* is Main in __pthread_Exit_Func?
  raced         \* a record for NoThreadLeft: the slots whose threads were
                \* detached while __pthread_Exit_Func was about to join them

taskVars == <<udata, parentsig, child>>
progVars == <<wanted, handles, created, exiting, raced>>
vars == <<pc, threads, thread_sem, cur, taskVars, progVars>>

Slot == 0..PTHREAD_THREADS_MAX - 1
Thread == 0..MaxCreates

\* A cleared ThreadInfo; arg stands for start and arg, and tells threads apart.
EmptySlot == [task |-> NoTask, parent |-> NoTask, arg |-> 0, ret |-> 0,
              finished |-> FALSE, detached |-> FALSE, canceled |-> FALSE]

SlotType == [task : Task \cup {NoTask}, parent : Task \cup {NoTask},
             arg : Thread, ret : Thread, finished : BOOLEAN,
             detached : BOOLEAN, canceled : BOOLEAN]

-----------------------------------------------------------------------------
Ready(p) == ~Queued(thread_sem, p)
At(p, k) == pc[p] = k /\ Ready(p)
Goto(p, k) == pc' = [pc EXCEPT ![p] = k]
Lock(p) == thread_sem' = Obtain(thread_sem, p)
Unlock == thread_sem' = Release(thread_sem)

HoldsOrFinished(task) ==
  {s \in Slot : threads[s].task = task \/ (task = NoTask /\ threads[s].finished)}

Holds(task) == {s \in Slot : threads[s].task = task}

\* The first slot with this task; the end of the table if there is none.
GetThreadId(task) == Min(Holds(task) \cup {PTHREAD_THREADS_MAX})

\* pthread_self: a task without a slot takes itself for the main thread.
Self(p) == GetThreadId(p) % PTHREAD_THREADS_MAX

\* __pthread_Init_Func
Init ==
  /\ pc = [p \in Task |-> IF p = Main THEN "run" ELSE "none"]
  /\ threads = [s \in Slot |->
                  IF s = 0 THEN [EmptySlot EXCEPT !.task = Main] ELSE EmptySlot]
  /\ thread_sem = FreeSemaphore
  /\ udata = [p \in Task |-> 0]
  /\ parentsig = [p \in Task |-> FALSE]
  /\ cur = [p \in Task |-> 0]
  /\ child = [p \in Task |-> NoTask]
  /\ wanted = [p \in Task |-> 0]
  /\ handles = {}
  /\ created = 0
  /\ exiting = FALSE
  /\ raced = {}

-----------------------------------------------------------------------------
(***************************************************************************)
(* pthread_create.  CreateNewProc starts the child before its address is   *)
(* stored in the slot; after thread_sem is released the slot is read once  *)
(* more.                                                                   *)
(***************************************************************************)
Create(p) ==
  /\ pc[p] = "run" /\ p \in Creators
  /\ created < MaxCreates
  /\ created' = created + 1
  /\ wanted' = [wanted EXCEPT ![p] = created + 1]
  /\ Lock(p)
  /\ Goto(p, "c_grab")
  /\ UNCHANGED <<threads, cur, taskVars, handles, exiting, raced>>

TableOverfull == GetThreadId(NoTask) > PTHREAD_THREADS_MAX

TableFull == GetThreadId(NoTask) = PTHREAD_THREADS_MAX

\* The first empty slot is cleared and prepared; EAGAIN if there is none.
Grab(p) ==
  /\ At(p, "c_grab")
  /\ ~TableFull
  /\ \E d \in DetachStates :
       threads' = [threads EXCEPT ![GetThreadId(NoTask)] =
                     [EmptySlot EXCEPT !.parent = p, !.arg = wanted[p],
                                       !.detached = d]]
  /\ cur' = [cur EXCEPT ![p] = GetThreadId(NoTask)]
  /\ Goto(p, "c_spawn")
  /\ UNCHANGED <<thread_sem, taskVars, progVars>>

GrabFails(p) ==
  /\ At(p, "c_grab")
  /\ TableFull
  /\ Unlock
  /\ Goto(p, "run")
  /\ UNCHANGED <<threads, cur, taskVars, progVars>>

Spawn(p) ==
  /\ At(p, "c_spawn")
  /\ \E q \in Task :
       /\ pc[q] = "none"
       /\ AddressReuse \/ udata[q] = 0
       /\ pc' = [pc EXCEPT ![p] = "c_assign", ![q] = "start"]
       /\ udata' = [udata EXCEPT ![q] = cur[p]]
       /\ parentsig' = [parentsig EXCEPT ![q] = FALSE]
       /\ child' = [child EXCEPT ![p] = q]
  /\ UNCHANGED <<threads, thread_sem, cur, progVars>>

SpawnFails(p) ==
  /\ SpawnMayFail
  /\ At(p, "c_spawn")
  /\ Goto(p, "c_assign")
  /\ child' = [child EXCEPT ![p] = NoTask]
  /\ UNCHANGED <<threads, thread_sem, cur, udata, parentsig, progVars>>

Assign(p) ==
  /\ At(p, "c_assign")
  /\ threads' = [threads EXCEPT ![cur[p]].task = child[p]]
  /\ Unlock
  /\ Goto(p, "c_check")
  /\ UNCHANGED <<cur, taskVars, progVars>>

Handle(p) == [slot |-> cur[p], thread |-> wanted[p], by |-> p]

Check(p) ==
  /\ pc[p] = "c_check"
  /\ IF threads[cur[p]].task = NoTask
     THEN /\ threads' = [threads EXCEPT ![cur[p]].parent = NoTask]
          /\ UNCHANGED handles
     ELSE /\ handles' = IF threads[cur[p]].detached THEN handles
                        ELSE handles \cup {Handle(p)}
          /\ UNCHANGED threads
  /\ Goto(p, "run")
  /\ UNCHANGED <<thread_sem, cur, taskVars, wanted, created, exiting, raced>>

-----------------------------------------------------------------------------
(***************************************************************************)
(* The thread: StarterFunc, pthread_exit and pthread_testcancel.           *)
(***************************************************************************)
\* May the start routine end?
MayEnd(p) ==
  /\ pc[p] = "run" /\ p # Main
  /\ JoinsAll => \A h \in handles : h.by # p

\* SetTaskPri, the exception handler and setjmp.
Start(p) ==
  /\ pc[p] = "start"
  /\ EarlyStart \/ threads[udata[p]].task = p
  /\ Goto(p, "run")
  /\ UNCHANGED <<threads, thread_sem, cur, taskVars, progVars>>

\* p ends with a value that is stored in slot s, and jumps through its jmp_buf.
End(p, s) ==
  /\ threads' = [threads EXCEPT ![s].ret = threads[udata[p]].arg]
  /\ Goto(p, IF s = udata[p] THEN "t_test" ELSE "lost")

\* The start routine returns, or calls pthread_exit or pthread_testcancel.
Return(p) ==
  /\ MayEnd(p)
  /\ End(p, udata[p])
  /\ UNCHANGED <<thread_sem, cur, taskVars, progVars>>

Exit(p) ==
  /\ Exits
  /\ MayEnd(p)
  /\ End(p, Self(p))
  /\ UNCHANGED <<thread_sem, cur, taskVars, progVars>>

TestCancel(p) ==
  /\ pc[p] = "run"
  /\ threads[Self(p)].canceled
  /\ End(p, Self(p))
  /\ UNCHANGED <<thread_sem, cur, taskVars, progVars>>

TestDetached(p) ==
  /\ pc[p] = "t_test"
  /\ IF threads[udata[p]].detached
     THEN Lock(p) /\ Goto(p, "t_free")
     ELSE UNCHANGED thread_sem /\ Goto(p, "t_finish")
  /\ UNCHANGED <<threads, cur, taskVars, progVars>>

Nobody(p) == {}

\* The tasks that learn of the end of p.
Parent(p) == {threads[udata[p]].parent}

Permitted == "t_die"

\* Forbid() lasts until exec has removed the task, so that nobody sees the
\* thread finished and its task still there.
Forbidden == "none"

Finish(p) ==
  /\ pc[p] = "t_finish"
  /\ threads' = [threads EXCEPT ![udata[p]].finished = TRUE]
  /\ parentsig' = [q \in Task |->
                     parentsig[q] \/ (q \in Parent(p) /\ pc[q] # "none")]
  /\ Goto(p, Forbidden)
  /\ UNCHANGED <<thread_sem, cur, udata, child, progVars>>

\* A detached thread clears its slot and runs on to its end.
Free(p) ==
  /\ At(p, "t_free")
  /\ threads' = [threads EXCEPT ![udata[p]] = EmptySlot]
  /\ Unlock
  /\ Goto(p, "t_die")
  /\ UNCHANGED <<cur, taskVars, progVars>>

Die(p) ==
  /\ pc[p] = "t_die"
  /\ Goto(p, "none")
  /\ UNCHANGED <<threads, thread_sem, cur, taskVars, progVars>>

-----------------------------------------------------------------------------
(***************************************************************************)
(* pthread_detach and pthread_cancel of a thread that is still to be       *)
(* joined.                                                                 *)
(***************************************************************************)
\* Has the exit function found the thread in slot s not detached, and not yet
\* looked at it again in pthread_join?
AboutToJoin(s) == pc[Main] \in {"x_parent", "x_detached"} /\ cur[Main] = s

Detach(p) ==
  /\ Detaches
  /\ pc[p] = "run"
  /\ \E h \in handles :
       /\ handles' = handles \ {h}
       /\ IF threads[h.slot].task = NoTask THEN UNCHANGED <<threads, raced>>
          ELSE /\ threads' = [threads EXCEPT ![h.slot].detached = TRUE]
               /\ raced' = IF AboutToJoin(h.slot)
                           THEN raced \cup {h.slot} ELSE raced
  /\ UNCHANGED <<pc, thread_sem, cur, taskVars, wanted, created, exiting>>

Cancel(p) ==
  /\ Cancels
  /\ pc[p] = "run"
  /\ \E h \in handles :
       /\ threads[h.slot].parent # NoTask
       /\ ~threads[h.slot].canceled
       /\ threads' = [threads EXCEPT ![h.slot].canceled = TRUE]
  /\ UNCHANGED <<pc, thread_sem, cur, taskVars, progVars>>

-----------------------------------------------------------------------------
(***************************************************************************)
(* pthread_join, called by the program with a handle, or by                *)
(* __pthread_Exit_Func with every slot in turn.  SIGF_PARENT tells that    *)
(* some child of the task has finished.                                    *)
(***************************************************************************)
\* A join answers ESRCH for a slot that nobody has created a thread in.
InUse(s) == threads[s].parent # NoTask

Join(p) ==
  /\ pc[p] = "run" /\ p \in Joiners
  /\ \E h \in handles :
       /\ JoinsAll => h.by = p
       /\ handles' = handles \ {h}
       /\ cur' = [cur EXCEPT ![p] = h.slot]
       /\ wanted' = [wanted EXCEPT ![p] = h.thread]
       /\ IF ~InUse(h.slot) \/ threads[h.slot].detached
          THEN UNCHANGED <<pc, threads>>
          ELSE IF threads[Self(p)].canceled THEN End(p, Self(p))
          ELSE Goto(p, "j_test") /\ UNCHANGED threads
  /\ UNCHANGED <<thread_sem, taskVars, created, exiting, raced>>

FinishedOrSignal(p) == threads[cur[p]].finished \/ parentsig[p]

Finished(p) == threads[cur[p]].finished

JoinTest(p) ==
  /\ pc[p] = "j_test"
  /\ IF Finished(p)
     THEN Lock(p) /\ Goto(p, "j_clear")
     ELSE UNCHANGED thread_sem /\ Goto(p, "j_sleep")
  /\ UNCHANGED <<threads, cur, taskVars, progVars>>

JoinSleep(p) ==
  /\ pc[p] = "j_sleep"
  /\ parentsig[p]
  /\ parentsig' = [parentsig EXCEPT ![p] = FALSE]
  /\ Goto(p, "j_test")
  /\ UNCHANGED <<threads, thread_sem, cur, udata, child, progVars>>

JoinClear(p) ==
  /\ At(p, "j_clear")
  /\ threads' = [threads EXCEPT ![cur[p]] = EmptySlot]
  /\ Unlock
  /\ IF p = Main /\ exiting
     THEN Goto(p, "x_scan") /\ cur' = [cur EXCEPT ![p] = @ + 1]
     ELSE Goto(p, "run") /\ UNCHANGED cur
  /\ UNCHANGED <<taskVars, progVars>>

-----------------------------------------------------------------------------
(***************************************************************************)
(* __pthread_Exit_Func, when main() has returned.                          *)
(***************************************************************************)
ExitFunc ==
  /\ pc[Main] = "run"
  /\ JoinsAll => \A h \in handles : h.by = Main => h.slot = 1
  /\ exiting' = TRUE
  /\ cur' = [cur EXCEPT ![Main] = 1]
  /\ Goto(Main, "x_scan")
  /\ UNCHANGED <<threads, thread_sem, taskVars, wanted, handles, created, raced>>

ScanEnds ==
  /\ cur[Main] = PTHREAD_THREADS_MAX
  /\ Goto(Main, "unloaded")
  /\ UNCHANGED cur

ScanSlotJoinsAll ==
  /\ cur[Main] < PTHREAD_THREADS_MAX
  /\ Goto(Main, "x_parent")
  /\ UNCHANGED cur

\* A detached thread is waited for in the Delay loop, any other slot is given
\* to pthread_join.
ScanSlot ==
  /\ cur[Main] < PTHREAD_THREADS_MAX
  /\ Goto(Main, IF threads[cur[Main]].detached THEN "x_delay" ELSE "x_parent")
  /\ UNCHANGED cur

Scan ==
  /\ pc[Main] = "x_scan"
  /\ ScanEnds \/ ScanSlot
  /\ UNCHANGED <<threads, thread_sem, taskVars, progVars>>

PassSlot ==
  /\ Goto(Main, "x_scan")
  /\ cur' = [cur EXCEPT ![Main] = @ + 1]

\* The tests of pthread_join, without a lock; its answer, ESRCH or EINVAL, is
\* not looked at.
ScanParent ==
  /\ pc[Main] = "x_parent"
  /\ IF InUse(cur[Main]) THEN Goto(Main, "x_detached") /\ UNCHANGED cur
     ELSE PassSlot
  /\ UNCHANGED <<threads, thread_sem, taskVars, progVars>>

ScanDetached ==
  /\ pc[Main] = "x_detached"
  /\ IF threads[cur[Main]].detached THEN PassSlot
     ELSE Goto(Main, "j_test") /\ UNCHANGED cur
  /\ UNCHANGED <<threads, thread_sem, taskVars, progVars>>

\* The Delay loop ends when the detached thread has cleared its slot.
ScanDelay ==
  /\ pc[Main] = "x_delay"
  /\ threads[cur[Main]].task = NoTask
  /\ PassSlot
  /\ UNCHANGED <<threads, thread_sem, taskVars, progVars>>

-----------------------------------------------------------------------------
\* What a task does of its own once it is inside a call, and what a program
\* whose threads end must sooner or later do.
Step(p) ==
  \/ Grab(p) \/ GrabFails(p) \/ Spawn(p) \/ SpawnFails(p) \/ Assign(p)
  \/ Check(p)
  \/ Start(p) \/ Return(p) \/ Exit(p) \/ TestCancel(p)
  \/ TestDetached(p) \/ Finish(p) \/ Free(p) \/ Die(p)
  \/ Join(p) \/ JoinTest(p) \/ JoinSleep(p) \/ JoinClear(p)

ExitStep == Scan \/ ScanDelay \/ ScanParent \/ ScanDetached

Next ==
  \/ \E p \in Task : Create(p) \/ Step(p) \/ Detach(p) \/ Cancel(p)
  \/ ExitFunc
  \/ ExitStep

Spec == Init /\ [][Next]_vars

FairSpec == Spec /\ WF_vars(ExitStep) /\ \A p \in Task : WF_vars(Step(p))

-----------------------------------------------------------------------------
(***************************************************************************)
(* Properties                                                              *)
(***************************************************************************)
Points == {"none", "start", "run", "c_grab", "c_spawn", "c_assign", "c_check",
           "j_test", "j_sleep", "j_clear", "t_test", "t_finish", "t_free",
           "t_die", "x_scan", "x_delay", "x_parent", "x_detached", "unloaded",
           "lost"}

\* Every variable has its type.
TypeOK ==
  /\ pc \in [Task -> Points]
  /\ threads \in [Slot -> SlotType]
  /\ thread_sem \in Semaphore
  /\ udata \in [Task -> Slot]
  /\ parentsig \in [Task -> BOOLEAN]
  /\ cur \in [Task -> Slot \cup {PTHREAD_THREADS_MAX}]
  /\ child \in [Task -> Task \cup {NoTask}]
  /\ wanted \in [Task -> Thread]
  /\ handles \subseteq [slot : Slot, thread : Thread, by : Task]
  /\ created \in Thread
  /\ exiting \in BOOLEAN
  /\ raced \subseteq Slot

\* p still needs its ThreadInfo: it was started and has not cleared the slot.
UsesSlot(p) == p # Main /\ pc[p] \notin {"none", "t_die"}

\* No step of another task gives away, clears or changes the owner of the slot
\* of a thread that is still running.
SlotKept ==
  [][\A p \in Task :
       UsesSlot(p) /\ pc'[p] = pc[p]
         => /\ threads'[udata[p]].arg = threads[udata[p]].arg
            /\ threads'[udata[p]].parent = threads[udata[p]].parent]_vars

\* pthread_join gives its caller the value of the thread it was called for,
\* though slots and task addresses are used again.
JoinGetsItsThread ==
  [][\A p \in Task :
       pc[p] = "j_test" /\ pc'[p] = "j_clear" /\ ~(p = Main /\ exiting)
         => threads[cur[p]].ret = wanted[p]]_vars

\* The memory of the program is only given back when no thread runs in it.
NoUnloadedCode ==
  pc[Main] = "unloaded" => \A p \in Task \ {Main} : pc[p] = "none"

\* When only main creates threads, the exit function waits for all of them,
\* detached or not.  Who still uses its slot when the program is unloaded was
\* detached between the test of its flag in the exit function and the one in
\* pthread_join, and in no other moment.
NoThreadLeft ==
  pc[Main] = "unloaded" =>
    \A p \in Task : UsesSlot(p) => udata[p] \in raced

\* A thread that uses its slot has a parent that is there: who joins its
\* children outlives them, and they never signal a task that has gone, or a
\* new one at its address.
ParentIsThere ==
  \A p \in Task :
    UsesSlot(p) => \E q \in Task : /\ q = threads[udata[p]].parent
                                  /\ pc[q] \notin {"none", "t_die", "unloaded"}

\* A call of pthread_join returns, and the program gets through
\* __pthread_Exit_Func.
CallsReturn ==
  /\ \A p \in Task : (pc[p] = "j_test") ~> (pc[p] \in {"run", "x_scan"})
  /\ exiting ~> (pc[Main] = "unloaded")

=============================================================================
