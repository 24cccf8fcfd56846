-------------------------------- MODULE Locks --------------------------------
(***************************************************************************)
(* The mutexes and the read-write locks of src/pthreads/pthread.c: plain,  *)
(* try and timed requests, unlock, destroy, and the initialisation of a    *)
(* static object by its first call.  Both kinds of objects are a signal    *)
(* semaphore; an instance has one object, of one of the Kinds.             *)
(*                                                                         *)
(* _obtain_sema_timed is modelled as it is compiled for AROS and MorphOS,  *)
(* with Procure and Vacate.  The program keeps to the rules of POSIX: it   *)
(* unlocks a normal mutex or a read-write lock only while it holds it,     *)
(* does not ask for one mode of a read-write lock while it holds the       *)
(* other, and calls nothing on an object it has destroyed.  It may have to *)
(* leave the first calls on a static object to one of its tasks.           *)
(***************************************************************************)
EXTENDS SignalSemaphore

CONSTANTS
  Kinds,     \* the kinds of the object: mutex kinds or "RWLOCK"
  Static,    \* whether the object may be statically initialised, or not
  Starters,  \* the tasks that may make the first calls on a static object
  Program,   \* the calls each task makes, over and over
  MaxHeld,   \* bound: how many locks a task may hold at a time
  MaxNest    \* bound: no further request is made from this ss_NestCount on

AllKinds == {"NORMAL", "RECURSIVE", "ERRORCHECK", "RWLOCK"}
Form == {"plain", "try", "timed", "unlock"}
Calls == [form : Form, shared : BOOLEAN]

\* The value of call[t] between the calls of t.
NoCall == [form |-> "plain", shared |-> FALSE]

ASSUME KindsAssumption == Kinds \subseteq AllKinds
ASSUME StaticAssumption == Static \subseteq BOOLEAN /\ Starters \subseteq Task
ASSUME ProgramAssumption == Program \in [Task -> SUBSET Calls]

VARIABLES
  kind,      \* mutex->kind, or "RWLOCK"
  valid,     \* ~SemaphoreIsInvalid
  sema,      \* the semaphore of the object
  destroyed, \* the program has destroyed the object
  pc,        \* the control point of each task
  call,      \* the call each task is in
  timer,     \* the timer request of a task's timed call
  reads,     \* how many shared locks the program knows a task to hold
  writes     \* how many exclusive locks the program knows a task to hold

objVars == <<kind, valid, destroyed>>
heldVars == <<reads, writes>>
vars == <<objVars, sema, pc, call, timer, heldVars>>

IsMutex == kind # "RWLOCK"
Held(t) == reads[t] + writes[t]

\* SemaphoreIsMine
Mine(t) == sema.nest > 0 /\ sema.owner = t

Goto(t, k) == pc' = [pc EXCEPT ![t] = k]

\* t is at k in a call of the given form.
In(t, k, form) == pc[t] = k /\ call[t].form = form

-----------------------------------------------------------------------------
Init ==
  /\ kind \in Kinds
  /\ valid \in {~s : s \in Static}
  /\ sema = FreeSemaphore
  /\ destroyed = FALSE
  /\ pc = [t \in Task |-> "idle"]
  /\ call = [t \in Task |-> NoCall]
  /\ timer = [t \in Task |-> "off"]
  /\ reads = [t \in Task |-> 0]
  /\ writes = [t \in Task |-> 0]

\* What a program that keeps to the rules may call.
MayCall(t, c) ==
  /\ c \in Program[t]
  /\ valid \/ t \in Starters
  /\ IsMutex => ~c.shared
  /\ IF c.form = "unlock"
     THEN (c.shared <=> reads[t] > 0)
          /\ (kind \in {"NORMAL", "RWLOCK"} => Held(t) > 0)
     ELSE /\ Held(t) < MaxHeld
          /\ sema.nest < MaxNest
          /\ IF c.shared THEN writes[t] = 0 ELSE reads[t] = 0

\* A call up to its test of SemaphoreIsInvalid.
Call(t) ==
  \E c \in Calls :
    /\ pc[t] = "idle"
    /\ ~destroyed
    /\ MayCall(t, c)
    /\ call' = [call EXCEPT ![t] = c]
    /\ Goto(t, IF valid THEN "begin" ELSE "init")
    /\ UNCHANGED <<objVars, sema, timer, heldVars>>

\* The first call initialises a static object; nothing keeps a second task
\* that has made the same test from doing it again.
InitStatic(t) ==
  /\ pc[t] = "init"
  /\ sema' = FreeSemaphore
  /\ valid' = TRUE
  /\ Goto(t, "begin")
  /\ UNCHANGED <<kind, destroyed, call, timer, heldVars>>

-----------------------------------------------------------------------------
\* A call of t ends, and with it its timer request.
Return(t) ==
  /\ Goto(t, "idle")
  /\ call' = [call EXCEPT ![t] = NoCall]
  /\ timer' = [timer EXCEPT ![t] = "off"]
  /\ UNCHANGED objVars

\* The call returns 0 and t has one lock more.
Acquire(t) ==
  /\ Return(t)
  /\ IF call[t].shared
     THEN reads' = [reads EXCEPT ![t] = @ + 1] /\ UNCHANGED writes
     ELSE writes' = [writes EXCEPT ![t] = @ + 1] /\ UNCHANGED reads

\* The call returns an error.
Fail(t) == Return(t) /\ UNCHANGED heldVars

ObtainFor(t) == sema' = ObtainMode(sema, t, call[t].shared)

\* The tests of the mutex calls for a task that has the mutex already.
MutexRefuses(t) ==
  /\ Mine(t)
  /\ IF call[t].form = "plain" THEN kind = "ERRORCHECK"
                               ELSE kind # "RECURSIVE"

\* pthread_rwlock_wrlock is the only call on a read-write lock that tests.
RWRefuses(t) == Mine(t) /\ call[t].form = "plain" /\ ~call[t].shared

Refused(t) == IF IsMutex THEN MutexRefuses(t) ELSE RWRefuses(t)

Refuse(t) ==
  /\ pc[t] = "begin"
  /\ call[t].form # "unlock"
  /\ Refused(t)
  /\ Fail(t)
  /\ UNCHANGED sema

Enqueue(t) ==
  /\ ~Refused(t)
  /\ ObtainFor(t)
  /\ Goto(t, "wait")
  /\ UNCHANGED <<objVars, call, timer, heldVars>>

\* pthread_mutex_lock
MutexLock(t) == In(t, "begin", "plain") /\ IsMutex /\ Enqueue(t)

\* pthread_rwlock_rdlock, pthread_rwlock_wrlock
RWLock(t) == In(t, "begin", "plain") /\ ~IsMutex /\ Enqueue(t)

LockReturn(t) ==
  /\ pc[t] = "wait"
  /\ ~Queued(sema, t)
  /\ Acquire(t)
  /\ UNCHANGED sema

Free(t) == Grants(sema, t, call[t].shared)

Attempt(t) ==
  /\ ~Refused(t)
  /\ \/ Free(t) /\ ObtainFor(t) /\ Acquire(t)
     \/ ~Free(t) /\ Fail(t) /\ UNCHANGED sema

\* pthread_mutex_trylock
MutexTryLock(t) == In(t, "begin", "try") /\ IsMutex /\ Attempt(t)

\* pthread_rwlock_tryrdlock, pthread_rwlock_trywrlock
RWTryLock(t) == In(t, "begin", "try") /\ ~IsMutex /\ Attempt(t)

-----------------------------------------------------------------------------
(***************************************************************************)
(* The timed calls first try.  A read-write lock returns when the try has  *)
(* succeeded; a mutex does not, and goes on to obtain the semaphore again. *)
(***************************************************************************)
\* pthread_mutex_timedlock
MutexTimedTry(t) ==
  /\ In(t, "begin", "timed")
  /\ IsMutex
  /\ ~Refused(t)
  /\ IF Free(t) THEN ObtainFor(t) ELSE UNCHANGED sema
  /\ Goto(t, "timed")
  /\ UNCHANGED <<objVars, call, timer, heldVars>>

\* pthread_rwlock_timedrdlock, pthread_rwlock_timedwrlock
RWTimedTry(t) ==
  /\ In(t, "begin", "timed")
  /\ ~IsMutex
  /\ \/ Free(t) /\ ObtainFor(t) /\ Acquire(t)
     \/ /\ ~Free(t)
        /\ Goto(t, "timed")
        /\ UNCHANGED <<objVars, sema, call, timer, heldVars>>

\* timer.device does not open, or the time left is exactly zero.
TimedGiveUp(t) ==
  /\ pc[t] = "timed"
  /\ Fail(t)
  /\ UNCHANGED sema

Procure(t) ==
  /\ pc[t] = "timed"
  /\ timer' = [timer EXCEPT ![t] = "armed"]
  /\ ObtainFor(t)
  /\ Goto(t, "port")
  /\ UNCHANGED <<objVars, call, heldVars>>

\* The deadline passes and timer.device answers.
TimerFires(t) ==
  /\ timer[t] = "armed"
  /\ timer' = [timer EXCEPT ![t] = "fired"]
  /\ UNCHANGED <<objVars, sema, pc, call, heldVars>>

ArrivedServed(t) == ~Queued(sema, t)

\* One of the two messages is at the port.
Arrived(t) == ~Queued(sema, t) \/ timer[t] = "fired"

\* WaitPort and both GetMsg
Collect(t) ==
  /\ pc[t] = "port"
  /\ Arrived(t)
  /\ UNCHANGED sema
  /\ \/ timer[t] = "armed" /\ Acquire(t)
     \/ /\ timer[t] = "fired"
        /\ Goto(t, "vacate")
        /\ UNCHANGED <<objVars, call, timer, heldVars>>

\* Vacate, by a task that has got the timer's message, alone or with the
\* other one
TimedOut(t) ==
  /\ pc[t] = "vacate"
  /\ sema' = Vacate(sema, t)
  /\ Fail(t)

-----------------------------------------------------------------------------
\* One lock less; an unlock may succeed although no call gave the lock.
Less(n) == IF n > 0 THEN n - 1 ELSE 0

GiveBack(t) ==
  /\ Return(t)
  /\ sema' = Release(sema)
  /\ IF call[t].shared
     THEN reads' = [reads EXCEPT ![t] = Less(@)] /\ UNCHANGED writes
     ELSE writes' = [writes EXCEPT ![t] = Less(@)] /\ UNCHANGED reads

NotOwnerUnchecked(t) == FALSE

\* pthread_mutex_unlock returns EPERM.
NotOwner(t) == kind # "NORMAL" /\ ~Mine(t)

MutexUnlock(t) ==
  /\ In(t, "begin", "unlock")
  /\ IsMutex
  /\ IF NotOwner(t) THEN Fail(t) /\ UNCHANGED sema ELSE GiveBack(t)

\* pthread_rwlock_unlock only tests that somebody holds the lock.
RWUnlock(t) ==
  /\ In(t, "begin", "unlock")
  /\ ~IsMutex
  /\ IF sema.nest < 1 THEN Fail(t) /\ UNCHANGED sema ELSE GiveBack(t)

\* AttemptSemaphore in pthread_mutex_destroy and pthread_rwlock_destroy
MayDestroy(t) == Grants(sema, t, FALSE)

\* pthread_mutex_destroy, pthread_rwlock_destroy, by a task that holds no
\* lock while nobody is in a call; EBUSY changes nothing.
Destroy(t) ==
  /\ ~destroyed
  /\ Held(t) = 0
  /\ \A u \in Task : pc[u] = "idle"
  /\ valid => MayDestroy(t)
  /\ destroyed' = TRUE
  /\ valid' = FALSE
  /\ sema' = FreeSemaphore
  /\ UNCHANGED <<kind, pc, call, timer, heldVars>>

-----------------------------------------------------------------------------
Step(t) ==
  \/ InitStatic(t) \/ Refuse(t) \/ MutexLock(t) \/ RWLock(t) \/ LockReturn(t)
  \/ MutexTryLock(t) \/ RWTryLock(t) \/ MutexTimedTry(t) \/ RWTimedTry(t)
  \/ TimedGiveUp(t) \/ Procure(t) \/ Collect(t) \/ TimedOut(t)
  \/ MutexUnlock(t) \/ RWUnlock(t)

Next ==
  \E t \in Task : Call(t) \/ Step(t) \/ TimerFires(t) \/ Destroy(t)

Spec == Init /\ [][Next]_vars

\* A ready task runs, and time goes on.
FairSpec ==
  /\ Spec
  /\ \A t \in Task : WF_vars(Step(t)) /\ WF_vars(TimerFires(t))

-----------------------------------------------------------------------------
\* The types of the variables: in particular no unlock takes ss_NestCount
\* below zero, whoever calls it.
TypeOK ==
  /\ kind \in AllKinds
  /\ valid \in BOOLEAN
  /\ destroyed \in BOOLEAN
  /\ sema \in Semaphore
  /\ pc \in [Task -> {"idle", "init", "begin", "wait", "timed", "port",
                      "vacate"}]
  /\ call \in [Task -> Calls]
  /\ timer \in [Task -> {"off", "armed", "fired"}]
  /\ reads \in [Task -> Nat]
  /\ writes \in [Task -> Nat]

\* A lock that was obtained for writing, or a mutex, is nobody else's: not
\* after any race of a timeout with the hand-over of the semaphore, and not
\* after an unlock that served several readers (pthread.c:587-593, 1204).
Exclusive ==
  \A t \in Task : writes[t] > 0 => \A u \in Task \ {t} : Held(u) = 0

\* exec has served the request of a call that has not returned yet.
Busy == {"wait", "port", "vacate"}
Pending(t) == pc[t] \in Busy /\ ~Queued(sema, t)

\* How many requests of each task exec has served: those the program knows
\* of, and the pending one.
Served == [t \in Task |-> Held(t) + IF Pending(t) THEN 1 ELSE 0]

\* One pair for each of these requests.
Taken == UNION {{t} \X (1..Served[t]) : t \in Task}

\* ss_NestCount covers every lock the program has or is about to get, and for
\* a read-write lock nothing else: a timed call that fails leaves neither a
\* request nor a count behind (pthread.c:592-599).  A waiter is always
\* waiting for somebody.
NestAccounted ==
  /\ IF IsMutex THEN sema.nest >= Cardinality(Taken)
                ELSE sema.nest = Cardinality(Taken)
  /\ sema.queue # <<>> => sema.nest > 0
  /\ \A t \in Task : Queued(sema, t) => pc[t] \in Busy

\* A timed call returns, whatever the holder of the lock does: the timer's
\* message gets it out of WaitPort (pthread.c:587-593).
TimedReturns ==
  \A t \in Task : (pc[t] # "idle" /\ call[t].form = "timed") ~> (pc[t] = "idle")

=============================================================================
