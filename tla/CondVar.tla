------------------------------- MODULE CondVar -------------------------------
(***************************************************************************)
(* The mutex and condition variable layer of src/pthreads/pthread.c, as    *)
(* the steps of a task that waits for a condition.  Modules of the objects *)
(* built on it (semaphore.c, the barriers) extend this module, add their   *)
(* own control points and compose its actions with theirs.                 *)
(*                                                                         *)
(* A step ends where the task may have to wait: in ObtainSemaphore, or in  *)
(* Wait.  A task that asks for the mutex moves to its next control point   *)
(* at once; it takes the step from there when it is Ready, that is, when   *)
(* exec has made it the owner.  The list of waiters is only touched under  *)
(* cond->semaphore, which no task keeps across a step.                     *)
(***************************************************************************)
EXTENDS SignalSemaphore, SequencesExt

CONSTANTS
  FreeSignals,   \* how many signal bits AllocSignal can still give a task
  Breakable,     \* the tasks to which someone may send SIGBREAKF_CTRL_C
  Cancellable    \* the tasks some thread may pass to pthread_cancel

ASSUME FreeSignalsAssumption == FreeSignals \in [Task -> Nat]

VARIABLES
  pc,         \* the control point of each task
  after,      \* where a task continues when its condition wait returns
  mutex,      \* mutex->semaphore
  incond,     \* mutex->incond
  waiters,    \* cond->waiters, the tasks of the list in order
  sig,        \* tc_SigRecvd: the signals a task has received
  got,        \* the signals Wait returned to a task
  timer,      \* the timer request of a task's timed wait
  deadline,   \* where abstime lies; "none" is abstime == NULL
  canceled,   \* inf->canceled of each task
  result      \* the value a task's call will return, "ok" is 0

condVars == <<pc, after, mutex, incond, waiters, sig, got, timer, deadline,
              canceled, result>>

\* What the calls of the objects leave alone outside the condition wait.
waitVars == <<after, incond, waiters, got, timer, canceled>>

Signals == {"cond", "ctrlE", "timer", "ctrlD", "ctrlC"}
Deadlines == {"none", "ahead", "passed"}
Results == {"ok", "ETIMEDOUT", "EINVAL", "EAGAIN", "EOVERFLOW"}

-----------------------------------------------------------------------------
(***************************************************************************)
(* Which signal bits a wait uses.  The timer's port asks for one first,    *)
(* the waiter node next; when AllocSignal has none left the fallback bits  *)
(* SIGBREAKF_CTRL_D and SIGBREAKF_CTRL_E are used.                         *)
(***************************************************************************)
Timed(t) == deadline[t] # "none"

TimerBit(t) == IF FreeSignals[t] >= 1 THEN "timer" ELSE "ctrlD"

CondBit(t) ==
  IF FreeSignals[t] >= (IF Timed(t) THEN 2 ELSE 1) THEN "cond" ELSE "ctrlE"

TimerMask(t) == IF Timed(t) THEN {TimerBit(t)} ELSE {}

\* The signals the Wait of a condition wait returns for.
WaitMask(t) == {"ctrlC", CondBit(t)} \cup TimerMask(t)

\* AllocSignal clears the bits it gives away; SetSignal(SIGF_..., 0) has an
\* empty mask and leaves a stale fallback bit set.
StaleAfterAlloc(t) == sig[t] \ {"cond", "timer"}

-----------------------------------------------------------------------------
(***************************************************************************)
(* The mutex.  It is of the default kind and already initialised, so       *)
(* pthread_mutex_lock is ObtainSemaphore and pthread_mutex_unlock is       *)
(* ReleaseSemaphore.                                                       *)
(***************************************************************************)
Ready(t) == ~Queued(mutex, t)

Lock(t) == mutex' = Obtain(mutex, t)

UnlockForgotten == UNCHANGED mutex
UnlockInits == mutex' = FreeSemaphore

Unlock == mutex' = Release(mutex)

Goto(t, k) == pc' = [pc EXCEPT ![t] = k]

\* t is at control point k and is not waiting for the mutex.
At(t, k) == pc[t] = k /\ Ready(t)

\* A step of t that keeps the mutex.
Continue(t, k) ==
  Goto(t, k) /\ UNCHANGED <<waitVars, mutex, sig, deadline, result>>

-----------------------------------------------------------------------------
(***************************************************************************)
(* _pthread_cond_timedwait up to its Wait, by a task that holds the mutex. *)
(***************************************************************************)
\* timer.device does not open, or the time left is exactly zero.
CondGiveUp(t, k) ==
  /\ Timed(t)
  /\ \/ result' = [result EXCEPT ![t] = "EINVAL"]
     \/ /\ deadline[t] = "passed"
        /\ result' = [result EXCEPT ![t] = "ETIMEDOUT"]
  /\ Goto(t, k)
  /\ UNCHANGED <<waitVars, mutex, sig, deadline>>

\* The timer request is sent, the waiter node is added to the list, and the
\* mutex is released.
CondSleep(t, k) ==
  /\ Goto(t, "asleep")
  /\ after' = [after EXCEPT ![t] = k]
  /\ timer' = [timer EXCEPT ![t] = IF Timed(t) THEN "armed" ELSE "off"]
  /\ sig' = [sig EXCEPT ![t] = StaleAfterAlloc(t)]
  /\ waiters' = Append(waiters, t)
  /\ incond' = incond + 1
  /\ Unlock
  /\ UNCHANGED <<got, deadline, canceled, result>>

\* Wait returns; the task asks for the mutex again.
CondWake(t) ==
  /\ pc[t] = "asleep"
  /\ sig[t] \cap WaitMask(t) # {}
  /\ got' = [got EXCEPT ![t] = sig[t] \cap WaitMask(t)]
  /\ sig' = [sig EXCEPT ![t] = @ \ WaitMask(t)]
  /\ Lock(t)
  /\ Goto(t, "relock")
  /\ UNCHANGED <<after, incond, waiters, timer, deadline, canceled, result>>

-----------------------------------------------------------------------------
(***************************************************************************)
(* _pthread_cond_timedwait from its pthread_mutex_lock to its return.      *)
(* A request that is still pending is aborted, and its reply leaves the    *)
(* port's signal set.  The timeout is looked at before the cancellation,   *)
(* and neither looks at the condition's own signal.  A cancelled task      *)
(* exits with the mutex in its hands.                                      *)
(***************************************************************************)
DropWaiter(t) ==
  \E i \in 1..Len(waiters) :
    /\ waiters[i] = t
    /\ waiters' = RemoveAt(waiters, i)

CloseTimer(t) ==
  /\ timer' = [timer EXCEPT ![t] = "off"]
  /\ sig' = [sig EXCEPT ![t] =
               IF timer[t] = "armed" THEN @ \cup {TimerBit(t)} ELSE @]

TimedOutUnlessSignalled(t) == Timed(t) /\ CondBit(t) \notin got[t]

TimedOut(t) == got[t] \cap TimerMask(t) # {}
Canceled(t) == "ctrlC" \in got[t] /\ canceled[t] /\ ~TimedOut(t)

CondReturn(t) ==
  /\ At(t, "relock")
  /\ incond' = incond - 1
  /\ DropWaiter(t)
  /\ CloseTimer(t)
  /\ got' = [got EXCEPT ![t] = {}]
  /\ result' = [result EXCEPT ![t] = IF TimedOut(t) THEN "ETIMEDOUT" ELSE "ok"]
  /\ Goto(t, IF Canceled(t) THEN "exited" ELSE after[t])
  /\ UNCHANGED <<after, mutex, deadline, canceled>>

-----------------------------------------------------------------------------
(***************************************************************************)
(* _pthread_cond_broadcast: the signals after it has walked the list.  A   *)
(* waiter that was signalled before stays in the list until it has the     *)
(* mutex again, and is signalled once more.                                *)
(***************************************************************************)
SignalledAlone(t, onlyfirst) == Len(waiters) > 0 /\ waiters[1] = t

Signalled(t, onlyfirst) ==
  \E i \in 1..Len(waiters) : waiters[i] = t /\ (onlyfirst => i = 1)

SignalWaiters(onlyfirst) ==
  [t \in Task |-> IF Signalled(t, onlyfirst) THEN sig[t] \cup {CondBit(t)}
                                            ELSE sig[t]]

-----------------------------------------------------------------------------
(***************************************************************************)
(* What happens to a waiting task from outside: the clock, the timer, a    *)
(* break signal that cancels nothing, and pthread_cancel.                  *)
(***************************************************************************)
DeadlinePasses(t) ==
  /\ deadline[t] = "ahead"
  /\ deadline' = [deadline EXCEPT ![t] = "passed"]
  /\ UNCHANGED <<waitVars, pc, mutex, sig, result>>

TimerFires(t) ==
  /\ timer[t] = "armed"
  /\ deadline[t] = "passed"
  /\ timer' = [timer EXCEPT ![t] = "fired"]
  /\ sig' = [sig EXCEPT ![t] = @ \cup {TimerBit(t)}]
  /\ UNCHANGED <<pc, after, mutex, incond, waiters, got, deadline, canceled,
                 result>>

Break(t) ==
  /\ t \in Breakable
  /\ sig' = [sig EXCEPT ![t] = @ \cup {"ctrlC"}]
  /\ UNCHANGED <<waitVars, pc, mutex, deadline, result>>

Cancel(t) ==
  /\ t \in Cancellable
  /\ ~canceled[t]
  /\ canceled' = [canceled EXCEPT ![t] = TRUE]
  /\ sig' = [sig EXCEPT ![t] = @ \cup {"ctrlC"}]
  /\ UNCHANGED <<pc, after, mutex, incond, waiters, got, timer, deadline,
                 result>>

Outside(t) == DeadlinePasses(t) \/ TimerFires(t) \/ Break(t) \/ Cancel(t)

-----------------------------------------------------------------------------
CondInit(idle) ==
  /\ pc = [t \in Task |-> idle]
  /\ after = [t \in Task |-> idle]
  /\ mutex = FreeSemaphore
  /\ incond = 0
  /\ waiters = <<>>
  /\ sig = [t \in Task |-> {}]
  /\ got = [t \in Task |-> {}]
  /\ timer = [t \in Task |-> "off"]
  /\ deadline = [t \in Task |-> "none"]
  /\ canceled = [t \in Task |-> FALSE]
  /\ result = [t \in Task |-> "ok"]

\* The part of the type invariant that belongs to this layer; Points are the
\* control points of the object built on it.
CondTypeOK(Points) ==
  /\ pc \in [Task -> Points \cup {"asleep", "relock", "exited"}]
  /\ after \in [Task -> Points]
  /\ mutex \in Semaphore
  /\ incond \in Nat
  /\ waiters \in Seq(Task)
  /\ sig \in [Task -> SUBSET Signals]
  /\ got \in [Task -> SUBSET Signals]
  /\ timer \in [Task -> {"off", "armed", "fired"}]
  /\ deadline \in [Task -> Deadlines]
  /\ canceled \in [Task -> BOOLEAN]
  /\ result \in [Task -> Results]

\* A task that was cancelled in a condition wait has ended with the mutex.
LockLost == \E t \in Task : pc[t] = "exited"

=============================================================================
