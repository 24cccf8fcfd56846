------------------------------ MODULE PosixSem ------------------------------
(***************************************************************************)
(* The semaphores of src/pthreads/semaphore.c: sem_wait, sem_timedwait,    *)
(* sem_trywait, sem_post and sem_getvalue on one initialised semaphore.    *)
(* The control points of a task are                                        *)
(*   idle                        outside the calls                         *)
(*   w_enter  w_loop  w_leave    sem_timedwait, before, in and behind its  *)
(*                               loop (asleep and relock lie inside it)    *)
(*   t_test   t_take             sem_trywait                               *)
(*   p_test   p_incr             sem_post                                  *)
(*   g_read   g_busy             sem_getvalue with and without the lock    *)
(* A task at any of them but idle and g_busy holds sem->lock or waits for  *)
(* it.  A step of the code is a step here, so that two tasks inside the    *)
(* lock at once would be seen to corrupt the counters.                     *)
(***************************************************************************)
EXTENDS CondVar

CONSTANTS Program,       \* the calls each task makes
          InitValue,     \* the value given to sem_init
          SEM_VALUE_MAX

ASSUME TaskAssumption == IsFiniteSet(Task)

ASSUME ValueAssumption ==
  /\ SEM_VALUE_MAX \in Nat
  /\ InitValue \in 0..SEM_VALUE_MAX

VARIABLES value,           \* sem->value
          waiters_count,   \* sem->waiters_count
          sval             \* what sem_getvalue stored last

vars == <<condVars, value, waiters_count, sval>>

semVars == <<value, waiters_count, sval>>

SemPoints == {"idle", "w_enter", "w_loop", "w_leave", "t_test", "t_take",
              "p_test", "p_incr", "g_read", "g_busy"}

-----------------------------------------------------------------------------
Init ==
  /\ CondInit("idle")
  /\ value = InitValue
  /\ waiters_count = 0
  /\ sval = 0

\* A call, up to its pthread_mutex_lock.
Enter(t, k, d) ==
  /\ pc[t] = "idle"
  /\ Goto(t, k)
  /\ deadline' = [deadline EXCEPT ![t] = d]
  /\ result' = [result EXCEPT ![t] = "ok"]
  /\ Lock(t)
  /\ UNCHANGED <<waitVars, sig, semVars>>

\* A call from its pthread_mutex_unlock on; r is what it answers.
Return(t, r) ==
  /\ Unlock
  /\ Goto(t, "idle")
  /\ deadline' = [deadline EXCEPT ![t] = "none"]
  /\ result' = [result EXCEPT ![t] = r]
  /\ UNCHANGED waitVars

-----------------------------------------------------------------------------
(***************************************************************************)
(* sem_timedwait, and sem_wait, which passes no abstime.                   *)
(***************************************************************************)
WaitCall(t) ==
  \/ "sem_wait" \in Program[t] /\ Enter(t, "w_enter", "none")
  \/ /\ "sem_timedwait" \in Program[t]
     /\ \E d \in {"ahead", "passed"} : Enter(t, "w_enter", d)

WaitEnter(t) ==
  /\ At(t, "w_enter")
  /\ waiters_count' = waiters_count + 1
  /\ Continue(t, "w_loop")
  /\ UNCHANGED <<value, sval>>

WaitLoop(t) ==
  /\ At(t, "w_loop")
  /\ IF value = 0 /\ result[t] = "ok"
     THEN CondSleep(t, "w_loop") \/ CondGiveUp(t, "w_loop")
     ELSE Continue(t, "w_leave")
  /\ UNCHANGED semVars

CountAfterFailure(t) ==
  IF result[t] = "ok" THEN waiters_count - 1 ELSE waiters_count

CountAfterWait(t) == waiters_count - 1

WaitLeave(t) ==
  /\ At(t, "w_leave")
  /\ waiters_count' = CountAfterWait(t)
  /\ value' = IF result[t] = "ok" THEN value - 1 ELSE value
  /\ Return(t, result[t])
  /\ UNCHANGED <<sig, sval>>

-----------------------------------------------------------------------------
(***************************************************************************)
(* sem_trywait                                                             *)
(***************************************************************************)
TryCall(t) == "sem_trywait" \in Program[t] /\ Enter(t, "t_test", "none")

AvailableAtZero == value >= 0

Available == value > 0

TryTest(t) ==
  /\ At(t, "t_test")
  /\ IF Available THEN Continue(t, "t_take")
                  ELSE Return(t, "EAGAIN") /\ UNCHANGED sig
  /\ UNCHANGED semVars

TryTake(t) ==
  /\ At(t, "t_take")
  /\ value' = value - 1
  /\ Return(t, "ok")
  /\ UNCHANGED <<sig, waiters_count, sval>>

-----------------------------------------------------------------------------
(***************************************************************************)
(* sem_post                                                                *)
(***************************************************************************)
PostCall(t) == "sem_post" \in Program[t] /\ Enter(t, "p_test", "none")

BeyondLimit == value > SEM_VALUE_MAX

AtLimit == value >= SEM_VALUE_MAX

PostTest(t) ==
  /\ At(t, "p_test")
  /\ IF AtLimit THEN Return(t, "EOVERFLOW") /\ UNCHANGED sig
                ELSE Continue(t, "p_incr")
  /\ UNCHANGED semVars

SeveralWait == waiters_count > 1

SomebodyWaits == waiters_count > 0

PostIncr(t) ==
  /\ At(t, "p_incr")
  /\ value' = value + 1
  /\ sig' = IF SomebodyWaits THEN SignalWaiters(TRUE) ELSE sig
  /\ Return(t, "ok")
  /\ UNCHANGED <<waiters_count, sval>>

-----------------------------------------------------------------------------
(***************************************************************************)
(* sem_getvalue: when the lock is taken it reads waiters_count without it. *)
(***************************************************************************)
GetCall(t) ==
  /\ "sem_getvalue" \in Program[t]
  /\ pc[t] = "idle"
  /\ IF Attempts(mutex, t)
     THEN Lock(t) /\ Goto(t, "g_read")
     ELSE UNCHANGED mutex /\ Goto(t, "g_busy")
  /\ UNCHANGED <<waitVars, sig, deadline, result, semVars>>

GetRead(t) ==
  /\ At(t, "g_read")
  /\ sval' = IF incond > 0 THEN -waiters_count ELSE value
  /\ Return(t, result[t])
  /\ UNCHANGED <<sig, value, waiters_count>>

GetBusy(t) ==
  /\ pc[t] = "g_busy"
  /\ sval' = -waiters_count
  /\ Continue(t, "idle")
  /\ UNCHANGED <<value, waiters_count>>

-----------------------------------------------------------------------------
Call(t) == WaitCall(t) \/ TryCall(t) \/ PostCall(t) \/ GetCall(t)

\* A condition wait as a step of this module.
CondStep(t) ==
  /\ CondWake(t) \/ CondReturn(t)
  /\ UNCHANGED semVars

Step(t) ==
  \/ WaitEnter(t) \/ WaitLoop(t) \/ WaitLeave(t)
  \/ TryTest(t) \/ TryTake(t)
  \/ PostTest(t) \/ PostIncr(t)
  \/ GetRead(t) \/ GetBusy(t)
  \/ CondStep(t)

Environment(t) == Outside(t) /\ UNCHANGED semVars

Next == \E t \in Task : Call(t) \/ Step(t) \/ Environment(t)

Spec == Init /\ [][Next]_vars

\* exec runs tasks of one priority in turns, so a task that can take a step
\* takes it.  No task has to make a call, and nothing outside has to happen.
FairSpec == Spec /\ \A t \in Task : WF_vars(Step(t))

-----------------------------------------------------------------------------
(***************************************************************************)
(* Properties                                                              *)
(***************************************************************************)
\* Every variable has its type; in particular the counters stay inside the
\* range of their int, whatever calls, timeouts and cancellations there are.
TypeOK ==
  /\ CondTypeOK(SemPoints)
  /\ value \in 0..SEM_VALUE_MAX
  /\ waiters_count \in Nat
  /\ sval \in Int

\* t has asked for sem->lock and has not released it since.
Locking(t) == pc[t] \notin {"idle", "g_busy", "asleep"}

\* The hand-over of sem->lock, through condition waits that release and ask
\* for it again, never lets two tasks into the code between a
\* pthread_mutex_lock and the matching unlock of semaphore.c.
MutualExclusion ==
  \A t, u \in Task :
    Locking(t) /\ Ready(t) /\ Locking(u) /\ Ready(u) => t = u

\* waiters_count counts the tasks inside the loop of sem_timedwait, and
\* every task in the list of the condition is one of them, so sem_post never
\* sees 0 while there is somebody to signal.  A task cancelled in its wait
\* never leaves the count again: it exits without the decrement.
InTimedwait(t) ==
  pc[t] \in {"w_loop", "asleep", "relock", "w_leave", "exited"}

WaitersAccounted ==
  /\ waiters_count = Cardinality({t \in Task : InTimedwait(t)})
  /\ incond = Len(waiters)
  /\ ToSet(waiters) = {t \in Task : pc[t] \in {"asleep", "relock"}}

\* t learns that its call timed out.
TimesOut(t) == result[t] # "ETIMEDOUT" /\ result'[t] = "ETIMEDOUT"

\* sem_timedwait answers ETIMEDOUT only when abstime has passed, unless the
\* task had no signal bit left for its timer: the fallback bit may be stale.
TimeoutIsLate ==
  [][\A t \in Task :
       FreeSignals[t] > 0 /\ TimesOut(t) => deadline[t] = "passed"]_vars

\* The calls of semaphore.c have the effect of the atomic calls of a counting
\* semaphore.  A call takes its effect in the step that changes sem->value or
\* gives up; what a call will return is not visible before that.
CallOf(t) ==
  CASE pc[t] \in {"idle", "g_read", "g_busy"} -> "none"
    [] pc[t] \in {"t_test", "t_take"}         -> "sem_trywait"
    [] pc[t] \in {"p_test", "p_incr"}         -> "sem_post"
    [] pc[t] = "exited"                       -> "gone"
    [] OTHER -> IF Timed(t) THEN "sem_timedwait" ELSE "sem_wait"

AnswerOf(t) == IF CallOf(t) = "none" THEN result[t] ELSE "ok"

Abstract ==
  INSTANCE CountingSem WITH count <- value,
                            call <- [t \in Task |-> CallOf(t)],
                            answer <- [t \in Task |-> AnswerOf(t)]

ImplementsCountingSem == Abstract!Spec

\* A task asleep in sem_wait does not sleep on while the semaphore is
\* available: it wakes up, or other tasks take the whole count.
SleeperWakes ==
  \A t \in Task :
    (pc[t] = "asleep" /\ value > 0) ~> (pc[t] # "asleep" \/ value = 0)

\* Every call that does not wait for a count gets through the lock.
CallsReturn ==
  \A t \in Task :
    (pc[t] \in {"t_test", "p_test", "g_read", "g_busy", "w_leave"})
      ~> (pc[t] = "idle")

=============================================================================
