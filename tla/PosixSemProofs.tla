--------------------------- MODULE PosixSemProofs ---------------------------
(***************************************************************************)
(* Proofs about PosixSem, for every number of tasks, every program of      *)
(* calls and every supply of signal bits.                                  *)
(***************************************************************************)
EXTENDS PosixSem, SignalSemaphoreProofs, FiniteSetTheorems

\* The variables have their types, but the counters may be any integer.
Typing ==
  /\ pc \in [Task -> SemPoints \cup {"asleep", "relock", "exited"}]
  /\ after \in [Task -> SemPoints]
  /\ incond \in Int
  /\ waiters \in Seq(Task)
  /\ sig \in [Task -> SUBSET Signals]
  /\ got \in [Task -> SUBSET Signals]
  /\ timer \in [Task -> {"off", "armed", "fired"}]
  /\ deadline \in [Task -> Deadlines]
  /\ canceled \in [Task -> BOOLEAN]
  /\ result \in [Task -> Results]
  /\ value \in Int
  /\ waiters_count \in Int
  /\ sval \in Int

\* The control points a task only reaches with the lock in its hands.
Inside == {"w_loop", "w_leave", "t_take", "p_incr", "exited"}

LockingPoint(k) == k \notin {"idle", "g_busy", "asleep"}

\* The lock and the control points agree: exactly the tasks that are between
\* lock and unlock own the semaphore or are queued at it.
LockInv ==
  /\ WellFormed(mutex)
  /\ \A t \in Task : LockingPoint(pc[t]) <=> Involved(mutex, t)
  /\ \A t \in Task : pc[t] \in Inside => mutex.owner = t

\* A condition wait returns to the loop of sem_timedwait.
AfterInv == \A t \in Task : pc[t] \in {"asleep", "relock"} => after[t] = "w_loop"

-----------------------------------------------------------------------------
(***************************************************************************)
(* The steps of a task t as the lock sees them: it asks for the lock, keeps*)
(* it, releases it, or does not touch it.                                  *)
(***************************************************************************)
Asks(t, k) ==
  /\ ~LockingPoint(pc[t])
  /\ LockingPoint(k) /\ k \notin Inside
  /\ Goto(t, k) /\ Lock(t)

Keeps(t, k) ==
  /\ LockingPoint(pc[t]) /\ Ready(t)
  /\ LockingPoint(k)
  /\ Goto(t, k) /\ UNCHANGED mutex

Releases(t, k) ==
  /\ LockingPoint(pc[t]) /\ Ready(t)
  /\ ~LockingPoint(k)
  /\ Goto(t, k) /\ Unlock

Avoids(t, k) ==
  /\ ~LockingPoint(pc[t])
  /\ ~LockingPoint(k)
  /\ Goto(t, k) /\ UNCHANGED mutex

LockStep(t) ==
  \/ \E k : Asks(t, k) \/ Keeps(t, k) \/ Releases(t, k) \/ Avoids(t, k)
  \/ UNCHANGED <<pc, mutex>>

\* A step that asks for, keeps, releases or avoids the lock keeps the lock and
\* the control points in agreement.
LEMMA LockStepLemma ==
  ASSUME Typing, LockInv, NEW t \in Task, LockStep(t)
  PROVE  LockInv'
<1> USE DEF Typing, LockInv, LockingPoint
<1>1. ASSUME NEW k, Asks(t, k) PROVE LockInv'
  <2>1. ~Involved(mutex, t) /\ mutex' = Obtain(mutex, t)
    BY <1>1 DEF Asks, Lock
  <2>2. \A u \in Task : pc'[u] = IF u = t THEN k ELSE pc[u]
    BY <1>1 DEF Asks, Goto
  <2> QED
    BY <1>1, <2>1, <2>2, ObtainLemma DEF Asks
<1>2. ASSUME NEW k, Keeps(t, k) PROVE LockInv'
  <2>1. mutex.owner = t /\ mutex' = mutex /\ Involved(mutex, t)
    BY <1>2, OwnerIsReady DEF Keeps, Ready
  <2>2. \A u \in Task : pc'[u] = IF u = t THEN k ELSE pc[u]
    BY <1>2 DEF Keeps, Goto
  <2> QED
    BY <1>2, <2>1, <2>2 DEF Keeps
<1>3. ASSUME NEW k, Releases(t, k) PROVE LockInv'
  <2>1. mutex.owner = t /\ mutex' = Release(mutex)
    BY <1>3, OwnerIsReady DEF Releases, Ready, Unlock
  <2>2. \A u \in Task : pc'[u] = IF u = t THEN k ELSE pc[u]
    BY <1>3 DEF Releases, Goto
  <2>3. \A u \in Task \ {t} : pc[u] \notin Inside
    BY <2>1
  <2> QED
    BY <1>3, <2>1, <2>2, <2>3, ReleaseLemma DEF Releases, Inside
<1>4. ASSUME NEW k, Avoids(t, k) PROVE LockInv'
  <2>1. \A u \in Task : pc'[u] = IF u = t THEN k ELSE pc[u]
    BY <1>4 DEF Avoids, Goto
  <2> QED
    BY <1>4, <2>1 DEF Avoids, Inside
<1>5. CASE UNCHANGED <<pc, mutex>>
  BY <1>5
<1> QED
  BY <1>1, <1>2, <1>3, <1>4, <1>5 DEF LockStep

\* Every step is one of the four, or leaves the lock and the control points.
LEMMA NextLockStep ==
  ASSUME Typing, AfterInv, NEW t \in Task,
         Call(t) \/ Step(t) \/ Environment(t)
  PROVE  LockStep(t)
<1> USE DEF LockingPoint, Inside
<1>0. (\E k : Asks(t, k) \/ Keeps(t, k) \/ Releases(t, k) \/ Avoids(t, k))
        => LockStep(t)
  BY DEF LockStep
<1>1. CASE Call(t)
  <2>1. WaitCall(t) => Asks(t, "w_enter")
    BY DEF WaitCall, Enter, Asks
  <2>2. TryCall(t) => Asks(t, "t_test")
    BY DEF TryCall, Enter, Asks
  <2>3. PostCall(t) => Asks(t, "p_test")
    BY DEF PostCall, Enter, Asks
  <2>4. GetCall(t) => Asks(t, "g_read") \/ Avoids(t, "g_busy")
    BY DEF GetCall, Asks, Avoids
  <2> QED
    BY <1>0, <1>1, <2>1, <2>2, <2>3, <2>4, Zenon DEF Call
<1>2. CASE Step(t)
  <2>1. WaitEnter(t) => Keeps(t, "w_loop")
    BY DEF WaitEnter, At, Continue, Keeps
  <2>2. WaitLoop(t)
            => \/ Keeps(t, "w_leave") \/ Keeps(t, "w_loop")
               \/ Releases(t, "asleep")
    BY DEF WaitLoop, At, Continue, CondSleep, CondGiveUp, Keeps, Releases
  <2>3. WaitLeave(t) => Releases(t, "idle")
    BY DEF WaitLeave, At, Return, Releases
  <2>4. TryTest(t) => Keeps(t, "t_take") \/ Releases(t, "idle")
    BY DEF TryTest, At, Continue, Return, Keeps, Releases
  <2>5. TryTake(t) => Releases(t, "idle")
    BY DEF TryTake, At, Return, Releases
  <2>6. PostTest(t) => Keeps(t, "p_incr") \/ Releases(t, "idle")
    BY DEF PostTest, At, Continue, Return, Keeps, Releases
  <2>7. PostIncr(t) => Releases(t, "idle")
    BY DEF PostIncr, At, Return, Releases
  <2>8. GetRead(t) => Releases(t, "idle")
    BY DEF GetRead, At, Return, Releases
  <2>9. GetBusy(t) => Avoids(t, "idle")
    BY DEF GetBusy, Continue, Avoids
  <2>10. CondWake(t) => Asks(t, "relock")
    BY DEF CondWake, Asks
  <2>11. CondReturn(t) => Keeps(t, "w_loop") \/ Keeps(t, "exited")
    BY DEF CondReturn, At, Keeps, AfterInv
  <2> QED
    BY <1>0, <1>2, <2>1, <2>2, <2>3, <2>4, <2>5, <2>6, <2>7, <2>8, <2>9, <2>10,
       <2>11, Zenon DEF Step, CondStep
<1>3. CASE Environment(t)
  BY <1>3 DEF LockStep, Environment, Outside, DeadlinePasses, TimerFires, Break, Cancel
<1> QED
  BY <1>1, <1>2, <1>3

-----------------------------------------------------------------------------
\* Signalling waiters sets signals of tasks.
LEMMA SignalWaitersType ==
  ASSUME Typing, NEW onlyfirst \in BOOLEAN
  PROVE  SignalWaiters(onlyfirst) \in [Task -> SUBSET Signals]
BY DEF SignalWaiters, CondBit, Typing, Signals

\* Every step keeps the types, and the place a condition wait returns to.
LEMMA TypingStep ==
  ASSUME Typing, AfterInv, NEW t \in Task,
         Call(t) \/ Step(t) \/ Environment(t)
  PROVE  Typing' /\ AfterInv'
<1> USE DEF Typing, AfterInv, Goto, SemPoints, semVars, waitVars
<1>1. CASE Call(t)
  <2>1. ASSUME NEW k \in SemPoints, NEW d \in Deadlines, Enter(t, k, d)
        PROVE  Typing' /\ AfterInv'
    BY <2>1 DEF Enter, Results
  <2>2. GetCall(t) => Typing' /\ AfterInv'
    BY DEF GetCall
  <2> QED
    BY <1>1, <2>1, <2>2 DEF Call, WaitCall, TryCall, PostCall, Deadlines
<1>2. CASE Step(t)
  <2>1. WaitEnter(t) => Typing' /\ AfterInv'
    BY DEF WaitEnter, Continue
  <2>2. ASSUME WaitLoop(t) PROVE Typing' /\ AfterInv'
    <3>1. CASE Continue(t, "w_leave") /\ UNCHANGED semVars
      BY <3>1 DEF Continue
    <3>2. CASE CondSleep(t, "w_loop") /\ UNCHANGED semVars
      BY <3>2 DEF CondSleep, StaleAfterAlloc
    <3>3. CASE CondGiveUp(t, "w_loop") /\ UNCHANGED semVars
      BY <3>3 DEF CondGiveUp, Results
    <3> QED
      BY <2>2, <3>1, <3>2, <3>3 DEF WaitLoop
  <2>3. WaitLeave(t) => Typing' /\ AfterInv'
    BY DEF WaitLeave, Return, Deadlines, CountAfterWait
  <2>4. TryTest(t) => Typing' /\ AfterInv'
    BY DEF TryTest, At, Continue, Return, Deadlines, Results
  <2>5. TryTake(t) => Typing' /\ AfterInv'
    BY DEF TryTake, Return, Deadlines, Results
  <2>6. ASSUME PostTest(t) PROVE Typing' /\ AfterInv'
    <3>1. CASE Return(t, "EOVERFLOW") /\ UNCHANGED sig /\ UNCHANGED semVars
      BY <3>1 DEF Return, Deadlines, Results
    <3>2. CASE Continue(t, "p_incr") /\ UNCHANGED semVars
      BY <3>2 DEF Continue
    <3> QED
      BY <2>6, <3>1, <3>2 DEF PostTest
  <2>7. ASSUME PostIncr(t) PROVE Typing' /\ AfterInv'
    <3>1. sig' \in [Task -> SUBSET Signals]
      BY <2>7, SignalWaitersType DEF PostIncr
    <3>2. /\ Return(t, "ok")
          /\ value' = value + 1
          /\ UNCHANGED <<waiters_count, sval>>
      BY <2>7 DEF PostIncr
    <3> QED
      BY <3>1, <3>2 DEF Return, Deadlines, Results
  <2>8. GetRead(t) => Typing' /\ AfterInv'
    BY DEF GetRead, Return, Deadlines
  <2>9. GetBusy(t) => Typing' /\ AfterInv'
    BY DEF GetBusy, Continue
  <2>10. CondWake(t) /\ UNCHANGED semVars => Typing' /\ AfterInv'
    BY DEF CondWake
  <2>11. ASSUME CondReturn(t), UNCHANGED semVars PROVE Typing' /\ AfterInv'
    <3>1. waiters' \in Seq(Task)
      BY <2>11, RemoveAtLemma DEF CondReturn, DropWaiter
    <3>2. sig' \in [Task -> SUBSET Signals]
      BY <2>11 DEF CondReturn, CloseTimer, TimerBit, Signals
    <3> QED
      BY <2>11, <3>1, <3>2 DEF CondReturn, CloseTimer, At, Results
  <2> QED
    BY <1>2, <2>1, <2>2, <2>3, <2>4, <2>5, <2>6, <2>7, <2>8, <2>9, <2>10, <2>11
    DEF Step, CondStep
<1>3. CASE Environment(t)
  <2>1. DeadlinePasses(t) /\ UNCHANGED semVars => Typing' /\ AfterInv'
    BY DEF DeadlinePasses, Deadlines
  <2>2. TimerFires(t) /\ UNCHANGED semVars => Typing' /\ AfterInv'
    BY DEF TimerFires, TimerBit, Signals
  <2>3. Break(t) /\ UNCHANGED semVars => Typing' /\ AfterInv'
    BY DEF Break, Signals
  <2>4. Cancel(t) /\ UNCHANGED semVars => Typing' /\ AfterInv'
    BY DEF Cancel, Signals
  <2> QED
    BY <1>3, <2>1, <2>2, <2>3, <2>4 DEF Environment, Outside
<1> QED
  BY <1>1, <1>2, <1>3

-----------------------------------------------------------------------------
\* The strengthening of MutualExclusion: it holds at the start, every step
\* keeps it, and it implies that only the owner of the lock is Ready.
LInv == Typing /\ AfterInv /\ LockInv

\* Types and lock are right at the start.
LEMMA LInvInit == Init => LInv
<1> SUFFICES ASSUME Init PROVE LInv
  OBVIOUS
<1> USE DEF Init, CondInit
<1>1. Typing /\ AfterInv
  BY ValueAssumption
  DEF Typing, AfterInv, SemPoints, Deadlines, Results, Signals
<1>2. LockInv
  BY FreeWellFormed DEF LockInv, LockingPoint, Inside
<1> QED
  BY <1>1, <1>2 DEF LInv

\* Every step keeps types and lock right.
LEMMA LInvStep == LInv /\ [Next]_vars => LInv'
<1> SUFFICES ASSUME LInv, [Next]_vars PROVE LInv'
  OBVIOUS
<1>1. ASSUME NEW t \in Task, Call(t) \/ Step(t) \/ Environment(t)
      PROVE  LInv'
  BY <1>1, NextLockStep, LockStepLemma, TypingStep DEF LInv
<1>2. CASE UNCHANGED vars
  BY <1>2 DEF LInv, Typing, AfterInv, LockInv, vars, condVars
<1> QED
  BY <1>1, <1>2 DEF Next

\* Types and lock are right in every behavior of semaphore.c: a task is in the
\* semaphore's lock exactly when its control point says so.
THEOREM LInvHolds == Spec => []LInv
BY LInvInit, LInvStep, PTL DEF Spec

\* No two tasks are inside the lock of a semaphore of semaphore.c at once,
\* whatever calls, timeouts and cancellations there are.
THEOREM LockIsExclusive == Spec => []MutualExclusion
<1>1. LInv => MutualExclusion
  <2> SUFFICES ASSUME LInv, NEW t \in Task, NEW u \in Task,
                      Locking(t), Ready(t), Locking(u), Ready(u)
               PROVE  t = u
    BY DEF MutualExclusion
  <2>1. mutex.owner = t /\ mutex.owner = u
    BY OwnerIsReady DEF LInv, LockInv, Locking, LockingPoint, Ready
  <2> QED
    BY <2>1
<1> QED
  BY <1>1, LInvHolds, PTL

-----------------------------------------------------------------------------
(***************************************************************************)
(* The value.  The tests of sem->value are only worth something because    *)
(* the lock is kept until the value is changed, so the tasks between the   *)
(* two are part of the invariant.                                          *)
(***************************************************************************)
ValueInv ==
  /\ value \in 0..SEM_VALUE_MAX
  /\ \A t \in Task :
       /\ pc[t] = "w_leave" /\ result[t] = "ok" => value > 0
       /\ pc[t] = "t_take" => value > 0
       /\ pc[t] = "p_incr" => value < SEM_VALUE_MAX

\* Every step keeps the value in its range.
LEMMA ValueStep == LInv /\ ValueInv /\ [Next]_vars => ValueInv'
<1> SUFFICES ASSUME LInv, ValueInv, [Next]_vars PROVE ValueInv'
  OBVIOUS
<1> USE ValueAssumption DEF ValueInv, Goto, semVars, waitVars
<1>a. Typing
  BY DEF LInv
<1>1. ASSUME NEW t \in Task, At(t, pc[t]),
             pc[t] \in {"w_leave", "t_take", "p_incr"}
      PROVE  \A u \in Task \ {t} : pc[u] \notin {"w_leave", "t_take", "p_incr"}
  BY <1>1 DEF LInv, LockInv, Inside
<1>2. ASSUME NEW t \in Task, Call(t) PROVE ValueInv'
  BY <1>a, <1>2
  DEF Typing, Call, WaitCall, TryCall, PostCall, GetCall, Enter
<1>3. ASSUME NEW t \in Task, Step(t) PROVE ValueInv'
  <2>1. WaitEnter(t) => ValueInv'
    BY <1>a DEF Typing, WaitEnter, Continue
  <2>2. ASSUME WaitLoop(t) PROVE ValueInv'
    <3>1. CASE Continue(t, "w_leave") /\ UNCHANGED semVars
      BY <1>a, <2>2, <3>1 DEF Typing, WaitLoop, Continue, CondSleep, CondGiveUp
    <3>2. CASE CondSleep(t, "w_loop") /\ UNCHANGED semVars
      BY <1>a, <3>2 DEF Typing, CondSleep
    <3>3. CASE CondGiveUp(t, "w_loop") /\ UNCHANGED semVars
      BY <1>a, <3>3 DEF Typing, CondGiveUp
    <3> QED
      BY <2>2, <3>1, <3>2, <3>3 DEF WaitLoop
  <2>3. WaitLeave(t) => ValueInv'
    BY <1>a, <1>1 DEF Typing, WaitLeave, At, Return
  <2>4. TryTest(t) => ValueInv'
    BY <1>a DEF Typing, TryTest, Available, At, Continue, Return
  <2>5. TryTake(t) => ValueInv'
    BY <1>a, <1>1 DEF Typing, TryTake, At, Return
  <2>6. PostTest(t) => ValueInv'
    BY <1>a DEF Typing, PostTest, AtLimit, At, Continue, Return
  <2>7. ASSUME PostIncr(t) PROVE ValueInv'
    <3>1. At(t, "p_incr") /\ value' = value + 1 /\ Return(t, "ok")
      BY <2>7 DEF PostIncr
    <3> QED
      BY <1>a, <1>1, <3>1 DEF Typing, At, Return
  <2>8. GetRead(t) => ValueInv'
    BY <1>a DEF Typing, GetRead, Return
  <2>9. GetBusy(t) => ValueInv'
    BY <1>a DEF Typing, GetBusy, Continue
  <2>10. CondWake(t) /\ UNCHANGED semVars => ValueInv'
    BY <1>a DEF Typing, CondWake
  <2>11. CondReturn(t) /\ UNCHANGED semVars => ValueInv'
    BY <1>a DEF Typing, CondReturn, At, LInv, AfterInv
  <2> QED
    BY <1>3, <2>1, <2>2, <2>3, <2>4, <2>5, <2>6, <2>7, <2>8, <2>9, <2>10, <2>11
    DEF Step, CondStep
<1>4. ASSUME NEW t \in Task, Environment(t) PROVE ValueInv'
  BY <1>4 DEF Environment, Outside, DeadlinePasses, TimerFires, Break, Cancel
<1>5. CASE UNCHANGED vars
  BY <1>5 DEF vars, condVars
<1> QED
  BY <1>2, <1>3, <1>4, <1>5 DEF Next

\* The value is in its range in every behavior.
LEMMA ValueInvHolds == Spec => []ValueInv
<1>1. Init => ValueInv
  BY ValueAssumption DEF Init, CondInit, ValueInv
<1> QED
  BY <1>1, ValueStep, LInvHolds, PTL DEF Spec

-----------------------------------------------------------------------------
(***************************************************************************)
(* The timeout.  The bit of a task's own timer tells that the deadline has *)
(* passed as long as the task is in its condition wait.                    *)
(***************************************************************************)
TimerInv ==
  \A t \in Task :
    \/ pc[t] = "asleep" /\ "timer" \in sig[t]
    \/ pc[t] = "relock" /\ "timer" \in got[t]
    => deadline[t] = "passed"

\* Every step keeps what is known of timers and deadlines.
LEMMA TimerStep == LInv /\ TimerInv /\ [Next]_vars => TimerInv'
<1> SUFFICES ASSUME LInv, TimerInv, [Next]_vars PROVE TimerInv'
  OBVIOUS
<1> USE DEF TimerInv, Goto, waitVars
<1>a. Typing
  BY DEF LInv
<1>2. ASSUME NEW t \in Task, Call(t) PROVE TimerInv'
  BY <1>a, <1>2
  DEF Typing, Call, WaitCall, TryCall, PostCall, GetCall, Enter
<1>3. ASSUME NEW t \in Task, Step(t) PROVE TimerInv'
  <2>1. ASSUME NEW k, Continue(t, k), k \notin {"asleep", "relock"} PROVE TimerInv'
    BY <1>a, <2>1 DEF Typing, Continue
  <2>2. ASSUME NEW r, Return(t, r), sig' = sig PROVE TimerInv'
    BY <1>a, <2>2 DEF Typing, Return
  <2>3. CondSleep(t, "w_loop") => TimerInv'
    BY <1>a DEF Typing, CondSleep, StaleAfterAlloc
  <2>4. CondGiveUp(t, "w_loop") => TimerInv'
    BY <1>a DEF Typing, CondGiveUp
  <2>5. ASSUME PostIncr(t) PROVE TimerInv'
    <3>1. \A u \in Task : "timer" \in sig'[u] => "timer" \in sig[u]
      BY <1>a, <2>5 DEF Typing, PostIncr, SignalWaiters, CondBit
    <3>2. Return(t, "ok")
      BY <2>5 DEF PostIncr
    <3> QED
      BY <1>a, <3>1, <3>2 DEF Typing, Return
  <2>6. CondWake(t) => TimerInv'
    BY <1>a DEF Typing, CondWake
  <2>7. CondReturn(t) => TimerInv'
    BY <1>a DEF Typing, CondReturn, CloseTimer, LInv, AfterInv, At
  <2> QED
    BY <1>3, <2>1, <2>2, <2>3, <2>4, <2>5, <2>6, <2>7
    DEF Step, CondStep, WaitEnter, WaitLoop, WaitLeave, TryTest, TryTake,
        PostTest, GetRead, GetBusy
<1>4. ASSUME NEW t \in Task, Environment(t) PROVE TimerInv'
  BY <1>a, <1>4
  DEF Typing, Environment, Outside, DeadlinePasses, TimerFires, Break, Cancel
<1>5. CASE UNCHANGED vars
  BY <1>5 DEF vars, condVars
<1> QED
  BY <1>2, <1>3, <1>4, <1>5 DEF Next

\* sem_timedwait of a task that had a signal bit for its timer never answers
\* ETIMEDOUT before abstime, whatever signals it gets meanwhile.
THEOREM TimeoutsAreLate == Spec => TimeoutIsLate
<1>1. Init => TimerInv
  BY DEF Init, CondInit, TimerInv
<1>2. LInv /\ TimerInv /\ [Next]_vars
        => [\A t \in Task :
              FreeSignals[t] > 0 /\ TimesOut(t) => deadline[t] = "passed"]_vars
  <2> SUFFICES ASSUME LInv, TimerInv, Next, NEW u \in Task,
                      FreeSignals[u] > 0, TimesOut(u)
               PROVE  deadline[u] = "passed"
    OBVIOUS
  <2> USE DEF TimesOut, Goto, waitVars
  <2>a. Typing
    BY DEF LInv
  <2>1. ASSUME NEW t \in Task, Call(t) PROVE FALSE
    BY <2>a, <2>1 DEF Typing, Call, WaitCall, TryCall, PostCall, GetCall, Enter
  <2>2. ASSUME NEW t \in Task, Step(t) PROVE deadline[u] = "passed"
    <3>1. ASSUME NEW k, Continue(t, k) PROVE FALSE
      BY <3>1 DEF Continue
    <3>2. ASSUME NEW r, Return(t, r), r # "ETIMEDOUT" \/ r = result[t] PROVE FALSE
      BY <2>a, <3>2 DEF Typing, Return
    <3>3. CondSleep(t, "w_loop") \/ CondWake(t) => FALSE
      BY DEF CondSleep, CondWake
    <3>4. CondGiveUp(t, "w_loop") => deadline[u] = "passed"
      BY <2>a DEF Typing, CondGiveUp
    <3>5. ASSUME CondReturn(t) PROVE deadline[u] = "passed"
      <4>1. u = t /\ TimedOut(t)
        BY <2>a, <3>5 DEF Typing, CondReturn
      <4>2. pc[t] = "relock" /\ "timer" \in got[t]
        BY <3>5, <4>1, FreeSignalsAssumption
        DEF CondReturn, At, TimedOut, TimerMask, TimerBit
      <4> QED
        BY <4>1, <4>2 DEF TimerInv
    <3> QED
      BY <2>2, <3>1, <3>2, <3>3, <3>4, <3>5
      DEF Step, CondStep, WaitEnter, WaitLoop, WaitLeave, TryTest, TryTake,
          PostTest, PostIncr, GetRead, GetBusy
  <2>3. ASSUME NEW t \in Task, Environment(t) PROVE FALSE
    BY <2>3 DEF Environment, Outside, DeadlinePasses, TimerFires, Break, Cancel
  <2> QED
    BY <2>1, <2>2, <2>3 DEF Next
<1> QED
  BY <1>1, <1>2, TimerStep, LInvHolds, PTL DEF Spec, TimeoutIsLate

-----------------------------------------------------------------------------
(***************************************************************************)
(* The accounting of the waiters.                                          *)
(***************************************************************************)
Counted == {t \in Task : InTimedwait(t)}
Listed == {t \in Task : pc[t] \in {"asleep", "relock"}}

\* WaitersAccounted, with a list that holds every waiter once.
CountInv ==
  /\ waiters_count = Cardinality(Counted)
  /\ incond = Len(waiters)
  /\ \A t \in Task : t \in Listed <=> \E i \in 1..Len(waiters) : waiters[i] = t
  /\ \A i, j \in 1..Len(waiters) : waiters[i] = waiters[j] => i = j

\* The counters are right at the start.
LEMMA CountInvInit == Init => CountInv
<1> SUFFICES ASSUME Init PROVE CountInv
  OBVIOUS
<1>1. Counted = {} /\ Listed = {}
  BY DEF Init, CondInit, Counted, Listed, InTimedwait
<1> QED
  BY <1>1, FS_EmptySet DEF Init, CondInit, CountInv

\* A step that changes neither the list nor the count, nor who is in them.
LEMMA CountKept ==
  ASSUME CountInv, UNCHANGED <<waiters_count, incond, waiters>>,
         \A t \in Task : InTimedwait(t)' <=> InTimedwait(t),
         \A t \in Task :
           pc'[t] \in {"asleep", "relock"} <=> pc[t] \in {"asleep", "relock"}
  PROVE  CountInv'
<1>1. Counted' = Counted /\ Listed' = Listed
  BY DEF Counted, Listed
<1> QED
  BY <1>1 DEF CountInv

\* A task starts to wait, and a task stops waiting.
LEMMA CountGrows ==
  ASSUME CountInv, NEW t \in Task, ~InTimedwait(t),
         \A u \in Task : InTimedwait(u)' <=> InTimedwait(u) \/ u = t
  PROVE  Cardinality(Counted') = Cardinality(Counted) + 1
<1>1. Counted' = Counted \cup {t} /\ t \notin Counted
  BY DEF Counted
<1>2. IsFiniteSet(Counted)
  BY TaskAssumption, FS_Subset DEF Counted
<1> QED
  BY <1>1, <1>2, FS_AddElement

\* A task that leaves sem_timedwait makes the counted ones one fewer.
LEMMA CountShrinks ==
  ASSUME CountInv, NEW t \in Task, InTimedwait(t),
         \A u \in Task : InTimedwait(u)' <=> InTimedwait(u) /\ u # t
  PROVE  Cardinality(Counted') = Cardinality(Counted) - 1
<1>1. Counted' = Counted \ {t} /\ t \in Counted
  BY DEF Counted
<1>2. IsFiniteSet(Counted)
  BY TaskAssumption, FS_Subset DEF Counted
<1> QED
  BY <1>1, <1>2, FS_RemoveElement

\* A task is added at the end of the list when it falls asleep, and taken out
\* of its place when it has the lock again.
LEMMA ListGrows ==
  ASSUME Typing, CountInv, NEW t \in Task, t \notin Listed,
         waiters' = Append(waiters, t), incond' = incond + 1,
         UNCHANGED waiters_count, Counted' = Counted,
         \A u \in Task : u \in Listed' <=> u \in Listed \/ u = t
  PROVE  CountInv'
<1>1. /\ waiters \in Seq(Task)
      /\ Len(waiters') = Len(waiters) + 1
      /\ \A i \in 1..Len(waiters) : waiters'[i] = waiters[i]
      /\ waiters'[Len(waiters) + 1] = t
  BY DEF Typing
<1>2. \A u \in Task : u \in Listed' <=> \E i \in 1..Len(waiters') : waiters'[i] = u
  BY <1>1 DEF CountInv
<1>3. \A i, j \in 1..Len(waiters') : waiters'[i] = waiters'[j] => i = j
  BY <1>1 DEF CountInv
<1> QED
  BY <1>1, <1>2, <1>3 DEF CountInv

\* A task that leaves the list of the condition keeps the counters right.
LEMMA ListShrinks ==
  ASSUME Typing, CountInv, NEW t \in Task, DropWaiter(t), incond' = incond - 1,
         UNCHANGED waiters_count, Counted' = Counted,
         \A u \in Task : u \in Listed' <=> u \in Listed /\ u # t
  PROVE  CountInv'
<1>1. PICK n \in 1..Len(waiters) :
        waiters[n] = t /\ waiters' = RemoveAt(waiters, n)
  BY DEF DropWaiter
<1>2. /\ waiters \in Seq(Task)
      /\ Len(waiters') = Len(waiters) - 1
      /\ \A j \in 1..(Len(waiters) - 1) :
           waiters'[j] = IF j < n THEN waiters[j] ELSE waiters[j + 1]
  BY <1>1, RemoveAtLemma DEF Typing
<1>3. ASSUME NEW u \in Task
      PROVE  u \in Listed' <=> \E i \in 1..Len(waiters') : waiters'[i] = u
  <2>1. ASSUME NEW i \in 1..Len(waiters), waiters[i] = u, u # t
        PROVE  \E j \in 1..Len(waiters') : waiters'[j] = u
    <3>1. CASE i < n
      BY <1>2, <2>1, <3>1
    <3>2. CASE i > n
      <4>1. i - 1 \in 1..Len(waiters') /\ waiters'[i - 1] = waiters[i]
        BY <1>2, <3>2
      <4> QED
        BY <2>1, <4>1
    <3> QED
      BY <1>1, <2>1, <3>1, <3>2
  <2>2. ASSUME NEW j \in 1..Len(waiters'), waiters'[j] = u
        PROVE  u # t /\ \E i \in 1..Len(waiters) : waiters[i] = u
    BY <1>1, <1>2, <2>2 DEF CountInv
  <2> QED
    BY <2>1, <2>2 DEF CountInv
<1>4. \A i, j \in 1..Len(waiters') : waiters'[i] = waiters'[j] => i = j
  BY <1>1, <1>2 DEF CountInv
<1> QED
  BY <1>2, <1>3, <1>4 DEF CountInv

\* Every step keeps the counters right.
LEMMA CountStep == LInv /\ CountInv /\ [Next]_vars => CountInv'
<1> SUFFICES ASSUME LInv, CountInv, [Next]_vars PROVE CountInv'
  OBVIOUS
<1> USE DEF Goto, waitVars, InTimedwait
<1>a. Typing
  BY DEF LInv
<1>2. ASSUME NEW t \in Task, Call(t) PROVE CountInv'
  BY <1>a, <1>2, CountKept
  DEF Typing, Call, WaitCall, TryCall, PostCall, GetCall, Enter, semVars
<1>3. ASSUME NEW t \in Task, Step(t) PROVE CountInv'
  <2>1. ASSUME WaitEnter(t) PROVE CountInv'
    <3>1. Cardinality(Counted') = Cardinality(Counted) + 1
      BY <1>a, <2>1, CountGrows DEF Typing, WaitEnter, At, Continue
    <3>2. Listed' = Listed
      BY <1>a, <2>1 DEF Typing, WaitEnter, At, Continue, Listed
    <3> QED
      BY <2>1, <3>1, <3>2 DEF CountInv, WaitEnter, Continue
  <2>2. ASSUME WaitLoop(t) PROVE CountInv'
    <3>1. CASE CondSleep(t, "w_loop")
      <4>1. Counted' = Counted
        BY <1>a, <2>2, <3>1 DEF Typing, WaitLoop, At, CondSleep, Counted
      <4>2. t \notin Listed /\ \A u \in Task : u \in Listed' <=> u \in Listed \/ u = t
        BY <1>a, <2>2, <3>1 DEF Typing, WaitLoop, At, CondSleep, Listed
      <4> QED
        BY <1>a, <2>2, <3>1, <4>1, <4>2, ListGrows DEF WaitLoop, CondSleep, semVars
    <3>2. CASE Continue(t, "w_leave") \/ CondGiveUp(t, "w_loop")
      BY <1>a, <2>2, <3>2, CountKept
      DEF Typing, WaitLoop, At, Continue, CondGiveUp, semVars
    <3> QED
      BY <2>2, <3>1, <3>2 DEF WaitLoop
  <2>3. ASSUME WaitLeave(t) PROVE CountInv'
    <3>1. Cardinality(Counted') = Cardinality(Counted) - 1
      BY <1>a, <2>3, CountShrinks DEF Typing, WaitLeave, At, Return
    <3>2. Listed' = Listed
      BY <1>a, <2>3 DEF Typing, WaitLeave, At, Return, Listed
    <3> QED
      BY <2>3, <3>1, <3>2 DEF CountInv, WaitLeave, Return, CountAfterWait
  <2>4. TryTest(t) => CountInv'
    BY <1>a, CountKept DEF Typing, TryTest, At, Continue, Return, semVars
  <2>5. TryTake(t) => CountInv'
    BY <1>a, CountKept DEF Typing, TryTake, At, Return
  <2>6. PostTest(t) => CountInv'
    BY <1>a, CountKept DEF Typing, PostTest, At, Continue, Return, semVars
  <2>7. ASSUME PostIncr(t) PROVE CountInv'
    <3>1. At(t, "p_incr") /\ Return(t, "ok") /\ UNCHANGED waiters_count
      BY <2>7 DEF PostIncr
    <3> QED
      BY <1>a, <3>1, CountKept DEF Typing, At, Return
  <2>8. GetRead(t) => CountInv'
    BY <1>a, CountKept DEF Typing, GetRead, At, Return
  <2>9. GetBusy(t) => CountInv'
    BY <1>a, CountKept DEF Typing, GetBusy, Continue
  <2>10. CondWake(t) /\ UNCHANGED semVars => CountInv'
    BY <1>a, CountKept DEF Typing, CondWake, semVars
  <2>11. ASSUME CondReturn(t), UNCHANGED semVars PROVE CountInv'
    <3>1. pc[t] = "relock" /\ pc'[t] \in {"exited", "w_loop"}
      BY <1>a, <2>11 DEF Typing, CondReturn, At, LInv, AfterInv
    <3>2. Counted' = Counted
      BY <1>a, <2>11, <3>1 DEF Typing, CondReturn, Counted
    <3>3. \A u \in Task : u \in Listed' <=> u \in Listed /\ u # t
      BY <1>a, <2>11, <3>1 DEF Typing, CondReturn, Listed
    <3> QED
      BY <1>a, <2>11, <3>2, <3>3, ListShrinks DEF CondReturn, semVars
  <2> QED
    BY <1>3, <2>1, <2>2, <2>3, <2>4, <2>5, <2>6, <2>7, <2>8, <2>9, <2>10, <2>11
    DEF Step, CondStep
<1>4. ASSUME NEW t \in Task, Environment(t) PROVE CountInv'
  BY <1>4, CountKept
  DEF Environment, Outside, DeadlinePasses, TimerFires, Break, Cancel, semVars
<1>5. CASE UNCHANGED vars
  BY <1>5, CountKept DEF vars, condVars
<1> QED
  BY <1>2, <1>3, <1>4, <1>5 DEF Next

\* The counters are right in every behavior.
LEMMA CountInvHolds == Spec => []CountInv
BY CountInvInit, CountStep, LInvHolds, PTL DEF Spec

\* waiters_count and the list of the condition are exact, so sem_post never
\* skips the signal while somebody is in the list.
THEOREM WaitersAreAccounted == Spec => []WaitersAccounted
<1>1. LInv /\ CountInv => WaitersAccounted
  <2> SUFFICES ASSUME LInv, CountInv PROVE WaitersAccounted
    OBVIOUS
  <2>1. waiters \in Seq(Task)
    BY DEF LInv, Typing
  <2>2. ToSet(waiters) = Listed
    BY <2>1 DEF CountInv, ToSet, Listed
  <2> QED
    BY <2>2 DEF WaitersAccounted, CountInv, Counted, Listed
<1> QED
  BY <1>1, LInvHolds, CountInvHolds, PTL

\* Every variable has its type: the value of the semaphore stays between 0 and
\* SEM_VALUE_MAX, and its count of waiters is never negative.
THEOREM TypeCorrect == Spec => []TypeOK
<1>1. LInv /\ ValueInv /\ CountInv => TypeOK
  <2> SUFFICES ASSUME LInv, ValueInv, CountInv PROVE TypeOK
    OBVIOUS
  <2>1. IsFiniteSet(Counted)
    BY TaskAssumption, FS_Subset DEF Counted
  <2>2. waiters_count \in Nat
    BY <2>1, FS_CardinalityType DEF CountInv
  <2>3. incond \in Nat
    BY DEF CountInv, LInv, Typing
  <2> QED
    BY <2>2, <2>3 DEF TypeOK, CondTypeOK, LInv, Typing, LockInv, WellFormed, Orderly, ValueInv
<1> QED
  BY <1>1, LInvHolds, ValueInvHolds, CountInvHolds, PTL

-----------------------------------------------------------------------------
(***************************************************************************)
(* semaphore.c implements the counting semaphore of CountingSem: each step *)
(* of a task is a step of the abstract semaphore by the same task, or no   *)
(* step at all.                                                            *)
(***************************************************************************)
\* The control points of sem_timedwait.
WaitPoints == {"w_enter", "w_loop", "asleep", "relock", "w_leave"}

\* A wait that fails has a deadline.
ResultInv ==
  \A t \in Task :
    pc[t] \in WaitPoints /\ result[t] # "ok"
      => Timed(t) /\ result[t] \in {"ETIMEDOUT", "EINVAL"}

\* Every step keeps what is known of results.
LEMMA ResultStep == LInv /\ ResultInv /\ [Next]_vars => ResultInv'
<1> SUFFICES ASSUME LInv, ResultInv, [Next]_vars PROVE ResultInv'
  OBVIOUS
<1> USE DEF ResultInv, Goto, waitVars, Timed, WaitPoints
<1>a. Typing
  BY DEF LInv
<1>1. ASSUME NEW t \in Task, Call(t) PROVE ResultInv'
  BY <1>a, <1>1
  DEF Typing, Call, WaitCall, TryCall, PostCall, GetCall, Enter
<1>2. ASSUME NEW t \in Task, Step(t) PROVE ResultInv'
  <2>1. ASSUME NEW k, Continue(t, k), pc[t] \in WaitPoints \/ k \notin WaitPoints
        PROVE  ResultInv'
    BY <1>a, <2>1 DEF Typing, Continue
  <2>2. ASSUME NEW r, Return(t, r) PROVE ResultInv'
    BY <1>a, <2>2 DEF Typing, Return
  <2>3. CondSleep(t, "w_loop") /\ At(t, "w_loop") => ResultInv'
    BY <1>a DEF Typing, CondSleep, At
  <2>4. CondGiveUp(t, "w_loop") => ResultInv'
    BY <1>a DEF Typing, CondGiveUp
  <2>5. CondWake(t) => ResultInv'
    BY <1>a DEF Typing, CondWake
  <2>6. CondReturn(t) => ResultInv'
    BY <1>a DEF Typing, CondReturn, TimedOut, TimerMask
  <2> QED
    BY <1>2, <2>1, <2>2, <2>3, <2>4, <2>5, <2>6
    DEF Step, CondStep, WaitEnter, WaitLoop, WaitLeave, TryTest, TryTake,
        PostTest, PostIncr, GetRead, GetBusy, At
<1>3. ASSUME NEW t \in Task, Environment(t) PROVE ResultInv'
  BY <1>a, <1>3
  DEF Typing, Deadlines, Environment, Outside, DeadlinePasses, TimerFires, Break,
      Cancel
<1>4. CASE UNCHANGED vars
  BY <1>4 DEF vars, condVars
<1> QED
  BY <1>1, <1>2, <1>3, <1>4 DEF Next

-----------------------------------------------------------------------------
\* A step touches what the abstract semaphore sees of no task but t.
Others(t) ==
  \A u \in Task \ {t} :
    pc'[u] = pc[u] /\ deadline'[u] = deadline[u] /\ result'[u] = result[u]

Calling == [t \in Task |-> CallOf(t)]
Answers == [t \in Task |-> AnswerOf(t)]

\* A step of t leaves the abstract calls and answers of the others.
LEMMA OthersKeep ==
  ASSUME NEW t \in Task, Others(t), NEW u \in Task \ {t}
  PROVE  CallOf(u)' = CallOf(u) /\ AnswerOf(u)' = AnswerOf(u)
BY DEF Others, CallOf, AnswerOf, Timed

\* A step after which t is in the same call and has the same answer.
LEMMA StaysInCall ==
  ASSUME NEW t \in Task, Others(t), CallOf(t)' = CallOf(t),
         AnswerOf(t)' = AnswerOf(t), value' = value
  PROVE  UNCHANGED Abstract!vars
<1>1. \A u \in Task : CallOf(u)' = CallOf(u) /\ AnswerOf(u)' = AnswerOf(u)
  BY OthersKeep
<1> QED
  BY <1>1 DEF Abstract!vars

\* A step that takes t into another call, or out of its call with an answer.
LEMMA ChangesCall ==
  ASSUME NEW t \in Task, Others(t), NEW c, CallOf(t)' = c,
         NEW a, AnswerOf(t)' = a
  PROVE  /\ Calling' = [Calling EXCEPT ![t] = c]
         /\ Answers' = [Answers EXCEPT ![t] = a]
<1>1. \A u \in Task \ {t} : CallOf(u)' = CallOf(u) /\ AnswerOf(u)' = AnswerOf(u)
  BY OthersKeep
<1> QED
  BY <1>1 DEF Calling, Answers

-----------------------------------------------------------------------------
AbstractStep == [Abstract!Next]_(Abstract!vars)

\* The steps of a call that the abstract semaphore does not see.
LEMMA HiddenStep ==
  ASSUME LInv, NEW t \in Task, value' = value,
         \/ \E k : /\ Continue(t, k)
                  /\ \/ pc[t] \in WaitPoints /\ k \in WaitPoints
                     \/ pc[t] = "t_test" /\ k = "t_take"
                     \/ pc[t] = "p_test" /\ k = "p_incr"
                     \/ pc[t] = "g_busy" /\ k = "idle"
         \/ pc[t] = "w_loop" /\ (CondSleep(t, "w_loop") \/ CondGiveUp(t, "w_loop"))
         \/ CondWake(t)
         \/ CondReturn(t) /\ ~Canceled(t)
         \/ pc[t] = "g_read" /\ Return(t, result[t])
         \/ GetCall(t)
         \/ Outside(t)
  PROVE  UNCHANGED Abstract!vars
<1> USE DEF Typing, Goto, Others, CallOf, AnswerOf, Timed, WaitPoints
<1>a. Typing /\ AfterInv
  BY DEF LInv
<1>1. ASSUME NEW k, Continue(t, k),
             \/ pc[t] \in WaitPoints /\ k \in WaitPoints
             \/ pc[t] = "t_test" /\ k = "t_take"
             \/ pc[t] = "p_test" /\ k = "p_incr"
             \/ pc[t] = "g_busy" /\ k = "idle"
      PROVE  UNCHANGED Abstract!vars
  <2>1. Others(t)
    BY <1>a, <1>1 DEF Continue
  <2>2. pc'[t] = k /\ UNCHANGED <<deadline, result>>
    BY <1>a, <1>1 DEF Continue
  <2>3. CallOf(t)' = CallOf(t) /\ AnswerOf(t)' = AnswerOf(t)
    BY <1>1, <2>2
  <2> QED
    BY <2>1, <2>3, StaysInCall
<1>2. ASSUME pc[t] \in WaitPoints, pc'[t] \in WaitPoints, Others(t),
             UNCHANGED deadline
      PROVE  UNCHANGED Abstract!vars
  <2>1. CallOf(t)' = CallOf(t) /\ AnswerOf(t)' = AnswerOf(t)
    BY <1>2
  <2> QED
    BY <1>2, <2>1, StaysInCall
<1>3. CASE pc[t] = "w_loop" /\ (CondSleep(t, "w_loop") \/ CondGiveUp(t, "w_loop"))
  BY <1>a, <1>2, <1>3 DEF CondSleep, CondGiveUp
<1>4. CASE CondWake(t)
  BY <1>a, <1>2, <1>4 DEF CondWake
<1>5. CASE CondReturn(t) /\ ~Canceled(t)
  BY <1>a, <1>2, <1>5 DEF CondReturn, At, AfterInv
<1>6. CASE pc[t] = "g_read" /\ Return(t, result[t])
  <2>1. Others(t) /\ pc'[t] = "idle" /\ result'[t] = result[t]
    BY <1>a, <1>6 DEF Return
  <2>2. CallOf(t)' = CallOf(t) /\ AnswerOf(t)' = AnswerOf(t)
    BY <1>6, <2>1
  <2> QED
    BY <2>1, <2>2, StaysInCall
<1>7. CASE GetCall(t)
  <2>1. /\ Others(t) /\ pc[t] = "idle" /\ pc'[t] \in {"g_read", "g_busy"}
        /\ result'[t] = result[t]
    BY <1>a, <1>7 DEF GetCall
  <2>2. CallOf(t)' = CallOf(t) /\ AnswerOf(t)' = AnswerOf(t)
    BY <2>1
  <2> QED
    BY <2>1, <2>2, StaysInCall
<1>8. CASE Outside(t)
  <2>1. Others(t) /\ UNCHANGED <<pc, result>>
    BY <1>a, <1>8 DEF Outside, DeadlinePasses, TimerFires, Break, Cancel
  <2>2. Timed(t)' = Timed(t)
    BY <1>a, <1>8, Zenon DEF Outside, DeadlinePasses, TimerFires, Break, Cancel
  <2>3. CallOf(t)' = CallOf(t) /\ AnswerOf(t)' = AnswerOf(t)
    BY <2>1, <2>2
  <2> QED
    BY <2>1, <2>3, StaysInCall
<1> QED
  BY <1>1, <1>3, <1>4, <1>5, <1>6, <1>7, <1>8

\* A call that begins.
LEMMA BeginStep ==
  ASSUME LInv, NEW t \in Task, WaitCall(t) \/ TryCall(t) \/ PostCall(t)
  PROVE  Abstract!Call(t)
<1> USE DEF Typing, Goto, Others, CallOf, AnswerOf, Timed
<1>a. Typing
  BY DEF LInv
<1>1. ASSUME NEW k \in {"w_enter", "t_test", "p_test"},
             NEW d \in Deadlines, Enter(t, k, d)
      PROVE  Abstract!Call(t)
  <2>1. /\ Others(t) /\ value' = value
        /\ pc[t] = "idle" /\ pc'[t] = k /\ result'[t] = "ok"
    BY <1>a, <1>1 DEF Enter, semVars
  <2>2. CallOf(t) = "none" /\ AnswerOf(t)' = "ok"
    BY <2>1
  <2>3. CallOf(t)' \in Abstract!Calls
    BY <2>1 DEF Abstract!Calls
  <2>4. PICK c \in Abstract!Calls : CallOf(t)' = c
    BY <2>3
  <2>5. /\ Calling' = [Calling EXCEPT ![t] = c]
        /\ Answers' = [Answers EXCEPT ![t] = "ok"]
    BY <2>1, <2>2, <2>4, ChangesCall
  <2> QED
    BY <2>1, <2>2, <2>5 DEF Abstract!Call, Calling, Answers
<1> QED
  BY <1>1 DEF WaitCall, TryCall, PostCall, Deadlines

\* A call that is answered.
LEMMA ReturnStep ==
  ASSUME LInv, NEW t \in Task, NEW r, Return(t, r)
  PROVE  /\ Calling' = [Calling EXCEPT ![t] = "none"]
         /\ Answers' = [Answers EXCEPT ![t] = r]
<1>a. Typing
  BY DEF LInv
<1>1. Others(t) /\ pc'[t] = "idle" /\ result'[t] = r
  BY <1>a DEF Typing, Return, Goto, Others
<1>2. CallOf(t)' = "none" /\ AnswerOf(t)' = r
  BY <1>1 DEF CallOf, AnswerOf
<1> QED
  BY <1>1, <1>2, ChangesCall

\* The steps that settle the answer of a call are steps of the abstract semaphore.
LEMMA EndStep ==
  ASSUME LInv, ValueInv, ResultInv, NEW t \in Task,
         \/ WaitLeave(t)
         \/ TryTest(t) /\ ~Available
         \/ TryTake(t)
         \/ PostTest(t) /\ AtLimit
         \/ PostIncr(t)
  PROVE  Abstract!Next
<1> USE ValueAssumption DEF ValueInv, At, CallOf, Calling, Answers, Abstract!Answer
<1>1. CASE WaitLeave(t) /\ result[t] = "ok"
  <2>1. /\ Return(t, "ok") /\ value' = value - 1 /\ value > 0
        /\ CallOf(t) \in {"sem_wait", "sem_timedwait"}
    BY <1>1 DEF WaitLeave
  <2> QED
    BY <2>1, ReturnStep DEF Abstract!Next, Abstract!Take
<1>2. CASE WaitLeave(t) /\ result[t] # "ok"
  <2>1. /\ Return(t, result[t]) /\ value' = value
        /\ CallOf(t) = "sem_timedwait"
        /\ result[t] \in {"ETIMEDOUT", "EINVAL"}
    BY <1>2 DEF WaitLeave, ResultInv, WaitPoints
  <2> QED
    BY <2>1, ReturnStep DEF Abstract!Next, Abstract!TimedWaitFails
<1>3. CASE TryTest(t) /\ ~Available
  <2>1. /\ Return(t, "EAGAIN") /\ value' = value /\ value = 0
        /\ CallOf(t) = "sem_trywait"
    BY <1>3 DEF TryTest, Available, semVars
  <2> QED
    BY <2>1, ReturnStep DEF Abstract!Next, Abstract!TryFails
<1>4. CASE TryTake(t)
  <2>1. /\ Return(t, "ok") /\ value' = value - 1 /\ value > 0
        /\ CallOf(t) = "sem_trywait"
    BY <1>4 DEF TryTake
  <2> QED
    BY <2>1, ReturnStep DEF Abstract!Next, Abstract!Take
<1>5. CASE PostTest(t) /\ AtLimit
  <2>1. /\ Return(t, "EOVERFLOW") /\ value' = value /\ value = SEM_VALUE_MAX
        /\ CallOf(t) = "sem_post"
    BY <1>5 DEF PostTest, AtLimit, semVars
  <2> QED
    BY <2>1, ReturnStep DEF Abstract!Next, Abstract!PostFails
<1>6. CASE PostIncr(t)
  <2>1. /\ Return(t, "ok") /\ value' = value + 1 /\ value < SEM_VALUE_MAX
        /\ CallOf(t) = "sem_post"
    BY <1>6 DEF PostIncr
  <2> QED
    BY <2>1, ReturnStep DEF Abstract!Next, Abstract!Post
<1> QED
  BY <1>1, <1>2, <1>3, <1>4, <1>5, <1>6

\* A waiter that is cancelled.
LEMMA DieStep ==
  ASSUME LInv, NEW t \in Task, CondReturn(t), Canceled(t), value' = value
  PROVE  Abstract!Die(t)
<1>a. Typing
  BY DEF LInv
<1>1. Others(t) /\ pc[t] = "relock" /\ pc'[t] = "exited"
  BY <1>a DEF Typing, CondReturn, At, Goto, Others
<1>2. /\ CallOf(t) \in {"sem_wait", "sem_timedwait"} /\ CallOf(t)' = "gone"
      /\ AnswerOf(t)' = AnswerOf(t)
  BY <1>1 DEF CallOf, AnswerOf
<1>3. /\ Calling' = [Calling EXCEPT ![t] = "gone"]
      /\ Answers' = [Answers EXCEPT ![t] = AnswerOf(t)]
  BY <1>1, <1>2, ChangesCall
<1>4. [Answers EXCEPT ![t] = AnswerOf(t)] = Answers
  BY DEF Answers
<1> QED
  BY <1>2, <1>3, <1>4 DEF Abstract!Die, Calling, Answers

-----------------------------------------------------------------------------
\* The start is a start of the abstract semaphore.
LEMMA InitMaps == Init => Abstract!Init
BY DEF Init, CondInit, Abstract!Init, CallOf, AnswerOf

\* Every step is one of the abstract semaphore's, or none.
LEMMA NextMaps ==
  LInv /\ ValueInv /\ ResultInv /\ [Next]_vars => AbstractStep
<1> SUFFICES ASSUME LInv, ValueInv, ResultInv, [Next]_vars PROVE AbstractStep
  OBVIOUS
<1>1. ASSUME NEW t \in Task, Call(t) PROVE AbstractStep
  BY <1>1, BeginStep, HiddenStep
  DEF AbstractStep, Call, GetCall, semVars, Abstract!Next
<1>2. ASSUME NEW t \in Task, Step(t) PROVE AbstractStep
  <2>1. WaitEnter(t) => AbstractStep
    BY HiddenStep DEF AbstractStep, WaitEnter, At, WaitPoints
  <2>2. WaitLoop(t) => AbstractStep
    BY HiddenStep DEF AbstractStep, WaitLoop, At, WaitPoints, semVars
  <2>3. TryTest(t) \/ PostTest(t) => AbstractStep
    BY HiddenStep, EndStep DEF AbstractStep, TryTest, PostTest, At, semVars
  <2>4. WaitLeave(t) \/ TryTake(t) \/ PostIncr(t) => AbstractStep
    BY EndStep DEF AbstractStep
  <2>5. GetRead(t) \/ GetBusy(t) => AbstractStep
    BY HiddenStep DEF AbstractStep, GetRead, GetBusy, At
  <2>6. CondStep(t) => AbstractStep
    BY HiddenStep, DieStep DEF AbstractStep, CondStep, semVars, Abstract!Next
  <2> QED
    BY <1>2, <2>1, <2>2, <2>3, <2>4, <2>5, <2>6 DEF Step
<1>3. ASSUME NEW t \in Task, Environment(t) PROVE AbstractStep
  BY <1>3, HiddenStep DEF AbstractStep, Environment, semVars
<1>4. CASE UNCHANGED vars
  BY <1>4 DEF AbstractStep, vars, condVars, Abstract!vars, CallOf, AnswerOf, Timed
<1> QED
  BY <1>1, <1>2, <1>3, <1>4 DEF Next

\* Every behaviour of semaphore.c is one of the counting semaphore: no post
\* and no count is lost or doubled, whatever the waiters go through.
THEOREM SemaphoreRefines == Spec => ImplementsCountingSem
<1>1. Init => ResultInv
  BY DEF Init, CondInit, ResultInv, WaitPoints
<1> QED
  BY <1>1, InitMaps, NextMaps, ResultStep, LInvHolds, ValueInvHolds, PTL
  DEF Spec, ImplementsCountingSem, Abstract!Spec, AbstractStep

=============================================================================
