--------------------------- MODULE BarrierProofs ---------------------------
(***************************************************************************)
(* Proofs about Barrier, for every number of tasks, every count and every  *)
(* number of rounds, with any break signals and cancellations.             *)
(***************************************************************************)
EXTENDS Barrier, SignalSemaphoreProofs, FiniteSetTheorems

\* The variables have their types, but the height may be any integer.
Typing ==
  /\ pc \in [Task -> BarrierPoints \cup {"asleep", "relock", "exited"}]
  /\ after \in [Task -> BarrierPoints]
  /\ incond = Len(waiters)
  /\ waiters \in Seq(Task)
  /\ sig \in [Task -> SUBSET Signals]
  /\ got \in [Task -> SUBSET Signals]
  /\ timer \in [Task -> {"off", "armed", "fired"}]
  /\ deadline \in [Task -> Deadlines]
  /\ canceled \in [Task -> BOOLEAN]
  /\ result \in [Task -> Results]
  /\ curr_height \in Int
  /\ total_height \in Int
  /\ destroyed \in BOOLEAN
  /\ calls \in [Task -> 0..Rounds]
  /\ answer \in [Task -> {"none", "serial", "zero"}]

\* The control points a task is at without the lock, and those it only
\* reaches with the lock in its hands.
Unlocked == {"out", "asleep", "d_cond", "d_free"}
Inside == {"b_arrive", "b_hold", "b_exit", "exited"}

\* The lock and the control points agree.
LockInv ==
  /\ WellFormed(mutex)
  /\ \A t \in Task : pc[t] \notin Unlocked <=> Involved(mutex, t)
  /\ \A t \in Task : pc[t] \in Inside => mutex.owner = t

\* The two loops that a condition wait returns to.
AfterInv ==
  \A t \in Task : pc[t] \in {"asleep", "relock", "exited"} => after[t] \in {"b_gate", "b_hold"}

\* The height counts the round, in the range that says whether the round is
\* complete; a task about to enter or to leave knows the range, because it
\* has kept the lock since it looked.
HeightInv ==
  /\ IsFiniteSet(Round)
  /\ curr_height = IF destroyed THEN 0 ELSE Count
  /\ destroyed => total_height = 0
  /\ ~destroyed =>
       \/ /\ total_height = PTHREAD_BARRIER_FLAG + Cardinality(Round)
          /\ Cardinality(Round) < Count
       \/ /\ total_height = Cardinality(Round)
          /\ total_height \in 1 .. Count - 1
  /\ \A t \in Task :
       /\ pc[t] = "b_arrive" => ~Leaving
       /\ pc[t] = "b_exit" => ~Gathering

Destroying(t) == pc[t] \in {"d_cond", "d_free"}

\* The one task that destroys the barrier comes after all calls of the others.
DestroyInv ==
  /\ \A t \in Task : Destroying(t) =>
       /\ ~destroyed
       /\ total_height = PTHREAD_BARRIER_FLAG
       /\ \A u \in Task : calls[u] = Rounds /\ (u # t => pc[u] = "out")
  /\ destroyed => \A t \in Task : pc[t] = "out" /\ calls[t] = Rounds

Inv == Typing /\ LockInv /\ AfterInv /\ HeightInv /\ DestroyInv

-----------------------------------------------------------------------------
\* The invariant holds at the start.
LEMMA InitInv == Init => Inv
<1> SUFFICES ASSUME Init PROVE Inv
  OBVIOUS
<1> USE DEF Init, CondInit
<1>1. Typing
  <2>1. waiters \in Seq(Task) /\ incond = Len(waiters)
    OBVIOUS
  <2>2. /\ curr_height \in Int /\ total_height \in Int
        /\ calls \in [Task -> 0..Rounds]
    BY CountAssumption
  <2> QED
    BY <2>1, <2>2 DEF Typing, BarrierPoints, Deadlines, Results, Signals
<1>2. LockInv /\ AfterInv
  BY FreeWellFormed DEF LockInv, Unlocked, Inside, AfterInv
<1>3. HeightInv
  <2>1. Round = {}
    BY DEF Round, InRound
  <2>2. IsFiniteSet(Round) /\ Cardinality(Round) = 0
    BY <2>1, FS_EmptySet
  <2> QED
    BY <2>2, CountAssumption DEF HeightInv, Leaving, Gathering
<1>4. DestroyInv
  BY DEF DestroyInv, Destroying
<1> QED
  BY <1>1, <1>2, <1>3, <1>4 DEF Inv

-----------------------------------------------------------------------------
(***************************************************************************)
(* The types                                                               *)
(***************************************************************************)
LEMMA SignalWaitersType ==
  ASSUME Typing
  PROVE  SignalWaiters(FALSE) \in [Task -> SUBSET Signals]
BY DEF SignalWaiters, CondBit, Typing, Signals

\* A step that leaves a call keeps the types.
LEMMA ReturnTyping ==
  ASSUME Typing, NEW t \in Task, NEW b \in BOOLEAN, NEW a \in {"serial", "zero"},
         Return(t, b, a), total_height' \in Int, UNCHANGED <<curr_height, destroyed, calls>>
  PROVE  Typing'
<1>1. sig' \in [Task -> SUBSET Signals]
  BY SignalWaitersType DEF Return, Typing
<1> QED
  BY <1>1 DEF Typing, Return, Goto, BarrierPoints, waitVars

\* A step to another control point keeps the types.
LEMMA ContinueTyping ==
  ASSUME Typing, NEW t \in Task, NEW k \in BarrierPoints, Continue(t, k),
         curr_height' \in Int, total_height' \in Int, destroyed' \in BOOLEAN,
         UNCHANGED <<calls, answer>>
  PROVE  Typing'
BY DEF Typing, Continue, Goto, waitVars

\* A step that goes to sleep in a condition keeps the types.
LEMMA SleepTyping ==
  ASSUME Typing, NEW t \in Task, NEW k \in BarrierPoints, CondSleep(t, k), UNCHANGED barrierVars
  PROVE  Typing'
<1>1. waiters' \in Seq(Task) /\ Len(waiters') = Len(waiters) + 1
  BY DEF Typing, CondSleep
<1> QED
  BY <1>1 DEF Typing, CondSleep, Goto, StaleAfterAlloc, barrierVars

\* Every step keeps the types.
LEMMA TypingStep ==
  ASSUME Typing, AfterInv, NEW t \in Task,
         Call(t) \/ DestroyCall(t) \/ Step(t) \/ Environment(t)
  PROVE  Typing'
<1> USE CountAssumption DEF Goto, BarrierPoints, waitVars, barrierVars
<1>1. CASE Call(t)
  BY <1>1 DEF Typing, Call
<1>2. CASE DestroyCall(t)
  BY <1>2, ContinueTyping DEF DestroyCall, Typing
<1>3. CASE Gate(t)
  BY <1>3, ContinueTyping, SleepTyping DEF Gate, Typing
<1>4. CASE Arrive(t)
  <2>1. HeightWith \in Int /\ CompletedHeight \in Int
    BY DEF HeightWith, CompletedHeight, Typing
  <2>2. CASE HeightWith = curr_height
    BY <1>4, <2>1, <2>2, ReturnTyping DEF Arrive
  <2>3. CASE HeightWith # curr_height
    BY <1>4, <2>1, <2>3, ContinueTyping DEF Arrive, Typing
  <2> QED
    BY <2>2, <2>3
<1>5. CASE Hold(t)
  BY <1>5, ContinueTyping, SleepTyping DEF Hold, Typing
<1>6. CASE Exit(t)
  <2>1. total_height' \in Int /\ LastOut \in BOOLEAN
    BY <1>6 DEF Exit, Typing, LastOut
  <2> QED
    BY <1>6, <2>1, ReturnTyping DEF Exit
<1>7. CASE DestroyCond(t)
  BY <1>7, ContinueTyping DEF DestroyCond, Typing
<1>8. CASE DestroyFree(t)
  BY <1>8, ContinueTyping DEF DestroyFree
<1>9. CASE CondWake(t) /\ UNCHANGED barrierVars
  BY <1>9 DEF Typing, CondWake
<1>10. CASE CondReturn(t) /\ UNCHANGED barrierVars
  <2>1. waiters' \in Seq(Task) /\ Len(waiters') = Len(waiters) - 1
    BY <1>10, RemoveAtLemma DEF CondReturn, DropWaiter, Typing
  <2>2. sig' \in [Task -> SUBSET Signals]
    BY <1>10 DEF CondReturn, CloseTimer, TimerBit, Signals, Typing
  <2> QED
    BY <1>10, <2>1, <2>2 DEF Typing, CondReturn, CloseTimer, At, Results
<1>11. CASE Environment(t)
  <2>1. Break(t) /\ UNCHANGED barrierVars => Typing'
    BY DEF Typing, Break, Signals
  <2>2. Cancel(t) /\ UNCHANGED barrierVars => Typing'
    BY DEF Typing, Cancel, Signals
  <2> QED
    BY <1>11, <2>1, <2>2 DEF Environment
<1> QED
  BY <1>1, <1>2, <1>3, <1>4, <1>5, <1>6, <1>7, <1>8, <1>9, <1>10, <1>11, Zenon
  DEF Step, CondStep

-----------------------------------------------------------------------------
(***************************************************************************)
(* The lock: a step of t to the control point k asks for it, keeps it,     *)
(* releases it or does not touch it.                                       *)
(***************************************************************************)
Asks(t, k) ==
  pc[t] \in Unlocked /\ k \notin Unlocked \cup Inside /\ Goto(t, k) /\ Lock(t)

Keeps(t, k) ==
  pc[t] \notin Unlocked /\ Ready(t) /\ k \notin Unlocked /\ Goto(t, k) /\ UNCHANGED mutex

Releases(t, k) ==
  pc[t] \notin Unlocked /\ Ready(t) /\ k \in Unlocked /\ Goto(t, k) /\ Unlock

Avoids(t, k) ==
  pc[t] \in Unlocked /\ k \in Unlocked /\ Goto(t, k) /\ UNCHANGED mutex

LockStep(t) ==
  \/ \E k : Asks(t, k) \/ Keeps(t, k) \/ Releases(t, k) \/ Avoids(t, k)
  \/ UNCHANGED <<pc, mutex>>

\* A step that asks for, keeps, releases or avoids the lock keeps the lock and
\* the control points in agreement.
LEMMA LockStepInv ==
  ASSUME Typing, LockInv, NEW t \in Task, LockStep(t)
  PROVE  LockInv'
<1>a. \A k : Goto(t, k) => \A u \in Task : pc'[u] = IF u = t THEN k ELSE pc[u]
  BY DEF Goto, Typing
<1>b. pc[t] \notin Unlocked /\ Ready(t) => mutex.owner = t
  BY OwnerIsReady DEF LockInv, Ready
<1> USE DEF LockInv
<1>1. ASSUME NEW k, Asks(t, k) PROVE LockInv'
  BY <1>1, <1>a, ObtainLemma DEF Asks, Lock, Inside
<1>2. ASSUME NEW k, Keeps(t, k) PROVE LockInv'
  BY <1>2, <1>a, <1>b DEF Keeps
<1>3. ASSUME NEW k, Releases(t, k) PROVE LockInv'
  <2>1. \A u \in Task \ {t} : pc[u] \notin Inside
    BY <1>3, <1>b DEF Releases
  <2> QED
    BY <1>3, <1>a, <1>b, <2>1, ReleaseLemma DEF Releases, Unlock, Unlocked, Inside
<1>4. ASSUME NEW k, Avoids(t, k) PROVE LockInv'
  BY <1>4, <1>a DEF Avoids, Unlocked, Inside
<1>5. CASE UNCHANGED <<pc, mutex>>
  BY <1>5
<1> QED
  BY <1>1, <1>2, <1>3, <1>4, <1>5 DEF LockStep

\* Every step does one of these four with the lock.
LEMMA NextLockStep ==
  ASSUME AfterInv, NEW t \in Task,
         Call(t) \/ DestroyCall(t) \/ Step(t) \/ Environment(t)
  PROVE  LockStep(t)
<1> USE DEF Unlocked, Inside
<1>0. (\E k : Asks(t, k) \/ Keeps(t, k) \/ Releases(t, k) \/ Avoids(t, k)) => LockStep(t)
  BY DEF LockStep
<1>1. Call(t) => Asks(t, "b_gate")
  BY DEF Call, Asks
<1>2. DestroyCall(t) => Avoids(t, "d_cond")
  BY DEF DestroyCall, Continue, Avoids
<1>3. Gate(t) => Releases(t, "asleep") \/ Keeps(t, "b_arrive")
  BY DEF Gate, At, CondSleep, Continue, Releases, Keeps
<1>4. Arrive(t) => Releases(t, "out") \/ Keeps(t, "b_hold")
  BY DEF Arrive, At, Return, Continue, Releases, Keeps
<1>5. Hold(t) => Releases(t, "asleep") \/ Keeps(t, "b_exit")
  BY DEF Hold, At, CondSleep, Continue, Releases, Keeps
<1>6. Exit(t) => Releases(t, "out")
  BY DEF Exit, At, Return, Releases
<1>7. DestroyCond(t) => Avoids(t, "d_free") \/ Avoids(t, "out")
  BY DEF DestroyCond, Continue, Avoids
<1>8. DestroyFree(t) => Avoids(t, "out")
  BY DEF DestroyFree, Continue, Avoids
<1>9. CondWake(t) => Asks(t, "relock")
  BY DEF CondWake, Asks
<1>10. CondReturn(t) => Keeps(t, "exited") \/ Keeps(t, "b_gate") \/ Keeps(t, "b_hold")
  BY DEF CondReturn, At, Keeps, AfterInv
<1>11. Environment(t) => LockStep(t)
  BY DEF Environment, Break, Cancel, LockStep
<1> QED
  BY <1>0, <1>1, <1>2, <1>3, <1>4, <1>5, <1>6, <1>7, <1>8, <1>9, <1>10, <1>11, Zenon
  DEF Step, CondStep

\* A condition wait only returns to one of the two loops.
LEMMA AfterStep ==
  ASSUME Typing, AfterInv, NEW t \in Task,
         Call(t) \/ DestroyCall(t) \/ Step(t) \/ Environment(t)
  PROVE  AfterInv'
<1> USE DEF AfterInv, Typing, Goto, waitVars
<1>1. CASE Call(t) \/ DestroyCall(t) \/ DestroyCond(t) \/ DestroyFree(t)
  BY <1>1 DEF Call, DestroyCall, DestroyCond, DestroyFree, Continue
<1>2. CASE Gate(t) \/ Hold(t)
  BY <1>2 DEF Gate, Hold, CondSleep, Continue
<1>3. CASE Arrive(t) \/ Exit(t)
  BY <1>3 DEF Arrive, Exit, Return, Continue
<1>4. CASE CondWake(t) \/ CondReturn(t)
  BY <1>4 DEF CondWake, CondReturn, At
<1>5. CASE Environment(t)
  BY <1>5 DEF Environment, Break, Cancel
<1> QED
  BY <1>1, <1>2, <1>3, <1>4, <1>5, Zenon DEF Step, CondStep

-----------------------------------------------------------------------------
(***************************************************************************)
(* The height                                                              *)
(***************************************************************************)
\* What a step does to the round: t enters it, leaves it, or nothing.
LEMMA RoundEntered ==
  ASSUME NEW t \in Task, ~InRound(t), InRound(t)',
         \A u \in Task \ {t} : InRound(u)' = InRound(u), IsFiniteSet(Round)
  PROVE  /\ Round' = Round \cup {t} /\ t \notin Round
         /\ IsFiniteSet(Round') /\ Cardinality(Round') = Cardinality(Round) + 1
<1>1. Round' = Round \cup {t} /\ t \notin Round
  BY DEF Round
<1> QED
  BY <1>1, FS_AddElement

\* A task that leaves the round makes it one smaller.
LEMMA RoundLeft ==
  ASSUME NEW t \in Task, InRound(t), ~InRound(t)',
         \A u \in Task \ {t} : InRound(u)' = InRound(u), IsFiniteSet(Round)
  PROVE  /\ Round' = Round \ {t} /\ t \in Round
         /\ IsFiniteSet(Round') /\ Cardinality(Round') = Cardinality(Round) - 1
<1>1. Round' = Round \ {t} /\ t \in Round
  BY DEF Round
<1> QED
  BY <1>1, FS_RemoveElement

\* A step after which the same tasks are in the round keeps the round.
LEMMA RoundKept ==
  ASSUME \A u \in Task : InRound(u)' = InRound(u)
  PROVE  Round' = Round
BY DEF Round

\* A step of t says nothing about where the other tasks are.
Others(t) == \A u \in Task \ {t} : pc'[u] = pc[u] /\ after'[u] = after[u]

\* A step of t takes no other task into the round or out of it.
LEMMA OthersInRound ==
  ASSUME NEW t \in Task, Others(t), NEW u \in Task \ {t}
  PROVE  InRound(u)' = InRound(u)
BY DEF Others, InRound

\* A step that leaves the height and the round alone, after which t has
\* still seen what its control point says.
HeightKept(t) ==
  /\ Others(t)
  /\ InRound(t)' = InRound(t)
  /\ UNCHANGED <<curr_height, total_height, destroyed>>
  /\ pc'[t] = "b_arrive" => ~Leaving
  /\ pc'[t] = "b_exit" => ~Gathering

\* A step that touches neither the height nor the round keeps the height exact.
LEMMA HeightKeptInv ==
  ASSUME HeightInv, NEW t \in Task, HeightKept(t)
  PROVE  HeightInv' /\ Round' = Round
<1>1. Round' = Round
  <2>1. \A u \in Task : InRound(u)' = InRound(u)
    BY OthersInRound DEF HeightKept
  <2> QED
    BY <2>1, RoundKept
<1>2. \A u \in Task : (pc'[u] = "b_arrive" => ~Leaving) /\ (pc'[u] = "b_exit" => ~Gathering)
  BY DEF HeightInv, HeightKept, Others
<1>3. UNCHANGED <<curr_height, total_height, destroyed>>
  BY DEF HeightKept
<1> QED
  BY <1>1, <1>2, <1>3 DEF HeightInv, Leaving, Gathering

\* Who has the lock at one of the points inside is the only one there.
LEMMA AloneInside ==
  ASSUME LockInv, NEW t \in Task, pc[t] \in Inside, NEW u \in Task, pc[u] \in Inside
  PROVE  t = u
BY DEF LockInv

\* The two steps that change the height: a task arrives at a round that can
\* be entered, and completes it or adds itself; and a task leaves a round
\* that is complete.
Completes(t) ==
  /\ Cardinality(Round) + 1 = Count
  /\ Round' = Round /\ ~(total_height' < PTHREAD_BARRIER_FLAG)
  /\ answer' = [answer EXCEPT ![t] = "serial"]

Gathers(t) ==
  /\ Cardinality(Round) + 1 < Count
  /\ Round' = Round \cup {t} /\ total_height' < PTHREAD_BARRIER_FLAG
  /\ answer' = answer

\* A task that arrives raises the height and the round by one; the last one
\* turns the barrier round.
LEMMA ArriveHeight ==
  ASSUME Typing, LockInv, HeightInv, DestroyInv, NEW t \in Task, Arrive(t)
  PROVE  /\ HeightInv'
         /\ t \notin Round
         /\ total_height < PTHREAD_BARRIER_FLAG \/ Round = {}
         /\ Completes(t) \/ Gathers(t)
<1> DEFINE c == Cardinality(Round)
<1>1. /\ pc[t] = "b_arrive" /\ ~destroyed /\ ~Leaving
      /\ curr_height = Count /\ curr_height' = curr_height /\ destroyed' = destroyed
      /\ IsFiniteSet(Round) /\ c \in Nat
  BY FS_CardinalityType DEF Arrive, At, DestroyInv, HeightInv
<1>2. /\ c + 1 = HeightWith /\ c < Count
      /\ total_height < PTHREAD_BARRIER_FLAG \/ c = 0
  <2>1. total_height \in Int /\ total_height <= PTHREAD_BARRIER_FLAG
    BY <1>1, CountAssumption DEF Leaving, Typing
  <2>2. \/ total_height = PTHREAD_BARRIER_FLAG + c /\ c < Count
        \/ total_height = c /\ total_height \in 1 .. Count - 1
    BY <1>1 DEF HeightInv
  <2>3. CASE total_height = PTHREAD_BARRIER_FLAG + c /\ c < Count
    <3>1. c = 0 /\ total_height = PTHREAD_BARRIER_FLAG
      BY <1>1, <2>1, <2>3, CountAssumption
    <3> QED
      BY <2>3, <3>1 DEF HeightWith
  <2>4. CASE total_height = c /\ total_height \in 1 .. Count - 1
    <3>1. total_height # PTHREAD_BARRIER_FLAG
      BY <2>4, CountAssumption
    <3> QED
      BY <1>1, <2>4, <3>1, CountAssumption DEF HeightWith
  <2> QED
    BY <2>2, <2>3, <2>4
<1>e. total_height < PTHREAD_BARRIER_FLAG \/ Round = {}
  BY <1>1, <1>2, FS_EmptySet
<1>n. t \notin Round
  BY <1>1 DEF Round, InRound
<1>3. \A u \in Task \ {t} : pc[u] \notin {"b_arrive", "b_exit"}
  BY <1>1, AloneInside DEF Inside
<1>4. CASE HeightWith = curr_height
  <2>1. /\ total_height' = c + PTHREAD_BARRIER_FLAG
        /\ pc' = [pc EXCEPT ![t] = "out"] /\ after' = after
        /\ answer' = [answer EXCEPT ![t] = "serial"]
    <3>1. total_height' = HeightWith + PTHREAD_BARRIER_FLAG - 1
      BY <1>4 DEF Arrive, CompletedHeight
    <3> QED
      BY <1>1, <1>2, <1>4, <3>1, CountAssumption DEF Arrive, Return, Goto, waitVars
  <2>2. Round' = Round
    <3>1. Others(t) /\ InRound(t)' = InRound(t)
      BY <1>1, <2>1 DEF Typing, Others, InRound
    <3> QED
      BY <3>1, OthersInRound, RoundKept
  <2>3. \A u \in Task : pc'[u] \notin {"b_arrive", "b_exit"}
    BY <1>3, <2>1 DEF Typing
  <2>4. ~destroyed' /\ curr_height' = Count /\ total_height' = PTHREAD_BARRIER_FLAG + c
    BY <1>1, <2>1, CountAssumption
  <2>5. HeightInv'
    BY <1>1, <1>2, <2>2, <2>3, <2>4 DEF HeightInv
  <2>6. Completes(t)
    <3>1. c + 1 = Count /\ ~(total_height' < PTHREAD_BARRIER_FLAG)
      BY <1>1, <1>2, <1>4, <2>1, CountAssumption
    <3> QED
      BY <2>1, <2>2, <3>1 DEF Completes
  <2> QED
    BY <1>e, <1>n, <2>5, <2>6
<1>5. CASE HeightWith # curr_height
  <2>1. /\ total_height' = c + 1
        /\ pc' = [pc EXCEPT ![t] = "b_hold"] /\ after' = after /\ answer' = answer
    BY <1>2, <1>5 DEF Arrive, Continue, Goto, waitVars
  <2>2. /\ IsFiniteSet(Round') /\ Cardinality(Round') = c + 1
        /\ Round' = Round \cup {t}
    <3>1. Others(t) /\ ~InRound(t) /\ InRound(t)'
      BY <1>1, <2>1 DEF Typing, Others, InRound
    <3> QED
      BY <1>1, <3>1, OthersInRound, RoundEntered
  <2>3. \A u \in Task : pc'[u] \notin {"b_arrive", "b_exit"}
    BY <1>3, <2>1 DEF Typing
  <2>4. c + 1 \in 1 .. Count - 1
    BY <1>1, <1>2, <1>5, CountAssumption
  <2>5. HeightInv'
    BY <1>1, <2>1, <2>2, <2>3, <2>4 DEF HeightInv
  <2>6. Gathers(t)
    <3>1. c + 1 < Count /\ total_height' < PTHREAD_BARRIER_FLAG
      BY <1>1, <2>1, <2>4, CountAssumption
    <3> QED
      BY <2>1, <2>2, <3>1 DEF Gathers
  <2> QED
    BY <1>e, <1>n, <2>5, <2>6
<1> QED
  BY <1>4, <1>5

\* A task that leaves lowers the height and the round by one; the last one
\* opens the next round.
LEMMA ExitHeight ==
  ASSUME Typing, LockInv, HeightInv, DestroyInv, NEW t \in Task, Exit(t)
  PROVE  /\ HeightInv'
         /\ t \in Round /\ Round' = Round \ {t}
         /\ ~(total_height < PTHREAD_BARRIER_FLAG)
         /\ ~(total_height' < PTHREAD_BARRIER_FLAG)
         /\ answer' = [answer EXCEPT ![t] = "zero"]
<1> DEFINE c == Cardinality(Round)
<1>1. /\ pc[t] = "b_exit" /\ ~destroyed /\ ~Gathering
      /\ curr_height = Count /\ curr_height' = curr_height /\ destroyed' = destroyed
      /\ IsFiniteSet(Round) /\ c \in Nat
  BY FS_CardinalityType DEF Exit, At, DestroyInv, HeightInv
<1>2. total_height = PTHREAD_BARRIER_FLAG + c /\ c < Count
  <2>1. ~(total_height < PTHREAD_BARRIER_FLAG)
    BY <1>1 DEF Gathering
  <2>2. ~(total_height \in 1 .. Count - 1)
    BY <2>1, CountAssumption
  <2> QED
    BY <1>1, <2>2 DEF HeightInv
<1>3. /\ total_height' = total_height - 1
      /\ pc' = [pc EXCEPT ![t] = "out"] /\ after' = after
  BY DEF Exit, Return, Goto, waitVars
<1>4. /\ IsFiniteSet(Round') /\ Cardinality(Round') = c - 1
      /\ t \in Round /\ Round' = Round \ {t}
  <2>1. Others(t) /\ InRound(t) /\ ~InRound(t)'
    BY <1>1, <1>3 DEF Typing, Others, InRound
  <2> QED
    BY <1>1, <2>1, OthersInRound, RoundLeft
<1>5. \A u \in Task : pc'[u] \notin {"b_arrive", "b_exit"}
  <2>1. \A u \in Task \ {t} : pc[u] \notin {"b_arrive", "b_exit"}
    BY <1>1, AloneInside DEF Inside
  <2> QED
    BY <1>3, <2>1 DEF Typing
<1>6. total_height' = PTHREAD_BARRIER_FLAG + (c - 1) /\ c - 1 < Count
  BY <1>1, <1>2, <1>3, CountAssumption
<1>7. HeightInv'
  BY <1>1, <1>4, <1>5, <1>6 DEF HeightInv
<1>8. c - 1 \in Nat
  BY <1>4, FS_CardinalityType
<1>9. ~(total_height < PTHREAD_BARRIER_FLAG) /\ ~(total_height' < PTHREAD_BARRIER_FLAG)
  BY <1>1, <1>2, <1>6, <1>8, CountAssumption
<1> QED
  BY <1>4, <1>7, <1>9 DEF Exit, Return

\* Destroying finds nobody in the round.
LEMMA DestroyHeight ==
  ASSUME Typing, HeightInv, DestroyInv, NEW t \in Task, DestroyFree(t)
  PROVE  HeightInv' /\ Round = {} /\ Round' = {}
<1>1. /\ pc' = [pc EXCEPT ![t] = "out"] /\ after' = after
      /\ curr_height' = 0 /\ total_height' = 0 /\ destroyed'
  BY DEF DestroyFree, Continue, Goto, waitVars
<1>2. \A u \in Task : pc'[u] = "out"
  BY <1>1 DEF DestroyFree, DestroyInv, Destroying, Typing
<1>3. Round' = {}
  BY <1>2 DEF Round, InRound
<1>4. Round = {}
  BY DEF DestroyFree, DestroyInv, Destroying, Round, InRound
<1> QED
  BY <1>4, <1>1, <1>2, <1>3, FS_EmptySet DEF HeightInv

\* Every other step leaves the height and the round alone.
LEMMA StepKinds ==
  ASSUME Inv, NEW t \in Task,
         Call(t) \/ DestroyCall(t) \/ Step(t) \/ Environment(t)
  PROVE  \/ Arrive(t) \/ Exit(t) \/ DestroyFree(t)
         \/ HeightKept(t) /\ UNCHANGED answer
<1>a. Typing /\ LockInv /\ AfterInv /\ HeightInv /\ DestroyInv
  BY DEF Inv
<1> USE DEF Goto, Others, InRound, waitVars, barrierVars
<1>1. Call(t) \/ DestroyCall(t) \/ DestroyCond(t) => HeightKept(t) /\ UNCHANGED answer
  BY <1>a DEF Typing, Call, DestroyCall, DestroyCond, Continue, HeightKept
<1>2. Gate(t) => HeightKept(t) /\ UNCHANGED answer
  <2>1. Continue(t, "b_arrive") /\ ~Leaving /\ pc[t] = "b_gate" /\ UNCHANGED barrierVars
          => HeightKept(t) /\ UNCHANGED answer
    BY <1>a DEF Typing, Continue, HeightKept
  <2>2. CondSleep(t, "b_gate") /\ pc[t] = "b_gate" /\ UNCHANGED barrierVars => HeightKept(t) /\ UNCHANGED answer
    BY <1>a DEF Typing, CondSleep, HeightKept
  <2> QED
    BY <2>1, <2>2, Zenon DEF Gate, At
<1>3. Hold(t) => HeightKept(t) /\ UNCHANGED answer
  <2>1. Continue(t, "b_exit") /\ ~Gathering /\ pc[t] = "b_hold" /\ UNCHANGED barrierVars
          => HeightKept(t) /\ UNCHANGED answer
    BY <1>a DEF Typing, Continue, HeightKept
  <2>2. CondSleep(t, "b_hold") /\ pc[t] = "b_hold" /\ UNCHANGED barrierVars => HeightKept(t) /\ UNCHANGED answer
    BY <1>a DEF Typing, CondSleep, HeightKept
  <2> QED
    BY <2>1, <2>2, Zenon DEF Hold, At
<1>4. CondWake(t) /\ UNCHANGED barrierVars => HeightKept(t) /\ UNCHANGED answer
  BY <1>a DEF Typing, CondWake, HeightKept
<1>5. CondReturn(t) /\ UNCHANGED barrierVars => HeightKept(t) /\ UNCHANGED answer
  BY <1>a DEF Typing, AfterInv, CondReturn, At, HeightKept
<1>6. Environment(t) => HeightKept(t) /\ UNCHANGED answer
  BY <1>a DEF HeightInv, Environment, Break, Cancel, HeightKept
<1> QED
  BY <1>1, <1>2, <1>3, <1>4, <1>5, <1>6, Zenon DEF Step, CondStep

\* Every step keeps the height exact.
LEMMA HeightStep ==
  ASSUME Inv, NEW t \in Task,
         Call(t) \/ DestroyCall(t) \/ Step(t) \/ Environment(t)
  PROVE  HeightInv'
BY StepKinds, HeightKeptInv, ArriveHeight, ExitHeight, DestroyHeight, Zenon DEF Inv

-----------------------------------------------------------------------------
(***************************************************************************)
(* The destruction                                                         *)
(***************************************************************************)
\* A task inside the barrier, or in a call of it, shows that nobody is
\* destroying it.
LEMMA InsideIsAlive ==
  ASSUME Typing, DestroyInv, NEW t \in Task, pc[t] \notin {"out", "d_cond", "d_free"}
  PROVE  ~destroyed /\ \A u \in Task : ~Destroying(u)
BY DEF DestroyInv, Destroying

\* Every step keeps what is known of the one task that destroys the barrier.
LEMMA DestroyStep ==
  ASSUME Inv, NEW t \in Task,
         Call(t) \/ DestroyCall(t) \/ Step(t) \/ Environment(t)
  PROVE  DestroyInv'
<1>a. Typing /\ LockInv /\ AfterInv /\ HeightInv /\ DestroyInv
  BY DEF Inv
<1> USE DEF Goto, waitVars, barrierVars
<1>b. ASSUME NEW k, k \notin {"d_cond", "d_free"}, Goto(t, k), UNCHANGED destroyed,
             pc[t] \notin {"out", "d_cond", "d_free"}
      PROVE  DestroyInv'
  BY <1>a, <1>b, InsideIsAlive DEF Typing, DestroyInv, Destroying
<1>1. CASE Call(t)
  BY <1>a, <1>1, CountAssumption DEF Typing, Call, DestroyInv, Destroying
<1>2. CASE DestroyCall(t)
  <2>1. /\ ~destroyed /\ pc[t] = "out" /\ ~Leaving
        /\ \A u \in Task : calls[u] = Rounds /\ (pc[u] = "out" \/ OnItsWayOut(u))
        /\ pc' = [pc EXCEPT ![t] = "d_cond"]
        /\ UNCHANGED <<calls, destroyed, total_height>>
    BY <1>2 DEF DestroyCall, Continue
  <2>2. total_height = PTHREAD_BARRIER_FLAG /\ Cardinality(Round) = 0
    <3>1. ~Gathering
      <4>1. CASE Gathering
        <5>1. \A u \in Task : pc[u] = "out"
          BY <2>1, <4>1 DEF OnItsWayOut
        <5>2. Round = {}
          BY <5>1 DEF Round, InRound
        <5>3. Cardinality(Round) = 0
          BY <5>2, FS_EmptySet
        <5>4. total_height = PTHREAD_BARRIER_FLAG + 0
          BY <1>a, <2>1, <5>3 DEF HeightInv
        <5> QED
          BY <4>1, <5>4, CountAssumption DEF Gathering
      <4> QED
        BY <4>1
    <3>2. total_height = PTHREAD_BARRIER_FLAG
      BY <1>a, <2>1, <3>1, CountAssumption DEF Typing, Leaving, Gathering
    <3>3. Cardinality(Round) \in Nat /\ ~(total_height \in 1 .. Count - 1)
      BY <1>a, <3>2, FS_CardinalityType, CountAssumption DEF HeightInv
    <3>4. total_height = PTHREAD_BARRIER_FLAG + Cardinality(Round)
      BY <1>a, <2>1, <3>3 DEF HeightInv
    <3> QED
      BY <3>2, <3>3, <3>4, CountAssumption
  <2>3. \A u \in Task : pc[u] = "out"
    <3>1. Round = {}
      BY <1>a, <2>2, FS_EmptySet DEF HeightInv
    <3>2. \A u \in Task : OnItsWayOut(u) => u \in Round
      BY DEF OnItsWayOut, Round, InRound
    <3> QED
      BY <2>1, <3>1, <3>2
  <2> QED
    BY <1>a, <2>1, <2>2, <2>3 DEF Typing, DestroyInv, Destroying
<1>3. CASE Gate(t)
  BY <1>b, <1>3 DEF Gate, At, CondSleep, Continue
<1>4. CASE Arrive(t)
  BY <1>b, <1>4 DEF Arrive, At, Return, Continue
<1>5. CASE Hold(t)
  BY <1>b, <1>5 DEF Hold, At, CondSleep, Continue
<1>6. CASE Exit(t)
  BY <1>b, <1>6 DEF Exit, At, Return
<1>7. CASE DestroyCond(t)
  BY <1>a, <1>7 DEF Typing, DestroyCond, Continue, DestroyInv, Destroying
<1>8. CASE DestroyFree(t)
  BY <1>a, <1>8 DEF Typing, DestroyFree, Continue, DestroyInv, Destroying
<1>9. CASE CondWake(t) /\ UNCHANGED barrierVars
  BY <1>b, <1>9 DEF CondWake
<1>10. CASE CondReturn(t) /\ UNCHANGED barrierVars
  BY <1>a, <1>b, <1>10 DEF CondReturn, At, AfterInv
<1>11. CASE Environment(t)
  BY <1>a, <1>11 DEF Environment, Break, Cancel, DestroyInv, Destroying
<1> QED
  BY <1>1, <1>2, <1>3, <1>4, <1>5, <1>6, <1>7, <1>8, <1>9, <1>10, <1>11, Zenon
  DEF Step, CondStep

-----------------------------------------------------------------------------
LEMMA StaysInv == Inv /\ UNCHANGED vars => Inv'
<1> SUFFICES ASSUME Inv, UNCHANGED vars PROVE Inv'
  OBVIOUS
<1>1. Round' = Round
  BY DEF vars, condVars, Round, InRound
<1> QED
  BY <1>1 DEF Inv, Typing, LockInv, AfterInv, HeightInv, DestroyInv, Destroying, Leaving,
              Gathering, vars, condVars

\* Every step keeps the invariant.
LEMMA NextInv == Inv /\ [Next]_vars => Inv'
<1> SUFFICES ASSUME Inv, [Next]_vars PROVE Inv'
  OBVIOUS
<1>1. ASSUME NEW t \in Task, Call(t) \/ DestroyCall(t) \/ Step(t) \/ Environment(t)
      PROVE  Inv'
  <2>1. Typing' /\ AfterInv'
    BY <1>1, TypingStep, AfterStep DEF Inv
  <2>2. LockInv'
    BY <1>1, NextLockStep, LockStepInv DEF Inv
  <2> QED
    BY <1>1, <2>1, <2>2, HeightStep, DestroyStep DEF Inv
<1> QED
  BY <1>1, StaysInv DEF Next

\* The invariant holds in every behavior.
LEMMA InvHolds == Spec => []Inv
BY InitInv, NextInv, PTL DEF Spec

\* Every variable of a barrier keeps its type, and total_height one of its
\* two ranges.
THEOREM BarrierTypeCorrect == Spec => []TypeOK
<1>1. Inv => TypeOK
  <2> SUFFICES ASSUME Inv PROVE TypeOK
    OBVIOUS
  <2>1. total_height \in 0..(Count - 1)
                         \cup PTHREAD_BARRIER_FLAG..(PTHREAD_BARRIER_FLAG + Count - 1)
    <3>1. Cardinality(Round) \in Nat
      BY FS_CardinalityType DEF Inv, HeightInv
    <3> QED
      BY <3>1, CountAssumption DEF Inv, HeightInv, Typing
  <2>2. CondTypeOK(BarrierPoints)
    <3>1. incond \in Nat
      BY DEF Inv, Typing
    <3> QED
      BY <3>1 DEF Inv, Typing, LockInv, WellFormed, Orderly, CondTypeOK
  <2>3. curr_height \in {0, Count}
    BY DEF Inv, HeightInv
  <2> QED
    BY <2>1, <2>2, <2>3 DEF Inv, Typing, TypeOK
<1> QED
  BY <1>1, InvHolds, PTL

\* However the two generations of waiters that share a condition are woken,
\* broken and cancelled, total_height counts the tasks of the round.
THEOREM HeightIsExact == Spec => []HeightCountsRound
<1>1. Inv => HeightCountsRound
  <2> SUFFICES ASSUME Inv PROVE HeightCountsRound
    OBVIOUS
  <2>1. CASE destroyed
    <3>1. Round = {}
      BY <2>1 DEF Inv, DestroyInv, Round, InRound
    <3>2. Cardinality(Round) = 0
      BY <3>1, FS_EmptySet
    <3> QED
      BY <2>1, <3>2 DEF Inv, HeightInv, HeightCountsRound
  <2>2. CASE ~destroyed
    BY <2>2 DEF Inv, HeightInv, HeightCountsRound
  <2> QED
    BY <2>1, <2>2
<1> QED
  BY <1>1, InvHolds, PTL

\* pthread_barrier_destroy by the serial task never zeroes a barrier that
\* another task is still in.
THEOREM DestroyIsSafe == Spec => []DestroySafe
<1>1. Inv => DestroySafe
  BY DEF Inv, DestroyInv, DestroySafe
<1> QED
  BY <1>1, InvHolds, PTL

-----------------------------------------------------------------------------
(***************************************************************************)
(* The rounds: the calls that have returned fill whole rounds, together    *)
(* with the tasks that have still to leave one.                            *)
(***************************************************************************)
RoundsInv ==
  /\ \A t \in Task : pc[t] \notin Outdoors => calls[t] >= 1
  /\ IsFiniteSet(Numbered(calls)) /\ IsFiniteSet(Numbered(Returned))
  /\ \E q \in Nat :
       IF Gathering THEN Cardinality(Numbered(Returned)) = Count * q
                    ELSE Cardinality(Numbered(Returned)) + Cardinality(Round) = Count * q

\* Numbered is the set of pairs that is counted in SignalSemaphoreProofs.
LEMMA NumberedMore ==
  ASSUME NEW S \in [Task -> Nat], IsFiniteSet(Numbered(S)), NEW t \in Task, NEW T,
         T = [S EXCEPT ![t] = @ + 1]
  PROVE  IsFiniteSet(Numbered(T)) /\ Cardinality(Numbered(T)) = Cardinality(Numbered(S)) + 1
<1> DEFINE P == Pairs(S)
           h == <<t, S[t] + 1>>
<1>1. Numbered(T) = P \cup {h} /\ h \notin P /\ P = Numbered(S)
  BY PairsMore DEF Numbered, Pairs
<1> HIDE DEF P, h
<1>2. IsFiniteSet(P)
  BY <1>1
<1>3. IsFiniteSet(P \cup {h}) /\ Cardinality(P \cup {h}) = Cardinality(P) + 1
  BY <1>1, <1>2, FS_AddElement
<1> QED
  BY <1>1, <1>3

\* The calls, and the calls that have returned, are counted.
LEMMA ReturnedLemma ==
  ASSUME Typing, RoundsInv
  PROVE  /\ calls \in [Task -> Nat] /\ Returned \in [Task -> Nat]
         /\ \A t \in Task : Returned[t] = IF pc[t] \in Outdoors THEN calls[t] ELSE calls[t] - 1
<1>1. calls \in [Task -> Nat]
  BY CountAssumption DEF Typing
<1>2. \A t \in Task : (IF pc[t] \in Outdoors THEN calls[t] ELSE calls[t] - 1) \in Nat
  BY <1>1 DEF RoundsInv
<1> QED
  BY <1>1, <1>2 DEF Returned

\* After a step too.
LEMMA ReturnedNext ==
  \A S \in [Task -> Nat] :
    (\A t \in Task : S[t] = IF pc'[t] \in Outdoors THEN calls'[t] ELSE calls'[t] - 1) => Returned' = S
BY DEF Returned

\* What the other steps do for the calls: t begins one, comes back from one,
\* or neither.
Begins(t) ==
  /\ calls' = [calls EXCEPT ![t] = @ + 1]
  /\ pc[t] = "out" /\ pc' = [pc EXCEPT ![t] = "b_gate"]

ComesBack(t) ==
  /\ calls' = calls
  /\ pc[t] \notin Outdoors /\ pc' = [pc EXCEPT ![t] = "out"]

StaysThere ==
  /\ calls' = calls
  /\ \A u \in Task : pc'[u] \in Outdoors <=> pc[u] \in Outdoors

\* A call that begins has not returned.
LEMMA BeginsLemma ==
  ASSUME Typing, RoundsInv, NEW t \in Task, Begins(t)
  PROVE  /\ \A u \in Task : pc'[u] \notin Outdoors => calls'[u] >= 1
         /\ IsFiniteSet(Numbered(calls'))
         /\ Returned' = Returned
<1>1. calls \in [Task -> Nat] /\ pc \in [Task -> BarrierPoints \cup {"asleep", "relock", "exited"}]
  BY ReturnedLemma DEF Typing
<1>2. \A u \in Task : pc'[u] = (IF u = t THEN "b_gate" ELSE pc[u])
                     /\ calls'[u] = (IF u = t THEN calls[t] + 1 ELSE calls[u])
  BY <1>1 DEF Begins
<1>3. \A u \in Task : pc'[u] \notin Outdoors => calls'[u] >= 1
  BY <1>1, <1>2 DEF RoundsInv
<1>4. IsFiniteSet(Numbered(calls'))
  <2>1. calls' = [calls EXCEPT ![t] = @ + 1] /\ IsFiniteSet(Numbered(calls))
    BY DEF Begins, RoundsInv
  <2> QED
    BY <1>1, <2>1, NumberedMore
<1>5. \A u \in Task : Returned[u] = IF pc'[u] \in Outdoors THEN calls'[u] ELSE calls'[u] - 1
  BY <1>1, <1>2, ReturnedLemma DEF Outdoors, Begins
<1> QED
  BY <1>3, <1>4, <1>5, ReturnedLemma, ReturnedNext

\* A call that comes back is one more that has returned.
LEMMA ComesBackLemma ==
  ASSUME Typing, RoundsInv, NEW t \in Task, ComesBack(t)
  PROVE  /\ \A u \in Task : pc'[u] \notin Outdoors => calls'[u] >= 1
         /\ IsFiniteSet(Numbered(Returned'))
         /\ Cardinality(Numbered(Returned')) = Cardinality(Numbered(Returned)) + 1
<1>1. pc \in [Task -> BarrierPoints \cup {"asleep", "relock", "exited"}]
  BY DEF Typing
<1>2. calls' = calls /\ \A u \in Task : pc'[u] = (IF u = t THEN "out" ELSE pc[u])
  BY <1>1 DEF ComesBack
<1>3. \A u \in Task : pc'[u] \notin Outdoors => calls'[u] >= 1
  BY <1>2 DEF RoundsInv, Outdoors
<1> DEFINE T == [Returned EXCEPT ![t] = @ + 1]
<1>4. T \in [Task -> Nat]
  BY ReturnedLemma
<1>5. \A u \in Task : T[u] = IF pc'[u] \in Outdoors THEN calls'[u] ELSE calls'[u] - 1
  <2>1. Returned[t] = calls[t] - 1
    BY ReturnedLemma DEF ComesBack
  <2> QED
    BY <1>2, <2>1, ReturnedLemma DEF Outdoors
<1>6. Returned' = T
  BY <1>4, <1>5, ReturnedNext
<1>7. IsFiniteSet(Numbered(T)) /\ Cardinality(Numbered(T)) = Cardinality(Numbered(Returned)) + 1
  BY ReturnedLemma, NumberedMore DEF RoundsInv
<1> QED
  BY <1>3, <1>6, <1>7

\* No other step changes what is counted.
LEMMA StaysLemma ==
  ASSUME Typing, RoundsInv, StaysThere
  PROVE  /\ \A u \in Task : pc'[u] \notin Outdoors => calls'[u] >= 1
         /\ IsFiniteSet(Numbered(calls'))
         /\ Returned' = Returned
<1>1. \A u \in Task : Returned[u] = IF pc'[u] \in Outdoors THEN calls'[u] ELSE calls'[u] - 1
  BY ReturnedLemma DEF StaysThere
<1>2. Returned' = Returned
  BY <1>1, ReturnedLemma, ReturnedNext
<1> QED
  BY <1>2 DEF RoundsInv, StaysThere

\* Where a step of t may lead to, if it is not to the outside.
LEMMA CallKinds ==
  ASSUME Inv, NEW t \in Task,
         Call(t) \/ DestroyCall(t) \/ Step(t) \/ Environment(t)
  PROVE  \/ Begins(t) /\ HeightKept(t)
         \/ Arrive(t) \/ Exit(t)
         \/ DestroyFree(t) /\ StaysThere
         \/ HeightKept(t) /\ StaysThere
<1>a. Typing /\ AfterInv
  BY DEF Inv
<1>b. ASSUME NEW k, Goto(t, k), pc[t] \in Outdoors <=> k \in Outdoors, calls' = calls
      PROVE  StaysThere
  BY <1>a, <1>b DEF Goto, Typing, StaysThere
<1>1. Call(t) => Begins(t)
  BY DEF Call, Begins, Goto
<1>2. DestroyCall(t) \/ DestroyCond(t) \/ DestroyFree(t) => StaysThere
  BY <1>b DEF DestroyCall, DestroyCond, DestroyFree, Continue, barrierVars, Outdoors
<1>3. Gate(t) \/ Hold(t) => StaysThere
  BY <1>b DEF Gate, Hold, At, Continue, CondSleep, barrierVars, Outdoors
<1>4. CondWake(t) /\ UNCHANGED barrierVars => StaysThere
  BY <1>b DEF CondWake, barrierVars, Outdoors
<1>5. CondReturn(t) /\ UNCHANGED barrierVars => StaysThere
  BY <1>a, <1>b DEF CondReturn, At, AfterInv, barrierVars, Outdoors
<1>6. Environment(t) => StaysThere
  BY DEF Environment, Break, Cancel, barrierVars, StaysThere
<1>7. \/ Call(t) \/ DestroyCall(t) \/ DestroyCond(t) \/ DestroyFree(t)
      \/ Gate(t) \/ Hold(t) \/ Arrive(t) \/ Exit(t)
      \/ CondWake(t) /\ UNCHANGED barrierVars
      \/ CondReturn(t) /\ UNCHANGED barrierVars
      \/ Environment(t)
  BY Zenon DEF Step, CondStep
<1>8. Arrive(t) \/ Exit(t) \/ DestroyFree(t) \/ HeightKept(t)
  BY StepKinds
<1> QED
  BY <1>1, <1>2, <1>3, <1>4, <1>5, <1>6, <1>7, <1>8, Zenon

\* Every step keeps the account of the rounds.
LEMMA RoundsStep ==
  ASSUME Inv, RoundsInv, NEW t \in Task,
         Call(t) \/ DestroyCall(t) \/ Step(t) \/ Environment(t)
  PROVE  RoundsInv'
<1>a. Typing /\ LockInv /\ HeightInv /\ DestroyInv /\ Count \in Nat
  BY CountAssumption DEF Inv
<1> DEFINE R == Cardinality(Numbered(Returned))
           c == Cardinality(Round)
<1>b. PICK q \in Nat : IF Gathering THEN R = Count * q ELSE R + c = Count * q
  BY DEF RoundsInv
<1>c. R \in Nat /\ c \in Nat
  BY <1>a, FS_CardinalityType DEF RoundsInv, HeightInv
<1>1. CASE (Begins(t) \/ StaysThere) /\ HeightKept(t)
  <2>1. /\ \A u \in Task : pc'[u] \notin Outdoors => calls'[u] >= 1
        /\ IsFiniteSet(Numbered(calls'))
        /\ Returned' = Returned
    BY <1>1, <1>a, BeginsLemma, StaysLemma
  <2>2. Round' = Round /\ total_height' = total_height
    BY <1>1, <1>a, HeightKeptInv DEF HeightKept
  <2>3. Gathering' <=> Gathering
    BY <2>2 DEF Gathering
  <2> QED
    BY <1>b, <2>1, <2>2, <2>3 DEF RoundsInv
<1>2. CASE Arrive(t)
  <2>1. /\ t \notin Round
        /\ total_height < PTHREAD_BARRIER_FLAG \/ Round = {}
        /\ Completes(t) \/ Gathers(t)
    BY <1>2, <1>a, ArriveHeight
  <2>2. R = Count * q
    <3>1. Round = {} => c = 0
      BY FS_EmptySet
    <3> QED
      BY <1>b, <1>c, <2>1, <3>1 DEF Gathering
  <2>3. \/ ComesBack(t) /\ t \notin Round'
        \/ StaysThere /\ t \in Round'
    <3>1. pc[t] = "b_arrive" /\ calls' = calls /\ after' = after
      BY <1>2 DEF Arrive, At, Return, Continue, waitVars
    <3>2. pc' = [pc EXCEPT ![t] = "out"] \/ pc' = [pc EXCEPT ![t] = "b_hold"]
      BY <1>2 DEF Arrive, Return, Continue, Goto
    <3>3. CASE pc' = [pc EXCEPT ![t] = "out"]
      <4>1. pc'[t] = "out"
        BY <1>a, <3>3 DEF Typing
      <4> QED
        BY <3>1, <3>3, <4>1 DEF ComesBack, Outdoors, Round, InRound
    <3>4. CASE pc' = [pc EXCEPT ![t] = "b_hold"]
      BY <1>a, <3>1, <3>4 DEF Typing, StaysThere, Outdoors, Round, InRound
    <3> QED
      BY <3>2, <3>3, <3>4
  <2>4. CASE ComesBack(t) /\ t \notin Round'
    <3>1. Completes(t)
      BY <2>1, <2>4 DEF Gathers
    <3>2. Round' = Round /\ c + 1 = Count /\ ~Gathering'
      BY <3>1 DEF Completes, Gathering
    <3>3. /\ \A u \in Task : pc'[u] \notin Outdoors => calls'[u] >= 1
          /\ IsFiniteSet(Numbered(Returned'))
          /\ Cardinality(Numbered(Returned')) = R + 1
      BY <1>a, <2>4, ComesBackLemma
    <3>4. R + 1 + c = Count * (q + 1) /\ q + 1 \in Nat
      <4>1. Count * (q + 1) = Count * q + Count
        BY <1>a
      <4> QED
        BY <1>a, <1>c, <2>2, <3>2, <4>1
    <3>5. IsFiniteSet(Numbered(calls'))
      BY <2>4 DEF RoundsInv, ComesBack
    <3>6. Cardinality(Numbered(Returned')) + Cardinality(Round') = Count * (q + 1)
      BY <3>2, <3>3, <3>4
    <3> QED
      BY <3>2, <3>3, <3>4, <3>5, <3>6 DEF RoundsInv
  <2>5. CASE StaysThere /\ t \in Round'
    <3>1. Gathers(t)
      BY <2>1, <2>5 DEF Completes
    <3>2. Gathering'
      BY <3>1 DEF Gathers, Gathering
    <3>3. /\ \A u \in Task : pc'[u] \notin Outdoors => calls'[u] >= 1
          /\ IsFiniteSet(Numbered(calls'))
          /\ Returned' = Returned
      BY <1>a, <2>5, StaysLemma
    <3> QED
      BY <2>2, <3>2, <3>3 DEF RoundsInv
  <2> QED
    BY <2>3, <2>4, <2>5
<1>3. CASE Exit(t)
  <2>1. /\ t \in Round /\ Round' = Round \ {t} /\ ~Gathering /\ ~Gathering'
    BY <1>3, <1>a, ExitHeight DEF Gathering
  <2>2. IsFiniteSet(Round) /\ Cardinality(Round') = c - 1
    BY <1>a, <2>1, FS_RemoveElement DEF HeightInv
  <2>3. ComesBack(t)
    BY <1>3 DEF Exit, At, Return, Goto, ComesBack, Outdoors
  <2>4. /\ \A u \in Task : pc'[u] \notin Outdoors => calls'[u] >= 1
        /\ IsFiniteSet(Numbered(Returned'))
        /\ Cardinality(Numbered(Returned')) = R + 1
    BY <1>a, <2>3, ComesBackLemma
  <2>5. IsFiniteSet(Numbered(calls'))
    BY <2>3 DEF RoundsInv, ComesBack
  <2>6. Cardinality(Numbered(Returned')) + Cardinality(Round') = Count * q
    BY <1>a, <1>b, <1>c, <2>1, <2>2, <2>4
  <2> QED
    BY <2>1, <2>4, <2>5, <2>6 DEF RoundsInv
<1>4. CASE DestroyFree(t) /\ StaysThere
  <2>1. Round = {} /\ Round' = {}
    BY <1>4, <1>a, DestroyHeight
  <2>2. /\ \A u \in Task : pc'[u] \notin Outdoors => calls'[u] >= 1
        /\ IsFiniteSet(Numbered(calls'))
        /\ Returned' = Returned
    BY <1>4, <1>a, StaysLemma
  <2>3. c = 0 /\ Cardinality(Round') = 0
    BY <2>1, FS_EmptySet
  <2>4. R = Count * q
    BY <1>b, <1>c, <2>3
  <2> QED
    BY <1>c, <2>2, <2>3, <2>4 DEF RoundsInv
<1> QED
  BY <1>1, <1>2, <1>3, <1>4, CallKinds

\* A multiple of a number that is no more than another is no more than the
\* greatest multiple that is no more than it.
LEMMA WholeRounds ==
  ASSUME NEW n \in Nat \ {0}, NEW q \in Nat, NEW b \in Nat, n * q <= b
  PROVE  n * q <= n * (b \div n)
<1> DEFINE d == b \div n
<1>1. d \in Int /\ b < n * d + n
  OBVIOUS
<1> HIDE DEF d
<1>2. n * (d + 1) = n * d + n
  BY <1>1
<1>3. q < d + 1
  <2> SUFFICES ASSUME q >= d + 1 PROVE FALSE
    BY <1>1
  <2>1. n * q >= n * (d + 1)
    BY <1>1
  <2> QED
    BY <1>1, <1>2, <2>1
<1>4. q <= d
  BY <1>1, <1>3
<1>5. n * q <= n * d
  BY <1>1, <1>4
<1> QED
  BY <1>5 DEF d

\* The tasks in the round have called and not returned.
LEMMA CallsOfRound ==
  ASSUME Inv, RoundsInv
  PROVE  Cardinality(Numbered(Returned)) + Cardinality(Round) <= Cardinality(Numbered(calls))
<1>a. Typing /\ IsFiniteSet(Round) /\ IsFiniteSet(Numbered(calls)) /\ IsFiniteSet(Numbered(Returned))
  BY DEF Inv, HeightInv, RoundsInv
<1>r. /\ calls \in [Task -> Nat] /\ Returned \in [Task -> Nat]
      /\ \A t \in Task : Returned[t] = IF pc[t] \in Outdoors THEN calls[t] ELSE calls[t] - 1
  BY <1>a, ReturnedLemma
<1> DEFINE P == Numbered(Returned)
           Q == Numbered(calls)
           L == {<<t, calls[t]>> : t \in Round}
           f == [t \in Round |-> <<t, calls[t]>>]
<1>1. IsFiniteSet(L) /\ Cardinality(L) = Cardinality(Round)
  <2>1. f \in Bijection(Round, L)
    BY DEF Bijection, Injection, Surjection, IsInjective
  <2>2. ExistsBijection(Round, L)
    BY <2>1 DEF ExistsBijection
  <2> HIDE DEF L
  <2> QED
    BY <1>a, <2>2, FS_Bijection
<1>2. \A t \in Round : t \in Task /\ pc[t] \notin Outdoors /\ calls[t] >= 1
  BY DEF RoundsInv, Round, InRound, Outdoors
<1>3. P \subseteq Q /\ L \subseteq Q /\ P \cap L = {}
  <2>1. ASSUME NEW h \in P PROVE h \in Q /\ h \notin L
    <3>0. \E t \in Task : \E n \in 1..Returned[t] : h = <<t, n>>
      BY <1>r, PairsMember DEF Numbered, Pairs
    <3>1. PICK t \in Task : \E n \in 1..Returned[t] : h = <<t, n>>
      BY <3>0
    <3>2. PICK n \in 1..Returned[t] : h = <<t, n>>
      BY <3>1
    <3>3. n \in 1..calls[t] /\ ~(t \in Round /\ n = calls[t])
      BY <1>2, <1>r, <3>2
    <3>4. h \in Q
      BY <1>r, <3>2, <3>3, PairsOf DEF Numbered, Pairs
    <3> QED
      BY <3>2, <3>3, <3>4
  <2>2. ASSUME NEW t \in Round PROVE <<t, calls[t]>> \in Q
    <3>1. t \in Task /\ calls[t] \in 1..calls[t]
      BY <1>2, <1>r
    <3> QED
      BY <1>r, <3>1, PairsOf DEF Numbered, Pairs
  <2> QED
    BY <2>1, <2>2
<1> HIDE DEF P, Q, L
<1>4. Cardinality(P \cup L) = Cardinality(P) + Cardinality(L) - Cardinality(P \cap L)
  BY <1>1, <1>a, FS_Union DEF P
<1>5. Cardinality(P \cup L) <= Cardinality(Q)
  BY <1>3, <1>a, FS_Subset DEF Q
<1>6. Cardinality(P \cap L) = 0
  BY <1>3, FS_EmptySet
<1>7. Cardinality(P) \in Nat /\ Cardinality(L) \in Nat /\ Cardinality(Q) \in Nat
  BY <1>1, <1>a, FS_CardinalityType DEF P, Q
<1>8. Cardinality(P) + Cardinality(L) <= Cardinality(Q)
  BY <1>4, <1>5, <1>6, <1>7
<1> QED
  BY <1>1, <1>8 DEF P, Q

\* Nothing is counted at the start.
LEMMA InitRounds == Init => RoundsInv
<1> SUFFICES ASSUME Init PROVE RoundsInv
  OBVIOUS
<1>1. /\ \A t \in Task : calls[t] = 0 /\ pc[t] = "out"
      /\ calls \in [Task -> Nat] /\ ~Gathering
  BY CountAssumption DEF Init, CondInit, Gathering
<1>2. Returned \in [Task -> Nat] /\ \A t \in Task : Returned[t] = 0
  BY <1>1 DEF Returned, Outdoors
<1>3. Numbered(calls) = {} /\ Numbered(Returned) = {}
  BY <1>1, <1>2, PairsNone DEF Numbered, Pairs
<1>4. Round = {}
  BY <1>1 DEF Round, InRound
<1>5. /\ IsFiniteSet(Numbered(calls)) /\ IsFiniteSet(Numbered(Returned))
      /\ Cardinality(Numbered(Returned)) + Cardinality(Round) = Count * 0
  BY <1>3, <1>4, FS_EmptySet, CountAssumption
<1>6. \A t \in Task : pc[t] \notin Outdoors => calls[t] >= 1
  BY <1>1 DEF Outdoors
<1> QED
  BY <1>1, <1>5, <1>6 DEF RoundsInv

\* No call of pthread_barrier_wait comes back from a round that is not full,
\* in whatever order the tasks of two rounds that share one condition variable
\* are woken, broken and cancelled.
THEOREM RoundsAlwaysFull == Spec => []RoundsAreFull
<1>1. Inv /\ RoundsInv /\ [Next]_vars => RoundsInv'
  <2> SUFFICES ASSUME Inv, RoundsInv, [Next]_vars PROVE RoundsInv'
    OBVIOUS
  <2>1. CASE UNCHANGED vars
    <3>1. UNCHANGED <<pc, after, calls, total_height>>
      BY <2>1 DEF vars, condVars
    <3>2. Round' = Round /\ Returned' = Returned /\ (Gathering' <=> Gathering)
      BY <3>1 DEF Round, InRound, Returned, Gathering
    <3> QED
      BY <3>1, <3>2 DEF RoundsInv
  <2> QED
    BY <2>1, RoundsStep DEF Next
<1>2. Inv /\ RoundsInv => RoundsAreFull
  <2> SUFFICES ASSUME Inv, RoundsInv PROVE RoundsAreFull
    OBVIOUS
  <2> DEFINE R == Cardinality(Numbered(Returned))
             b == Cardinality(Numbered(calls))
             c == Cardinality(Round)
  <2>1. R \in Nat /\ b \in Nat /\ c \in Nat /\ R + c <= b
    BY CallsOfRound, FS_CardinalityType DEF Inv, HeightInv, RoundsInv
  <2>2. PICK q \in Nat : IF Gathering THEN R = Count * q ELSE R + c = Count * q
    BY DEF RoundsInv
  <2>3. Count * q \in Nat /\ R <= Count * q /\ Count * q <= b
    BY <2>1, <2>2, CountAssumption
  <2>4. Count * q <= Count * (b \div Count)
    <3> HIDE DEF b
    <3> QED
      BY <2>1, <2>3, WholeRounds, CountAssumption
  <2>d. b \div Count \in Int
    BY <2>1, CountAssumption
  <2>5. Count * (b \div Count) \in Int
    BY <2>d, CountAssumption
  <2>6. R <= Count * (b \div Count)
    BY <2>1, <2>3, <2>4, <2>5
  <2> QED
    BY <2>6 DEF RoundsAreFull
<1> QED
  BY <1>1, <1>2, InvHolds, InitRounds, PTL DEF Spec

-----------------------------------------------------------------------------
(***************************************************************************)
(* The refinement: Arrive is Gather or Complete, Exit is Leave, and no     *)
(* other step is seen by the abstract barrier.                             *)
(***************************************************************************)
inside == IF total_height < PTHREAD_BARRIER_FLAG THEN Round ELSE {}
leaving == IF total_height < PTHREAD_BARRIER_FLAG THEN {} ELSE Round

\* INSTANCE has a Cardinality of its own.
LEMMA SameCardinality ==
  ASSUME NEW S
  PROVE  Abstract!Cardinality(S) = Cardinality(S)
BY Zenon DEF Cardinality, Abstract!Cardinality

\* Every step is one of the abstract barrier's, or none.
LEMMA RefinedStep ==
  ASSUME Inv, NEW t \in Task,
         Call(t) \/ DestroyCall(t) \/ Step(t) \/ Environment(t)
  PROVE  Abstract!Next \/ UNCHANGED Abstract!vars
<1>a. Typing /\ LockInv /\ HeightInv /\ DestroyInv
  BY DEF Inv
<1>1. CASE Arrive(t)
  <2>1. /\ t \notin Round
        /\ total_height < PTHREAD_BARRIER_FLAG \/ Round = {}
        /\ Completes(t) \/ Gathers(t)
    BY <1>a, <1>1, ArriveHeight
  <2>2. inside = Round /\ leaving = {}
    BY <2>1 DEF inside, leaving
  <2>3. CASE Completes(t)
    <3>1. inside' = {} /\ leaving' = inside
      BY <2>2, <2>3 DEF Completes, inside, leaving
    <3>2. leaving = {} /\ t \notin inside /\ Abstract!Cardinality(inside) + 1 = Count
      BY <2>1, <2>2, <2>3, SameCardinality DEF Completes
    <3>3. answer' = [answer EXCEPT ![t] = "serial"]
      BY <2>3 DEF Completes
    <3>4. Abstract!Complete(t)
      BY <3>1, <3>2, <3>3 DEF inside, leaving, Abstract!Complete
    <3> QED
      BY <3>4 DEF Abstract!Next
  <2>4. CASE Gathers(t)
    <3>1. inside' = inside \cup {t} /\ leaving' = leaving
      BY <2>2, <2>4 DEF Gathers, inside, leaving
    <3>2. leaving = {} /\ t \notin inside /\ Abstract!Cardinality(inside) + 1 < Count
      BY <2>1, <2>2, <2>4, SameCardinality DEF Gathers
    <3>3. answer' = answer
      BY <2>4 DEF Gathers
    <3>4. Abstract!Gather(t)
      BY <3>1, <3>2, <3>3 DEF inside, leaving, Abstract!Gather
    <3> QED
      BY <3>4 DEF Abstract!Next
  <2> QED
    BY <2>1, <2>3, <2>4
<1>2. CASE Exit(t)
  <2>1. Abstract!Leave(t)
    BY <1>a, <1>2, ExitHeight DEF Abstract!Leave
  <2> QED
    BY <2>1 DEF Abstract!Next
<1>3. CASE DestroyFree(t)
  <2>1. Round = {} /\ Round' = {} /\ answer' = answer
    BY <1>a, <1>3, DestroyHeight DEF DestroyFree
  <2> QED
    BY <2>1 DEF Abstract!vars
<1>4. CASE HeightKept(t) /\ UNCHANGED answer
  <2>1. Round' = Round /\ total_height' = total_height
    BY <1>a, <1>4, HeightKeptInv DEF HeightKept
  <2> QED
    BY <1>4, <2>1 DEF Abstract!vars
<1> QED
  BY <1>1, <1>2, <1>3, <1>4, StepKinds

\* pthread_barrier_wait implements a reusable barrier: rounds are gathered,
\* completed by one task and left before the next one is entered.
THEOREM BarrierRefines == Spec => ImplementsBarrier
<1>1. Init => Abstract!Init
  <2> SUFFICES ASSUME Init PROVE Abstract!Init
    OBVIOUS
  <2>1. Round = {} /\ answer = [t \in Task |-> "none"]
    BY DEF Init, CondInit, Round, InRound
  <2> QED
    BY <2>1 DEF Abstract!Init
<1>2. Inv /\ [Next]_vars => [Abstract!Next]_Abstract!vars
  <2> SUFFICES ASSUME Inv, [Next]_vars PROVE Abstract!Next \/ UNCHANGED Abstract!vars
    OBVIOUS
  <2>1. CASE UNCHANGED vars
    <3>1. Round' = Round
      BY <2>1 DEF vars, condVars, Round, InRound
    <3> QED
      BY <2>1, <3>1 DEF vars, Abstract!vars
  <2> QED
    BY <2>1, RefinedStep DEF Next
<1> QED
  BY <1>1, <1>2, InvHolds, PTL DEF Spec, ImplementsBarrier, Abstract!Spec

=============================================================================
