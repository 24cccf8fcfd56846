------------------------------- MODULE Barrier -------------------------------
(***************************************************************************)
(* pthread_barrier_wait and pthread_barrier_destroy of src/pthreads/       *)
(* pthread.c on one barrier.  total_height counts the tasks that have      *)
(* entered the round; once the round is complete it is PTHREAD_BARRIER_FLAG*)
(* plus the tasks that have still to leave.  The control points of a task: *)
(*   out                         outside                                   *)
(*   b_gate                      before the loop that waits for the last   *)
(*                               round to be left                          *)
(*   b_arrive                    behind it, about to enter the round       *)
(*   b_hold   b_exit             in and behind the loop that waits for the *)
(*                               round to be completed                     *)
(*   d_cond   d_free             inside pthread_barrier_destroy            *)
(* asleep and relock are the condition waits of either loop.               *)
(***************************************************************************)
EXTENDS CondVar

CONSTANTS Count,                  \* the count given to pthread_barrier_init
          PTHREAD_BARRIER_FLAG,
          Rounds,                 \* a bound: the calls each task makes
          Destroys                \* does the program destroy the barrier?

ASSUME CountAssumption ==
  /\ Count \in Nat \ {0}
  /\ PTHREAD_BARRIER_FLAG \in Nat
  /\ Count < PTHREAD_BARRIER_FLAG
  /\ Rounds \in Nat
  /\ Destroys \in BOOLEAN

VARIABLES curr_height, total_height,
          destroyed,   \* has pthread_barrier_destroy returned 0?
          calls,       \* how often a task has called pthread_barrier_wait
          answer       \* what the last call that returned answered

vars == <<condVars, curr_height, total_height, destroyed, calls, answer>>

BarrierPoints ==
  {"out", "b_gate", "b_arrive", "b_hold", "b_exit", "d_cond", "d_free"}

Outdoors == {"out", "d_cond", "d_free"}

-----------------------------------------------------------------------------
\* pthread_barrier_init
Init ==
  /\ CondInit("out")
  /\ curr_height = Count
  /\ total_height = PTHREAD_BARRIER_FLAG
  /\ destroyed = FALSE
  /\ calls = [t \in Task |-> 0]
  /\ answer = [t \in Task |-> "none"]

barrierVars == <<curr_height, total_height, destroyed, calls, answer>>

LeavingSeveral == total_height > PTHREAD_BARRIER_FLAG + 1

\* Some tasks of a completed round have still to leave.
Leaving == total_height > PTHREAD_BARRIER_FLAG

GatheringAllButOne == total_height + 1 < curr_height

\* The round of the tasks inside is not complete.
Gathering == total_height < PTHREAD_BARRIER_FLAG

\* t broadcasts if it must, releases the lock and returns.
Return(t, broadcast, a) ==
  /\ sig' = IF broadcast THEN SignalWaiters(FALSE) ELSE sig
  /\ Unlock
  /\ Goto(t, "out")
  /\ answer' = [answer EXCEPT ![t] = a]
  /\ UNCHANGED <<waitVars, deadline, result>>

-----------------------------------------------------------------------------
(***************************************************************************)
(* pthread_barrier_wait                                                    *)
(***************************************************************************)
Call(t) ==
  /\ pc[t] = "out"
  /\ calls[t] < Rounds
  /\ calls' = [calls EXCEPT ![t] = @ + 1]
  /\ Lock(t)
  /\ Goto(t, "b_gate")
  /\ UNCHANGED <<waitVars, sig, deadline, result>>
  /\ UNCHANGED <<curr_height, total_height, destroyed, answer>>

\* wait until everyone exits the barrier
Gate(t) ==
  /\ At(t, "b_gate")
  /\ IF Leaving THEN CondSleep(t, "b_gate") ELSE Continue(t, "b_arrive")
  /\ UNCHANGED barrierVars

\* The height with t in the round, which starts at 0 for the first to enter.
HeightWith == (IF total_height = PTHREAD_BARRIER_FLAG THEN 0
                                                      ELSE total_height) + 1

CompletedHeightUnshared == HeightWith + PTHREAD_BARRIER_FLAG

CompletedHeight == HeightWith + PTHREAD_BARRIER_FLAG - 1

Arrive(t) ==
  /\ At(t, "b_arrive")
  /\ IF HeightWith = curr_height
     THEN /\ total_height' = CompletedHeight
          /\ Return(t, TRUE, "serial")
     ELSE /\ total_height' = HeightWith
          /\ Continue(t, "b_hold")
          /\ UNCHANGED answer
  /\ UNCHANGED <<curr_height, destroyed, calls>>

\* wait until enough threads enter the barrier
Hold(t) ==
  /\ At(t, "b_hold")
  /\ IF Gathering THEN CondSleep(t, "b_hold") ELSE Continue(t, "b_exit")
  /\ UNCHANGED barrierVars

LastOutLate == total_height = PTHREAD_BARRIER_FLAG

\* The last one to leave wakes up the tasks at the gate.
LastOut == total_height - 1 = PTHREAD_BARRIER_FLAG

Exit(t) ==
  /\ At(t, "b_exit")
  /\ total_height' = total_height - 1
  /\ Return(t, LastOut, "zero")
  /\ UNCHANGED <<curr_height, destroyed, calls>>

-----------------------------------------------------------------------------
(***************************************************************************)
(* pthread_barrier_destroy, by a program that uses it as POSIX allows: the *)
(* task with the serial answer of the last round destroys the barrier,     *)
(* though tasks of that round may still be inside, and tries again while   *)
(* it is told EBUSY.                                                       *)
(***************************************************************************)
OnItsWayOut(t) ==
  /\ ~Gathering
  /\ \/ pc[t] \in {"b_hold", "b_exit"}
     \/ pc[t] \in {"asleep", "relock", "exited"} /\ after[t] = "b_hold"

\* pthread_mutex_trylock, the test of the height, and pthread_mutex_unlock.
DestroyCall(t) ==
  /\ Destroys /\ ~destroyed
  /\ pc[t] = "out" /\ answer[t] = "serial"
  /\ \A u \in Task : calls[u] = Rounds /\ (pc[u] = "out" \/ OnItsWayOut(u))
  /\ Attempts(mutex, t)
  /\ ~Leaving
  /\ Continue(t, "d_cond")
  /\ UNCHANGED barrierVars

\* pthread_cond_destroy: EBUSY while there are waiters.
DestroyCond(t) ==
  /\ pc[t] = "d_cond"
  /\ Continue(t, IF waiters = <<>> THEN "d_free" ELSE "out")
  /\ UNCHANGED barrierVars

\* The result of pthread_mutex_destroy is not looked at.
DestroyFree(t) ==
  /\ pc[t] = "d_free"
  /\ Continue(t, "out")
  /\ curr_height' = 0
  /\ total_height' = 0
  /\ destroyed' = TRUE
  /\ UNCHANGED <<calls, answer>>

-----------------------------------------------------------------------------
CondStep(t) ==
  /\ CondWake(t) \/ CondReturn(t)
  /\ UNCHANGED barrierVars

Step(t) ==
  \/ Gate(t) \/ Arrive(t) \/ Hold(t) \/ Exit(t)
  \/ DestroyCond(t) \/ DestroyFree(t)
  \/ CondStep(t)

Environment(t) ==
  /\ Break(t) \/ Cancel(t)
  /\ UNCHANGED barrierVars

Next == \E t \in Task : Call(t) \/ DestroyCall(t) \/ Step(t) \/ Environment(t)

Spec == Init /\ [][Next]_vars

\* A task that can take a step inside the barrier takes it.
FairSpec == Spec /\ \A t \in Task : WF_vars(Step(t))

-----------------------------------------------------------------------------
(***************************************************************************)
(* Properties                                                              *)
(***************************************************************************)
\* Every variable has its type; total_height stays in one of its two ranges.
TypeOK ==
  /\ CondTypeOK(BarrierPoints)
  /\ curr_height \in {0, Count}
  /\ total_height \in 0..(Count - 1)
                      \cup PTHREAD_BARRIER_FLAG..(PTHREAD_BARRIER_FLAG + Count - 1)
  /\ destroyed \in BOOLEAN
  /\ calls \in [Task -> 0..Rounds]
  /\ answer \in [Task -> {"none", "serial", "zero"}]

\* The tasks in a round: those that wait for it to be completed, are on
\* their way out of it, or were cancelled there.
InRound(t) ==
  \/ pc[t] \in {"b_hold", "b_exit"}
  \/ pc[t] \in {"asleep", "relock", "exited"} /\ after[t] = "b_hold"

Round == {t \in Task : InRound(t)}

\* total_height, with or without the flag, is the number of tasks in the
\* round: the barrier neither loses a task nor counts one twice, however the
\* two generations that share the condition variable are woken.
HeightCountsRound ==
  total_height \in {Cardinality(Round), PTHREAD_BARRIER_FLAG + Cardinality(Round)}

\* How many of its calls of pthread_barrier_wait a task has come back from.
Returned == [t \in Task |-> IF pc[t] \in Outdoors THEN calls[t] ELSE calls[t] - 1]

\* The calls n[t] of each task t, numbered.
Numbered(n) == UNION {{t} \X (1..n[t]) : t \in Task}

\* A round is left when it is full and not before: the calls that have
\* returned are no more than those that fill whole rounds.
RoundsAreFull ==
  Cardinality(Numbered(Returned)) <= Count * (Cardinality(Numbered(calls)) \div Count)

\* When pthread_barrier_destroy has returned 0, no task is still inside
\* pthread_barrier_wait and reads the zeroed barrier.
DestroySafe == destroyed => \A t \in Task : pc[t] = "out"

\* The code implements the reusable barrier of AbstractBarrier.
Abstract ==
  INSTANCE AbstractBarrier WITH
    inside  <- IF total_height < PTHREAD_BARRIER_FLAG THEN Round ELSE {},
    leaving <- IF total_height < PTHREAD_BARRIER_FLAG THEN {} ELSE Round

ImplementsBarrier == Abstract!Spec

\* Every task of a completed round leaves it.
RoundLeaves ==
  \A t \in Task :
    (InRound(t) /\ total_height >= PTHREAD_BARRIER_FLAG)
      ~> (pc[t] = "out" \/ LockLost)

\* A task that sleeps at the gate gets into a round, if not into the next one.
GateOpens ==
  \A t \in Task :
    (pc[t] = "asleep" /\ after[t] = "b_gate") ~> (pc[t] = "b_arrive" \/ LockLost)

=============================================================================
