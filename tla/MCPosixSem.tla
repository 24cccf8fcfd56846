----------------------------- MODULE MCPosixSem -----------------------------
(***************************************************************************)
(* Small instances of PosixSem for TLC.                                    *)
(***************************************************************************)
EXTENDS PosixSem

CONSTANTS t1, t2, t3

\* Two waiters, one of them timed and without free signal bits, and a task
\* that posts.
MixedProgram ==
  t1 :> {"sem_wait", "sem_trywait"} @@ t2 :> {"sem_timedwait"}
  @@ t3 :> {"sem_post"}

ScarceSignals == t1 :> 2 @@ t2 :> 1 @@ t3 :> 0

\* One waiter, and two tasks that post and compete with it.
OneWaiterProgram ==
  t1 :> {"sem_wait"} @@ t2 :> {"sem_post", "sem_trywait"}
  @@ t3 :> {"sem_post", "sem_getvalue"}

\* Two waiters and a poster.
TwoWaitersProgram ==
  t1 :> {"sem_wait"} @@ t2 :> {"sem_wait"} @@ t3 :> {"sem_post"}

PlentySignals == [t \in Task |-> 2]

=============================================================================
