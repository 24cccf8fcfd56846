----------------------------- MODULE CountingSem -----------------------------
(***************************************************************************)
(* What a POSIX semaphore promises its callers: a count that no call takes *)
(* below zero or above SEM_VALUE_MAX, and calls that each have their       *)
(* effect in one step, between being made and being answered.  How tasks   *)
(* wait, and who wakes them, is not part of the promise.                   *)
(***************************************************************************)
EXTENDS Naturals

CONSTANTS Task, InitValue, SEM_VALUE_MAX

VARIABLES count,   \* the value of the semaphore
          call,    \* the call a task is in
          answer   \* the answer to its last call

vars == <<count, call, answer>>

Calls == {"sem_wait", "sem_timedwait", "sem_trywait", "sem_post"}

Init ==
  /\ count = InitValue
  /\ call = [t \in Task |-> "none"]
  /\ answer = [t \in Task |-> "ok"]

Call(t) ==
  /\ call[t] = "none"
  /\ \E c \in Calls : call' = [call EXCEPT ![t] = c]
  /\ answer' = [answer EXCEPT ![t] = "ok"]
  /\ UNCHANGED count

Answer(t, a) ==
  /\ call' = [call EXCEPT ![t] = "none"]
  /\ answer' = [answer EXCEPT ![t] = a]

Take(t) ==
  /\ call[t] \in {"sem_wait", "sem_timedwait", "sem_trywait"}
  /\ count > 0
  /\ count' = count - 1
  /\ Answer(t, "ok")

TryFails(t) ==
  /\ call[t] = "sem_trywait"
  /\ count = 0
  /\ Answer(t, "EAGAIN")
  /\ UNCHANGED count

TimedWaitFails(t) ==
  /\ call[t] = "sem_timedwait"
  /\ \E a \in {"ETIMEDOUT", "EINVAL"} : Answer(t, a)
  /\ UNCHANGED count

Post(t) ==
  /\ call[t] = "sem_post"
  /\ count < SEM_VALUE_MAX
  /\ count' = count + 1
  /\ Answer(t, "ok")

PostFails(t) ==
  /\ call[t] = "sem_post"
  /\ count = SEM_VALUE_MAX
  /\ Answer(t, "EOVERFLOW")
  /\ UNCHANGED count

\* A cancelled waiter never returns, and takes nothing with it.
Die(t) ==
  /\ call[t] \in {"sem_wait", "sem_timedwait"}
  /\ call' = [call EXCEPT ![t] = "gone"]
  /\ UNCHANGED <<count, answer>>

Next ==
  \E t \in Task :
    \/ Call(t) \/ Take(t) \/ TryFails(t) \/ TimedWaitFails(t)
    \/ Post(t) \/ PostFails(t) \/ Die(t)

Spec == Init /\ [][Next]_vars

=============================================================================
