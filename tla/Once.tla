-------------------------------- MODULE Once --------------------------------
(***************************************************************************)
(* pthread_once of src/pthreads/pthread.c, with the spin lock and the      *)
(* atomic helpers it is built from.  A once control is a flag for          *)
(* compare-and-swap, a spin lock and a flag that says that the             *)
(* initialisation routine has been run.  The control points of a task:     *)
(*   out                       outside                                     *)
(*   cas  spin                 before the compare-and-swap, in             *)
(*                             pthread_spin_lock                           *)
(*   check  init  mark  unlock with the spin lock: before the test of done,*)
(*                             in the routine, behind it, before the end   *)
(*   returned  canceled        has pthread_once returned, or ended the     *)
(*                             thread because the routine was cancelled    *)
(***************************************************************************)
EXTENDS SignalSemaphore   \* for the constants Task and NoTask

CONSTANTS Control,       \* once controls
          NoControl,
          Cancellable,   \* controls whose routine has a cancellation point
          M68k           \* are the replacements for the m68k compiled in?

ASSUME OnceAssumption ==
  /\ NoControl \notin Control
  /\ Cancellable \subseteq Control
  /\ M68k \in BOOLEAN

VARIABLES opc, octl,     \* where a task is in pthread_once, and of which control
          started, lock, done,
          inits          \* how often the routine of a control has been run to its end

onceVars == <<opc, octl, started, lock, done, inits>>

OnceZeroed == 0

\* The member started of PTHREAD_ONCE_INIT
OnceStarted == -1

OnceInit ==
  /\ opc = [t \in Task |-> "out"]
  /\ octl = [t \in Task |-> NoControl]
  /\ started = [c \in Control |-> OnceStarted]
  /\ lock = [c \in Control |-> 0]
  /\ done = [c \in Control |-> FALSE]
  /\ inits = [c \in Control |-> 0]

-----------------------------------------------------------------------------
\* What is in *v after __sync_val_compare_and_swap(v, o, n), and the answer:
\* the old value from the compiler's, the new one from the replacement.
Swapped(v, o, n) == IF v = o THEN n ELSE v
CompareAndSwap(v, o, n) == IF M68k THEN Swapped(v, o, n) ELSE v

\* The answer of __sync_lock_test_and_set(v, n), in the same way.
TestAndSet(v, n) == IF M68k THEN n ELSE v

Inside == {"check", "init", "mark", "unlock"}

OGoto(t, pc) == opc' = [opc EXCEPT ![t] = pc]

OnceCall(t, c) ==
  /\ OGoto(t, "cas")
  /\ octl' = [octl EXCEPT ![t] = c]
  /\ UNCHANGED <<started, lock, done, inits>>

Cas(t) ==
  LET c == octl[t]
  IN  /\ opc[t] = "cas"
      /\ started' = [started EXCEPT ![c] = Swapped(@, 0, 1)]
      /\ OGoto(t, IF CompareAndSwap(started[c], 0, 1) # 0 THEN "spin" ELSE "returned")
      /\ UNCHANGED <<octl, lock, done, inits>>

\* A turn of the loop of pthread_spin_lock, with sched_yield behind it.
Spin(t) ==
  LET c == octl[t]
  IN  /\ opc[t] = "spin"
      /\ lock' = [lock EXCEPT ![c] = 1]
      /\ OGoto(t, IF TestAndSet(lock[c], 1) = 0 THEN "check" ELSE "spin")
      /\ UNCHANGED <<octl, started, done, inits>>

NotAsked(c) == FALSE

IsDone(c) == done[c]

CheckDone(t) ==
  /\ opc[t] = "check"
  /\ OGoto(t, IF IsDone(octl[t]) THEN "unlock" ELSE "init")
  /\ UNCHANGED <<octl, started, lock, done, inits>>

\* The routine returns.
InitRoutine(t) ==
  /\ opc[t] = "init"
  /\ inits' = [inits EXCEPT ![octl[t]] = @ + 1]
  /\ OGoto(t, "mark")
  /\ UNCHANGED <<octl, started, lock, done>>

OnceCleanupForgotten(t) == UNCHANGED lock

\* The cleanup handler of pthread_once gives the spin lock back.
OnceCleanup(t) == lock' = [lock EXCEPT ![octl[t]] = 0]

\* The thread is cancelled inside the routine: pthread_exit runs OnceCleanup,
\* which pthread_cleanup_push has recorded (its malloc succeeds here).
CancelInit(t) ==
  /\ opc[t] = "init" /\ octl[t] \in Cancellable
  /\ OnceCleanup(t)
  /\ OGoto(t, "canceled")
  /\ UNCHANGED <<octl, started, done, inits>>

MarkDone(t) ==
  /\ opc[t] = "mark"
  /\ done' = [done EXCEPT ![octl[t]] = TRUE]
  /\ OGoto(t, "unlock")
  /\ UNCHANGED <<octl, started, lock, inits>>

\* pthread_spin_unlock
OnceUnlock(t) ==
  /\ opc[t] = "unlock"
  /\ lock' = [lock EXCEPT ![octl[t]] = 0]
  /\ OGoto(t, "returned")
  /\ UNCHANGED <<octl, started, done, inits>>

OnceReturn(t) ==
  /\ OGoto(t, "out")
  /\ octl' = [octl EXCEPT ![t] = NoControl]
  /\ UNCHANGED <<started, lock, done, inits>>

OnceStep(t) ==
  \/ Cas(t) \/ Spin(t) \/ CheckDone(t) \/ InitRoutine(t) \/ CancelInit(t)
  \/ MarkDone(t) \/ OnceUnlock(t)

-----------------------------------------------------------------------------
OnceTypeOK ==
  /\ opc \in [Task -> {"out", "cas", "spin", "returned", "canceled"} \cup Inside]
  /\ octl \in [Task -> Control \cup {NoControl}]
  /\ \A t \in Task : opc[t] # "out" => octl[t] \in Control
  /\ started \in [Control -> {OnceStarted}]
  /\ lock \in [Control -> {0, 1}]
  /\ done \in [Control -> BOOLEAN]
  /\ inits \in [Control -> Nat]

\* However many tasks call pthread_once, and whichever of them are cancelled
\* inside the routine, it is run to its end once at most, has been run when a
\* call returns, and is run by no two tasks at a time.
InitOnce ==
  /\ \A c \in Control : inits[c] <= 1
  /\ \A t \in Task : opc[t] = "returned" => inits[octl[t]] = 1
  /\ \A t, u \in Task :
       opc[t] \in Inside /\ opc[u] \in Inside /\ octl[t] = octl[u] => t = u

=============================================================================
