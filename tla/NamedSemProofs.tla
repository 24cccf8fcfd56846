--------------------------- MODULE NamedSemProofs ---------------------------
(***************************************************************************)
(* Proofs about Once and NamedSem, for every number of tasks, controls,    *)
(* names and addresses, and for both definitions of the atomics.           *)
(***************************************************************************)
EXTENDS NamedSem, SignalSemaphoreProofs

OncePoints == {"out", "cas", "spin", "returned", "canceled"} \cup Inside

\* Where a task is in pthread_once says what is known of its control: with
\* the spin lock it is alone, and the routine has been run unless the task
\* itself is before its end.
Progress(t) ==
  /\ opc[t] \in Inside => lock[octl[t]] = 1
  /\ opc[t] = "check" => done[octl[t]] \/ inits[octl[t]] = 0
  /\ opc[t] = "init" => inits[octl[t]] = 0
  /\ opc[t] \in {"mark", "returned"} => inits[octl[t]] = 1
  /\ opc[t] = "unlock" => done[octl[t]]

Alone ==
  \A t, u \in Task :
    opc[t] \in Inside /\ opc[u] \in Inside /\ octl[t] = octl[u] => t = u

\* A free control is one whose routine is done or still to be run.
ControlInv(c) ==
  /\ inits[c] \in {0, 1}
  /\ done[c] => inits[c] = 1
  /\ lock[c] = 0 => done[c] \/ inits[c] = 0

OnceInv ==
  /\ OnceTypeOK
  /\ Alone
  /\ \A t \in Task : Progress(t)
  /\ \A c \in Control : ControlInv(c)

\* The invariant of pthread_once holds at the start.
LEMMA OnceInitInv == OnceInit => OnceInv
BY DEF OnceInit, OnceInv, OnceTypeOK, Alone, Progress, ControlInv, Inside, OnceStarted

\* The routine has been run once it is said to be.
LEMMA OnceInvImplies == OnceInv => InitOnce
BY DEF OnceInv, InitOnce, Alone, Progress, ControlInv

\* A step of a task at its control c, and what it leaves alone.
LEMMA OnceFrame ==
  ASSUME OnceInv, NEW t \in Task, OnceStep(t)
  PROVE  /\ octl[t] \in Control
         /\ octl' = octl
         /\ \E p \in OncePoints \ {"out"} : opc' = [opc EXCEPT ![t] = p]
BY DEF OnceInv, OnceTypeOK, OnceStep, OncePoints, Inside, OGoto,
       Cas, Spin, CheckDone, InitRoutine, CancelInit, MarkDone, OnceUnlock

\* Every step inside pthread_once keeps its invariant.
LEMMA OnceStepInv ==
  ASSUME OnceInv, NEW t \in Task, OnceStep(t)
  PROVE  OnceInv'
<1> DEFINE c == octl[t]
<1>a. /\ c \in Control /\ octl' = octl
      /\ opc \in [Task -> OncePoints]
      /\ octl \in [Task -> Control \cup {NoControl}]
      /\ started \in [Control -> {-1}]
      /\ lock \in [Control -> {0, 1}]
      /\ done \in [Control -> BOOLEAN]
      /\ inits \in [Control -> Nat]
      /\ \A u \in Task : opc[u] # "out" => octl[u] \in Control
  BY OnceFrame DEF OnceInv, OnceTypeOK, OncePoints, OnceStarted
<1> USE <1>a DEF OGoto, OnceInv, OnceTypeOK, Alone, Progress, ControlInv, Inside, OncePoints, OnceStarted
<1>1. CASE Cas(t)
  BY <1>1 DEF Cas, Swapped, CompareAndSwap
<1>2. CASE Spin(t)
  BY <1>2 DEF Spin, TestAndSet
<1>3. CASE CheckDone(t)
  BY <1>3 DEF CheckDone, IsDone
<1>4. CASE InitRoutine(t)
  BY <1>4 DEF InitRoutine
<1>5. CASE CancelInit(t)
  BY <1>5 DEF CancelInit, OnceCleanup
<1>6. CASE MarkDone(t)
  BY <1>6 DEF MarkDone
<1>7. CASE OnceUnlock(t)
  BY <1>7 DEF OnceUnlock
<1> QED
  BY <1>1, <1>2, <1>3, <1>4, <1>5, <1>6, <1>7 DEF OnceStep

\* A call of pthread_once keeps the invariant.
LEMMA OnceCallInv ==
  ASSUME OnceInv, NEW t \in Task, opc[t] = "out", NEW c \in Control, OnceCall(t, c)
  PROVE  OnceInv'
BY DEF OnceCall, OGoto, OnceInv, OnceTypeOK, Alone, Progress, ControlInv, Inside

\* A return from pthread_once keeps the invariant.
LEMMA OnceReturnInv ==
  ASSUME OnceInv, NEW t \in Task, OnceReturn(t)
  PROVE  OnceInv'
BY DEF OnceReturn, OGoto, OnceInv, OnceTypeOK, Alone, Progress, ControlInv, Inside

\* A step that touches nothing of pthread_once keeps its invariant.
LEMMA OnceStays ==
  ASSUME OnceInv, UNCHANGED onceVars
  PROVE  OnceInv'
BY DEF onceVars, OnceInv, OnceTypeOK, Alone, Progress, ControlInv

\* Every step of the semaphores keeps the invariant of pthread_once.
LEMMA OnceNextInv ==
  ASSUME OnceInv, [Next]_vars
  PROVE  OnceInv'
<1>1. CASE UNCHANGED vars
  BY <1>1, OnceStays DEF vars
<1>2. ASSUME NEW t \in Task, Step(t) PROVE OnceInv'
  <2>1. CASE Call(t)
    BY <2>1, OnceCallInv, NamedAssumption DEF Call, Begin
  <2>2. CASE CallOnce(t)
    BY <2>2, OnceCallInv DEF CallOnce, Begin
  <2>3. CASE Use(t)
    BY <2>3, OnceStays DEF Use
  <2>4. CASE InOnce(t)
    BY <2>4, OnceStepInv DEF InOnce
  <2>5. CASE BehindOnce(t)
    BY <2>5, OnceReturnInv DEF BehindOnce
  <2>6. CASE Enter(t) \/ OpenFails(t) \/ OpenFinds(t) \/ OpenCreates(t) \/ UnlinkFails(t)
    BY <2>6, OnceStays DEF Enter, OpenFails, OpenFinds, OpenCreates, UnlinkFails
  <2>7. CASE Destroy(t) \/ Unlink(t) \/ UseLock(t) \/ UseUnlock(t)
    BY <2>7, OnceStays DEF Destroy, Unlink, UseLock, UseUnlock
  <2> QED
    BY <1>2, <2>1, <2>2, <2>3, <2>4, <2>5, <2>6, <2>7 DEF Step, InCall
<1> QED
  BY <1>1, <1>2 DEF Next

\* pthread_once of pthread.c: whoever calls it, and whoever is cancelled in
\* the routine, the routine is run to its end once at most, by one task at a
\* time, and has been run when a call returns.
THEOREM OnceIsOnce == Spec => []InitOnce
<1>1. Init => OnceInv
  BY OnceInitInv DEF Init
<1>2. OnceInv /\ [Next]_vars => OnceInv'
  BY OnceNextInv
<1>3. OnceInv => InitOnce
  BY OnceInvImplies
<1> QED
  BY <1>1, <1>2, <1>3, PTL DEF Spec

-----------------------------------------------------------------------------
(***************************************************************************)
(* The named semaphores                                                    *)
(***************************************************************************)
Operations == {NoOp, [call |-> "once"]} \cup Opens \cup Unlinks
              \cup [call : {"use"}, addr : Address]

Types ==
  /\ npc \in [Task -> {"out", "once", "enter", "inside", "free", "use", "used"}]
  /\ calls \in [Task -> 0 .. Calls]
  /\ op \in [Task -> Operations]
  /\ semaphores \in Seq([name : Name, addr : Address])
  /\ opened \in [Task -> Address \cup {NoAddress}]
  /\ sem_lock \in [Address -> Semaphore]

\* A task gets to the list by way of pthread_once, and the list is empty
\* until the first one is through it: _Init_Semaphore wipes nothing out.
PointInv ==
  /\ \A t \in Task :
       /\ opc[t] # "out" =>
            npc[t] = "once" /\ (op[t].call # "once" => octl[t] = semOnce)
       /\ npc[t] \in {"enter", "inside", "free"} => inits[semOnce] = 1
       /\ npc[t] = "free" => Unlinking(t)
  /\ inits[semOnce] = 0 => semaphores = <<>>

\* The guard of the list, and who has it or waits for it.
GuardInv ==
  /\ WellFormed(sema_sem)
  /\ \A t \in Task : Involved(sema_sem, t) <=> npc[t] \in {"inside", "free"}
  /\ \A t \in Task : npc[t] = "free" => sema_sem.owner = t

NodesInv ==
  /\ \A i, j \in 1 .. Len(semaphores) :
       /\ semaphores[i].name = semaphores[j].name => i = j
       /\ semaphores[i].addr = semaphores[j].addr => i = j
  /\ \A t \in Task : opened[t] # NoAddress => opened[t] \in Listed

\* Does t use the semaphore at a, or is about to?
Uses(t, a) == npc[t] \in {"use", "used"} /\ op[t].addr = a

\* The locks have those in them that use the semaphores, and a task that has
\* passed the test of sem_destroy frees what nobody uses.
UseInv ==
  /\ \A a \in Address :
       /\ WellFormed(sem_lock[a])
       /\ \A t \in Task : Involved(sem_lock[a], t) <=> npc[t] = "used" /\ op[t].addr = a
  /\ \A t \in Task : npc[t] \in {"use", "used"} => op[t].addr \in Listed
  /\ \A t, u \in Task : Unlinking(t) => npc[u] # "use"
  /\ \A t, u \in Task : npc[t] = "free" =>
       \A i \in Named(op[t].name) : ~Uses(u, semaphores[i].addr)

Inv == OnceInv /\ Types /\ PointInv /\ GuardInv /\ NodesInv /\ UseInv

\* The invariant holds at the start.
LEMMA InitInv == Init => Inv
<1> SUFFICES ASSUME Init PROVE Inv
  OBVIOUS
<1>1. Types
  <2>1. /\ NoOp \in Operations
        /\ FreeSemaphore \in Semaphore
        /\ <<>> \in Seq([name : Name, addr : Address])
    BY FreeWellFormed DEF Operations, WellFormed, Orderly
  <2> QED
    BY <2>1, NamedAssumption DEF Init, Types
<1>2. PointInv
  BY DEF Init, OnceInit, PointInv
<1>3. GuardInv /\ UseInv
  BY FreeWellFormed DEF Init, GuardInv, UseInv, Unlinking, NoOp
<1>4. NodesInv
  BY DEF Init, NodesInv
<1> QED
  BY <1>1, <1>2, <1>3, <1>4, OnceInitInv DEF Init, Inv

(* What each step preserves: first the parts that more than one theorem needs, one lemma for each conjunct of Inv. *)

\* Every step keeps the types.
LEMMA TypesStep ==
  ASSUME Inv, NEW t \in Task, Step(t)
  PROVE  Types'
<1>a. /\ npc \in [Task -> {"out", "once", "enter", "inside", "free", "use", "used"}]
      /\ calls \in [Task -> 0 .. Calls]
      /\ op \in [Task -> Operations]
      /\ semaphores \in Seq([name : Name, addr : Address])
      /\ opened \in [Task -> Address \cup {NoAddress}]
      /\ sem_lock \in [Address -> Semaphore]
      /\ Calls \in Nat
  BY NamedAssumption DEF Inv, Types
<1>b. /\ NoOp \in Operations
      /\ [call |-> "once"] \in Operations
      /\ \A o \in Opens \cup Unlinks : o \in Operations
      /\ \A a \in Address : [call |-> "use", addr |-> a] \in Operations
  BY DEF Operations
<1>c. Leave(t) => /\ npc' \in [Task -> {"out", "once", "enter", "inside", "free", "use", "used"}]
                  /\ op' \in [Task -> Operations]
  BY <1>a, <1>b DEF Leave, NGoto
<1>d. ASSUME NEW o \in Operations, Begin(t, o)
      PROVE  /\ calls' \in [Task -> 0 .. Calls]
             /\ op' \in [Task -> Operations]
  BY <1>a, <1>d DEF Begin
<1> USE DEF Types, NGoto, listVars
<1>1. CASE Call(t)
  BY <1>1, <1>a, <1>b, <1>d DEF Call
<1>2. CASE CallOnce(t)
  BY <1>2, <1>a, <1>b, <1>d DEF CallOnce
<1>3. CASE Use(t)
  BY <1>3, <1>a, <1>b, <1>d DEF Use
<1>4. CASE InOnce(t)
  <2>1. semaphores' = <<>> \/ semaphores' = semaphores
    BY <1>4 DEF InOnce
  <2>2. semaphores' \in Seq([name : Name, addr : Address])
    BY <1>a, <2>1, EmptySeq
  <2> QED
    BY <1>4, <2>2, <1>a DEF InOnce
<1>5. CASE BehindOnce(t)
  BY <1>5, <1>a, <1>c DEF BehindOnce
<1>6. CASE Enter(t)
  BY <1>6, <1>a DEF Enter
<1>7. CASE OpenFails(t)
  BY <1>7, <1>a, <1>c DEF OpenFails, Answer
<1>8. CASE OpenFinds(t)
  <2>1. PICK i \in 1 .. Len(semaphores) : opened' = [opened EXCEPT ![t] = semaphores[i].addr]
    BY <1>8 DEF OpenFinds, Named
  <2>2. semaphores[i].addr \in Address
    <3>1. semaphores[i] \in [name : Name, addr : Address]
      BY <1>a, ElementOfSeq
    <3> QED
      BY <3>1
  <2>3. opened' \in [Task -> Address \cup {NoAddress}]
    BY <1>a, <2>1, <2>2
  <2> QED
    BY <1>8, <2>3, <1>a, <1>c DEF OpenFinds, Answer
<1>9. CASE OpenCreates(t)
  <2>1. PICK a \in Address \ Listed :
          /\ semaphores' = Append(semaphores, [name |-> op[t].name, addr |-> a])
          /\ opened' = [opened EXCEPT ![t] = a]
          /\ sem_lock' = [sem_lock EXCEPT ![a] = FreeSemaphore]
    BY <1>9 DEF OpenCreates
  <2>2. op[t].name \in Name
    <3>1. op[t] \in Operations /\ op[t].call = "open"
      BY <1>9, <1>a DEF OpenCreates, At
    <3> QED
      BY <3>1 DEF Operations, NoOp, Opens, Unlinks
  <2>3. FreeSemaphore \in Semaphore
    BY FreeWellFormed DEF WellFormed, Orderly
  <2> QED
    BY <1>9, <2>1, <2>2, <2>3, <1>a, <1>c DEF OpenCreates, Answer
<1>10. CASE UnlinkFails(t)
  BY <1>10, <1>a, <1>c DEF UnlinkFails, Answer
<1>11. CASE Destroy(t)
  BY <1>11, <1>a DEF Destroy
<1>12. CASE Unlink(t)
  <2>1. PICK i \in 1 .. Len(semaphores) :
          /\ semaphores' = RemoveAt(semaphores, i)
          /\ opened' = [u \in Task |->
                          IF opened[u] = semaphores[i].addr THEN NoAddress ELSE opened[u]]
    BY <1>12 DEF Unlink, Named
  <2>2. semaphores' \in Seq([name : Name, addr : Address])
    BY <1>a, <2>1, RemoveAtLemma
  <2> QED
    BY <1>12, <2>1, <2>2, <1>a, <1>c DEF Unlink, Answer
<1>13. CASE UseLock(t) \/ UseUnlock(t)
  <2>1. UseInv => sem_lock' \in [Address -> Semaphore]
    <3>1. ASSUME UseInv, UseLock(t) PROVE sem_lock' \in [Address -> Semaphore]
      <4>1. \A a \in Address : WellFormed(sem_lock[a])
        BY <3>1 DEF UseInv
      <4>2. \A a \in Address : Obtain(sem_lock[a], t) \in Semaphore
        <5>1. \A a \in Address : Involved(sem_lock[a], t) => npc[t] = "used"
          BY <3>1 DEF UseInv
        <5>2. \A a \in Address : ~Involved(sem_lock[a], t)
          BY <3>1, <5>1 DEF UseLock
        <5> QED
          BY <4>1, <5>2, ObtainLemma DEF WellFormed, Orderly
      <4> QED
        BY <1>a, <3>1, <4>2 DEF UseLock
    <3>2. ASSUME UseInv, UseUnlock(t) PROVE sem_lock' \in [Address -> Semaphore]
      <4>1. \A a \in Address : sem_lock[a].owner = t => Release(sem_lock[a]) \in Semaphore
        BY <3>2, ReleaseLemma DEF UseInv, WellFormed, Orderly
      <4> QED
        BY <1>a, <3>2, <4>1 DEF UseUnlock
    <3> QED
      BY <1>13, <3>1, <3>2
  <2> QED
    BY <1>13, <2>1, <1>a, <1>c DEF UseLock, UseUnlock, Inv
<1> QED
  BY <1>1, <1>2, <1>3, <1>4, <1>5, <1>6, <1>7, <1>8, <1>9, <1>10, <1>11, <1>12, <1>13,
     Zenon DEF Step, InCall

\* Every step keeps what the control points say.
LEMMA PointStep ==
  ASSUME Inv, NEW t \in Task, Step(t)
  PROVE  PointInv'
<1>a. /\ OnceInv
      /\ npc \in [Task -> {"out", "once", "enter", "inside", "free", "use", "used"}]
      /\ op \in [Task -> Operations]
      /\ \A u \in Task : opc[u] # "out" =>
           npc[u] = "once" /\ (op[u].call # "once" => octl[u] = semOnce)
      /\ \A u \in Task : npc[u] \in {"enter", "inside", "free"} => inits[semOnce] = 1
      /\ \A u \in Task : npc[u] = "free" => Unlinking(u)
      /\ inits[semOnce] = 0 => semaphores = <<>>
      /\ semOnce \in Control
  BY NamedAssumption DEF Inv, Types, PointInv
<1>b. \A u \in Task : opc[u] = "returned" => inits[octl[u]] = 1
  BY <1>a DEF OnceInv, Progress
<1>c. /\ opc \in [Task -> OncePoints]
      /\ octl \in [Task -> Control \cup {NoControl}]
      /\ inits \in [Control -> Nat]
      /\ \A u \in Task : opc[u] # "out" => octl[u] \in Control
  BY <1>a DEF OnceInv, OnceTypeOK, OncePoints
<1> USE DEF PointInv, NGoto, Unlinking
<1>1. CASE Call(t)
  <2>1. PICK o \in Opens \cup Unlinks : Begin(t, o)
    BY <1>1 DEF Call
  <2>2. /\ opc' = [opc EXCEPT ![t] = "cas"] /\ octl' = [octl EXCEPT ![t] = semOnce]
        /\ npc' = [npc EXCEPT ![t] = "once"] /\ UNCHANGED <<inits, semaphores>>
    BY <1>1 DEF Call, OnceCall, OGoto, listVars
  <2> QED
    BY <2>1, <2>2, <1>a, <1>c DEF Begin
<1>2. CASE CallOnce(t)
  <2>1. PICK c \in Control : Begin(t, [call |-> "once"]) /\ OnceCall(t, c)
    BY <1>2 DEF CallOnce
  <2>2. /\ opc' = [opc EXCEPT ![t] = "cas"] /\ octl' = [octl EXCEPT ![t] = c]
        /\ npc' = [npc EXCEPT ![t] = "once"] /\ UNCHANGED <<inits, semaphores>>
    BY <1>2, <2>1 DEF CallOnce, OnceCall, OGoto, listVars
  <2>3. op' = [op EXCEPT ![t] = [call |-> "once"]]
    BY <2>1 DEF Begin
  <2>4. op'[t].call = "once" /\ \A u \in Task \ {t} : op'[u] = op[u]
    BY <2>3, <1>a
  <2> QED
    BY <2>2, <2>4, <1>a, <1>c
<1>3. CASE Use(t)
  BY <1>3, <1>a, <1>c DEF Use, Begin, onceVars, listVars
<1>4. CASE InOnce(t)
  <2>1. /\ octl' = octl /\ octl[t] \in Control
        /\ \A u \in Task : opc'[u] # "out" => opc[u] # "out"
    <3>1. opc[t] # "out"
      BY <1>4 DEF InOnce, OnceStep, Cas, Spin, CheckDone, InitRoutine, CancelInit, MarkDone, OnceUnlock
    <3>2. PICK p \in OncePoints : opc' = [opc EXCEPT ![t] = p]
      BY <1>4, <1>a, OnceFrame DEF InOnce
    <3> QED
      BY <1>4, <1>a, <1>c, <3>1, <3>2, OnceFrame DEF InOnce
  <2>2. inits[semOnce] = 1 => inits'[semOnce] = 1
    <3>1. OnceInv'
      BY <1>4, <1>a, OnceStepInv DEF InOnce
    <3>2. inits'[semOnce] \in {0, 1}
      BY <1>a, <3>1 DEF OnceInv, ControlInv
    <3>3. \/ inits' = inits
          \/ inits' = [inits EXCEPT ![octl[t]] = @ + 1]
      BY <1>4 DEF InOnce, OnceStep, Cas, Spin, CheckDone, InitRoutine, CancelInit, MarkDone, OnceUnlock
    <3> QED
      BY <1>a, <1>c, <2>1, <3>2, <3>3
  <2>3. inits'[semOnce] = 0 => semaphores' = <<>>
    <3>1. inits'[semOnce] = 0 => inits[semOnce] = 0
      <4>1. \/ inits' = inits
            \/ inits' = [inits EXCEPT ![octl[t]] = @ + 1]
        BY <1>4 DEF InOnce, OnceStep, Cas, Spin, CheckDone, InitRoutine, CancelInit, MarkDone, OnceUnlock
      <4> QED
        BY <1>a, <1>c, <2>1, <4>1
    <3>2. semaphores' = <<>> \/ semaphores' = semaphores
      BY <1>4 DEF InOnce
    <3> QED
      BY <3>1, <3>2, <1>a
  <2> QED
    BY <1>4, <2>1, <2>2, <2>3, <1>a DEF InOnce
<1>5. CASE BehindOnce(t)
  <2>1. /\ opc[t] = "returned" /\ UNCHANGED <<inits, semaphores>>
        /\ opc' = [opc EXCEPT ![t] = "out"] /\ octl' = [octl EXCEPT ![t] = NoControl]
    BY <1>5 DEF BehindOnce, OnceReturn, OGoto, listVars
  <2>2. CASE op[t].call = "once" /\ Leave(t)
    BY <2>1, <2>2, <1>a, <1>c DEF Leave
  <2>3. CASE op[t].call # "once" /\ NGoto(t, "enter") /\ UNCHANGED op
    <3>1. inits[semOnce] = 1
      BY <2>1, <2>3, <1>a, <1>b
    <3> QED
      BY <2>1, <2>3, <3>1, <1>a, <1>c
  <2> QED
    BY <1>5, <2>2, <2>3 DEF BehindOnce
<1>6. CASE Enter(t)
  BY <1>6, <1>a, <1>c DEF Enter, onceVars
<1>7. CASE OpenFails(t) \/ OpenFinds(t) \/ OpenCreates(t) \/ UnlinkFails(t) \/ Unlink(t)
  <2>1. UNCHANGED onceVars /\ Leave(t) /\ npc[t] \in {"inside", "free"}
    BY <1>7 DEF OpenFails, OpenFinds, OpenCreates, UnlinkFails, Unlink, Answer, At
  <2> QED
    BY <2>1, <1>a, <1>c DEF Leave, onceVars
<1>8. CASE Destroy(t)
  BY <1>8, <1>a, <1>c DEF Destroy, At, onceVars, listVars
<1>9. CASE UseLock(t) \/ UseUnlock(t)
  BY <1>9, <1>a, <1>c DEF UseLock, UseUnlock, Leave, onceVars
<1> QED
  BY <1>1, <1>2, <1>3, <1>4, <1>5, <1>6, <1>7, <1>8, <1>9, Zenon DEF Step, InCall

\* The steps of t as the guard of the list sees them.
LEMMA GuardStep ==
  ASSUME Inv, NEW t \in Task, Step(t)
  PROVE  GuardInv'
<1>a. /\ WellFormed(sema_sem)
      /\ \A u \in Task : Involved(sema_sem, u) <=> npc[u] \in {"inside", "free"}
      /\ \A u \in Task : npc[u] = "free" => sema_sem.owner = u
      /\ npc \in [Task -> {"out", "once", "enter", "inside", "free", "use", "used"}]
      /\ \A u \in Task : npc[u] \in {"enter", "inside", "free"} => inits[semOnce] = 1
      /\ \A u \in Task : opc[u] # "out" => npc[u] = "once"
  BY DEF Inv, GuardInv, Types, PointInv
<1> USE DEF GuardInv
\* Neither the task nor the guard moves at the list.
<1>b. ASSUME UNCHANGED sema_sem, npc[t] \notin {"inside", "free"},
             NEW p \in {"out", "once", "enter", "use", "used"},
             npc' = [npc EXCEPT ![t] = p]
      PROVE  GuardInv'
  BY <1>a, <1>b
<1>c. ASSUME Answer(t), npc[t] \in {"inside", "free"}, sema_sem.owner = t
      PROVE  GuardInv'
  <2>1. sema_sem' = Release(sema_sem) /\ npc' = [npc EXCEPT ![t] = "out"]
    BY <1>c DEF Answer, Leave, NGoto
  <2>2. \A u \in Task \ {t} : npc[u] # "free"
    BY <1>a, <1>c
  <2> QED
    BY <1>a, <1>c, <2>1, <2>2, ReleaseLemma
<1>1. CASE Call(t) \/ CallOnce(t) \/ Use(t)
  BY <1>1, <1>b DEF Call, CallOnce, Use, Begin, NGoto, listVars
<1>4. CASE InOnce(t)
  <2>1. CASE opc[t] = "init" /\ octl[t] = semOnce
    <3>1. inits[semOnce] # 1
      <4>1. inits[semOnce] = 0
        BY <2>1 DEF Inv, OnceInv, Progress
      <4> QED
        BY <4>1
    <3>2. \A u \in Task : npc[u] \notin {"inside", "free"}
      BY <1>a, <3>1
    <3>3. sema_sem' = FreeSemaphore /\ npc' = npc
      BY <1>4, <2>1 DEF InOnce
    <3> QED
      BY <3>2, <3>3, FreeWellFormed
  <2>2. CASE ~(opc[t] = "init" /\ octl[t] = semOnce)
    BY <1>4, <2>2, <1>a DEF InOnce
  <2> QED
    BY <2>1, <2>2
<1>5. CASE BehindOnce(t)
  BY <1>5, <1>a, <1>b DEF BehindOnce, Leave, NGoto, listVars
<1>6. CASE Enter(t)
  <2>1. sema_sem' = Obtain(sema_sem, t) /\ npc' = [npc EXCEPT ![t] = "inside"]
    BY <1>6 DEF Enter, NGoto
  <2>2. ~Involved(sema_sem, t)
    BY <1>6, <1>a DEF Enter
  <2> QED
    BY <1>a, <2>1, <2>2, ObtainLemma
<1>7. CASE OpenFails(t) \/ OpenFinds(t) \/ OpenCreates(t) \/ UnlinkFails(t) \/ Unlink(t)
  <2>1. Answer(t) /\ npc[t] \in {"inside", "free"} /\ sema_sem.owner = t
    BY <1>7, <1>a DEF OpenFails, OpenFinds, OpenCreates, UnlinkFails, Unlink, At
  <2> QED
    BY <1>c, <2>1
<1>8. CASE Destroy(t)
  BY <1>8, <1>a DEF Destroy, At, NGoto, listVars
<1>9. CASE UseLock(t) \/ UseUnlock(t)
  BY <1>9, <1>b DEF UseLock, UseUnlock, Leave, NGoto
<1> QED
  BY <1>1, <1>4, <1>5, <1>6, <1>7, <1>8, <1>9, Zenon DEF Step, InCall

\* Remove leaves the other nodes in their order.
LEMMA Without ==
  ASSUME semaphores \in Seq([name : Name, addr : Address]),
         NEW i \in 1 .. Len(semaphores), semaphores' = RemoveAt(semaphores, i)
  PROVE  /\ Len(semaphores') = Len(semaphores) - 1 /\ Len(semaphores) \in Nat
         /\ \A j \in 1 .. Len(semaphores) - 1 :
              semaphores'[j] = IF j < i THEN semaphores[j] ELSE semaphores[j + 1]
<1> DEFINE Node == [name : Name, addr : Address]
<1>1. semaphores \in Seq(Node)
  OBVIOUS
<1> HIDE DEF Node
<1>2. Len(semaphores) \in Nat
  BY <1>1
<1>3. /\ Len(RemoveAt(semaphores, i)) = Len(semaphores) - 1
      /\ \A j \in 1 .. (Len(semaphores) - 1) :
           RemoveAt(semaphores, i)[j] = IF j < i THEN semaphores[j] ELSE semaphores[j + 1]
  BY <1>1, RemoveAtLemma, Zenon
<1> QED
  BY <1>2, <1>3, Zenon

\* Remove takes one address out of the list.
LEMMA ListedWithout ==
  ASSUME semaphores \in Seq([name : Name, addr : Address]),
         NEW i \in 1 .. Len(semaphores), semaphores' = RemoveAt(semaphores, i)
  PROVE  \A j \in 1 .. Len(semaphores) : j # i => semaphores[j].addr \in Listed'
<1>1. /\ Len(semaphores') = Len(semaphores) - 1 /\ Len(semaphores) \in Nat
      /\ \A j \in 1 .. Len(semaphores) - 1 :
           semaphores'[j] = IF j < i THEN semaphores[j] ELSE semaphores[j + 1]
  BY Without, Zenon
<1>2. \A j \in 1 .. Len(semaphores') : semaphores'[j].addr \in Listed'
  BY DEF Listed
<1>3. ASSUME NEW j \in 1 .. Len(semaphores), j # i PROVE semaphores[j].addr \in Listed'
  <2>1. CASE j < i
    <3>1. j \in 1 .. Len(semaphores') /\ semaphores'[j] = semaphores[j]
      BY <1>1, <2>1
    <3> QED
      BY <1>2, <3>1
  <2>2. CASE j > i
    <3>1. /\ j - 1 \in 1 .. Len(semaphores') /\ ~(j - 1 < i) /\ (j - 1) + 1 = j
          /\ j - 1 \in 1 .. Len(semaphores) - 1
      BY <1>1, <2>2
    <3>2. semaphores'[j - 1] = semaphores[j]
      BY <1>1, <3>1
    <3> QED
      BY <1>2, <3>1, <3>2
  <2> QED
    BY <1>3, <2>1, <2>2
<1> QED
  BY <1>3

\* Names and addresses stay unique, and what a task has opened is in the list.
LEMMA NodesStep ==
  ASSUME Inv, NEW t \in Task, Step(t)
  PROVE  NodesInv'
<1>a. /\ semaphores \in Seq([name : Name, addr : Address])
      /\ opened \in [Task -> Address \cup {NoAddress}]
      /\ \A i, j \in 1 .. Len(semaphores) :
           /\ semaphores[i].name = semaphores[j].name => i = j
           /\ semaphores[i].addr = semaphores[j].addr => i = j
      /\ \A u \in Task : opened[u] # NoAddress => opened[u] \in Listed
  BY DEF Inv, Types, NodesInv
<1> USE DEF NodesInv, Listed
<1>b. ASSUME UNCHANGED <<semaphores, opened>> PROVE NodesInv'
  BY <1>a, <1>b
<1>1. CASE Call(t) \/ CallOnce(t) \/ Use(t) \/ BehindOnce(t) \/ Enter(t) \/ Destroy(t)
  BY <1>1, <1>b DEF Call, CallOnce, Use, BehindOnce, Enter, Destroy, listVars
<1>2. CASE OpenFails(t) \/ UnlinkFails(t) \/ UseLock(t) \/ UseUnlock(t)
  BY <1>2, <1>b DEF OpenFails, UnlinkFails, UseLock, UseUnlock
<1>3. CASE InOnce(t)
  <2>1. CASE opc[t] = "init" /\ octl[t] = semOnce
    <3>1. inits[semOnce] = 0
      BY <2>1 DEF Inv, OnceInv, Progress
    <3>2. semaphores = <<>>
      BY <3>1 DEF Inv, PointInv
    <3>3. semaphores' = <<>> /\ UNCHANGED opened
      BY <1>3, <2>1 DEF InOnce
    <3> QED
      BY <1>b, <3>2, <3>3
  <2>2. CASE ~(opc[t] = "init" /\ octl[t] = semOnce)
    BY <1>3, <2>2, <1>b DEF InOnce
  <2> QED
    BY <2>1, <2>2
<1>4. CASE OpenFinds(t)
  <2>1. PICK i \in 1 .. Len(semaphores) : opened' = [opened EXCEPT ![t] = semaphores[i].addr]
    BY <1>4 DEF OpenFinds, Named
  <2> QED
    BY <1>4, <2>1, <1>a DEF OpenFinds
<1>5. CASE OpenCreates(t)
  <2>1. PICK a \in Address \ Listed :
          /\ semaphores' = Append(semaphores, [name |-> op[t].name, addr |-> a])
          /\ opened' = [opened EXCEPT ![t] = a]
    BY <1>5 DEF OpenCreates
  <2>2. /\ Len(semaphores') = Len(semaphores) + 1 /\ Len(semaphores) \in Nat
        /\ \A i \in 1 .. Len(semaphores) : semaphores'[i] = semaphores[i]
        /\ semaphores'[Len(semaphores) + 1] = [name |-> op[t].name, addr |-> a]
    BY <1>a, <2>1
  <2>3. /\ semaphores'[Len(semaphores) + 1].name = op[t].name
        /\ semaphores'[Len(semaphores) + 1].addr = a
    BY <2>2
  <2>4. \A i \in 1 .. Len(semaphores) :
          semaphores[i].name # op[t].name /\ semaphores[i].addr # a
    <3>1. Named(op[t].name) = {}
      BY <1>5 DEF OpenCreates, Missing
    <3>2. \A i \in 1 .. Len(semaphores) :
            semaphores[i].name = op[t].name => i \in Named(op[t].name)
      BY <1>a DEF Named
    <3> QED
      BY <2>1, <3>1, <3>2
  <2>5. \A i, j \in 1 .. Len(semaphores') :
           /\ semaphores'[i].name = semaphores'[j].name => i = j
           /\ semaphores'[i].addr = semaphores'[j].addr => i = j
    BY <1>a, <2>2, <2>3, <2>4
  <2>6. /\ a \in Listed'
        /\ \A b \in Listed : b \in Listed'
    <3>1. \A i \in 1 .. Len(semaphores') : semaphores'[i].addr \in Listed'
      OBVIOUS
    <3>2. Len(semaphores) + 1 \in 1 .. Len(semaphores')
      BY <2>2
    <3>3. ASSUME NEW b \in Listed PROVE b \in Listed'
      <4>1. PICK i \in 1 .. Len(semaphores) : b = semaphores[i].addr
        OBVIOUS
      <4>2. i \in 1 .. Len(semaphores') /\ semaphores'[i].addr = b
        BY <2>2, <4>1
      <4> QED
        BY <3>1, <4>2
    <3> QED
      BY <2>3, <3>1, <3>2, <3>3
  <2> HIDE DEF Listed
  <2> QED
    BY <2>1, <2>5, <2>6, <1>a
<1>6. CASE Unlink(t)
  <2>1. PICK i \in 1 .. Len(semaphores) :
          /\ semaphores' = RemoveAt(semaphores, i)
          /\ opened' = [u \in Task |->
                          IF opened[u] = semaphores[i].addr THEN NoAddress ELSE opened[u]]
    BY <1>6 DEF Unlink, Named
  <2>2. /\ Len(semaphores') = Len(semaphores) - 1 /\ Len(semaphores) \in Nat
        /\ \A j \in 1 .. Len(semaphores) - 1 :
             semaphores'[j] = IF j < i THEN semaphores[j] ELSE semaphores[j + 1]
    BY <1>a, <2>1, Without, Zenon
  <2>3. \A j, k \in 1 .. Len(semaphores') :
           /\ semaphores'[j].name = semaphores'[k].name => j = k
           /\ semaphores'[j].addr = semaphores'[k].addr => j = k
    <3> DEFINE old(j) == IF j < i THEN j ELSE j + 1
    <3>1. \A j \in 1 .. Len(semaphores') :
            old(j) \in 1 .. Len(semaphores) /\ semaphores'[j] = semaphores[old(j)]
      BY <2>2
    <3>2. \A j, k \in 1 .. Len(semaphores') : old(j) = old(k) => j = k
      OBVIOUS
    <3> HIDE DEF old
    <3> QED
      BY <1>a, <3>1, <3>2
  <2>4. \A j \in 1 .. Len(semaphores) : j # i => semaphores[j].addr \in Listed'
    BY <1>a, <2>1, ListedWithout
  <2>5. ASSUME NEW u \in Task, opened'[u] # NoAddress PROVE opened'[u] \in Listed'
    <3>1. opened'[u] = opened[u] /\ opened[u] # semaphores[i].addr
      BY <2>1, <2>5
    <3>2. PICK j \in 1 .. Len(semaphores) : opened[u] = semaphores[j].addr
      BY <1>a, <2>5, <3>1
    <3> QED
      BY <2>4, <3>1, <3>2
  <2> QED
    BY <2>3, <2>5
<1> QED
  BY <1>1, <1>2, <1>3, <1>4, <1>5, <1>6, Zenon DEF Step, InCall

\* A step that touches neither the list nor the locks, of a task that does
\* not use a semaphore.
LEMMA UseFrame ==
  ASSUME UseInv, NEW t \in Task,
         \A u \in Task \ {t} : npc'[u] = npc[u] /\ op'[u] = op[u],
         npc[t] \notin {"use", "used"},
         npc'[t] \notin {"use", "used", "free"},
         op'[t].call = "unlink" => \A u \in Task : npc[u] # "use",
         UNCHANGED <<semaphores, sem_lock>>
  PROVE  UseInv'
<1>1. \A u \in Task : npc'[u] \in {"use", "used", "free"} => u # t
  OBVIOUS
<1>2. \A a \in Address :
        /\ WellFormed(sem_lock'[a])
        /\ \A u \in Task : Involved(sem_lock'[a], u) <=> npc'[u] = "used" /\ op'[u].addr = a
  BY DEF UseInv
<1>3. \A u \in Task : npc'[u] \in {"use", "used"} => op'[u].addr \in Listed'
  BY DEF UseInv, Listed
<1>4. \A u, v \in Task : op'[u].call = "unlink" => npc'[v] # "use"
  BY <1>1 DEF UseInv, Unlinking
<1>5. ASSUME NEW u \in Task, npc'[u] = "free", NEW v \in Task,
             NEW i \in Named(op[u].name)',
             npc'[v] \in {"use", "used"}, op'[v].addr = semaphores'[i].addr
      PROVE  FALSE
  <2>1. u # t /\ v # t
    BY <1>1, <1>5
  <2>2. i \in Named(op[u].name)
    BY <1>5, <2>1 DEF Named
  <2> QED
    BY <1>5, <2>1, <2>2 DEF UseInv, Uses
<1> QED
  BY <1>2, <1>3, <1>4, <1>5 DEF UseInv, Uses, Unlinking

\* Every step keeps what is known of the tasks that use a semaphore.
LEMMA UseStep ==
  ASSUME Inv, NEW t \in Task, Step(t)
  PROVE  UseInv'
<1>a. /\ UseInv
      /\ npc \in [Task -> {"out", "once", "enter", "inside", "free", "use", "used"}]
      /\ op \in [Task -> Operations]
      /\ semaphores \in Seq([name : Name, addr : Address])
      /\ sem_lock \in [Address -> Semaphore]
      /\ \A u \in Task : opc[u] # "out" => npc[u] = "once"
      /\ \A u \in Task : npc[u] = "free" => Unlinking(u) /\ sema_sem.owner = u
  BY DEF Inv, Types, PointInv, GuardInv
<1>b. \A u \in Task : npc[u] \in {"use", "used"} => op[u].addr \in Address
  <2>1. \A i \in 1 .. Len(semaphores) : semaphores[i] \in [name : Name, addr : Address]
    BY <1>a, ElementOfSeq
  <2>2. \A a \in Listed : a \in Address
    BY <2>1 DEF Listed
  <2> QED
    BY <1>a, <2>2 DEF UseInv
\* The end of a call that has not touched the list.
<1>c. ASSUME Leave(t), npc[t] \notin {"use", "used"}, UNCHANGED <<semaphores, sem_lock>>
      PROVE  UseInv'
  <2>1. npc'[t] = "out" /\ op'[t] = NoOp
    BY <1>a, <1>c DEF Leave, NGoto
  <2>2. op'[t].call # "unlink"
    BY <2>1 DEF NoOp
  <2>3. \A u \in Task \ {t} : npc'[u] = npc[u] /\ op'[u] = op[u]
    BY <1>a, <1>c DEF Leave, NGoto
  <2> QED
    BY <1>a, <1>c, <2>1, <2>2, <2>3, UseFrame
\* A step within a call.
<1>d. ASSUME UNCHANGED <<op, semaphores, sem_lock>>, npc[t] \notin {"use", "used"},
             NEW p \in {"once", "enter", "inside"}, npc' = [npc EXCEPT ![t] = p]
      PROVE  UseInv'
  <2>1. op'[t].call = "unlink" => \A u \in Task : npc[u] # "use"
    BY <1>a, <1>d DEF UseInv, Unlinking
  <2>2. npc'[t] = p /\ \A u \in Task \ {t} : npc'[u] = npc[u] /\ op'[u] = op[u]
    BY <1>a, <1>d
  <2> QED
    BY <1>a, <1>d, <2>1, <2>2, UseFrame
<1>1. CASE Call(t)
  <2>1. PICK o \in Opens \cup Unlinks :
          Begin(t, o) /\ (o.call = "unlink" => \A u \in Task : npc[u] # "use")
    BY <1>1 DEF Call
  <2>2. /\ op'[t] = o /\ npc'[t] = "once" /\ npc[t] = "out"
        /\ \A u \in Task \ {t} : npc'[u] = npc[u] /\ op'[u] = op[u]
        /\ UNCHANGED <<semaphores, sem_lock>>
    BY <1>1, <1>a, <2>1 DEF Call, Begin, NGoto, listVars
  <2> QED
    BY <1>a, <2>1, <2>2, UseFrame
<1>2. CASE CallOnce(t)
  <2>1. Begin(t, [call |-> "once"])
    BY <1>2 DEF CallOnce
  <2>2. /\ op'[t] = [call |-> "once"] /\ npc'[t] = "once" /\ npc[t] = "out"
        /\ \A u \in Task \ {t} : npc'[u] = npc[u] /\ op'[u] = op[u]
        /\ UNCHANGED <<semaphores, sem_lock>>
    BY <1>2, <1>a, <2>1 DEF CallOnce, Begin, NGoto, listVars
  <2>3. op'[t].call # "unlink"
    BY <2>2
  <2> QED
    BY <1>a, <2>2, <2>3, UseFrame
<1>3. CASE InOnce(t)
  <2>1. UNCHANGED semaphores
    BY <1>3 DEF InOnce, Inv, PointInv, OnceInv, Progress
  <2>2. UNCHANGED <<npc, op, sem_lock>>
    BY <1>3 DEF InOnce
  <2> QED
    BY <1>a, <2>1, <2>2 DEF UseInv, Uses, Unlinking, Named, Listed
<1>4. CASE BehindOnce(t)
  <2>1. npc[t] = "once" /\ UNCHANGED <<semaphores, sem_lock>>
    BY <1>4, <1>a DEF BehindOnce, listVars
  <2> QED
    BY <1>4, <1>c, <1>d, <2>1 DEF BehindOnce, NGoto
<1>5. CASE Enter(t)
  BY <1>5, <1>d DEF Enter, NGoto
<1>6. CASE OpenFails(t) \/ OpenFinds(t) \/ UnlinkFails(t)
  BY <1>6, <1>c DEF OpenFails, OpenFinds, UnlinkFails, At, Answer
<1>7. CASE OpenCreates(t)
  <2>1. PICK a \in Address \ Listed :
          /\ semaphores' = Append(semaphores, [name |-> op[t].name, addr |-> a])
          /\ sem_lock' = [sem_lock EXCEPT ![a] = FreeSemaphore]
    BY <1>7 DEF OpenCreates
  <2>2. /\ npc[t] = "inside" /\ sema_sem.owner = t
        /\ npc'[t] = "out" /\ op'[t] = NoOp
        /\ \A u \in Task \ {t} : npc'[u] = npc[u] /\ op'[u] = op[u]
    BY <1>7, <1>a DEF OpenCreates, At, Answer, Leave, NGoto
  <2>3. \A b \in Listed : b \in Listed'
    <3>1. /\ Len(semaphores') = Len(semaphores) + 1 /\ Len(semaphores) \in Nat
          /\ \A i \in 1 .. Len(semaphores) : semaphores'[i] = semaphores[i]
      BY <1>a, <2>1
    <3> QED
      BY <3>1 DEF Listed
  <2>4. \A b \in Address :
          /\ WellFormed(sem_lock'[b])
          /\ \A u \in Task : Involved(sem_lock'[b], u) <=> npc'[u] = "used" /\ op'[u].addr = b
    <3>1. CASE TRUE
      <4>1. \A u \in Task : npc[u] = "used" => op[u].addr # a
        BY <1>a, <2>1 DEF UseInv
      <4>2. sem_lock'[a] = FreeSemaphore /\ \A b \in Address \ {a} : sem_lock'[b] = sem_lock[b]
        BY <1>a, <2>1
      <4>3. \A u \in Task : npc'[u] = "used" <=> npc[u] = "used" /\ u # t
        BY <2>2
      <4> QED
        BY <1>a, <2>2, <4>1, <4>2, <4>3, FreeWellFormed DEF UseInv
    <3> QED
      BY <3>1
  <2>5. \A u \in Task : npc'[u] \in {"use", "used"} => op'[u].addr \in Listed'
    BY <1>a, <2>2, <2>3 DEF UseInv
  <2>6. op'[t].call # "unlink"
    BY <2>2 DEF NoOp
  <2>7. \A u, v \in Task : op'[u].call = "unlink" => npc'[v] # "use"
    BY <1>a, <2>2, <2>6 DEF UseInv, Unlinking
  <2>8. \A u \in Task : npc'[u] # "free"
    BY <1>a, <2>2
  <2> QED
    BY <2>4, <2>5, <2>7, <2>8 DEF UseInv, Uses, Unlinking
<1>8. CASE Destroy(t)
  <2>1. /\ npc[t] = "inside" /\ sema_sem.owner = t /\ op[t].call = "unlink"
        /\ npc'[t] = "free" /\ \A u \in Task \ {t} : npc'[u] = npc[u]
        /\ UNCHANGED <<op, semaphores, sem_lock>>
    BY <1>8, <1>a DEF Destroy, At, NGoto, listVars
  <2>2. PICK i \in Named(op[t].name) : Destroyable(semaphores[i].addr, t)
    BY <1>8 DEF Destroy
  <2>3. \A k \in Named(op[t].name) : k = i
    BY <2>2 DEF Named, Inv, NodesInv
  <2>4. \A u \in Task : ~Uses(u, semaphores[i].addr)
    <3> DEFINE a == semaphores[i].addr
    <3>1. ASSUME NEW u \in Task, Uses(u, a) PROVE FALSE
      <4>1. npc[u] = "used" /\ op[u].addr = a /\ a \in Address
        BY <1>a, <1>b, <2>1, <3>1 DEF Uses, UseInv, Unlinking
      <4>2. WellFormed(sem_lock[a]) /\ Involved(sem_lock[a], u) /\ ~Involved(sem_lock[a], t)
        BY <1>a, <2>1, <4>1 DEF UseInv
      <4>3. sem_lock[a].owner = NoTask
        BY <2>2, <4>2 DEF Destroyable, Attempts, Grants, Involved, WellFormed
      <4>4. sem_lock[a] = FreeSemaphore
        BY <4>2, <4>3 DEF WellFormed
      <4> QED
        BY <4>2, <4>4, FreeWellFormed
    <3> QED
      BY <3>1
  <2>5. \A u \in Task : Uses(u, semaphores[i].addr)' => Uses(u, semaphores[i].addr)
    BY <2>1 DEF Uses
  <2>6. \A u \in Task : npc'[u] = "free" => u = t
    BY <1>a, <2>1
  <2>7. \A a \in Address :
          /\ WellFormed(sem_lock'[a])
          /\ \A u \in Task : Involved(sem_lock'[a], u) <=> npc'[u] = "used" /\ op'[u].addr = a
    BY <1>a, <2>1 DEF UseInv
  <2>8. \A u \in Task : npc'[u] \in {"use", "used"} => op'[u].addr \in Listed'
    BY <1>a, <2>1 DEF UseInv, Listed
  <2>9. \A u, v \in Task : op'[u].call = "unlink" => npc'[v] # "use"
    BY <1>a, <2>1 DEF UseInv, Unlinking
  <2>10. ASSUME NEW u \in Task, npc'[u] = "free", NEW v \in Task,
                NEW k \in Named(op[u].name)'
         PROVE  ~Uses(v, semaphores[k].addr)'
    <3>1. u = t /\ k \in Named(op[t].name)
      BY <2>1, <2>6, <2>10 DEF Named
    <3> QED
      BY <2>1, <2>3, <2>4, <2>5, <3>1
  <2> QED
    BY <2>7, <2>8, <2>9, <2>10 DEF UseInv, Unlinking
<1>9. CASE Unlink(t)
  <2>1. PICK i \in Named(op[t].name) : semaphores' = RemoveAt(semaphores, i)
    BY <1>9 DEF Unlink
  <2>2. /\ npc[t] = "free" /\ sema_sem.owner = t
        /\ npc'[t] = "out" /\ op'[t] = NoOp
        /\ \A u \in Task \ {t} : npc'[u] = npc[u] /\ op'[u] = op[u]
        /\ UNCHANGED sem_lock
    BY <1>9, <1>a DEF Unlink, Answer, Leave, NGoto
  <2>3. \A u \in Task : npc[u] \in {"use", "used"} => op[u].addr \in Listed'
    <3> SUFFICES ASSUME NEW u \in Task, npc[u] \in {"use", "used"}
                 PROVE  op[u].addr \in Listed'
      OBVIOUS
    <3>1. PICK j \in 1 .. Len(semaphores) : op[u].addr = semaphores[j].addr
      BY <1>a DEF UseInv, Listed
    <3>2. op[u].addr # semaphores[i].addr
      BY <1>a, <2>1, <2>2 DEF UseInv, Uses
    <3>3. i \in 1 .. Len(semaphores)
      BY <2>1 DEF Named
    <3> QED
      BY <1>a, <2>1, <3>1, <3>2, <3>3, ListedWithout
  <2>4. \A a \in Address :
          /\ WellFormed(sem_lock'[a])
          /\ \A u \in Task : Involved(sem_lock'[a], u) <=> npc'[u] = "used" /\ op'[u].addr = a
    BY <1>a, <2>2 DEF UseInv
  <2>5. op'[t].call # "unlink"
    BY <2>2 DEF NoOp
  <2>6. \A u, v \in Task : op'[u].call = "unlink" => npc'[v] # "use"
    BY <1>a, <2>2, <2>5 DEF UseInv, Unlinking
  <2>7. \A u \in Task : npc'[u] # "free"
    BY <1>a, <2>2
  <2>8. \A u \in Task : npc'[u] \in {"use", "used"} => op'[u].addr \in Listed'
    BY <2>2, <2>3
  <2> QED
    BY <2>4, <2>6, <2>7, <2>8 DEF UseInv, Uses, Unlinking
<1>10. CASE Use(t)
  <2>1. /\ npc[t] = "out" /\ npc'[t] = "use" /\ opened[t] \in Listed
        /\ op'[t] = [call |-> "use", addr |-> opened[t]]
        /\ \A u \in Task \ {t} : npc'[u] = npc[u] /\ op'[u] = op[u]
        /\ \A u \in Task : op[u].call # "unlink"
        /\ UNCHANGED <<semaphores, sem_lock>>
    BY <1>10, <1>a DEF Use, Begin, NGoto, listVars, Unlinking, Inv, NodesInv
  <2>2. op'[t].call # "unlink" /\ op'[t].addr = opened[t]
    BY <2>1
  <2>3. \A u \in Task : npc'[u] # "free" /\ op'[u].call # "unlink"
    BY <1>a, <2>1, <2>2 DEF Unlinking
  <2>4. \A a \in Address :
          /\ WellFormed(sem_lock'[a])
          /\ \A u \in Task : Involved(sem_lock'[a], u) <=> npc'[u] = "used" /\ op'[u].addr = a
    BY <1>a, <2>1 DEF UseInv
  <2>5. \A u \in Task : npc'[u] \in {"use", "used"} => op'[u].addr \in Listed'
    BY <1>a, <2>1, <2>2 DEF UseInv, Listed
  <2> QED
    BY <2>3, <2>4, <2>5 DEF UseInv, Uses, Unlinking
<1>11. CASE UseLock(t)
  <2> DEFINE a == op[t].addr
  <2>1. /\ npc[t] = "use" /\ npc'[t] = "used" /\ \A u \in Task \ {t} : npc'[u] = npc[u]
        /\ sem_lock' = [sem_lock EXCEPT ![a] = Obtain(@, t)]
        /\ UNCHANGED <<op, semaphores>>
    BY <1>11, <1>a DEF UseLock, NGoto
  <2>2. a \in Address /\ WellFormed(sem_lock[a]) /\ ~Involved(sem_lock[a], t)
    BY <1>a, <1>b, <2>1 DEF UseInv
  <2>3. \A b \in Address : sem_lock'[b] = IF b = a THEN Obtain(sem_lock[a], t) ELSE sem_lock[b]
    BY <1>a, <2>1
  <2>4. /\ WellFormed(Obtain(sem_lock[a], t))
        /\ \A u \in Task : Involved(Obtain(sem_lock[a], t), u) <=> Involved(sem_lock[a], u) \/ u = t
    BY <2>2, ObtainLemma
  <2>5. \A b \in Address :
          /\ WellFormed(sem_lock'[b])
          /\ \A u \in Task : Involved(sem_lock'[b], u) <=> npc'[u] = "used" /\ op'[u].addr = b
    BY <1>a, <2>1, <2>2, <2>3, <2>4 DEF UseInv
  <2>6. \A u \in Task : npc'[u] \in {"use", "used"} <=> npc[u] \in {"use", "used"}
    BY <2>1
  <2>7. \A u \in Task : npc'[u] = "use" => npc[u] = "use"
    BY <2>1
  <2>8. \A u \in Task : npc'[u] = "free" => npc[u] = "free"
    BY <2>1
  <2> QED
    BY <1>a, <2>1, <2>5, <2>6, <2>7, <2>8 DEF UseInv, Uses, Unlinking, Named, Listed
<1>12. CASE UseUnlock(t)
  <2> DEFINE a == op[t].addr
  <2>1. /\ npc[t] = "used" /\ npc'[t] = "out" /\ sem_lock[a].owner = t
        /\ op'[t] = NoOp
        /\ \A u \in Task \ {t} : npc'[u] = npc[u] /\ op'[u] = op[u]
        /\ sem_lock' = [sem_lock EXCEPT ![a] = Release(@)]
        /\ UNCHANGED semaphores
    BY <1>12, <1>a DEF UseUnlock, Leave, NGoto
  <2>2. a \in Address /\ WellFormed(sem_lock[a])
    BY <1>a, <1>b, <2>1 DEF UseInv
  <2>3. \A b \in Address : sem_lock'[b] = IF b = a THEN Release(sem_lock[a]) ELSE sem_lock[b]
    BY <1>a, <2>1
  <2>4. /\ WellFormed(Release(sem_lock[a]))
        /\ \A u \in Task : Involved(Release(sem_lock[a]), u) <=> Involved(sem_lock[a], u) /\ u # t
    BY <2>1, <2>2, ReleaseLemma
  <2>5. \A b \in Address :
          /\ WellFormed(sem_lock'[b])
          /\ \A u \in Task : Involved(sem_lock'[b], u) <=> npc'[u] = "used" /\ op'[u].addr = b
    BY <1>a, <2>1, <2>2, <2>3, <2>4 DEF UseInv
  <2>6. op'[t].call # "unlink"
    BY <2>1 DEF NoOp
  <2>7. \A u \in Task : npc'[u] \in {"use", "used"} => op'[u].addr \in Listed'
    BY <1>a, <2>1 DEF UseInv, Listed
  <2>8. \A u, v \in Task : op'[u].call = "unlink" => npc'[v] # "use"
    BY <1>a, <2>1, <2>6 DEF UseInv, Unlinking
  <2>9. ASSUME NEW u \in Task, npc'[u] = "free", NEW v \in Task,
               NEW k \in Named(op[u].name)', Uses(v, semaphores[k].addr)'
        PROVE  FALSE
    <3>1. u # t /\ v # t
      BY <2>1, <2>9 DEF Uses
    <3>2. k \in Named(op[u].name) /\ Uses(v, semaphores[k].addr)
      BY <2>1, <2>9, <3>1 DEF Named, Uses
    <3> QED
      BY <1>a, <2>1, <2>9, <3>1, <3>2 DEF UseInv
  <2> QED
    BY <2>5, <2>7, <2>8, <2>9 DEF UseInv, Unlinking
<1> QED
  BY <1>1, <1>2, <1>3, <1>4, <1>5, <1>6, <1>7, <1>8, <1>9, <1>10, <1>11, <1>12,
     Zenon DEF Step, InCall

-----------------------------------------------------------------------------
\* Every step keeps the invariant.
LEMMA NextInv == Inv /\ [Next]_vars => Inv'
<1> SUFFICES ASSUME Inv, [Next]_vars PROVE Inv'
  OBVIOUS
<1>1. OnceInv'
  BY OnceNextInv DEF Inv
<1>2. CASE UNCHANGED vars
  BY <1>1, <1>2 DEF vars, onceVars, listVars, Inv, Types, PointInv, GuardInv, NodesInv,
                    UseInv, Uses, Unlinking, Named, Listed
<1>3. ASSUME NEW t \in Task, Step(t) PROVE Inv'
  BY <1>1, <1>3, TypesStep, PointStep, GuardStep, NodesStep, UseStep DEF Inv
<1> QED
  BY <1>2, <1>3 DEF Next

\* The invariant holds in every behavior.
LEMMA InvAlways == Spec => []Inv
BY InitInv, NextInv, PTL DEF Spec

\* Every variable of sem_open and sem_unlink keeps its type, and the once
\* control its member started.
THEOREM NamedTypeCorrect == Spec => []TypeOK
<1>1. Inv => TypeOK
  BY DEF Inv, OnceInv, Types, GuardInv, WellFormed, Orderly, TypeOK, Operations
<1> QED
  BY <1>1, InvAlways, PTL

\* sem_open of semaphore.c: tasks that open one name share one semaphore, and
\* neither a late initialisation nor a removal takes an opened one away.
THEOREM NamesAreUnique == Spec => []NamesUnique
<1>1. Inv => NamesUnique
  BY DEF Inv, NodesInv, NamesUnique
<1> QED
  BY <1>1, InvAlways, PTL

\* sem_unlink frees no semaphore whose lock a task has or waits for.
THEOREM FreedIsUnused == Spec => []FreedUnused
<1>1. Inv => FreedUnused
  BY DEF Inv, UseInv, FreedUnused
<1> QED
  BY <1>1, InvAlways, PTL

=============================================================================
