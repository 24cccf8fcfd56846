------------------------------ MODULE NamedSem ------------------------------
(***************************************************************************)
(* sem_open and sem_unlink of src/pthreads/semaphore.c over pthread_once:  *)
(* the list of named semaphores, and the signal semaphore sema_sem that    *)
(* guards it, both of which _Init_Semaphore sets up when the first call    *)
(* comes.  sem_close does nothing.  Besides, the program has a once        *)
(* control of its own, and uses the semaphores it has opened: a use is the *)
(* time in sem_post or sem_trywait with the lock of the semaphore.         *)
(* Control points of a task:                                               *)
(*   out                  outside                                          *)
(*   once                 in pthread_once                                  *)
(*   enter  inside        before ObtainSemaphore(&sema_sem), and with it   *)
(*   free                 in sem_unlink, behind the test of sem_destroy    *)
(*   use  used            before and behind pthread_mutex_lock(&sem->lock) *)
(***************************************************************************)
EXTENDS Once, SequencesExt

CONSTANTS Name,        \* names of semaphores
          Address,     \* a bound: addresses that malloc gives
          NoAddress,
          Calls        \* a bound: calls of a task

CONSTANTS semOnce      \* the once_control of semaphore.c

ASSUME NamedAssumption ==
  /\ NoAddress \notin Address
  /\ semOnce \in Control \ Cancellable
  /\ Calls \in Nat

VARIABLES
  npc, calls,
  op,          \* the call a task is in
  sema_sem,
  semaphores,  \* the list: a name and the address of the semaphore
  opened,      \* what sem_open has answered a task
  sem_lock     \* the locks of the semaphores

listVars == <<sema_sem, semaphores, sem_lock>>
vars == <<onceVars, npc, calls, op, listVars, opened>>

NoOp == [call |-> "none"]

Opens == [call : {"open"}, name : Name, create : BOOLEAN, excl : BOOLEAN]
Unlinks == [call : {"unlink"}, name : Name]

Init ==
  /\ OnceInit
  /\ npc = [t \in Task |-> "out"]
  /\ calls = [t \in Task |-> 0]
  /\ op = [t \in Task |-> NoOp]
  /\ sema_sem = FreeSemaphore
  /\ semaphores = <<>>
  /\ opened = [t \in Task |-> NoAddress]
  /\ sem_lock = [a \in Address |-> FreeSemaphore]

-----------------------------------------------------------------------------
NGoto(t, pc) == npc' = [npc EXCEPT ![t] = pc]

Listed == {semaphores[i].addr : i \in 1 .. Len(semaphores)}

\* FindName: the place of the first node of that name, if there is one.
Named(n) == {i \in 1 .. Len(semaphores) :
               /\ semaphores[i].name = n
               /\ \A k \in 1 .. i - 1 : semaphores[k].name # n}

Begin(t, o) ==
  /\ npc[t] = "out" /\ opc[t] = "out" /\ calls[t] < Calls
  /\ calls' = [calls EXCEPT ![t] = @ + 1]
  /\ op' = [op EXCEPT ![t] = o]

Unlinking(t) == op[t].call = "unlink"

\* A program unlinks a name when no task is about to lock the semaphore; a use
\* that has come further may go on.

Call(t) ==
  /\ \E o \in Opens \cup Unlinks :
       /\ Begin(t, o)
       /\ o.call = "unlink" => \A u \in Task : npc[u] # "use"
  /\ OnceCall(t, semOnce)
  /\ NGoto(t, "once")
  /\ UNCHANGED <<listVars, opened>>

\* The program's own pthread_once; sem_open without a name does no more either.
CallOnce(t) ==
  /\ \E c \in Control :
       Begin(t, [call |-> "once"]) /\ OnceCall(t, c)
  /\ NGoto(t, "once")
  /\ UNCHANGED <<listVars, opened>>

Leave(t) ==
  /\ NGoto(t, "out")
  /\ op' = [op EXCEPT ![t] = NoOp]

\* _Init_Semaphore sets the list and its guard up, whatever they hold.
InOnce(t) ==
  /\ OnceStep(t)
  /\ IF opc[t] = "init" /\ octl[t] = semOnce
       THEN sema_sem' = FreeSemaphore /\ semaphores' = <<>>
       ELSE UNCHANGED <<sema_sem, semaphores>>
  /\ UNCHANGED <<npc, calls, op, opened, sem_lock>>

BehindOnce(t) ==
  /\ opc[t] = "returned"
  /\ OnceReturn(t)
  /\ \/ op[t].call = "once" /\ Leave(t)
     \/ op[t].call # "once" /\ NGoto(t, "enter") /\ UNCHANGED op
  /\ UNCHANGED <<listVars, opened, calls>>

Enter(t) ==
  /\ npc[t] = "enter"
  /\ sema_sem' = Obtain(sema_sem, t)
  /\ NGoto(t, "inside")
  /\ UNCHANGED <<onceVars, calls, op, semaphores, opened, sem_lock>>

\* The end of a call that had sema_sem.
Answer(t) ==
  /\ sema_sem' = Release(sema_sem)
  /\ Leave(t)

At(t, call) == npc[t] = "inside" /\ sema_sem.owner = t /\ op[t].call = call

\* O_CREAT with O_EXCL of a name that exists; of one that does not, no O_CREAT,
\* no memory, or a value beyond SEM_VALUE_MAX.
OpenFails(t) ==
  /\ At(t, "open")
  /\ \/ Named(op[t].name) # {} /\ op[t].create /\ op[t].excl
     \/ Named(op[t].name) = {}
  /\ Answer(t)
  /\ UNCHANGED <<onceVars, calls, semaphores, opened, sem_lock>>

OpenFinds(t) ==
  /\ At(t, "open") /\ ~(op[t].create /\ op[t].excl)
  /\ \E i \in Named(op[t].name) :
       opened' = [opened EXCEPT ![t] = semaphores[i].addr]
  /\ Answer(t)
  /\ UNCHANGED <<onceVars, calls, semaphores, sem_lock>>

FoundOrNot(n) == TRUE

Missing(n) == Named(n) = {}

OpenCreates(t) ==
  /\ At(t, "open") /\ Missing(op[t].name) /\ op[t].create
  /\ \E a \in Address \ Listed :
       /\ semaphores' = Append(semaphores, [name |-> op[t].name, addr |-> a])
       /\ opened' = [opened EXCEPT ![t] = a]
       /\ sem_lock' = [sem_lock EXCEPT ![a] = FreeSemaphore]
  /\ Answer(t)
  /\ UNCHANGED <<onceVars, calls>>

LockedOrNot(a, t) == TRUE

\* pthread_mutex_trylock of sem_destroy, which unlocks at once.
Destroyable(a, t) == Attempts(sem_lock[a], t)

UnlinkFails(t) ==
  /\ At(t, "unlink")
  /\ \A i \in Named(op[t].name) : ~Destroyable(semaphores[i].addr, t)
  /\ Answer(t)
  /\ UNCHANGED <<onceVars, calls, semaphores, opened, sem_lock>>

Destroy(t) ==
  /\ At(t, "unlink")
  /\ \E i \in Named(op[t].name) : Destroyable(semaphores[i].addr, t)
  /\ NGoto(t, "free")
  /\ UNCHANGED <<onceVars, calls, op, listVars, opened>>

\* The rest of sem_destroy, Remove and free.  The program forgets the address.
Unlink(t) ==
  /\ npc[t] = "free"
  /\ \E i \in Named(op[t].name) :
       /\ semaphores' = RemoveAt(semaphores, i)
       /\ opened' = [u \in Task |->
                       IF opened[u] = semaphores[i].addr THEN NoAddress ELSE opened[u]]
  /\ Answer(t)
  /\ UNCHANGED <<onceVars, calls, sem_lock>>

-----------------------------------------------------------------------------
\* The program uses a semaphore, and begins no use while a task unlinks.

Use(t) ==
  /\ opened[t] # NoAddress
  /\ \A u \in Task : ~Unlinking(u)
  /\ Begin(t, [call |-> "use", addr |-> opened[t]])
  /\ NGoto(t, "use")
  /\ UNCHANGED <<onceVars, listVars, opened>>

UseLock(t) ==
  /\ npc[t] = "use"
  /\ sem_lock' = [sem_lock EXCEPT ![op[t].addr] = Obtain(@, t)]
  /\ NGoto(t, "used")
  /\ UNCHANGED <<onceVars, calls, op, sema_sem, semaphores, opened>>

UseUnlock(t) ==
  /\ npc[t] = "used" /\ sem_lock[op[t].addr].owner = t
  /\ sem_lock' = [sem_lock EXCEPT ![op[t].addr] = Release(@)]
  /\ Leave(t)
  /\ UNCHANGED <<onceVars, calls, sema_sem, semaphores, opened>>

-----------------------------------------------------------------------------
InCall(t) ==
  \/ InOnce(t) \/ BehindOnce(t) \/ Enter(t)
  \/ OpenFails(t) \/ OpenFinds(t) \/ OpenCreates(t)
  \/ UnlinkFails(t) \/ Destroy(t) \/ Unlink(t)
  \/ UseLock(t) \/ UseUnlock(t)

Step(t) == Call(t) \/ CallOnce(t) \/ Use(t) \/ InCall(t)

Next == \E t \in Task : Step(t)

Spec == Init /\ [][Next]_vars

\* exec runs every task that is ready, and sched_yield lets the others run.
Fairness == \A t \in Task : WF_vars(InCall(t))

FairSpec == Spec /\ Fairness

-----------------------------------------------------------------------------
TypeOK ==
  /\ OnceTypeOK
  /\ npc \in [Task -> {"out", "once", "enter", "inside", "free", "use", "used"}]
  /\ calls \in [Task -> 0 .. Calls]
  /\ op \in [Task -> {NoOp, [call |-> "once"]} \cup Opens \cup Unlinks
                     \cup [call : {"use"}, addr : Address]]
  /\ sema_sem \in Semaphore
  /\ semaphores \in Seq([name : Name, addr : Address])
  /\ opened \in [Task -> Address \cup {NoAddress}]
  /\ sem_lock \in [Address -> Semaphore]

\* Tasks that open a name at the same time get the same semaphore: the list
\* never has two of one name, and it loses none that a task has open, as it
\* would if it were initialised again.
NamesUnique ==
  /\ \A i, j \in 1 .. Len(semaphores) :
       semaphores[i].name = semaphores[j].name => i = j
  /\ \A t \in Task : opened[t] # NoAddress => opened[t] \in Listed

\* sem_unlink does not free a semaphore while a task that began to use it
\* before the call still has its lock or waits for it.
FreedUnused ==
  \A t \in Task : npc[t] \in {"use", "used"} => op[t].addr \in Listed

\* Every call returns, or ends the thread.
CallsReturn ==
  \A t \in Task : npc[t] # "out" ~> npc[t] = "out" \/ opc[t] = "canceled"

=============================================================================
