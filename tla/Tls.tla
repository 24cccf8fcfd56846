--------------------------------- MODULE Tls ---------------------------------
(***************************************************************************)
(* Thread-specific data of src/pthreads/pthread.c: the table of keys,      *)
(* tls_sem that guards it, the values of each thread, and the end of a     *)
(* thread (StarterFunc), which passes the values that are left to the      *)
(* destructors of their keys.  Every value that is set is a new one, 0 is  *)
(* NULL.  The control points of a thread:                                  *)
(*   out                      in its own code                              *)
(*   create  delete  check    behind the ObtainSemaphore of                *)
(*                            pthread_key_create, pthread_key_delete and   *)
(*                            pthread_setspecific                          *)
(*   store                    in pthread_setspecific, behind the release   *)
(*   scan                     in the loop over the keys                    *)
(*   destructor               in a destructor                              *)
(*   ended                    behind the loop                              *)
(***************************************************************************)
EXTENDS SignalSemaphore

CONSTANTS PTHREAD_KEYS_MAX,
          PTHREAD_DESTRUCTOR_ITERATIONS,
          Values,      \* a bound: values that are set, all threads together
          Creates,     \* a bound: calls of pthread_key_create
          NoDestructor \* may a key be created without a destructor?

ASSUME TlsAssumption ==
  /\ PTHREAD_KEYS_MAX \in Nat \ {0}
  /\ PTHREAD_DESTRUCTOR_ITERATIONS \in Nat \ {0}
  /\ {Values, Creates} \subseteq Nat
  /\ NoDestructor \in BOOLEAN

VARIABLES
  tls_sem,
  used, destructor,   \* tlskeys: is the key in use, and has it a destructor?
  tlsvalues,          \* the values of each thread
  pc,
  arg,                \* the key and the value of the call a thread is in
  i, j, foundkey,     \* the variables of the loop at the end
  dtor,               \* the value that the destructor a thread runs has got, 0 outside
  fresh,              \* values that have been set
  created,            \* calls of pthread_key_create
  destroyed           \* how often a value has been passed to a destructor

keyVars == <<tls_sem, used, destructor, created>>
loopVars == <<i, j, foundkey, dtor, destroyed>>
vars == <<keyVars, tlsvalues, pc, arg, loopVars, fresh>>

Key == 0 .. PTHREAD_KEYS_MAX - 1
NULL == 0
NoArg == [key |-> 0, value |-> NULL]

Init ==
  /\ tls_sem = FreeSemaphore
  /\ used = [k \in Key |-> FALSE]
  /\ destructor = [k \in Key |-> FALSE]
  /\ tlsvalues = [t \in Task |-> [k \in Key |-> NULL]]
  /\ pc = [t \in Task |-> "out"]
  /\ arg = [t \in Task |-> NoArg]
  /\ i = [t \in Task |-> 0]
  /\ j = [t \in Task |-> 0]
  /\ foundkey = [t \in Task |-> TRUE]
  /\ dtor = [t \in Task |-> NULL]
  /\ fresh = 0
  /\ created = 0
  /\ destroyed = [v \in 1 .. Values |-> 0]

-----------------------------------------------------------------------------
Goto(t, p) == pc' = [pc EXCEPT ![t] = p]

\* What the thread has asked tls_sem for is served.
Holds(t) == ~Queued(tls_sem, t)

Ask(t, shared, p) ==
  /\ tls_sem' = ObtainMode(tls_sem, t, shared)
  /\ Goto(t, p)

Give == tls_sem' = Release(tls_sem)

FreeKeys == {k \in Key : ~used[k]}

KeyCreate(t) ==
  /\ pc[t] = "out" /\ created < Creates
  /\ created' = created + 1
  /\ Ask(t, FALSE, "create")
  /\ UNCHANGED <<used, destructor, tlsvalues, arg, loopVars, fresh>>

KeyCreated(t) ==
  /\ pc[t] = "create" /\ Holds(t) /\ FreeKeys # {}
  /\ LET k == CHOOSE f \in FreeKeys : \A g \in FreeKeys : f <= g
     IN  /\ used' = [used EXCEPT ![k] = TRUE]
         /\ \E d \in {TRUE, ~NoDestructor} : destructor' = [destructor EXCEPT ![k] = d]
  /\ Give /\ Goto(t, "out")
  /\ UNCHANGED <<created, tlsvalues, arg, loopVars, fresh>>

KeepSem == UNCHANGED tls_sem

\* The release before EAGAIN
GiveAnyway == Give

KeysExhausted(t) ==
  /\ pc[t] = "create" /\ Holds(t) /\ FreeKeys = {}
  /\ GiveAnyway /\ Goto(t, "out")
  /\ UNCHANGED <<used, destructor, created, tlsvalues, arg, loopVars, fresh>>

KeyDelete(t) ==
  /\ pc[t] = "out"
  /\ \E k \in Key : arg' = [arg EXCEPT ![t] = [key |-> k, value |-> NULL]]
  /\ Ask(t, FALSE, "delete")
  /\ UNCHANGED <<used, destructor, created, tlsvalues, loopVars, fresh>>

KeyDeleted(t) ==
  /\ pc[t] = "delete" /\ Holds(t)
  /\ used' = [used EXCEPT ![arg[t].key] = FALSE]
  /\ destructor' = [destructor EXCEPT ![arg[t].key] = FALSE]
  /\ arg' = [arg EXCEPT ![t] = NoArg]
  /\ Give /\ Goto(t, "out")
  /\ UNCHANGED <<created, tlsvalues, loopVars, fresh>>

Back(t) == IF dtor[t] = NULL THEN "out" ELSE "destructor"

\* pthread_setspecific, by the thread or by a destructor: to NULL, or to a new value.
SetSpecific(t) ==
  /\ pc[t] \in {"out", "destructor"}
  /\ \E k \in Key :
       \/ /\ arg' = [arg EXCEPT ![t] = [key |-> k, value |-> NULL]]
          /\ UNCHANGED fresh
       \/ /\ fresh < Values
          /\ fresh' = fresh + 1
          /\ arg' = [arg EXCEPT ![t] = [key |-> k, value |-> fresh + 1]]
  /\ Ask(t, TRUE, "check")
  /\ UNCHANGED <<used, destructor, created, tlsvalues, loopVars>>

Checked(t) ==
  /\ pc[t] = "check" /\ Holds(t)
  /\ \/ used[arg[t].key] /\ Goto(t, "store") /\ UNCHANGED arg
     \/ ~used[arg[t].key] /\ Goto(t, Back(t)) /\ arg' = [arg EXCEPT ![t] = NoArg]
  /\ Give
  /\ UNCHANGED <<used, destructor, created, tlsvalues, loopVars, fresh>>

\* The key may have been deleted, and even created again, since the check.
Stored(t) ==
  /\ pc[t] = "store"
  /\ tlsvalues' = [tlsvalues EXCEPT ![t][arg[t].key] = arg[t].value]
  /\ arg' = [arg EXCEPT ![t] = NoArg]
  /\ Goto(t, Back(t))
  /\ UNCHANGED <<keyVars, loopVars, fresh>>

-----------------------------------------------------------------------------
\* The end of a thread

Unguarded(t) == Goto(t, "scan") /\ UNCHANGED tls_sem

Guarded(t) == Ask(t, TRUE, "scan")

End(t) ==
  /\ pc[t] = "out"
  /\ Guarded(t)
  /\ UNCHANGED <<used, destructor, created, tlsvalues, arg, loopVars, fresh>>

Unlimited(t) == foundkey[t]

\* The condition of the outer loop
MorePasses(t) == foundkey[t] /\ j[t] < PTHREAD_DESTRUCTOR_ITERATIONS

InPass(t) == pc[t] = "scan" /\ Holds(t) /\ i[t] > 0

\* i counts the keys from 1 on here, and is 0 between two passes.
StartPass(t) ==
  /\ pc[t] = "scan" /\ Holds(t) /\ i[t] = 0 /\ MorePasses(t)
  /\ foundkey' = [foundkey EXCEPT ![t] = FALSE]
  /\ i' = [i EXCEPT ![t] = 1]
  /\ UNCHANGED <<keyVars, tlsvalues, pc, arg, j, dtor, destroyed, fresh>>

EndPass(t) ==
  /\ InPass(t) /\ i[t] > PTHREAD_KEYS_MAX
  /\ i' = [i EXCEPT ![t] = 0]
  /\ j' = [j EXCEPT ![t] = @ + 1]
  /\ UNCHANGED <<keyVars, tlsvalues, pc, arg, foundkey, dtor, destroyed, fresh>>

Due(t, k) == used[k] /\ destructor[k] /\ tlsvalues[t][k] # NULL

Skip(t) ==
  /\ InPass(t) /\ i[t] <= PTHREAD_KEYS_MAX /\ ~Due(t, i[t] - 1)
  /\ i' = [i EXCEPT ![t] = @ + 1]
  /\ UNCHANGED <<keyVars, tlsvalues, pc, arg, j, foundkey, dtor, destroyed, fresh>>

Kept(t, k) == UNCHANGED tlsvalues

Cleared(t, k) == tlsvalues' = [tlsvalues EXCEPT ![t][k] = NULL]

CallDestructor(t) ==
  LET k == i[t] - 1
      oldvalue == tlsvalues[t][k]
  IN  /\ InPass(t) /\ i[t] <= PTHREAD_KEYS_MAX /\ Due(t, k)
      /\ Cleared(t, k)
      /\ dtor' = [dtor EXCEPT ![t] = oldvalue]
      /\ destroyed' = [destroyed EXCEPT ![oldvalue] = @ + 1]
      /\ Goto(t, "destructor")
      /\ UNCHANGED <<keyVars, arg, i, j, foundkey, fresh>>

NotSeen(t) == UNCHANGED foundkey

Seen(t) == foundkey' = [foundkey EXCEPT ![t] = TRUE]

DestructorReturns(t) ==
  /\ pc[t] = "destructor"
  /\ Seen(t)
  /\ dtor' = [dtor EXCEPT ![t] = NULL]
  /\ i' = [i EXCEPT ![t] = @ + 1]
  /\ Goto(t, "scan")
  /\ UNCHANGED <<keyVars, tlsvalues, arg, j, destroyed, fresh>>

EndLoop(t) ==
  /\ pc[t] = "scan" /\ Holds(t) /\ i[t] = 0 /\ ~MorePasses(t)
  /\ Give /\ Goto(t, "ended")
  /\ UNCHANGED <<used, destructor, created, tlsvalues, arg, loopVars, fresh>>

-----------------------------------------------------------------------------
InCall(t) ==
  \/ KeyCreated(t) \/ KeysExhausted(t) \/ KeyDeleted(t)
  \/ Checked(t) \/ Stored(t)
  \/ StartPass(t) \/ EndPass(t) \/ Skip(t) \/ CallDestructor(t)
  \/ DestructorReturns(t) \/ EndLoop(t)

Step(t) ==
  KeyCreate(t) \/ KeyDelete(t) \/ SetSpecific(t) \/ End(t) \/ InCall(t)

Next == \E t \in Task : Step(t)

Spec == Init /\ [][Next]_vars

\* exec runs every task that is ready, and a destructor returns after a number
\* of calls.
Fairness ==
  \A t \in Task : WF_vars(InCall(t)) /\ SF_vars(DestructorReturns(t))

FairSpec == Spec /\ Fairness

-----------------------------------------------------------------------------
TypeOK ==
  /\ tls_sem \in Semaphore
  /\ used \in [Key -> BOOLEAN]
  /\ destructor \in [Key -> BOOLEAN]
  /\ tlsvalues \in [Task -> [Key -> 0 .. Values]]
  /\ pc \in [Task -> {"out", "create", "delete", "check", "store",
                      "scan", "destructor", "ended"}]
  /\ arg \in [Task -> [key : Key, value : 0 .. Values]]
  /\ i \in [Task -> 0 .. PTHREAD_KEYS_MAX + 1]
  /\ j \in [Task -> 0 .. PTHREAD_DESTRUCTOR_ITERATIONS]
  /\ foundkey \in [Task -> BOOLEAN]
  /\ dtor \in [Task -> 0 .. Values]
  /\ fresh \in 0 .. Values
  /\ created \in 0 .. Creates
  /\ destroyed \in [1 .. Values -> Nat]

\* No value is passed to a destructor twice, and none while its thread can
\* still read it.
DestroyedOnce ==
  \A v \in 1 .. Values :
    /\ destroyed[v] <= 1
    /\ destroyed[v] = 1 => \A t \in Task, k \in Key : tlsvalues[t][k] # v

\* While a thread runs a destructor nobody deletes the key, or gives its
\* number to a new one: the code of the destructor may be relied on.
DestructorStays ==
  \A t \in Task : dtor[t] # NULL => used[i[t] - 1] /\ destructor[i[t] - 1]

\* A thread that leaves the loop before it has used up its passes leaves no
\* value that a destructor is due for, though destructors set values of keys
\* that the pass has left behind.
NothingLeft ==
  \A t \in Task :
    pc[t] = "scan" /\ Holds(t) /\ i[t] = 0 /\ ~foundkey[t] => \A k \in Key : ~Due(t, k)

\* A thread that has begun to end comes to its end, though its destructors
\* set new values.
ThreadEnds ==
  \A t \in Task : pc[t] = "scan" ~> pc[t] = "ended"

=============================================================================
