------------------------------ MODULE TlsProofs ------------------------------
(***************************************************************************)
(* Proofs about Tls, for every number of threads, keys, values and passes. *)
(***************************************************************************)
EXTENDS Tls, SignalSemaphoreProofs

Types ==
  /\ tlsvalues \in [Task -> [Key -> 0 .. Values]]
  /\ arg \in [Task -> [key : Key, value : 0 .. Values]]
  /\ i \in [Task -> Nat]
  /\ fresh \in 0 .. Values
  /\ destroyed \in [1 .. Values -> Nat]

\* A value has been set before, and no destructor has got it.
Alive(v) == v \in 1 .. fresh /\ destroyed[v] = 0

\* A value is in one place at most: on its way into pthread_setspecific, as
\* the value of a key in a thread, or with a destructor.
OnePlace ==
  /\ \A t \in Task : arg[t].value # NULL =>
       /\ Alive(arg[t].value)
       /\ \A u \in Task : arg[u].value = arg[t].value => u = t
       /\ \A u \in Task, k \in Key : tlsvalues[u][k] # arg[t].value
  /\ \A t \in Task, k \in Key : tlsvalues[t][k] # NULL =>
       /\ Alive(tlsvalues[t][k])
       /\ \A u \in Task, l \in Key : tlsvalues[u][l] = tlsvalues[t][k] => u = t /\ l = k
  /\ \A v \in 1 .. Values : destroyed[v] <= 1

\* Nothing is known of values that have not been set.
Unset == \A v \in 1 .. Values : v > fresh => destroyed[v] = 0

Inv == Types /\ OnePlace /\ Unset

-----------------------------------------------------------------------------
\* No value has been set at the start.
LEMMA InitInv == Init => Inv
<1> SUFFICES ASSUME Init PROVE Inv
  OBVIOUS
<1>1. Types
  <2>1. 0 \in Key /\ 0 \in 0 .. Values
    BY TlsAssumption DEF Key
  <2>2. [key |-> 0, value |-> NULL] \in [key : Key, value : 0 .. Values]
    BY <2>1 DEF NULL
  <2> QED
    BY <2>1, <2>2 DEF Init, Types, NoArg, NULL
<1>2. OnePlace
  BY DEF Init, OnePlace, NoArg, NULL
<1>3. Unset
  BY DEF Init, Unset
<1> QED
  BY <1>1, <1>2, <1>3 DEF Inv

\* A call of pthread_setspecific brings a value that is nowhere yet, or NULL.
LEMMA SetSpecificInv ==
  ASSUME Inv, NEW t \in Task, SetSpecific(t)
  PROVE  Inv'
<1>a. Types /\ Values \in Nat
  BY TlsAssumption DEF Inv
<1>1. PICK k \in Key :
        \/ /\ arg' = [arg EXCEPT ![t] = [key |-> k, value |-> NULL]]
           /\ UNCHANGED fresh
        \/ /\ fresh < Values
           /\ fresh' = fresh + 1
           /\ arg' = [arg EXCEPT ![t] = [key |-> k, value |-> fresh + 1]]
  BY DEF SetSpecific
<1>2. UNCHANGED <<tlsvalues, i, destroyed>>
  BY DEF SetSpecific, loopVars
<1>3. PICK v \in 0 .. Values :
        /\ arg' = [arg EXCEPT ![t] = [key |-> k, value |-> v]]
        /\ \/ v = NULL /\ fresh' = fresh
           \/ v = fresh + 1 /\ fresh' = fresh + 1
  BY <1>a, <1>1 DEF Types, NULL
<1>4. /\ arg'[t].value = v
      /\ \A u \in Task \ {t} : arg'[u] = arg[u]
  BY <1>a, <1>3 DEF Types
<1>5. Types'
  <2>1. [key |-> k, value |-> v] \in [key : Key, value : 0 .. Values]
    OBVIOUS
  <2>2. arg' \in [Task -> [key : Key, value : 0 .. Values]]
    BY <1>a, <1>3, <2>1 DEF Types
  <2>3. fresh' \in 0 .. Values
    BY <1>a, <1>3 DEF Types, NULL
  <2> QED
    BY <1>a, <1>2, <2>2, <2>3 DEF Types
<1>6. \A w \in 1 .. fresh : w \in 1 .. fresh' /\ w # fresh + 1
  BY <1>a, <1>3 DEF Types
<1>7. \A w : Alive(w) => Alive(w)'
  BY <1>2, <1>6 DEF Alive
<1>8. v # NULL => /\ v = fresh + 1 /\ ~Alive(v) /\ v \in 1 .. Values
                  /\ v \in 1 .. fresh'
  BY <1>a, <1>3, <1>6 DEF Types, Alive, NULL
<1>9. OnePlace'
  <2>1. ASSUME v # NULL
        PROVE  /\ Alive(v)'
               /\ \A u \in Task : arg[u].value # v
               /\ \A u \in Task, l \in Key : tlsvalues[u][l] # v
    <3>1. \A u \in Task : arg[u].value # v
      BY <1>8, <2>1 DEF Inv, OnePlace
    <3>2. \A u \in Task, l \in Key : tlsvalues[u][l] # v
      BY <1>8, <2>1 DEF Inv, OnePlace
    <3>3. destroyed[v] = 0
      BY <1>a, <1>8, <2>1 DEF Inv, Unset, Types
    <3> QED
      BY <1>2, <1>8, <2>1, <3>1, <3>2, <3>3 DEF Alive
  <2> QED
    BY <1>2, <1>4, <1>7, <2>1 DEF Inv, OnePlace
<1>10. Unset'
  BY <1>a, <1>2, <1>3 DEF Inv, Unset, Types, NULL
<1> QED
  BY <1>5, <1>9, <1>10 DEF Inv

\* pthread_setspecific moves the value from its argument to the key.
LEMMA StoredInv ==
  ASSUME Inv, NEW t \in Task, Stored(t)
  PROVE  Inv'
<1>a. Types /\ Values \in Nat
  BY TlsAssumption DEF Inv
<1>1. PICK k \in Key, v \in 0 .. Values : arg[t].key = k /\ arg[t].value = v
  BY <1>a DEF Types
<1>2. /\ tlsvalues' = [tlsvalues EXCEPT ![t][k] = v]
      /\ arg' = [arg EXCEPT ![t] = NoArg]
      /\ UNCHANGED <<i, fresh, destroyed>>
  BY <1>1 DEF Stored, loopVars
<1>3. /\ arg'[t].value = NULL /\ \A u \in Task \ {t} : arg'[u] = arg[u]
      /\ tlsvalues'[t][k] = v
      /\ \A u \in Task, l \in Key : u # t \/ l # k => tlsvalues'[u][l] = tlsvalues[u][l]
  BY <1>a, <1>2 DEF Types, NoArg
<1>4. Types'
  <2>1. NoArg \in [key : Key, value : 0 .. Values]
    BY TlsAssumption DEF NoArg, NULL, Key
  <2>2. arg' \in [Task -> [key : Key, value : 0 .. Values]]
    BY <1>a, <1>2, <2>1 DEF Types
  <2>3. tlsvalues' \in [Task -> [Key -> 0 .. Values]]
    BY <1>a, <1>2 DEF Types
  <2> QED
    BY <1>a, <1>2, <2>2, <2>3 DEF Types
<1>5. \A w : Alive(w)' <=> Alive(w)
  BY <1>2 DEF Alive
<1>6. v # NULL => /\ Alive(v)
                  /\ \A u \in Task \ {t} : arg[u].value # v
                  /\ \A u \in Task, l \in Key : tlsvalues[u][l] # v
  BY <1>1 DEF Inv, OnePlace
<1>7. OnePlace'
  BY <1>2, <1>3, <1>5, <1>6 DEF Inv, OnePlace
<1>8. Unset'
  BY <1>2 DEF Inv, Unset
<1> QED
  BY <1>4, <1>7, <1>8 DEF Inv

\* The loop takes a value out of its key before the destructor gets it.
LEMMA CallDestructorInv ==
  ASSUME Inv, NEW t \in Task, CallDestructor(t)
  PROVE  Inv'
<1>a. Types /\ Values \in Nat
  BY TlsAssumption DEF Inv
<1>1. PICK k \in Key : k = i[t] - 1
  BY <1>a, TlsAssumption DEF CallDestructor, InPass, Types, Key
<1>2. PICK v \in 1 .. Values : v = tlsvalues[t][k]
  BY <1>a, <1>1 DEF CallDestructor, Due, Types, NULL
<1>3. /\ tlsvalues' = [tlsvalues EXCEPT ![t][k] = NULL]
      /\ destroyed' = [destroyed EXCEPT ![v] = @ + 1]
      /\ UNCHANGED <<i, fresh, arg>>
  BY <1>1, <1>2 DEF CallDestructor, Cleared
<1>4. /\ tlsvalues'[t][k] = NULL /\ destroyed'[v] = destroyed[v] + 1
      /\ \A u \in Task, l \in Key : u # t \/ l # k => tlsvalues'[u][l] = tlsvalues[u][l]
      /\ \A w \in 1 .. Values : w # v => destroyed'[w] = destroyed[w]
  BY <1>a, <1>3 DEF Types
<1>5. Types'
  <2>1. tlsvalues' \in [Task -> [Key -> 0 .. Values]]
    BY <1>a, <1>3 DEF Types, NULL
  <2>2. destroyed' \in [1 .. Values -> Nat]
    BY <1>a, <1>3 DEF Types
  <2> QED
    BY <1>a, <1>3, <2>1, <2>2 DEF Types
<1>6. /\ Alive(v) /\ \A u \in Task : arg[u].value # v
      /\ \A u \in Task, l \in Key : tlsvalues[u][l] = v => u = t /\ l = k
  BY <1>2 DEF Inv, OnePlace, NULL
<1>7. \A w : Alive(w) /\ w # v => Alive(w)'
  <2>1. \A w \in 1 .. fresh : w \in 1 .. Values
    BY <1>a DEF Types
  <2> QED
    BY <1>3, <1>4, <2>1 DEF Alive
<1>8. OnePlace'
  <2>1. \A w \in 1 .. Values : destroyed'[w] <= 1
    BY <1>4, <1>6 DEF Inv, OnePlace, Alive
  <2> QED
    BY <1>3, <1>4, <1>6, <1>7, <2>1 DEF Inv, OnePlace
<1>9. Unset'
  BY <1>a, <1>3, <1>4, <1>6 DEF Inv, Unset, Alive, Types
<1> QED
  BY <1>5, <1>8, <1>9 DEF Inv

\* The other steps move no value, and at most forget the argument of a call.
LEMMA OtherStepInv ==
  ASSUME Inv, NEW t \in Task,
         arg' = arg \/ arg' = [arg EXCEPT ![t] = NoArg]
                    \/ \E k \in Key : arg' = [arg EXCEPT ![t] = [key |-> k, value |-> NULL]],
         i' \in [Task -> Nat],
         UNCHANGED <<tlsvalues, fresh, destroyed>>
  PROVE  Inv'
<1>a. Types /\ Values \in Nat /\ 0 \in Key
  BY TlsAssumption DEF Inv, Key
<1>1. arg' = arg \/ \E k \in Key : arg' = [arg EXCEPT ![t] = [key |-> k, value |-> NULL]]
  BY <1>a DEF NoArg
<1>2. /\ arg' \in [Task -> [key : Key, value : 0 .. Values]]
      /\ \A u \in Task : arg'[u].value \in {arg[u].value, NULL}
  <2>1. CASE arg' = arg
    BY <1>a, <2>1 DEF Types
  <2>2. ASSUME NEW k \in Key, arg' = [arg EXCEPT ![t] = [key |-> k, value |-> NULL]]
        PROVE  /\ arg' \in [Task -> [key : Key, value : 0 .. Values]]
               /\ \A u \in Task : arg'[u].value \in {arg[u].value, NULL}
    BY <1>a, <2>2 DEF Types, NULL
  <2> QED
    BY <1>1, <2>1, <2>2
<1>3. Types' /\ Unset'
  BY <1>a, <1>2 DEF Inv, Types, Unset
<1>4. \A w : Alive(w) => Alive(w)'
  BY DEF Alive
<1>5. OnePlace'
  BY <1>2, <1>4 DEF Inv, OnePlace
<1> QED
  BY <1>3, <1>5 DEF Inv

\* Every step keeps the invariant.
LEMMA NextInv ==
  ASSUME Inv, [Next]_vars
  PROVE  Inv'
<1>a. Types
  BY DEF Inv
<1>1. ASSUME NEW t \in Task, Step(t) PROVE Inv'
  <2>1. \/ SetSpecific(t) \/ Stored(t) \/ CallDestructor(t)
        \/ /\ \/ arg' = arg \/ arg' = [arg EXCEPT ![t] = NoArg]
              \/ \E k \in Key : arg' = [arg EXCEPT ![t] = [key |-> k, value |-> NULL]]
           /\ \/ i' = i \/ i' = [i EXCEPT ![t] = 0] \/ i' = [i EXCEPT ![t] = 1]
              \/ i' = [i EXCEPT ![t] = @ + 1]
           /\ UNCHANGED <<tlsvalues, fresh, destroyed>>
    BY <1>1, Zenon DEF Step, InCall, KeyCreate, KeyDelete, End, KeyCreated, KeysExhausted,
       KeyDeleted, Checked, StartPass, EndPass, Skip, DestructorReturns, EndLoop, loopVars, keyVars
  <2>2. ASSUME i' = i \/ i' = [i EXCEPT ![t] = 0] \/ i' = [i EXCEPT ![t] = 1]
                     \/ i' = [i EXCEPT ![t] = @ + 1]
        PROVE  i' \in [Task -> Nat]
    BY <1>a, <2>2 DEF Types
  <2> QED
    BY <2>1, <2>2, SetSpecificInv, StoredInv, CallDestructorInv, OtherStepInv
<1>2. CASE UNCHANGED vars
  <2>1. UNCHANGED <<arg, i, tlsvalues, fresh, destroyed>>
    BY <1>2 DEF vars, loopVars
  <2> QED
    BY <2>1 DEF Inv, Types, OnePlace, Unset, Alive
<1> QED
  BY <1>1, <1>2 DEF Next

\* No value is passed to a destructor twice, and none while its thread can
\* still read it, whatever keys are deleted and created on the way: this does
\* not rest on tls_sem, which pthread_setspecific has released when it stores.
THEOREM DestroyedAtMostOnce == Spec => []DestroyedOnce
<1>1. ASSUME Inv PROVE DestroyedOnce
  <2> SUFFICES ASSUME NEW v \in 1 .. Values
               PROVE  /\ destroyed[v] <= 1
                      /\ destroyed[v] = 1 => \A t \in Task, k \in Key : tlsvalues[t][k] # v
    BY DEF DestroyedOnce
  <2>1. destroyed[v] <= 1
    BY <1>1 DEF Inv, OnePlace
  <2>2. ASSUME destroyed[v] = 1, NEW t \in Task, NEW k \in Key PROVE tlsvalues[t][k] # v
    <3>1. v # NULL /\ ~Alive(v)
      BY <2>2 DEF NULL, Alive
    <3> QED
      BY <1>1, <3>1 DEF Inv, OnePlace
  <2> QED
    BY <2>1, <2>2
<1> QED
  BY <1>1, InitInv, NextInv, PTL DEF Spec

-----------------------------------------------------------------------------
(***************************************************************************)
(* Who has tls_sem                                                         *)
(***************************************************************************)
Points == {"out", "create", "delete", "check", "store", "scan", "destructor", "ended"}

\* Behind an ObtainSemaphore or ObtainSemaphoreShared, and behind the former.
Asking == {"create", "delete", "check", "scan"}
Alone == {"create", "delete"}

Got(t) == pc[t] \in Asking /\ Holds(t)

\* How often a thread has tls_sem: a destructor runs inside the loop, and
\* pthread_setspecific inside of it takes tls_sem once more.
Hold ==
  [t \in Task |-> (IF dtor[t] # NULL THEN 1 ELSE 0) + IF Got(t) THEN 1 ELSE 0]

Control ==
  /\ pc \in [Task -> Points]
  /\ dtor \in [Task -> 0 .. Values]

\* Who has tls_sem shares it, but for pthread_key_create and _delete.
InMode(t) == Hold[t] > 0 => (tls_sem.owner = NoTask <=> pc[t] \notin Alone)

\* Who waits for tls_sem has not got it in an outer loop.
Asks(t) ==
  \A m \in BOOLEAN : Waits(tls_sem, t, m) =>
    pc[t] \in Asking /\ (m <=> pc[t] \notin Alone) /\ dtor[t] = NULL

\* What a destructor may do.
Place(t) ==
  /\ dtor[t] # NULL => pc[t] \in {"destructor", "check", "store"}
  /\ pc[t] = "destructor" => dtor[t] # NULL

SemInv ==
  /\ Control
  /\ Covers(tls_sem, Hold)
  /\ Exact(tls_sem, Hold)
  /\ \A t \in Task : InMode(t) /\ Asks(t) /\ Place(t)

\* The step changes the control of no other thread.
Only(t) == \A u \in Task \ {t} : pc'[u] = pc[u] /\ dtor'[u] = dtor[u]

\* The number of holds of each thread.
LEMMA HoldLemma ==
  /\ Hold \in [Task -> Nat]
  /\ \A t \in Task : Hold[t] = (IF dtor[t] # NULL THEN 1 ELSE 0) + IF Got(t) THEN 1 ELSE 0
<1>1. \A t \in Task : (IF dtor[t] # NULL THEN 1 ELSE 0) + (IF Got(t) THEN 1 ELSE 0) \in Nat
  OBVIOUS
<1> QED
  BY <1>1 DEF Hold

\* The same after a step.
LEMMA HoldNext ==
  /\ Hold' \in [Task -> Nat]
  /\ \A t \in Task : Hold'[t] = (IF dtor'[t] # NULL THEN 1 ELSE 0) + IF Got(t)' THEN 1 ELSE 0
<1>1. \A t \in Task : (IF dtor'[t] # NULL THEN 1 ELSE 0) + (IF Got(t)' THEN 1 ELSE 0) \in Nat
  OBVIOUS
<1> QED
  BY <1>1 DEF Hold

\* A thread that asks for nothing does not wait.
LEMMA NotWaiting ==
  ASSUME SemInv, NEW t \in Task, pc[t] \notin Asking \/ dtor[t] # NULL
  PROVE  Holds(t) /\ \A m : ~Waits(tls_sem, t, m)
<1>1. \A m \in BOOLEAN : ~Waits(tls_sem, t, m)
  BY DEF SemInv, Asks
<1>2. ~Queued(tls_sem, t)
  BY <1>1, WaitsInOneMode DEF SemInv, Covers
<1> QED
  BY <1>2 DEF Holds, Waits, Queued

\* The owner of tls_sem has it.
LEMMA OwnerHolds ==
  ASSUME SemInv, tls_sem.owner # NoTask
  PROVE  \E t \in Task : tls_sem.owner = t /\ Hold[t] > 0
<1>1. tls_sem.nest # 0
  BY NothingCounted DEF SemInv, FreeSemaphore
<1>2. Pairs(Hold) # {}
  BY <1>1, FS_EmptySet DEF SemInv, Exact
<1>3. PICK t \in Task : Hold[t] # 0
  BY <1>2, HoldLemma, PairsNone
<1>4. Hold[t] > 0
  BY <1>3, HoldLemma
<1>5. tls_sem.owner \in {t, NoTask}
  BY <1>4 DEF SemInv, Covers
<1> QED
  BY <1>4, <1>5

\* A step that leaves tls_sem and the holds alone.
LEMMA StayStep ==
  ASSUME SemInv, Control', NEW t \in Task, Only(t), tls_sem' = tls_sem, Hold'[t] = Hold[t],
         pc[t] \notin Alone, pc'[t] \notin Alone, Place(t)',
         (pc'[t] = pc[t] /\ dtor'[t] = dtor[t]) \/ Holds(t)
  PROVE  SemInv'
<1>1. ASSUME NEW u \in Task \ {t}
      PROVE  pc'[u] = pc[u] /\ dtor'[u] = dtor[u] /\ Hold'[u] = Hold[u]
  <2>1. pc'[u] = pc[u] /\ dtor'[u] = dtor[u]
    BY DEF Only
  <2>2. Got(u)' <=> Got(u)
    BY <2>1 DEF Got, Holds
  <2> QED
    BY <2>1, <2>2, HoldLemma, HoldNext
<1>2. \A u \in Task : Hold'[u] = Hold[u]
  BY <1>1
<1>3. Hold' = Hold
  BY <1>2, HoldLemma, HoldNext
<1>4. Covers(tls_sem, Hold)' /\ Exact(tls_sem, Hold)'
  BY <1>3 DEF SemInv
<1>5. ASSUME NEW u \in Task \ {t} PROVE (InMode(u) /\ Asks(u) /\ Place(u))'
  <2>1. InMode(u) /\ Asks(u) /\ Place(u)
    BY DEF SemInv
  <2> QED
    BY <1>1, <2>1 DEF InMode, Asks, Place
<1>6. InMode(t)'
  <2>1. InMode(t)
    BY DEF SemInv
  <2> QED
    BY <1>2, <2>1 DEF InMode
<1>7. Asks(t)'
  <2>1. Asks(t)
    BY DEF SemInv
  <2>2. CASE pc'[t] = pc[t] /\ dtor'[t] = dtor[t]
    BY <2>1, <2>2 DEF Asks
  <2>3. CASE Holds(t)
    BY <2>3 DEF Asks, Holds, Waits, Queued
  <2> QED
    BY <2>2, <2>3
<1> QED
  BY <1>4, <1>5, <1>6, <1>7 DEF SemInv

\* A thread asks for tls_sem.
LEMMA AskStep ==
  ASSUME SemInv, Control', NEW t \in Task, Only(t),
         NEW p \in Asking, NEW m \in BOOLEAN, Ask(t, m, p), m <=> p \notin Alone,
         pc[t] = "out" \/ (pc[t] = "destructor" /\ p = "check"), dtor'[t] = dtor[t]
  PROVE  SemInv'
<1>1. /\ Orderly(tls_sem) /\ Covers(tls_sem, Hold) /\ Exact(tls_sem, Hold)
      /\ InMode(t) /\ Place(t)
  BY DEF SemInv, Covers
<1>2. tls_sem' = ObtainMode(tls_sem, t, m) /\ pc'[t] = p
  <2>1. pc \in [Task -> Points]
    BY DEF SemInv, Control
  <2> QED
    BY <2>1 DEF Ask, Goto
<1>3. pc[t] \notin Asking
  BY DEF Asking
<1>4. ~Queued(tls_sem, t) /\ (\A n : ~Waits(tls_sem, t, n)) /\ ~Got(t)
  BY <1>3, NotWaiting DEF Holds, Got
<1>5. Hold[t] > 0 <=> pc[t] = "destructor"
  <2>1. dtor[t] # NULL <=> pc[t] = "destructor"
    BY <1>1 DEF Place
  <2> QED
    BY <1>4, <2>1, HoldLemma
<1>6. tls_sem.owner = t => FALSE
  <2> SUFFICES ASSUME tls_sem.owner = t PROVE FALSE
    OBVIOUS
  <2>1. Hold[t] > 0
    BY OwnerHolds, NoTaskAssumption
  <2> QED
    BY <1>1, <1>5, <2>1, NoTaskAssumption DEF InMode, Alone
<1>7. Place(t)'
  BY <1>1, <1>2 DEF Place, Asking
<1>8. CASE Grants(tls_sem, t, m)
  <2>1. /\ Orderly(tls_sem') /\ tls_sem'.queue = tls_sem.queue
        /\ tls_sem'.owner = IF tls_sem.nest = 0 /\ ~m THEN t ELSE tls_sem.owner
    BY <1>1, <1>2, <1>4, <1>8, GrantedLemma
  <2>2. \A u, n : (Queued(tls_sem', u) <=> Queued(tls_sem, u)) /\ (Waits(tls_sem', u, n) <=> Waits(tls_sem, u, n))
    BY <2>1 DEF Queued, Waits
  <2>3. ASSUME NEW u \in Task \ {t}
        PROVE  pc'[u] = pc[u] /\ dtor'[u] = dtor[u] /\ Hold'[u] = Hold[u]
    <3>1. pc'[u] = pc[u] /\ dtor'[u] = dtor[u]
      BY DEF Only
    <3>2. Got(u)' <=> Got(u)
      BY <2>2, <3>1 DEF Got, Holds
    <3> QED
      BY <3>1, <3>2, HoldLemma, HoldNext
  <2>4. Got(t)'
    BY <1>2, <1>4, <2>2 DEF Got, Holds
  <2>5. Hold'[t] = Hold[t] + 1
    BY <1>4, <2>4, HoldLemma, HoldNext
  <2> DEFINE T == [Hold EXCEPT ![t] = @ + 1]
  <2>6. Hold' = T
    <3>1. T \in [Task -> Nat]
      BY HoldLemma
    <3>2. \A u \in Task : Hold'[u] = T[u]
      BY <2>3, <2>5, HoldLemma
    <3> QED
      BY <3>1, <3>2, HoldNext
  <2>7. Covers(tls_sem', T) /\ Exact(tls_sem', T)
    BY <1>1, <1>2, <1>4, <1>8, GrantCounted
  <2>8. tls_sem'.owner = NoTask <=> m
    <3>1. CASE m
      <4>1. tls_sem'.owner = tls_sem.owner
        BY <2>1, <3>1
      <4>2. tls_sem.owner = NoTask
        <5>1. tls_sem.nest = 0 => tls_sem.owner = NoTask
          BY <1>1 DEF Orderly, FreeSemaphore
        <5> QED
          BY <1>6, <1>8, <5>1 DEF Grants
      <4> QED
        BY <3>1, <4>1, <4>2
    <3>2. CASE ~m
      <4>1. tls_sem.nest = 0
        BY <1>6, <1>8, <3>2 DEF Grants
      <4> QED
        BY <2>1, <3>2, <4>1, NoTaskAssumption
    <3> QED
      BY <3>1, <3>2
  <2>9. InMode(t)'
    BY <1>2, <2>8 DEF InMode
  <2>10. Asks(t)'
    BY <1>4, <2>2 DEF Asks
  <2>11. ASSUME NEW u \in Task \ {t} PROVE (InMode(u) /\ Asks(u) /\ Place(u))'
    <3>1. InMode(u) /\ Asks(u) /\ Place(u)
      BY DEF SemInv
    <3>2. Hold[u] > 0 => tls_sem'.owner = tls_sem.owner
      <4>1. Hold[u] > 0 => tls_sem.nest # 0
        BY <1>1, NothingCounted
      <4> QED
        BY <2>1, <4>1
    <3> QED
      BY <2>2, <2>3, <3>1, <3>2 DEF InMode, Asks, Place
  <2> QED
    BY <1>7, <2>6, <2>7, <2>9, <2>10, <2>11 DEF SemInv
<1>9. CASE ~Grants(tls_sem, t, m)
  <2>1. /\ tls_sem'.nest = tls_sem.nest /\ tls_sem'.owner = tls_sem.owner
        /\ \A u : Queued(tls_sem', u) <=> Queued(tls_sem, u) \/ u = t
        /\ \A u, n : Waits(tls_sem', u, n) <=> Waits(tls_sem, u, n) \/ (u = t /\ n = m)
    BY <1>1, <1>2, <1>4, <1>9, DeniedLemma
  <2>2. dtor[t] = NULL
    <3>1. pc[t] = "destructor" => m /\ tls_sem.owner = NoTask
      BY <1>1, <1>5 DEF InMode, Alone
    <3> QED
      BY <1>1, <1>9, <3>1 DEF Place, Grants
  <2>3. ASSUME NEW u \in Task \ {t}
        PROVE  pc'[u] = pc[u] /\ dtor'[u] = dtor[u] /\ Hold'[u] = Hold[u]
    <3>1. pc'[u] = pc[u] /\ dtor'[u] = dtor[u]
      BY DEF Only
    <3>2. Got(u)' <=> Got(u)
      BY <2>1, <3>1 DEF Got, Holds
    <3> QED
      BY <3>1, <3>2, HoldLemma, HoldNext
  <2>4. ~Got(t)'
    BY <2>1 DEF Got, Holds
  <2>5. Hold'[t] = Hold[t]
    BY <1>4, <2>4, HoldLemma, HoldNext
  <2>6. Hold' = Hold
    <3>1. \A u \in Task : Hold'[u] = Hold[u]
      BY <2>3, <2>5
    <3> QED
      BY <3>1, HoldLemma, HoldNext
  <2>7. Covers(tls_sem', Hold) /\ Exact(tls_sem', Hold)
    BY <1>1, <1>2, <1>4, <1>9, DenyCounted
  <2>8. InMode(t)'
    <3>1. Hold'[t] = 0
      BY <2>2, <2>4, HoldNext
    <3> QED
      BY <3>1 DEF InMode
  <2>9. Asks(t)'
    BY <1>2, <1>4, <2>1, <2>2 DEF Asks
  <2>10. ASSUME NEW u \in Task \ {t} PROVE (InMode(u) /\ Asks(u) /\ Place(u))'
    <3>1. InMode(u) /\ Asks(u) /\ Place(u)
      BY DEF SemInv
    <3> QED
      BY <2>1, <2>3, <3>1 DEF InMode, Asks, Place
  <2> QED
    BY <1>7, <2>6, <2>7, <2>8, <2>9, <2>10 DEF SemInv
<1> QED
  BY <1>8, <1>9

\* A thread that has got tls_sem in a call gives it back.
LEMMA GiveStep ==
  ASSUME SemInv, Control', NEW t \in Task, Only(t), Got(t), Give,
         pc'[t] \notin Asking, dtor'[t] = dtor[t], Place(t)'
  PROVE  SemInv'
<1> DEFINE N == Handed(tls_sem)
           T == After(tls_sem, Hold, t)
<1>1. Covers(tls_sem, Hold) /\ Exact(tls_sem, Hold) /\ InMode(t) /\ Place(t)
  BY DEF SemInv
<1>2. ~Queued(tls_sem, t) /\ pc[t] \in Asking
  BY DEF Got, Holds
<1>3. Hold[t] > 0
  BY HoldLemma
<1>4. Released(tls_sem, Hold, t)
  BY <1>1, <1>2, <1>3, ReleaseCounted
<1>t. T = [u \in Task |-> (IF u = t THEN Left(Hold[u]) ELSE Hold[u]) + IF u \in N THEN 1 ELSE 0]
  BY DEF After
<1> HIDE DEF N, T
<1>5. /\ Covers(tls_sem', T) /\ Exact(tls_sem', T)
      /\ t \notin N
      /\ N \subseteq Task
      /\ \A u : Queued(tls_sem', u) <=> Queued(tls_sem, u) /\ u \notin N
      /\ \A u, m : Waits(tls_sem', u, m) <=> Waits(tls_sem, u, m) /\ u \notin N
      /\ \A u \in N : Hold[u] = 0 /\ Waits(tls_sem, u, tls_sem'.owner = NoTask)
      /\ tls_sem'.owner = tls_sem.owner \/ \A u \in Task : u \in N \/ T[u] = 0
  BY <1>1, <1>3, <1>4 DEF Released, N, T, Give
<1>6. \A u \in N : /\ pc[u] \in Asking /\ (tls_sem'.owner = NoTask <=> pc[u] \notin Alone)
                   /\ Queued(tls_sem, u)
  <2> SUFFICES ASSUME NEW u \in N
               PROVE  /\ pc[u] \in Asking /\ (tls_sem'.owner = NoTask <=> pc[u] \notin Alone)
                      /\ Queued(tls_sem, u)
    OBVIOUS
  <2>1. Asks(u) /\ (tls_sem'.owner = NoTask) \in BOOLEAN
    BY <1>5 DEF SemInv
  <2>2. Waits(tls_sem, u, tls_sem'.owner = NoTask)
    BY <1>5
  <2>3. pc[u] \in Asking /\ (tls_sem'.owner = NoTask <=> pc[u] \notin Alone)
    BY <2>1, <2>2 DEF Asks
  <2>4. Queued(tls_sem, u)
    BY <2>2 DEF Waits, Queued
  <2> QED
    BY <2>3, <2>4
<1>7. ASSUME NEW u \in Task \ {t}
      PROVE  /\ pc'[u] = pc[u] /\ dtor'[u] = dtor[u]
             /\ Hold'[u] = Hold[u] + IF u \in N THEN 1 ELSE 0
  <2>1. pc'[u] = pc[u] /\ dtor'[u] = dtor[u]
    BY DEF Only
  <2>2. Got(u)' <=> Got(u) \/ u \in N
    BY <1>5, <1>6, <2>1 DEF Got, Holds
  <2>3. u \in N => ~Got(u)
    BY <1>6 DEF Got, Holds
  <2> QED
    BY <2>1, <2>2, <2>3, HoldLemma, HoldNext
<1>8. Hold'[t] = Left(Hold[t])
  <2>1. ~Got(t)'
    BY DEF Got
  <2> QED
    BY <2>1, HoldLemma, HoldNext DEF Left
<1>9. Hold' = T
  <2>0. \A u \in Task : Hold[u] \in Nat /\ Left(Hold[u]) \in Nat
    BY HoldLemma DEF Left
  <2>1. \A u \in Task : Hold'[u] = (IF u = t THEN Left(Hold[u]) ELSE Hold[u]) + IF u \in N THEN 1 ELSE 0
    BY <1>5, <1>7, <1>8, <2>0
  <2> QED
    BY <1>t, <2>1, HoldNext
<1>10. \A u \in Task \ N : Hold'[u] > 0 => tls_sem'.owner = tls_sem.owner
  BY <1>5, <1>9
<1>11. InMode(t)'
  <2> SUFFICES ASSUME Hold'[t] > 0 PROVE tls_sem'.owner = NoTask
    BY DEF InMode, Asking, Alone
  <2>1. dtor[t] # NULL
    <3>1. ~Got(t)'
      BY DEF Got
    <3> QED
      BY <3>1, HoldNext
  <2>2. pc[t] \notin Alone
    BY <1>1, <2>1 DEF Place, Alone
  <2>3. tls_sem.owner = NoTask
    BY <1>1, <1>3, <2>2 DEF InMode
  <2> QED
    BY <1>5, <1>10, <2>3
<1>12. Asks(t)'
  <2>1. \A m : ~Waits(tls_sem', t, m)
    BY <1>2, <1>5 DEF Waits, Queued
  <2> QED
    BY <2>1 DEF Asks
<1>13. ASSUME NEW u \in Task \ {t} PROVE (InMode(u) /\ Asks(u) /\ Place(u))'
  <2>1. InMode(u) /\ Asks(u) /\ Place(u)
    BY DEF SemInv
  <2>2. InMode(u)'
    <3>1. CASE u \in N
      BY <1>6, <1>7, <3>1 DEF InMode
    <3>2. CASE u \notin N
      <4>1. Hold'[u] = Hold[u]
        BY <1>7, <3>2, HoldLemma
      <4> QED
        BY <1>7, <1>10, <2>1, <3>2, <4>1 DEF InMode
    <3> QED
      BY <3>1, <3>2
  <2>3. Asks(u)' /\ Place(u)'
    BY <1>5, <1>7, <2>1 DEF Asks, Place
  <2> QED
    BY <2>2, <2>3
<1> QED
  BY <1>5, <1>9, <1>11, <1>12, <1>13 DEF SemInv

-----------------------------------------------------------------------------
(***************************************************************************)
(* The loop at the end of a thread                                         *)
(***************************************************************************)
Table ==
  /\ used \in [Key -> BOOLEAN]
  /\ destructor \in [Key -> BOOLEAN]
  /\ created \in 0 .. Creates
  /\ i \in [Task -> 0 .. PTHREAD_KEYS_MAX + 1]
  /\ j \in [Task -> 0 .. PTHREAD_DESTRUCTOR_ITERATIONS]
  /\ foundkey \in [Task -> BOOLEAN]

InLoop(t) == dtor[t] # NULL \/ (pc[t] = "scan" /\ Holds(t))

\* The variables of the loop have the values of their initialisers until it starts.
Fresh(t) == ~InLoop(t) /\ pc[t] # "ended" => i[t] = 0 /\ j[t] = 0 /\ foundkey[t]

Counters(t) ==
  /\ i[t] > 0 => j[t] < PTHREAD_DESTRUCTOR_ITERATIONS
  /\ dtor[t] # NULL => i[t] \in 1 .. PTHREAD_KEYS_MAX

\* The key of the destructor that runs is the one the loop found.
Stays(t) == dtor[t] # NULL => used[i[t] - 1] /\ destructor[i[t] - 1]

\* What a pass has left behind without calling a destructor is not due.
Passed(t) ==
  pc[t] = "scan" /\ Holds(t) /\ ~foundkey[t] =>
    \A k \in Key : i[t] = 0 \/ k < i[t] - 1 => ~Due(t, k)

Loop(t) == Fresh(t) /\ Counters(t) /\ Stays(t) /\ Passed(t)

IInv == Inv /\ SemInv /\ Table /\ \A t \in Task : Loop(t)

\* The step changes the loop of no other thread.
Others(t) ==
  \A u \in Task \ {t} :
    /\ i'[u] = i[u] /\ j'[u] = j[u] /\ foundkey'[u] = foundkey[u]
    /\ tlsvalues'[u] = tlsvalues[u]

\* The step makes no other thread wait.
NoMore(t) == \A u \in Task \ {t} : Queued(tls_sem', u) => Queued(tls_sem, u)

\* Nothing is found in the keys at the start, and no thread ends.
LEMMA InitIInv == Init => IInv
<1> SUFFICES ASSUME Init PROVE IInv
  OBVIOUS
<1>1. Inv
  BY InitInv
<1>2. /\ \A t \in Task : pc[t] = "out" /\ dtor[t] = NULL /\ i[t] = 0 /\ j[t] = 0 /\ foundkey[t]
      /\ tls_sem = FreeSemaphore
  BY DEF Init
<1>3. Table /\ Control
  BY TlsAssumption DEF Init, Table, Control, Points, Key, NULL
<1>4. \A t \in Task : ~Got(t) /\ Hold[t] = 0
  <2>1. \A t \in Task : ~Got(t)
    BY <1>2 DEF Got, Asking
  <2> QED
    BY <1>2, <2>1, HoldLemma
<1>5. Covers(tls_sem, Hold) /\ Exact(tls_sem, Hold)
  BY <1>2, <1>4, HoldLemma, FreeCounted
<1>6. \A t \in Task : InMode(t) /\ Asks(t) /\ Place(t)
  BY <1>2, <1>4, FreeOrderly DEF InMode, Asks, Place
<1>7. \A t \in Task : Loop(t)
  BY <1>2 DEF Loop, Fresh, Counters, Stays, Passed
<1> QED
  BY <1>1, <1>3, <1>5, <1>6, <1>7 DEF IInv, SemInv

\* While a thread creates or deletes a key no other has tls_sem.
LEMMA AloneIsAlone ==
  ASSUME SemInv, NEW t \in Task, Got(t), pc[t] \in Alone, NEW u \in Task \ {t}
  PROVE  ~InLoop(u)
<1>1. Hold[t] > 0
  BY HoldLemma
<1>2. tls_sem.owner # NoTask
  BY <1>1 DEF SemInv, InMode
<1>3. tls_sem.owner = t
  BY <1>1, <1>2 DEF SemInv, Covers
<1>4. ~(Hold[u] > 0)
  BY <1>2, <1>3 DEF SemInv, Covers
<1> QED
  BY <1>4, HoldLemma DEF InLoop, Got, Asking

\* The loop of a thread is not disturbed by a step of another one.
LEMMA OthersLoop ==
  ASSUME NEW t \in Task, Only(t), Others(t), NoMore(t), NEW u \in Task \ {t}, Loop(u), Place(u),
         UNCHANGED <<used, destructor>> \/ ~InLoop(u)
  PROVE  Loop(u)'
<1>1. /\ pc'[u] = pc[u] /\ dtor'[u] = dtor[u]
      /\ i'[u] = i[u] /\ j'[u] = j[u] /\ foundkey'[u] = foundkey[u]
      /\ tlsvalues'[u] = tlsvalues[u]
  BY DEF Only, Others
<1>2. /\ Holds(u) => Holds(u)'
      /\ InLoop(u) => InLoop(u)'
  BY <1>1 DEF NoMore, Holds, InLoop
<1>3. Fresh(u)' /\ Counters(u)'
  BY <1>1, <1>2 DEF Loop, Fresh, Counters
<1>4. CASE ~InLoop(u)
  <2>1. pc[u] = "scan" => foundkey[u]
    BY <1>4 DEF Loop, Fresh
  <2>2. dtor[u] = NULL
    BY <1>4 DEF InLoop
  <2> QED
    BY <1>1, <1>3, <2>1, <2>2 DEF Loop, Stays, Passed
<1>5. CASE InLoop(u)
  <2>1. UNCHANGED <<used, destructor>>
    BY <1>5
  <2>2. Stays(u)'
    BY <1>1, <2>1 DEF Loop, Stays
  <2>3. \A k : Due(u, k)' <=> Due(u, k)
    BY <1>1, <2>1 DEF Due
  <2>4. pc[u] = "scan" => Holds(u)
    BY <1>5 DEF InLoop, Place
  <2>5. Passed(u)'
    BY <1>1, <2>3, <2>4 DEF Loop, Passed
  <2> QED
    BY <1>3, <2>2, <2>5 DEF Loop
<1> QED
  BY <1>4, <1>5

\* To ask for tls_sem makes no other thread wait.
LEMMA AskQueue ==
  ASSUME SemInv, NEW t \in Task, Holds(t), NEW m \in BOOLEAN,
         tls_sem' = ObtainMode(tls_sem, t, m)
  PROVE  NoMore(t)
<1>1. Orderly(tls_sem) /\ ~Queued(tls_sem, t)
  BY DEF SemInv, Covers, Holds
<1>2. CASE Grants(tls_sem, t, m)
  <2>1. tls_sem'.queue = tls_sem.queue
    BY <1>1, <1>2, GrantedLemma
  <2> QED
    BY <2>1 DEF NoMore, Queued
<1>3. CASE ~Grants(tls_sem, t, m)
  BY <1>1, <1>3, DeniedLemma DEF NoMore
<1> QED
  BY <1>2, <1>3

\* Nor does the release.
LEMMA GiveQueue ==
  ASSUME SemInv, NEW t \in Task, Got(t), Give
  PROVE  NoMore(t)
<1>1. Hold[t] > 0 /\ ~Queued(tls_sem, t)
  BY HoldLemma DEF Got, Holds
<1>2. Released(tls_sem, Hold, t)
  BY <1>1, ReleaseCounted DEF SemInv
<1> QED
  BY <1>2 DEF Released, NoMore, Give

\* A step into one control point.
LEMMA GotoOnly ==
  ASSUME Control, NEW t \in Task, NEW p \in Points, Goto(t, p), dtor' = dtor
  PROVE  Control' /\ Only(t) /\ pc'[t] = p
BY DEF Control, Goto, Only

\* What a step has to keep, but for the values.
Rest == SemInv /\ Table /\ \A t \in Task : Loop(t)

\* A call begins, or the end of a thread.
LEMMA AskRest ==
  ASSUME Rest, NEW t \in Task, NEW p \in Asking, NEW m \in BOOLEAN,
         Ask(t, m, p), m <=> p \notin Alone,
         pc[t] = "out" \/ (pc[t] = "destructor" /\ p = "check"),
         created' \in 0 .. Creates, UNCHANGED <<used, destructor, tlsvalues, loopVars>>
  PROVE  Rest'
<1>1. SemInv /\ Control /\ Place(t) /\ Loop(t) /\ Table
  BY DEF Rest, SemInv
<1>2. /\ UNCHANGED <<i, j, foundkey, dtor, tlsvalues, used, destructor>>
      /\ Goto(t, p) /\ tls_sem' = ObtainMode(tls_sem, t, m)
  BY DEF loopVars, Ask
<1>3. Control' /\ Only(t) /\ pc'[t] = p
  <2>1. p \in Points
    BY DEF Asking, Points
  <2> QED
    BY <1>1, <1>2, <2>1, GotoOnly
<1>4. SemInv'
  BY <1>1, <1>2, <1>3, AskStep
<1>5. Table'
  BY <1>1, <1>2 DEF Table
<1>6. NoMore(t)
  <2>1. Holds(t)
    BY <1>1, NotWaiting DEF Asking
  <2> QED
    BY <1>1, <1>2, <2>1, AskQueue
<1>7. Others(t)
  BY <1>2 DEF Others
<1>8. ASSUME NEW u \in Task \ {t} PROVE Loop(u)'
  <2>1. Loop(u) /\ Place(u)
    BY DEF Rest, SemInv
  <2> QED
    BY <1>2, <1>3, <1>6, <1>7, <2>1, OthersLoop
<1>9. Loop(t)'
  <2>1. CASE pc[t] = "out"
    <3>1. dtor[t] = NULL /\ ~InLoop(t)
      BY <1>1, <2>1 DEF Place, InLoop
    <3>2. i[t] = 0 /\ j[t] = 0 /\ foundkey[t]
      BY <1>1, <2>1, <3>1 DEF Loop, Fresh
    <3> QED
      BY <1>1, <1>2, <3>1, <3>2 DEF Loop, Fresh, Counters, Stays, Passed
  <2>2. CASE pc[t] = "destructor" /\ p = "check"
    <3>1. dtor[t] # NULL
      BY <1>1, <2>2 DEF Place
    <3> QED
      BY <1>1, <1>2, <1>3, <2>2, <3>1 DEF Loop, Fresh, InLoop, Counters, Stays, Passed
  <2> QED
    BY <2>1, <2>2
<1> QED
  BY <1>4, <1>5, <1>8, <1>9 DEF Rest

\* A call, or the loop, ends with the release.
LEMMA GiveRest ==
  ASSUME Rest, NEW t \in Task, Got(t), Give,
         NEW p \in {"out", "store", "destructor", "ended"}, Goto(t, p),
         pc[t] = "scan" <=> p = "ended",
         dtor[t] = NULL => p # "destructor",
         dtor[t] # NULL => p # "out",
         UNCHANGED <<created, tlsvalues, loopVars>>,
         used' \in [Key -> BOOLEAN], destructor' \in [Key -> BOOLEAN],
         UNCHANGED <<used, destructor>> \/ pc[t] \in Alone
  PROVE  Rest'
<1>1. SemInv /\ Control /\ Place(t) /\ Loop(t) /\ Table
  BY DEF Rest, SemInv
<1>2. UNCHANGED <<i, j, foundkey, dtor, tlsvalues, created>>
  BY DEF loopVars
<1>3. Control' /\ Only(t) /\ pc'[t] = p
  <2>1. p \in Points
    BY DEF Points
  <2> QED
    BY <1>1, <1>2, <2>1, GotoOnly
<1>4. SemInv'
  <2>1. p \notin Asking
    BY DEF Asking
  <2>2. Place(t)'
    BY <1>1, <1>2, <1>3 DEF Place
  <2> QED
    BY <1>1, <1>2, <1>3, <2>1, <2>2, GiveStep
<1>5. Table'
  BY <1>1, <1>2 DEF Table
<1>6. NoMore(t)
  BY <1>1, GiveQueue
<1>7. Others(t)
  BY <1>2 DEF Others
<1>8. ASSUME NEW u \in Task \ {t} PROVE Loop(u)'
  <2>1. Loop(u) /\ Place(u)
    BY DEF Rest, SemInv
  <2>2. UNCHANGED <<used, destructor>> \/ ~InLoop(u)
    BY <1>1, AloneIsAlone
  <2> QED
    BY <1>3, <1>6, <1>7, <2>1, <2>2, OthersLoop
<1>9. Loop(t)'
  <2>1. dtor[t] # NULL => UNCHANGED <<used, destructor>>
    BY <1>1 DEF Place, Alone
  <2>2. Counters(t)' /\ Stays(t)' /\ Passed(t)'
    BY <1>1, <1>2, <1>3, <2>1 DEF Loop, Counters, Stays, Passed
  <2>3. Fresh(t)'
    <3>1. pc[t] \in Asking
      BY DEF Got
    <3> QED
      BY <1>1, <1>2, <1>3, <3>1 DEF Loop, Fresh, InLoop, Asking
  <2> QED
    BY <2>2, <2>3 DEF Loop
<1> QED
  BY <1>4, <1>5, <1>8, <1>9 DEF Rest

\* The other steps of a thread leave the keys and tls_sem alone.
LEMMA StayRest ==
  ASSUME Rest, Control', NEW t \in Task, Only(t), Others(t), UNCHANGED keyVars,
         Hold'[t] = Hold[t], pc[t] \notin Alone, pc'[t] \notin Alone, Place(t)',
         Holds(t), Table', Loop(t)'
  PROVE  Rest'
<1>1. UNCHANGED <<tls_sem, used, destructor, created>>
  BY DEF keyVars
<1>2. SemInv /\ Table
  BY DEF Rest
<1>3. SemInv'
  BY <1>1, <1>2, StayStep
<1>4. NoMore(t)
  BY <1>1 DEF NoMore
<1>5. ASSUME NEW u \in Task \ {t} PROVE Loop(u)'
  <2>1. Loop(u) /\ Place(u)
    BY DEF Rest, SemInv
  <2> QED
    BY <1>1, <1>4, <2>1, OthersLoop
<1> QED
  BY <1>3, <1>5 DEF Rest

\* The store of pthread_setspecific, which holds nothing of its own.
LEMMA StoredRest ==
  ASSUME Rest, Types, NEW t \in Task, Stored(t)
  PROVE  Rest'
<1>1. SemInv /\ Control /\ Place(t) /\ Loop(t) /\ Table
  BY DEF Rest, SemInv
<1>2. /\ pc[t] = "store" /\ Goto(t, Back(t))
      /\ UNCHANGED keyVars
      /\ UNCHANGED <<tls_sem, used, destructor, created, i, j, foundkey, dtor>>
      /\ tlsvalues' = [tlsvalues EXCEPT ![t][arg[t].key] = arg[t].value]
  BY DEF Stored, keyVars, loopVars
<1>3. Control' /\ Only(t) /\ pc'[t] = Back(t)
  <2>1. Back(t) \in Points
    BY DEF Back, Points
  <2> QED
    BY <1>1, <1>2, <2>1, GotoOnly
<1>4. pc'[t] \notin Asking /\ pc'[t] \notin Alone
  BY <1>3 DEF Back, Asking, Alone
<1>5. Hold'[t] = Hold[t]
  <2>1. ~Got(t) /\ ~Got(t)'
    BY <1>2, <1>4 DEF Got, Asking
  <2> QED
    BY <1>2, <2>1, HoldLemma, HoldNext
<1>6. Holds(t)
  BY <1>1, <1>2, NotWaiting DEF Asking
<1>7. Table' /\ Place(t)'
  BY <1>1, <1>2, <1>3 DEF Table, Place, Back
<1>8. Others(t)
  BY <1>2 DEF Others, Types
<1>9. Loop(t)'
  <2>1. pc'[t] \in {"out", "destructor"}
    BY <1>3 DEF Back
  <2> QED
    BY <1>1, <1>2, <2>1 DEF Loop, Fresh, InLoop, Counters, Stays, Passed
<1> QED
  BY <1>2, <1>3, <1>4, <1>5, <1>6, <1>7, <1>8, <1>9, StayRest DEF Alone

\* The loop goes on by itself: a pass starts, a key is passed over, or the
\* pass ends.
LEMMA ScanRest ==
  ASSUME Rest, NEW t \in Task, StartPass(t) \/ Skip(t) \/ EndPass(t)
  PROVE  Rest'
<1>1. SemInv /\ Control /\ Place(t) /\ Loop(t) /\ Table
  BY DEF Rest, SemInv
<1>2. /\ pc[t] = "scan" /\ Holds(t) /\ dtor[t] = NULL
      /\ UNCHANGED keyVars
      /\ UNCHANGED <<tls_sem, used, destructor, created, pc, dtor, tlsvalues>>
  BY <1>1 DEF StartPass, Skip, EndPass, InPass, keyVars, Place
<1>3. Control' /\ Only(t) /\ Place(t)' /\ (Holds(t) <=> Holds(t)')
      /\ (\A k : Due(t, k)' <=> Due(t, k))
  BY <1>1, <1>2 DEF Control, Only, Place, Holds, Due
<1>4. Hold'[t] = Hold[t]
  <2>1. Got(t) <=> Got(t)'
    BY <1>2, <1>3 DEF Got
  <2> QED
    BY <1>2, <2>1, HoldLemma, HoldNext
<1>t. PTHREAD_KEYS_MAX \in Nat \ {0} /\ PTHREAD_DESTRUCTOR_ITERATIONS \in Nat \ {0}
  BY TlsAssumption
<1>5. Table' /\ Others(t) /\ Loop(t)'
  <2>1. CASE StartPass(t)
    <3>1. /\ MorePasses(t) /\ foundkey' = [foundkey EXCEPT ![t] = FALSE]
          /\ i' = [i EXCEPT ![t] = 1] /\ j' = j
      BY <2>1 DEF StartPass
    <3>2. Table' /\ Others(t) /\ i'[t] = 1
      BY <1>1, <1>2, <1>t, <3>1 DEF Table, Others
    <3>3. Counters(t)'
      BY <1>1, <1>2, <3>1, <3>2 DEF Counters, MorePasses
    <3>4. Passed(t)'
      BY <3>2 DEF Passed, Key
    <3> QED
      BY <1>2, <1>3, <3>2, <3>3, <3>4 DEF Loop, Fresh, InLoop, Stays
  <2>2. CASE Skip(t)
    <3>1. /\ i[t] > 0 /\ i[t] <= PTHREAD_KEYS_MAX /\ ~Due(t, i[t] - 1)
          /\ i' = [i EXCEPT ![t] = @ + 1] /\ j' = j /\ foundkey' = foundkey
      BY <2>2 DEF Skip, InPass
    <3>2. Table' /\ Others(t) /\ i'[t] = i[t] + 1 /\ i[t] \in Nat
      BY <1>1, <1>2, <1>t, <3>1 DEF Table, Others
    <3>3. Counters(t)'
      BY <1>1, <1>2, <3>1, <3>2 DEF Loop, Counters
    <3>4. Passed(t)'
      <4>1. ASSUME NEW k \in Key, i'[t] = 0 \/ k < i'[t] - 1, ~foundkey[t] PROVE ~Due(t, k)
        <5>1. k = i[t] - 1 \/ k < i[t] - 1
          BY <3>2, <4>1 DEF Key
        <5> QED
          BY <1>1, <1>2, <3>1, <4>1, <5>1 DEF Loop, Passed
      <4> QED
        BY <1>3, <3>1, <4>1 DEF Passed
    <3> QED
      BY <1>2, <1>3, <3>2, <3>3, <3>4 DEF Loop, Fresh, InLoop, Stays
  <2>3. CASE EndPass(t)
    <3>1. /\ i[t] > PTHREAD_KEYS_MAX /\ j' = [j EXCEPT ![t] = @ + 1]
          /\ i' = [i EXCEPT ![t] = 0] /\ foundkey' = foundkey
      BY <2>3 DEF EndPass, InPass
    <3>2. j[t] < PTHREAD_DESTRUCTOR_ITERATIONS
      BY <1>1, <1>t, <3>1 DEF Loop, Counters, Table
    <3>3. Table' /\ Others(t) /\ i'[t] = 0 /\ i[t] = PTHREAD_KEYS_MAX + 1
      BY <1>1, <1>2, <1>t, <3>1, <3>2 DEF Table, Others
    <3>4. Counters(t)'
      BY <1>2, <3>3 DEF Counters
    <3>5. Passed(t)'
      <4>1. \A k \in Key : k < i[t] - 1
        BY <1>t, <3>3 DEF Key
      <4> QED
        BY <1>1, <1>2, <1>3, <3>1, <4>1 DEF Loop, Passed
    <3> QED
      BY <1>2, <1>3, <3>3, <3>4, <3>5 DEF Loop, Fresh, InLoop, Stays
  <2> QED
    BY <2>1, <2>2, <2>3
<1> QED
  BY <1>1, <1>2, <1>3, <1>4, <1>5, StayRest DEF Alone

\* The loop calls a destructor, and keeps tls_sem meanwhile.
LEMMA CallDestructorRest ==
  ASSUME Rest, Types, NEW t \in Task, CallDestructor(t)
  PROVE  Rest'
<1>1. SemInv /\ Control /\ Place(t) /\ Loop(t) /\ Table
  BY DEF Rest, SemInv
<1>2. /\ pc[t] = "scan" /\ Holds(t) /\ i[t] > 0 /\ i[t] <= PTHREAD_KEYS_MAX
      /\ Due(t, i[t] - 1)
      /\ tlsvalues' = [tlsvalues EXCEPT ![t][i[t] - 1] = NULL]
      /\ dtor' = [dtor EXCEPT ![t] = tlsvalues[t][i[t] - 1]]
      /\ pc' = [pc EXCEPT ![t] = "destructor"]
      /\ UNCHANGED keyVars
      /\ UNCHANGED <<tls_sem, used, destructor, created, i, j, foundkey>>
  BY DEF CallDestructor, InPass, Cleared, Goto, keyVars
<1>t. PTHREAD_KEYS_MAX \in Nat \ {0}
  BY TlsAssumption
<1>3. i[t] \in 1 .. PTHREAD_KEYS_MAX /\ i[t] - 1 \in Key
  BY <1>1, <1>2, <1>t DEF Table, Key
<1>4. /\ tlsvalues[t][i[t] - 1] \in 0 .. Values /\ tlsvalues[t][i[t] - 1] # NULL
      /\ \A u \in Task \ {t} : tlsvalues'[u] = tlsvalues[u]
  BY <1>2, <1>3 DEF Types, Due
<1>5. /\ pc'[t] = "destructor" /\ dtor'[t] # NULL /\ dtor[t] = NULL
      /\ Control' /\ Only(t) /\ Place(t)'
  BY <1>1, <1>2, <1>4 DEF Control, Only, Place, Points
<1>6. Hold'[t] = Hold[t]
  <2>1. Got(t) /\ ~Got(t)'
    BY <1>2, <1>5 DEF Got, Asking
  <2> QED
    BY <1>5, <2>1, HoldLemma, HoldNext
<1>7. Table' /\ Others(t)
  BY <1>1, <1>2, <1>4 DEF Table, Others
<1>8. Loop(t)'
  <2>1. Fresh(t)' /\ Passed(t)'
    BY <1>5 DEF Fresh, InLoop, Passed
  <2>2. Counters(t)' /\ Stays(t)'
    BY <1>1, <1>2, <1>3 DEF Loop, Counters, Stays, Due
  <2> QED
    BY <2>1, <2>2 DEF Loop
<1> QED
  BY <1>2, <1>5, <1>6, <1>7, <1>8, StayRest DEF Alone

\* A destructor returns into the loop.
LEMMA DestructorReturnsRest ==
  ASSUME Rest, NEW t \in Task, DestructorReturns(t)
  PROVE  Rest'
<1>1. SemInv /\ Control /\ Place(t) /\ Loop(t) /\ Table
  BY DEF Rest, SemInv
<1>2. /\ pc[t] = "destructor" /\ dtor[t] # NULL
      /\ foundkey' = [foundkey EXCEPT ![t] = TRUE]
      /\ dtor' = [dtor EXCEPT ![t] = NULL]
      /\ i' = [i EXCEPT ![t] = @ + 1]
      /\ pc' = [pc EXCEPT ![t] = "scan"]
      /\ UNCHANGED keyVars
      /\ UNCHANGED <<tls_sem, used, destructor, created, tlsvalues, j>>
  BY <1>1 DEF DestructorReturns, Seen, Goto, keyVars, Place
<1>t. PTHREAD_KEYS_MAX \in Nat \ {0} /\ PTHREAD_DESTRUCTOR_ITERATIONS \in Nat \ {0} /\ Values \in Nat
  BY TlsAssumption
<1>3. i[t] \in 1 .. PTHREAD_KEYS_MAX /\ j[t] < PTHREAD_DESTRUCTOR_ITERATIONS
  BY <1>1, <1>2, <1>t DEF Loop, Counters, Table
<1>4. /\ pc'[t] = "scan" /\ dtor'[t] = NULL /\ foundkey'[t] /\ i'[t] = i[t] + 1
      /\ Control' /\ Only(t) /\ Place(t)'
  BY <1>1, <1>2, <1>t DEF Control, Only, Place, Points, NULL, Table
<1>5. Holds(t) /\ Holds(t)'
  <2>1. Holds(t)
    BY <1>1, <1>2, NotWaiting
  <2> QED
    BY <1>2, <2>1 DEF Holds
<1>6. Hold'[t] = Hold[t]
  <2>1. Got(t)' /\ ~Got(t)
    BY <1>2, <1>4, <1>5 DEF Got, Asking
  <2> QED
    BY <1>2, <1>4, <2>1, HoldLemma, HoldNext
<1>7. Table' /\ Others(t)
  BY <1>1, <1>2, <1>3, <1>t DEF Table, Others
<1>8. Loop(t)'
  BY <1>2, <1>3, <1>4, <1>5 DEF Loop, Fresh, InLoop, Counters, Stays, Passed
<1> QED
  BY <1>2, <1>4, <1>5, <1>6, <1>7, <1>8, StayRest DEF Alone

\* pthread_key_create and pthread_key_delete behind the ObtainSemaphore.
LEMMA TableRest ==
  ASSUME Rest, Types, NEW t \in Task, KeyCreated(t) \/ KeysExhausted(t) \/ KeyDeleted(t)
  PROVE  Rest'
<1>1. Table
  BY DEF Rest
<1>2. /\ pc[t] \in Alone /\ Holds(t) /\ Give /\ Goto(t, "out")
      /\ UNCHANGED <<created, tlsvalues, loopVars>>
  BY DEF KeyCreated, KeysExhausted, KeyDeleted, Alone, GiveAnyway
<1>3. Got(t) /\ dtor[t] = NULL
  BY <1>2 DEF Got, Asking, Alone, Rest, SemInv, Place
<1>4. used' \in [Key -> BOOLEAN] /\ destructor' \in [Key -> BOOLEAN]
  <2>1. CASE KeyCreated(t)
    <3> DEFINE k == CHOOSE f \in FreeKeys : \A g \in FreeKeys : f <= g
    <3>1. PICK d \in {TRUE, ~NoDestructor} :
            used' = [used EXCEPT ![k] = TRUE] /\ destructor' = [destructor EXCEPT ![k] = d]
      BY <2>1 DEF KeyCreated
    <3> HIDE DEF k
    <3> QED
      BY <1>1, <3>1, TlsAssumption DEF Table
  <2>2. CASE KeysExhausted(t)
    BY <1>1, <2>2 DEF KeysExhausted, Table
  <2>3. CASE KeyDeleted(t)
    BY <1>1, <2>3 DEF KeyDeleted, Table
  <2> QED
    BY <2>1, <2>2, <2>3
<1>5. pc[t] # "scan"
  BY <1>2 DEF Alone
<1> DEFINE p == "out"
<1>6. p \in {"out", "store", "destructor", "ended"} /\ Goto(t, p)
      /\ (pc[t] = "scan" <=> p = "ended") /\ p # "destructor"
  BY <1>2, <1>5
<1> HIDE DEF p
<1> QED
  BY <1>2, <1>3, <1>4, <1>6, GiveRest

\* pthread_setspecific behind its check, and the end of the loop.
LEMMA CheckedRest ==
  ASSUME Rest, NEW t \in Task, Checked(t) \/ EndLoop(t)
  PROVE  Rest'
<1>1. Table /\ Place(t)
  BY DEF Rest, SemInv
<1>2. PICK p \in {"out", "store", "destructor", "ended"} :
        /\ Goto(t, p)
        /\ pc[t] = "scan" <=> p = "ended"
        /\ dtor[t] = NULL => p # "destructor"
        /\ dtor[t] # NULL => p # "out"
  <2>1. CASE Checked(t)
    <3>1. Goto(t, "store") \/ Goto(t, Back(t))
      BY <2>1 DEF Checked
    <3> QED
      BY <2>1, <3>1 DEF Checked, Back
  <2>2. CASE EndLoop(t)
    BY <1>1, <2>2 DEF EndLoop, Place
  <2> QED
    BY <2>1, <2>2
<1>3. Got(t) /\ Give
  BY DEF Checked, EndLoop, Got, Asking
<1>4. UNCHANGED <<created, tlsvalues, loopVars>> /\ UNCHANGED <<used, destructor>>
  BY DEF Checked, EndLoop
<1>5. used' \in [Key -> BOOLEAN] /\ destructor' \in [Key -> BOOLEAN]
  BY <1>1, <1>4 DEF Table
<1> QED
  BY <1>2, <1>3, <1>4, <1>5, GiveRest

\* Every call, and the end of a thread, begins with a request for tls_sem.
LEMMA BeginRest ==
  ASSUME Rest, NEW t \in Task, KeyCreate(t) \/ KeyDelete(t) \/ SetSpecific(t) \/ End(t)
  PROVE  Rest'
<1>1. PICK p \in Asking, m \in BOOLEAN :
        /\ Ask(t, m, p)
        /\ m <=> p \notin Alone
        /\ pc[t] = "out" \/ (pc[t] = "destructor" /\ p = "check")
  <2>1. /\ KeyCreate(t) => Ask(t, FALSE, "create") /\ pc[t] = "out"
        /\ KeyDelete(t) => Ask(t, FALSE, "delete") /\ pc[t] = "out"
        /\ SetSpecific(t) => Ask(t, TRUE, "check") /\ pc[t] \in {"out", "destructor"}
        /\ End(t) => Ask(t, TRUE, "scan") /\ pc[t] = "out"
    BY DEF KeyCreate, KeyDelete, SetSpecific, End, Guarded
  <2> QED
    BY <2>1 DEF Asking, Alone
<1>2. UNCHANGED <<used, destructor, tlsvalues, loopVars>>
  BY DEF KeyCreate, KeyDelete, SetSpecific, End
<1>3. created' \in 0 .. Creates
  <2>1. created' = created \/ (created < Creates /\ created' = created + 1)
    BY DEF KeyCreate, KeyDelete, SetSpecific, End
  <2> QED
    BY <2>1, TlsAssumption DEF Rest, Table
<1> QED
  BY <1>1, <1>2, <1>3, AskRest

\* Every step keeps the whole invariant.
LEMMA NextIInv ==
  ASSUME IInv, [Next]_vars
  PROVE  IInv'
<1>1. Inv'
  BY NextInv DEF IInv
<1>2. Rest /\ Types
  BY DEF IInv, Rest, Inv
<1>3. ASSUME NEW t \in Task, Step(t) PROVE Rest'
  <2>1. \/ KeyCreate(t) \/ KeyDelete(t) \/ SetSpecific(t) \/ End(t)
        \/ KeyCreated(t) \/ KeysExhausted(t) \/ KeyDeleted(t)
        \/ Checked(t) \/ EndLoop(t) \/ Stored(t)
        \/ StartPass(t) \/ Skip(t) \/ EndPass(t)
        \/ CallDestructor(t) \/ DestructorReturns(t)
    BY <1>3, Zenon DEF Step, InCall
  <2> QED
    BY <1>2, <2>1, BeginRest, TableRest, CheckedRest, StoredRest, ScanRest,
       CallDestructorRest, DestructorReturnsRest
<1>4. ASSUME UNCHANGED vars PROVE Rest'
  <2>1. /\ UNCHANGED <<tls_sem, used, destructor, created, tlsvalues, pc>>
        /\ UNCHANGED <<i, j, foundkey, dtor>>
    BY <1>4 DEF vars, keyVars, loopVars
  <2>2. \A t : Got(t)' <=> Got(t)
    BY <2>1 DEF Got, Holds
  <2>3. Hold' = Hold
    <3>1. \A t \in Task : Hold'[t] = Hold[t]
      BY <2>1, <2>2, HoldLemma, HoldNext
    <3> QED
      BY <3>1, HoldLemma, HoldNext
  <2>4. SemInv'
    <3>1. SemInv
      BY <1>2 DEF Rest
    <3>2. Control' /\ Covers(tls_sem, Hold)' /\ Exact(tls_sem, Hold)'
      BY <2>1, <2>3, <3>1 DEF SemInv, Control
    <3>3. \A t \in Task : (InMode(t) /\ Asks(t) /\ Place(t))'
      BY <2>1, <2>3, <3>1 DEF SemInv, InMode, Asks, Place
    <3> QED
      BY <3>2, <3>3 DEF SemInv
  <2>5. Table' /\ \A t \in Task : Loop(t)'
    <3>1. Table'
      BY <1>2, <2>1 DEF Rest, Table
    <3>2. ASSUME NEW t \in Task PROVE Loop(t)'
      <4>1. Loop(t)
        BY <1>2 DEF Rest
      <4>2. \A k : Due(t, k)' <=> Due(t, k)
        BY <2>1 DEF Due
      <4> QED
        BY <2>1, <4>1, <4>2 DEF Loop, Fresh, InLoop, Holds, Counters, Stays, Passed
    <3> QED
      BY <3>1, <3>2
  <2> QED
    BY <2>4, <2>5 DEF Rest
<1>5. Rest'
  BY <1>3, <1>4 DEF Next
<1> QED
  BY <1>1, <1>5 DEF IInv, Rest

\* Every state of the threads and their keys satisfies the invariant.
THEOREM TlsInvariance == Spec => []IInv
BY InitIInv, NextIInv, PTL DEF Spec

\* The variables keep their types: tls_sem is a semaphore that was obtained as
\* often as it is released, and the loop at the end of a thread never counts
\* past the keys and the passes.
THEOREM TlsTypeCorrect == Spec => []TypeOK
<1>1. IInv => TypeOK
  <2> SUFFICES ASSUME IInv PROVE TypeOK
    OBVIOUS
  <2>1. tls_sem \in Semaphore
    BY DEF IInv, SemInv, Covers, Orderly
  <2>2. pc \in [Task -> {"out", "create", "delete", "check", "store",
                         "scan", "destructor", "ended"}]
    BY DEF IInv, SemInv, Control, Points
  <2>3. dtor \in [Task -> 0 .. Values]
    BY DEF IInv, SemInv, Control
  <2> QED
    BY <2>1, <2>2, <2>3 DEF IInv, Inv, Types, Table, TypeOK
<1> QED
  BY <1>1, TlsInvariance, PTL

\* The key of a destructor that runs is neither deleted nor created anew before
\* the destructor returns: the thread has tls_sem shared all the time, also
\* when the destructor calls pthread_setspecific, and who creates or deletes a
\* key has it alone.
THEOREM DestructorsStay == Spec => []DestructorStays
<1>1. IInv => DestructorStays
  BY DEF IInv, Loop, Stays, DestructorStays
<1> QED
  BY <1>1, TlsInvariance, PTL

\* A thread that leaves the loop without having used up its passes leaves no
\* value that is due: whatever a pass has left behind stays so until the pass
\* ends, since only a destructor can set a value, and a pass that calls one is
\* followed by another.
THEOREM NothingIsLeft == Spec => []NothingLeft
<1>1. IInv => NothingLeft
  BY DEF IInv, Loop, Passed, NothingLeft
<1> QED
  BY <1>1, TlsInvariance, PTL

=============================================================================
