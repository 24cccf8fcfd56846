----------------------------- MODULE LocksProofs -----------------------------
(***************************************************************************)
(* Proofs about Locks, for every number of tasks, every program and every  *)
(* kind of object.  One thing is assumed of the program, SafeStart: two    *)
(* tasks that both make the first call on a static object may both         *)
(* initialise it, and then two tasks own it.                               *)
(***************************************************************************)
EXTENDS Locks, SignalSemaphoreProofs

SafeStart == TRUE \notin Static \/ \A a, b \in Starters : a = b

-----------------------------------------------------------------------------
(***************************************************************************)
(* The inductive invariant                                                 *)
(***************************************************************************)
\* The types of all variables but the semaphore.
Types ==
  /\ kind \in AllKinds
  /\ valid \in BOOLEAN
  /\ destroyed \in BOOLEAN
  /\ pc \in [Task -> {"idle", "init", "begin", "wait", "timed", "port", "vacate"}]
  /\ call \in [Task -> Calls]
  /\ timer \in [Task -> {"off", "armed", "fired"}]
  /\ reads \in [Task -> Nat]
  /\ writes \in [Task -> Nat]

\* The semaphore counts what is served, and for a read-write lock only that.
Accounts == Covers(sema, Served) /\ (~IsMutex => Exact(sema, Served))

\* A mutex that somebody has, has an owner.
Owned == IsMutex /\ sema.nest > 0 => sema.owner # NoTask

\* What is served is shared if the semaphore has no owner, and not otherwise.
InMode(t) ==
  Served[t] > 0 =>
    IF sema.owner = NoTask
    THEN writes[t] = 0 /\ (Pending(t) => call[t].shared)
    ELSE reads[t] = 0 /\ (Pending(t) => ~call[t].shared)

\* Who waits is in a call for this mode.
Asks(t) ==
  \A m \in BOOLEAN : Waits(sema, t, m) => pc[t] \in Busy /\ (call[t].shared <=> m)

\* The calls keep to the rules until they return.
Rules(t) ==
  /\ IsMutex => reads[t] = 0 /\ ~call[t].shared
  /\ pc[t] # "idle" /\ call[t].form = "unlock" =>
       /\ pc[t] \in {"init", "begin"}
       /\ call[t].shared <=> reads[t] > 0
       /\ kind \in {"NORMAL", "RWLOCK"} => Held(t) > 0
  /\ pc[t] # "idle" /\ call[t].form # "unlock" =>
       IF call[t].shared THEN writes[t] = 0 ELSE reads[t] = 0

Tame(t) == InMode(t) /\ Asks(t) /\ Rules(t)

\* Nothing is held and no call is past its start before the object is
\* initialised, which one task does, and after it is destroyed.
Started ==
  /\ ~valid => /\ sema = FreeSemaphore
               /\ \A t \in Task : Held(t) = 0 /\ pc[t] \in {"idle", "init"}
               /\ destroyed \/ \A a, b \in Starters : a = b
  /\ \A t \in Task : pc[t] = "init" => ~valid /\ ~destroyed /\ t \in Starters
  /\ destroyed => ~valid

IInv ==
  /\ Types
  /\ Accounts
  /\ Owned
  /\ \A t \in Task : Tame(t)
  /\ Started

-----------------------------------------------------------------------------
(***************************************************************************)
(* What a step does to the semaphore                                       *)
(***************************************************************************)
\* The step changes nothing of the other tasks, and not the kind.
Only(t) ==
  /\ kind' = kind
  /\ \A u \in Task \ {t} : /\ pc'[u] = pc[u] /\ call'[u] = call[u]
                           /\ reads'[u] = reads[u] /\ writes'[u] = writes[u]

\* The numbers of the locks that a task holds and of its served requests.
LEMMA ServedLemma ==
  ASSUME Types
  PROVE  /\ Served \in [Task -> Nat]
         /\ \A t \in Task : /\ Held(t) \in Nat /\ reads[t] \in Nat /\ writes[t] \in Nat
                            /\ Held(t) = reads[t] + writes[t]
                            /\ Served[t] = Held(t) + IF Pending(t) THEN 1 ELSE 0
<1>1. \A t \in Task : reads[t] \in Nat /\ writes[t] \in Nat /\ Held(t) = reads[t] + writes[t]
  BY DEF Types, Held
<1>2. \A t \in Task : Held(t) \in Nat
  BY <1>1
<1>3. \A t \in Task : Held(t) + (IF Pending(t) THEN 1 ELSE 0) \in Nat
  BY <1>2
<1> QED
  BY <1>1, <1>2, <1>3 DEF Served

\* The same after a step.
LEMMA ServedNext ==
  ASSUME Types'
  PROVE  /\ Served' \in [Task -> Nat]
         /\ \A t \in Task : /\ Held(t)' \in Nat /\ reads'[t] \in Nat /\ writes'[t] \in Nat
                            /\ Held(t)' = reads'[t] + writes'[t]
                            /\ Served'[t] = Held(t)' + IF Pending(t)' THEN 1 ELSE 0
<1>1. \A t \in Task : reads'[t] \in Nat /\ writes'[t] \in Nat /\ Held(t)' = reads'[t] + writes'[t]
  BY DEF Types, Held
<1>2. \A t \in Task : Held(t)' \in Nat
  BY <1>1
<1>3. \A t \in Task : Held(t)' + (IF Pending(t)' THEN 1 ELSE 0) \in Nat
  BY <1>2
<1> QED
  BY <1>1, <1>2, <1>3 DEF Served

\* A step that leaves the semaphore alone keeps the counts.
LEMMA Quiet ==
  ASSUME IInv, Types', NEW t \in Task, Only(t), sema' = sema, Served'[t] = Served[t]
  PROVE  /\ Served' = Served
         /\ Accounts' /\ Owned'
         /\ \A u \in Task \ {t} : Tame(u)'
<1>1. /\ Served' \in [Task -> Nat] /\ Served \in [Task -> Nat]
      /\ \A u \in Task : Served[u] = Held(u) + IF Pending(u) THEN 1 ELSE 0
      /\ \A u \in Task : Served'[u] = Held(u)' + IF Pending(u)' THEN 1 ELSE 0
  BY ServedLemma, ServedNext DEF IInv
<1>2. ASSUME NEW u \in Task \ {t}
      PROVE  /\ pc'[u] = pc[u] /\ call'[u] = call[u] /\ reads'[u] = reads[u] /\ writes'[u] = writes[u]
             /\ Held(u)' = Held(u) /\ Pending(u)' = Pending(u)
  BY DEF Only, Held, Pending
<1>3. \A u \in Task : Served'[u] = Served[u]
  BY <1>1, <1>2
<1>4. Served' = Served
  BY <1>1, <1>3
<1>5. kind' = kind /\ (IsMutex' <=> IsMutex)
  BY DEF Only, IsMutex
<1>6. Accounts'
  BY <1>4, <1>5 DEF IInv, Accounts
<1>7. Owned'
  BY <1>5 DEF IInv, Owned
<1>8. ASSUME NEW u \in Task \ {t} PROVE Tame(u)'
  <2>1. InMode(u) /\ Asks(u) /\ Rules(u)
    BY DEF IInv, Tame
  <2>2. InMode(u)'
    BY <1>2, <1>3, <2>1 DEF InMode
  <2>3. Asks(u)'
    BY <1>2, <2>1 DEF Asks
  <2>4. Rules(u)'
    BY <1>2, <1>5, <2>1 DEF Rules
  <2> QED
    BY <2>2, <2>3, <2>4 DEF Tame
<1> QED
  BY <1>4, <1>6, <1>7, <1>8

\* A request that is granted. A mutex may keep the count when the call does
\* not return with it.
LEMMA Granted ==
  ASSUME IInv, Types', NEW t \in Task, Only(t), pc[t] \in {"begin", "timed"},
         call[t].form # "unlock", Free(t), ObtainFor(t),
         Served'[t] = Served[t] + 1 \/ (IsMutex /\ Served'[t] = Served[t])
  PROVE  /\ Accounts' /\ Owned'
         /\ \A u \in Task \ {t} : Tame(u)'
         /\ \A u : Queued(sema', u) <=> Queued(sema, u)
         /\ \A u, m : Waits(sema', u, m) <=> Waits(sema, u, m)
         /\ sema'.owner = NoTask => call[t].shared
         /\ sema'.owner # NoTask => ~call[t].shared
<1> DEFINE m == call[t].shared
<1>1. /\ Served' \in [Task -> Nat] /\ Served \in [Task -> Nat]
      /\ \A u \in Task : Served[u] = Held(u) + IF Pending(u) THEN 1 ELSE 0
      /\ \A u \in Task : Served'[u] = Held(u)' + IF Pending(u)' THEN 1 ELSE 0
      /\ \A u \in Task : Held(u) = reads[u] + writes[u] /\ reads[u] \in Nat /\ writes[u] \in Nat
  BY ServedLemma, ServedNext DEF IInv
<1>2. Covers(sema, Served) /\ Orderly(sema)
  BY DEF IInv, Accounts, Covers
<1>3. m \in BOOLEAN
  <2>1. call[t] \in Calls
    BY DEF IInv, Types
  <2> QED
    BY <2>1 DEF Calls
<1>4. ~Queued(sema, t)
  <2>1. \A n \in BOOLEAN : ~Waits(sema, t, n)
    BY DEF IInv, Tame, Asks, Busy
  <2> QED
    BY <1>2, <2>1, WaitsInOneMode
<1>5. sema' = ObtainMode(sema, t, m) /\ Grants(sema, t, m)
  BY DEF ObtainFor, Free
<1>6. Rules(t) /\ InMode(t)
  BY DEF IInv, Tame
<1>7. IF m THEN writes[t] = 0 /\ ~IsMutex ELSE reads[t] = 0
  BY <1>6 DEF Rules
<1>8. ~Pending(t) /\ Served[t] = Held(t)
  <2>1. ~Pending(t)
    BY DEF Pending, Busy
  <2> QED
    BY <1>1, <2>1
<1> HIDE DEF m
<1>9. /\ sema'.queue = sema.queue /\ sema'.nest = sema.nest + 1
      /\ sema'.owner = IF sema.nest = 0 /\ ~m THEN t ELSE sema.owner
  BY <1>2, <1>3, <1>4, <1>5, GrantedLemma
<1>10. \A u, n : (Queued(sema', u) <=> Queued(sema, u)) /\ (Waits(sema', u, n) <=> Waits(sema, u, n))
  BY <1>9 DEF Queued, Waits
<1> DEFINE T == [Served EXCEPT ![t] = @ + 1]
<1>11. /\ Covers(sema', T) /\ Covers(sema', Served)
       /\ Exact(sema, Served) => Exact(sema', T)
  BY <1>2, <1>3, <1>4, <1>5, GrantCounted
<1>12. ASSUME NEW u \in Task \ {t}
       PROVE  /\ pc'[u] = pc[u] /\ call'[u] = call[u] /\ reads'[u] = reads[u] /\ writes'[u] = writes[u]
              /\ Held(u)' = Held(u) /\ (Pending(u)' <=> Pending(u)) /\ Served'[u] = Served[u]
  <2>1. pc'[u] = pc[u] /\ call'[u] = call[u] /\ reads'[u] = reads[u] /\ writes'[u] = writes[u]
    BY DEF Only
  <2>2. Held(u)' = Held(u) /\ (Pending(u)' <=> Pending(u))
    BY <1>10, <2>1 DEF Held, Pending
  <2> QED
    BY <1>1, <2>1, <2>2
<1>13. Served' = T \/ (IsMutex /\ Served' = Served)
  <2>1. CASE Served'[t] = Served[t] + 1
    <3>1. T \in [Task -> Nat]
      BY <1>1
    <3>2. \A u \in Task : Served'[u] = T[u]
      BY <1>1, <1>12, <2>1
    <3> QED
      BY <1>1, <3>1, <3>2
  <2>2. CASE IsMutex /\ Served'[t] = Served[t]
    <3>1. \A u \in Task : Served'[u] = Served[u]
      BY <1>12, <2>2
    <3> QED
      BY <1>1, <2>2, <3>1
  <2> QED
    BY <2>1, <2>2
<1>14. kind' = kind /\ (IsMutex' <=> IsMutex)
  BY DEF Only, IsMutex
<1>15. Accounts'
  <2>1. ~IsMutex => Exact(sema, Served)
    BY DEF IInv, Accounts
  <2>2. CASE Served' = T
    BY <1>11, <1>14, <2>1, <2>2 DEF Accounts
  <2>3. CASE IsMutex /\ Served' = Served
    BY <1>11, <1>14, <2>3 DEF Accounts
  <2> QED
    BY <1>13, <2>2, <2>3
<1>16. sema'.owner = NoTask => m
  <2> SUFFICES ASSUME ~m PROVE sema'.owner # NoTask
    OBVIOUS
  <2>1. CASE sema.nest = 0
    BY <1>9, <2>1, NoTaskAssumption
  <2>2. CASE sema.nest # 0
    <3>1. sema.owner = t
      BY <1>5, <2>2 DEF Grants
    <3> QED
      BY <1>9, <2>2, <3>1, NoTaskAssumption
  <2> QED
    BY <2>1, <2>2
<1>17. sema'.owner # NoTask => ~m
  <2> SUFFICES ASSUME m, sema.owner # NoTask PROVE FALSE
    BY <1>9
  <2>1. sema.nest # 0
    BY <1>2, NothingCounted DEF FreeSemaphore
  <2>2. sema.owner = t
    BY <1>5, <2>1 DEF Grants
  <2>3. Exact(sema, Served)
    BY <1>7 DEF IInv, Accounts
  <2>4. \E u \in Task : Served[u] # 0
    <3>1. Pairs(Served) # {}
      BY <2>1, <2>3, FS_EmptySet DEF Exact
    <3> QED
      BY <1>1, <3>1, PairsNone
  <2>5. PICK u \in Task : Served[u] > 0
    BY <1>1, <2>4
  <2>6. sema.owner \in {u, NoTask}
    BY <1>2, <2>5 DEF Covers
  <2>7. Served[t] > 0
    BY <2>2, <2>5, <2>6
  <2>8. reads[t] = 0 /\ writes[t] = 0
    BY <1>6, <1>7, <2>7 DEF InMode
  <2> QED
    BY <1>1, <1>8, <2>7, <2>8
<1>18. Owned'
  <2>1. IsMutex => ~m
    BY <1>7
  <2> QED
    BY <1>14, <1>16, <2>1 DEF Owned
<1>19. ASSUME NEW u \in Task \ {t} PROVE Tame(u)'
  <2>1. InMode(u) /\ Asks(u) /\ Rules(u)
    BY DEF IInv, Tame
  <2>2. Served[u] > 0 => sema'.owner = sema.owner
    <3>1. Served[u] > 0 => sema.nest # 0
      BY <1>2, NothingCounted
    <3> QED
      BY <1>9, <3>1
  <2>3. InMode(u)'
    BY <1>12, <2>1, <2>2 DEF InMode
  <2>4. Asks(u)'
    BY <1>10, <1>12, <2>1 DEF Asks
  <2>5. Rules(u)'
    BY <1>12, <1>14, <2>1 DEF Rules
  <2> QED
    BY <2>3, <2>4, <2>5 DEF Tame
<1> QED
  BY <1>10, <1>15, <1>16, <1>17, <1>18, <1>19 DEF m

\* A request that is not granted and waits.
LEMMA Denied ==
  ASSUME IInv, Types', NEW t \in Task, Only(t), pc[t] \in {"begin", "timed"},
         ~Free(t), ObtainFor(t), Served'[t] = Served[t]
  PROVE  /\ Accounts' /\ Owned'
         /\ \A u \in Task \ {t} : Tame(u)'
         /\ \A n : Waits(sema', t, n) <=> n = call[t].shared
         /\ sema'.owner = sema.owner
<1> DEFINE m == call[t].shared
<1>1. /\ Served' \in [Task -> Nat] /\ Served \in [Task -> Nat]
      /\ \A u \in Task : Served[u] = Held(u) + IF Pending(u) THEN 1 ELSE 0
      /\ \A u \in Task : Served'[u] = Held(u)' + IF Pending(u)' THEN 1 ELSE 0
  BY ServedLemma, ServedNext DEF IInv
<1>2. Covers(sema, Served) /\ Orderly(sema)
  BY DEF IInv, Accounts, Covers
<1>3. m \in BOOLEAN
  <2>1. call[t] \in Calls
    BY DEF IInv, Types
  <2> QED
    BY <2>1 DEF Calls
<1>4. ~Queued(sema, t)
  <2>1. \A n \in BOOLEAN : ~Waits(sema, t, n)
    BY DEF IInv, Tame, Asks, Busy
  <2> QED
    BY <1>2, <2>1, WaitsInOneMode
<1>5. sema' = ObtainMode(sema, t, m) /\ ~Grants(sema, t, m)
  BY DEF ObtainFor, Free
<1> HIDE DEF m
<1>6. /\ sema'.nest = sema.nest /\ sema'.owner = sema.owner
      /\ \A u : Queued(sema', u) <=> Queued(sema, u) \/ u = t
      /\ \A u, n : Waits(sema', u, n) <=> Waits(sema, u, n) \/ (u = t /\ n = m)
  BY <1>2, <1>3, <1>4, <1>5, DeniedLemma
<1>7. /\ Covers(sema', Served)
      /\ Exact(sema, Served) => Exact(sema', Served)
  BY <1>2, <1>3, <1>4, <1>5, DenyCounted
<1>8. ASSUME NEW u \in Task \ {t}
      PROVE  /\ pc'[u] = pc[u] /\ call'[u] = call[u] /\ reads'[u] = reads[u] /\ writes'[u] = writes[u]
             /\ Held(u)' = Held(u) /\ (Pending(u)' <=> Pending(u)) /\ Served'[u] = Served[u]
  <2>1. pc'[u] = pc[u] /\ call'[u] = call[u] /\ reads'[u] = reads[u] /\ writes'[u] = writes[u]
    BY DEF Only
  <2>2. Held(u)' = Held(u) /\ (Pending(u)' <=> Pending(u))
    BY <1>6, <2>1 DEF Held, Pending
  <2> QED
    BY <1>1, <2>1, <2>2
<1>9. Served' = Served
  <2>1. \A u \in Task : Served'[u] = Served[u]
    BY <1>8
  <2> QED
    BY <1>1, <2>1
<1>10. kind' = kind /\ (IsMutex' <=> IsMutex)
  BY DEF Only, IsMutex
<1>11. Accounts'
  <2>1. ~IsMutex => Exact(sema, Served)
    BY DEF IInv, Accounts
  <2> QED
    BY <1>7, <1>9, <1>10, <2>1 DEF Accounts
<1>12. Owned'
  BY <1>6, <1>10 DEF IInv, Owned
<1>13. ASSUME NEW u \in Task \ {t} PROVE Tame(u)'
  <2>1. InMode(u) /\ Asks(u) /\ Rules(u)
    BY DEF IInv, Tame
  <2>2. InMode(u)'
    BY <1>6, <1>8, <2>1 DEF InMode
  <2>3. Asks(u)'
    BY <1>6, <1>8, <2>1 DEF Asks
  <2>4. Rules(u)'
    BY <1>8, <1>10, <2>1 DEF Rules
  <2> QED
    BY <2>2, <2>3, <2>4 DEF Tame
<1>14. \A n : ~Waits(sema, t, n)
  BY <1>4 DEF Waits, Queued
<1> QED
  BY <1>6, <1>11, <1>12, <1>13, <1>14 DEF m

\* A request that is taken back.
LEMMA TakenBack ==
  ASSUME IInv, Types', NEW t \in Task, Only(t), Queued(sema, t),
         sema' = Withdraw(sema, t), Served'[t] = Served[t]
  PROVE  /\ Accounts' /\ Owned'
         /\ \A u \in Task \ {t} : Tame(u)'
         /\ \A n : ~Waits(sema', t, n)
         /\ sema'.owner = sema.owner
<1>1. /\ Served' \in [Task -> Nat] /\ Served \in [Task -> Nat]
      /\ \A u \in Task : Served[u] = Held(u) + IF Pending(u) THEN 1 ELSE 0
      /\ \A u \in Task : Served'[u] = Held(u)' + IF Pending(u)' THEN 1 ELSE 0
  BY ServedLemma, ServedNext DEF IInv
<1>2. Covers(sema, Served) /\ Orderly(sema)
  BY DEF IInv, Accounts, Covers
<1>6. /\ sema'.nest = sema.nest /\ sema'.owner = sema.owner
      /\ \A u : Queued(sema', u) <=> Queued(sema, u) /\ u # t
      /\ \A u, n : Waits(sema', u, n) <=> Waits(sema, u, n) /\ u # t
  BY <1>2, WithdrawLemma
<1>7. /\ Covers(sema', Served)
      /\ Exact(sema, Served) => Exact(sema', Served)
  BY <1>2, WithdrawCounted
<1>8. ASSUME NEW u \in Task \ {t}
      PROVE  /\ pc'[u] = pc[u] /\ call'[u] = call[u] /\ reads'[u] = reads[u] /\ writes'[u] = writes[u]
             /\ Held(u)' = Held(u) /\ (Pending(u)' <=> Pending(u)) /\ Served'[u] = Served[u]
  <2>1. pc'[u] = pc[u] /\ call'[u] = call[u] /\ reads'[u] = reads[u] /\ writes'[u] = writes[u]
    BY DEF Only
  <2>2. Held(u)' = Held(u) /\ (Pending(u)' <=> Pending(u))
    BY <1>6, <2>1 DEF Held, Pending
  <2> QED
    BY <1>1, <2>1, <2>2
<1>9. Served' = Served
  <2>1. \A u \in Task : Served'[u] = Served[u]
    BY <1>8
  <2> QED
    BY <1>1, <2>1
<1>10. kind' = kind /\ (IsMutex' <=> IsMutex)
  BY DEF Only, IsMutex
<1>11. Accounts'
  <2>1. ~IsMutex => Exact(sema, Served)
    BY DEF IInv, Accounts
  <2> QED
    BY <1>7, <1>9, <1>10, <2>1 DEF Accounts
<1>12. Owned'
  BY <1>6, <1>10 DEF IInv, Owned
<1>13. ASSUME NEW u \in Task \ {t} PROVE Tame(u)'
  <2>1. InMode(u) /\ Asks(u) /\ Rules(u)
    BY DEF IInv, Tame
  <2>2. InMode(u)'
    BY <1>6, <1>8, <2>1 DEF InMode
  <2>3. Asks(u)'
    BY <1>6, <1>8, <2>1 DEF Asks
  <2>4. Rules(u)'
    BY <1>8, <1>10, <2>1 DEF Rules
  <2> QED
    BY <2>2, <2>3, <2>4 DEF Tame
<1> QED
  BY <1>6, <1>11, <1>12, <1>13

\* A release: the locks of t are one less, and those of the others are theirs.
LEMMA GivenBack ==
  ASSUME IInv, Types', NEW t \in Task, Only(t), ~Queued(sema, t),
         Served[t] > 0 \/ sema.owner = t, Served[t] = 0 => IsMutex,
         sema' = Release(sema), Served'[t] = Left(Served[t])
  PROVE  /\ Accounts' /\ Owned'
         /\ \A u \in Task \ {t} : Tame(u)'
         /\ \A n : ~Waits(sema', t, n)
         /\ Served'[t] > 0 => sema'.owner = sema.owner
<1> DEFINE N == Handed(sema)
           T == After(sema, Served, t)
<1>1. /\ Served' \in [Task -> Nat] /\ Served \in [Task -> Nat]
      /\ \A u \in Task : Served[u] = Held(u) + IF Pending(u) THEN 1 ELSE 0
      /\ \A u \in Task : Served'[u] = Held(u)' + IF Pending(u)' THEN 1 ELSE 0
      /\ \A u \in Task : Held(u) = reads[u] + writes[u] /\ reads[u] \in Nat /\ writes[u] \in Nat
  BY ServedLemma, ServedNext DEF IInv
<1>2. Covers(sema, Served) /\ Orderly(sema)
  BY DEF IInv, Accounts, Covers
<1>3. Released(sema, Served, t)
  BY <1>2, ReleaseCounted
<1>t. T = [u \in Task |-> (IF u = t THEN Left(Served[u]) ELSE Served[u]) + IF u \in N THEN 1 ELSE 0]
  BY DEF After
<1> HIDE DEF N, T
<1>4. /\ Covers(sema', T)
      /\ Exact(sema, Served) /\ Served[t] > 0 => Exact(sema', T)
      /\ t \notin N
      /\ N \subseteq Task
      /\ \A u : Queued(sema', u) <=> Queued(sema, u) /\ u \notin N
      /\ \A u, m : Waits(sema', u, m) <=> Waits(sema, u, m) /\ u \notin N
      /\ \A u \in N : Served[u] = 0 /\ Waits(sema, u, sema'.owner = NoTask)
      /\ sema'.owner = sema.owner \/ \A u \in Task : u \in N \/ T[u] = 0
      /\ sema'.owner = sema.owner \/ sema'.nest = Cardinality(N)
  BY <1>3 DEF Released, N, T
<1>5. \A u \in N : /\ pc[u] \in Busy /\ (call[u].shared <=> sema'.owner = NoTask)
                   /\ Queued(sema, u)
  <2> SUFFICES ASSUME NEW u \in N
               PROVE  /\ pc[u] \in Busy /\ (call[u].shared <=> sema'.owner = NoTask)
                      /\ Queued(sema, u)
    OBVIOUS
  <2>1. Asks(u) /\ (sema'.owner = NoTask) \in BOOLEAN
    BY <1>4 DEF IInv, Tame
  <2>2. Waits(sema, u, sema'.owner = NoTask)
    BY <1>4
  <2>3. pc[u] \in Busy /\ (call[u].shared <=> sema'.owner = NoTask)
    BY <2>1, <2>2 DEF Asks
  <2>4. Queued(sema, u)
    BY <2>2 DEF Waits, Queued
  <2> QED
    BY <2>3, <2>4
<1>6. ASSUME NEW u \in Task \ {t}
      PROVE  /\ pc'[u] = pc[u] /\ call'[u] = call[u] /\ reads'[u] = reads[u] /\ writes'[u] = writes[u]
             /\ Held(u)' = Held(u) /\ (Pending(u)' <=> Pending(u) \/ u \in N)
             /\ Served'[u] = Served[u] + IF u \in N THEN 1 ELSE 0
  <2>1. pc'[u] = pc[u] /\ call'[u] = call[u] /\ reads'[u] = reads[u] /\ writes'[u] = writes[u]
    BY DEF Only
  <2>2. Held(u)' = Held(u)
    BY <2>1 DEF Held
  <2>3. Pending(u)' <=> Pending(u) \/ u \in N
    BY <1>4, <1>5, <2>1 DEF Pending
  <2>4. u \in N => ~Pending(u)
    BY <1>5 DEF Pending
  <2> QED
    BY <1>1, <2>1, <2>2, <2>3, <2>4
<1>7. Served' = T
  <2>0. \A u \in Task : Served[u] \in Nat /\ Left(Served[u]) \in Nat
    BY <1>1 DEF Left
  <2>1. \A u \in Task : Served'[u] = (IF u = t THEN Left(Served[u]) ELSE Served[u]) + IF u \in N THEN 1 ELSE 0
    BY <1>4, <1>6, <2>0
  <2> QED
    BY <1>1, <1>t, <2>1
<1>8. kind' = kind /\ (IsMutex' <=> IsMutex)
  BY DEF Only, IsMutex
<1>9. Accounts'
  <2>1. ~IsMutex => Exact(sema, Served) /\ Served[t] > 0
    BY <1>1 DEF IInv, Accounts
  <2> QED
    BY <1>4, <1>7, <1>8, <2>1 DEF Accounts
<1>10. Owned'
  <2> SUFFICES ASSUME IsMutex, sema'.nest > 0 PROVE sema'.owner # NoTask
    BY <1>8 DEF Owned
  <2>1. CASE sema'.owner = sema.owner
    <3>1. sema.nest > 0
      BY <1>2, SomethingCounted
    <3> QED
      BY <2>1, <3>1 DEF IInv, Owned
  <2>2. CASE sema'.nest = Cardinality(N)
    <3>1. N # {}
      BY <2>2, FS_EmptySet
    <3>2. PICK u \in N : TRUE
      BY <3>1
    <3>3. Rules(u)
      BY <1>4 DEF IInv, Tame
    <3> QED
      BY <1>5, <3>3 DEF Rules
  <2> QED
    BY <1>4, <2>1, <2>2
<1>11. ASSUME NEW u \in Task \ {t} PROVE Tame(u)'
  <2>1. InMode(u) /\ Asks(u) /\ Rules(u)
    BY DEF IInv, Tame
  <2>2. InMode(u)'
    <3>1. CASE u \in N
      <4>1. reads[u] = 0 /\ writes[u] = 0
        BY <1>1, <1>4, <3>1
      <4> QED
        BY <1>5, <1>6, <3>1, <4>1 DEF InMode
    <3>2. CASE u \notin N
      <4>1. Served'[u] > 0 => sema'.owner = sema.owner
        BY <1>4, <1>7, <3>2
      <4>2. Served'[u] = Served[u] /\ (Pending(u)' <=> Pending(u))
        BY <1>1, <1>6, <3>2
      <4> QED
        BY <1>6, <2>1, <4>1, <4>2 DEF InMode
    <3> QED
      BY <3>1, <3>2
  <2>3. Asks(u)'
    BY <1>4, <1>6, <2>1 DEF Asks
  <2>4. Rules(u)'
    BY <1>6, <1>8, <2>1 DEF Rules
  <2> QED
    BY <2>2, <2>3, <2>4 DEF Tame
<1>12. \A n : ~Waits(sema', t, n)
  <2>1. \A n : ~Waits(sema, t, n)
    BY DEF Waits, Queued
  <2> QED
    BY <1>4, <2>1
<1>13. Served'[t] > 0 => sema'.owner = sema.owner
  BY <1>4, <1>7
<1> QED
  BY <1>9, <1>10, <1>11, <1>12, <1>13

-----------------------------------------------------------------------------
(***************************************************************************)
(* What a step does to its task                                            *)
(***************************************************************************)
\* A call past its start is made on an object that is initialised.
LEMMA Past ==
  ASSUME IInv, NEW t \in Task, pc[t] \notin {"idle", "init"}, Only(t),
         valid' = valid, destroyed' = destroyed, pc'[t] # "init"
  PROVE  Started'
<1>1. valid
  BY DEF IInv, Started
<1>2. \A u \in Task : pc'[u] # "init"
  BY <1>1 DEF IInv, Started, Only
<1> QED
  BY <1>1, <1>2 DEF IInv, Started

\* Who is not in Busy does not wait.
LEMMA NotWaiting ==
  ASSUME IInv, NEW t \in Task, pc[t] \notin Busy
  PROVE  ~Queued(sema, t) /\ (\A n : ~Waits(sema, t, n)) /\ ~Pending(t) /\ Served[t] = Held(t)
<1>1. \A n \in BOOLEAN : ~Waits(sema, t, n)
  BY DEF IInv, Tame, Asks
<1>2. ~Queued(sema, t)
  BY <1>1, WaitsInOneMode DEF IInv, Accounts, Covers
<1>3. ~Pending(t)
  BY DEF Pending
<1>4. Served[t] = Held(t)
  BY <1>3, ServedLemma DEF IInv
<1> QED
  BY <1>2, <1>3, <1>4 DEF Waits, Queued

\* A call that gets its lock.
LEMMA Acquired ==
  ASSUME IInv, NEW t \in Task, pc[t] \notin {"idle", "init"}, call[t].form # "unlock", Acquire(t)
  PROVE  /\ Types' /\ Only(t) /\ Started' /\ Rules(t)'
         /\ ~Pending(t)' /\ Served'[t] = Held(t) + 1
         /\ IF call[t].shared THEN writes'[t] = 0 ELSE reads'[t] = 0
<1>1. Types /\ Rules(t)
  BY DEF IInv, Tame
<1>2. /\ pc' = [pc EXCEPT ![t] = "idle"]
      /\ call' = [call EXCEPT ![t] = NoCall]
      /\ timer' = [timer EXCEPT ![t] = "off"]
      /\ kind' = kind /\ valid' = valid /\ destroyed' = destroyed
  BY DEF Acquire, Return, Goto, objVars
<1>3. IF call[t].shared THEN reads' = [reads EXCEPT ![t] = reads[t] + 1] /\ writes' = writes
                        ELSE writes' = [writes EXCEPT ![t] = writes[t] + 1] /\ reads' = reads
  BY DEF Acquire
<1>4. NoCall \in Calls
  BY DEF NoCall, Calls, Form
<1>5. /\ reads' \in [Task -> Nat] /\ writes' \in [Task -> Nat]
      /\ \A u \in Task \ {t} : reads'[u] = reads[u] /\ writes'[u] = writes[u]
      /\ reads'[t] + writes'[t] = reads[t] + writes[t] + 1
      /\ IF call[t].shared THEN writes'[t] = writes[t] ELSE reads'[t] = reads[t]
  <2>1. CASE call[t].shared
    BY <1>1, <1>3, <2>1 DEF Types
  <2>2. CASE ~call[t].shared
    BY <1>1, <1>3, <2>2 DEF Types
  <2> QED
    BY <2>1, <2>2
<1>6. Types'
  BY <1>1, <1>2, <1>4, <1>5 DEF Types
<1>7. Only(t)
  BY <1>1, <1>2, <1>5 DEF Types, Only
<1>8. pc'[t] = "idle" /\ call'[t] = NoCall
  BY <1>1, <1>2 DEF Types
<1>9. Started'
  BY <1>2, <1>7, <1>8, Past
<1>10. ~Pending(t)'
  BY <1>8 DEF Pending, Busy
<1>11. Served'[t] = Held(t) + 1
  <2>1. Held(t)' = Held(t) + 1
    BY <1>5 DEF Held
  <2> QED
    BY <1>6, <1>10, <2>1, ServedNext
<1>12. IF call[t].shared THEN writes'[t] = 0 /\ ~IsMutex ELSE reads'[t] = 0
  BY <1>1, <1>5 DEF Rules
<1>13. Rules(t)'
  <2>1. IsMutex' <=> IsMutex
    BY <1>2 DEF IsMutex
  <2>2. ~NoCall.shared
    BY DEF NoCall
  <2>3. IsMutex' => reads'[t] = 0 /\ ~call'[t].shared
    BY <1>8, <1>12, <2>1, <2>2
  <2> QED
    BY <1>8, <2>3 DEF Rules
<1> QED
  BY <1>6, <1>7, <1>9, <1>10, <1>11, <1>12, <1>13

\* A call that returns without.
LEMMA Failed ==
  ASSUME IInv, NEW t \in Task, pc[t] \notin {"idle", "init"}, Fail(t)
  PROVE  /\ Types' /\ Only(t) /\ Started' /\ Rules(t)'
         /\ ~Pending(t)' /\ Served'[t] = Held(t)
         /\ reads' = reads /\ writes' = writes
<1>1. Types /\ Rules(t)
  BY DEF IInv, Tame
<1>2. /\ pc' = [pc EXCEPT ![t] = "idle"]
      /\ call' = [call EXCEPT ![t] = NoCall]
      /\ timer' = [timer EXCEPT ![t] = "off"]
      /\ kind' = kind /\ valid' = valid /\ destroyed' = destroyed
      /\ reads' = reads /\ writes' = writes
  BY DEF Fail, Return, Goto, objVars, heldVars
<1>4. NoCall \in Calls
  BY DEF NoCall, Calls, Form
<1>6. Types'
  BY <1>1, <1>2, <1>4 DEF Types
<1>7. Only(t)
  BY <1>1, <1>2 DEF Types, Only
<1>8. pc'[t] = "idle" /\ call'[t] = NoCall
  BY <1>1, <1>2 DEF Types
<1>9. Started'
  BY <1>2, <1>7, <1>8, Past
<1>10. ~Pending(t)'
  BY <1>8 DEF Pending, Busy
<1>11. Served'[t] = Held(t)
  <2>1. Held(t)' = Held(t)
    BY <1>2 DEF Held
  <2>2. Held(t) \in Nat
    BY <1>1, ServedLemma
  <2> QED
    BY <1>6, <1>10, <2>1, <2>2, ServedNext
<1>13. Rules(t)'
  <2>1. IsMutex' <=> IsMutex
    BY <1>2 DEF IsMutex
  <2>2. ~NoCall.shared
    BY DEF NoCall
  <2>3. IsMutex' => reads'[t] = 0 /\ ~call'[t].shared
    BY <1>1, <1>2, <1>8, <2>1, <2>2 DEF Rules
  <2> QED
    BY <1>8, <2>3 DEF Rules
<1> QED
  BY <1>2, <1>6, <1>7, <1>9, <1>10, <1>11, <1>13

\* A call that goes on.
LEMMA GoesOn ==
  ASSUME IInv, NEW t \in Task, pc[t] \notin {"idle", "init"}, call[t].form # "unlock",
         NEW k \in {"wait", "timed", "port", "vacate"}, Goto(t, k),
         kind' = kind, valid' = valid, destroyed' = destroyed,
         call' = call, reads' = reads, writes' = writes,
         timer' \in [Task -> {"off", "armed", "fired"}]
  PROVE  /\ Types' /\ Only(t) /\ Started' /\ Rules(t)' /\ pc'[t] = k
         /\ Served'[t] = Held(t) + IF k \in Busy /\ ~Queued(sema', t) THEN 1 ELSE 0
<1>1. Types /\ Rules(t)
  BY DEF IInv, Tame
<1>2. pc' = [pc EXCEPT ![t] = k]
  BY DEF Goto
<1>3. Types'
  BY <1>1, <1>2 DEF Types
<1>4. Only(t)
  BY <1>1, <1>2 DEF Types, Only
<1>5. pc'[t] = k
  BY <1>1, <1>2 DEF Types
<1>6. Started'
  BY <1>4, <1>5, Past
<1>7. Held(t)' = Held(t)
  BY DEF Held
<1>8. Served'[t] = Held(t) + IF k \in Busy /\ ~Queued(sema', t) THEN 1 ELSE 0
  <2>1. Served'[t] = Held(t)' + IF Pending(t)' THEN 1 ELSE 0
    BY <1>3, ServedNext
  <2>2. Pending(t)' <=> k \in Busy /\ ~Queued(sema', t)
    BY <1>5 DEF Pending
  <2> QED
    BY <1>7, <2>1, <2>2
<1>9. Rules(t)'
  <2>1. IsMutex' <=> IsMutex
    BY DEF IsMutex
  <2>2. IsMutex' => reads'[t] = 0 /\ ~call'[t].shared
    BY <1>1, <2>1 DEF Rules
  <2>3. IF call[t].shared THEN writes[t] = 0 ELSE reads[t] = 0
    BY <1>1 DEF Rules
  <2> QED
    BY <2>2, <2>3 DEF Rules
<1> QED
  BY <1>3, <1>4, <1>5, <1>6, <1>8, <1>9

-----------------------------------------------------------------------------
(***************************************************************************)
(* Each step keeps the invariant                                           *)
(***************************************************************************)
\* A call that returns an error, if nothing was served for it.
LEMMA FailStep ==
  ASSUME IInv, NEW t \in Task, pc[t] \in {"begin", "timed"}, Fail(t), sema' = sema
  PROVE  IInv'
<1>1. /\ Types' /\ Only(t) /\ Started' /\ Rules(t)'
      /\ ~Pending(t)' /\ Served'[t] = Held(t)
      /\ reads' = reads /\ writes' = writes
  BY Failed
<1>2. pc[t] \notin Busy
  BY DEF Busy
<1>3. (\A n : ~Waits(sema, t, n)) /\ Served[t] = Held(t)
  BY <1>2, NotWaiting
<1>4. Accounts' /\ Owned' /\ \A u \in Task \ {t} : Tame(u)'
  BY <1>1, <1>3, Quiet
<1>5. InMode(t)'
  <2>1. InMode(t)
    BY DEF IInv, Tame
  <2> QED
    BY <1>1, <1>3, <2>1 DEF InMode
<1>6. Asks(t)'
  BY <1>3 DEF Asks
<1>7. \A u \in Task : Tame(u)'
  BY <1>1, <1>4, <1>5, <1>6 DEF Tame
<1> QED
  BY <1>1, <1>4, <1>7 DEF IInv

\* A call that returns with what was served for it.
LEMMA TakeStep ==
  ASSUME IInv, NEW t \in Task, Pending(t), Acquire(t), sema' = sema
  PROVE  IInv'
<1>0. pc[t] \in Busy /\ ~Queued(sema, t)
  BY DEF Pending
<1>1. pc[t] \notin {"idle", "init", "begin"} /\ call[t].form # "unlock"
  <2>1. Rules(t)
    BY DEF IInv, Tame
  <2> QED
    BY <1>0, <2>1 DEF Rules, Busy
<1>2. /\ Types' /\ Only(t) /\ Started' /\ Rules(t)'
      /\ ~Pending(t)' /\ Served'[t] = Held(t) + 1
      /\ IF call[t].shared THEN writes'[t] = 0 ELSE reads'[t] = 0
  BY <1>1, Acquired
<1>3. Served[t] = Held(t) + 1 /\ Held(t) \in Nat
  BY ServedLemma DEF IInv
<1>4. Accounts' /\ Owned' /\ \A u \in Task \ {t} : Tame(u)'
  BY <1>2, <1>3, Quiet
<1>5. InMode(t)'
  <2>1. InMode(t)
    BY DEF IInv, Tame
  <2> QED
    BY <1>2, <1>3, <2>1 DEF InMode
<1>6. Asks(t)'
  BY <1>0 DEF Asks, Waits, Queued
<1>7. \A u \in Task : Tame(u)'
  BY <1>2, <1>4, <1>5, <1>6 DEF Tame
<1> QED
  BY <1>2, <1>4, <1>7 DEF IInv

\* A try that succeeds.
LEMMA TryStep ==
  ASSUME IInv, NEW t \in Task, pc[t] = "begin", call[t].form # "unlock",
         Free(t), ObtainFor(t), Acquire(t)
  PROVE  IInv'
<1>1. pc[t] \notin Busy
  BY DEF Busy
<1>2. (\A n : ~Waits(sema, t, n)) /\ Served[t] = Held(t)
  BY <1>1, NotWaiting
<1>3. /\ Types' /\ Only(t) /\ Started' /\ Rules(t)'
      /\ ~Pending(t)' /\ Served'[t] = Held(t) + 1
      /\ IF call[t].shared THEN writes'[t] = 0 ELSE reads'[t] = 0
  BY Acquired
<1>4. /\ Accounts' /\ Owned'
      /\ \A u \in Task \ {t} : Tame(u)'
      /\ \A u, m : Waits(sema', u, m) <=> Waits(sema, u, m)
      /\ sema'.owner = NoTask => call[t].shared
      /\ sema'.owner # NoTask => ~call[t].shared
  BY <1>2, <1>3, Granted
<1>5. InMode(t)'
  BY <1>3, <1>4 DEF InMode
<1>6. Asks(t)'
  BY <1>2, <1>4 DEF Asks
<1>7. \A u \in Task : Tame(u)'
  BY <1>3, <1>4, <1>5, <1>6 DEF Tame
<1> QED
  BY <1>3, <1>4, <1>7 DEF IInv

\* A call that goes on and leaves the semaphore alone.
LEMMA GoStep ==
  ASSUME IInv, NEW t \in Task, pc[t] \in {"begin", "port"}, call[t].form # "unlock",
         NEW k \in {"timed", "vacate"}, k = "vacate" <=> pc[t] = "port", Goto(t, k),
         UNCHANGED <<objVars, sema, call, timer, heldVars>>
  PROVE  IInv'
<1>1. /\ kind' = kind /\ valid' = valid /\ destroyed' = destroyed /\ sema' = sema
      /\ call' = call /\ timer' = timer /\ reads' = reads /\ writes' = writes
  BY DEF objVars, heldVars
<1>2. timer' \in [Task -> {"off", "armed", "fired"}]
  BY <1>1 DEF IInv, Types
<1>3. /\ Types' /\ Only(t) /\ Started' /\ Rules(t)' /\ pc'[t] = k
      /\ Served'[t] = Held(t) + IF k \in Busy /\ ~Queued(sema', t) THEN 1 ELSE 0
  BY <1>1, <1>2, GoesOn
<1>4. k \in Busy <=> pc[t] \in Busy
  BY DEF Busy
<1>5. Pending(t)' <=> Pending(t)
  BY <1>1, <1>3, <1>4 DEF Pending
<1>6. Served'[t] = Served[t]
  BY <1>1, <1>3, <1>4, ServedLemma DEF IInv, Pending
<1>7. Accounts' /\ Owned' /\ \A u \in Task \ {t} : Tame(u)'
  BY <1>1, <1>3, <1>6, Quiet
<1>8. InMode(t) /\ Asks(t)
  BY DEF IInv, Tame
<1>9. InMode(t)' /\ Asks(t)'
  BY <1>1, <1>3, <1>4, <1>5, <1>6, <1>8 DEF InMode, Asks
<1>10. \A u \in Task : Tame(u)'
  BY <1>3, <1>7, <1>9 DEF Tame
<1> QED
  BY <1>3, <1>7, <1>10 DEF IInv

\* A request that is granted or waits.
LEMMA AskStep ==
  ASSUME IInv, NEW t \in Task, pc[t] \in {"begin", "timed"}, call[t].form # "unlock",
         NEW k \in {"wait", "port"}, Goto(t, k), ObtainFor(t),
         UNCHANGED <<objVars, call, heldVars>>,
         timer' \in [Task -> {"off", "armed", "fired"}]
  PROVE  IInv'
<1>1. /\ kind' = kind /\ valid' = valid /\ destroyed' = destroyed
      /\ call' = call /\ reads' = reads /\ writes' = writes
  BY DEF objVars, heldVars
<1>2. /\ Types' /\ Only(t) /\ Started' /\ Rules(t)' /\ pc'[t] = k
      /\ Served'[t] = Held(t) + IF k \in Busy /\ ~Queued(sema', t) THEN 1 ELSE 0
  BY <1>1, GoesOn
<1>3. pc[t] \notin Busy /\ k \in Busy
  BY DEF Busy
<1>4. /\ ~Queued(sema, t) /\ (\A n : ~Waits(sema, t, n)) /\ Served[t] = Held(t)
      /\ Held(t) \in Nat /\ Rules(t)
  BY <1>3, NotWaiting, ServedLemma DEF IInv, Tame
<1>5. CASE Free(t)
  <2>1. sema'.queue = sema.queue
    <3>1. Orderly(sema) /\ call[t].shared \in BOOLEAN
      <4>1. call[t] \in Calls
        BY DEF IInv, Types
      <4> QED
        BY <4>1 DEF IInv, Accounts, Covers, Calls
    <3> QED
      BY <1>4, <1>5, <3>1, GrantedLemma DEF Free, ObtainFor
  <2>2. ~Queued(sema', t)
    BY <1>4, <2>1 DEF Queued
  <2>3. Served'[t] = Served[t] + 1
    BY <1>2, <1>3, <1>4, <2>2
  <2>4. /\ Accounts' /\ Owned'
        /\ \A u \in Task \ {t} : Tame(u)'
        /\ \A u, m : Waits(sema', u, m) <=> Waits(sema, u, m)
        /\ sema'.owner = NoTask => call[t].shared
        /\ sema'.owner # NoTask => ~call[t].shared
    BY <1>2, <1>5, <2>3, Granted
  <2>5. IF call[t].shared THEN writes[t] = 0 ELSE reads[t] = 0
    BY <1>4 DEF Rules
  <2>6. InMode(t)'
    BY <1>1, <2>4, <2>5 DEF InMode
  <2>7. Asks(t)'
    BY <1>4, <2>4 DEF Asks
  <2>8. \A u \in Task : Tame(u)'
    BY <1>2, <2>4, <2>6, <2>7 DEF Tame
  <2> QED
    BY <1>2, <2>4, <2>8 DEF IInv
<1>6. CASE ~Free(t)
  <2>1. Queued(sema', t)
    <3>1. Orderly(sema) /\ call[t].shared \in BOOLEAN
      <4>1. call[t] \in Calls
        BY DEF IInv, Types
      <4> QED
        BY <4>1 DEF IInv, Accounts, Covers, Calls
    <3> QED
      BY <1>4, <1>6, <3>1, DeniedLemma DEF Free, ObtainFor
  <2>2. Served'[t] = Served[t]
    BY <1>2, <1>4, <2>1
  <2>3. /\ Accounts' /\ Owned'
        /\ \A u \in Task \ {t} : Tame(u)'
        /\ \A n : Waits(sema', t, n) <=> n = call[t].shared
        /\ sema'.owner = sema.owner
    BY <1>2, <1>6, <2>2, Denied
  <2>4. ~Pending(t)'
    BY <2>1 DEF Pending
  <2>5. InMode(t)'
    <3>1. InMode(t)
      BY DEF IInv, Tame
    <3> QED
      BY <1>1, <2>2, <2>3, <2>4, <3>1 DEF InMode
  <2>6. Asks(t)'
    BY <1>1, <1>2, <1>3, <2>3 DEF Asks
  <2>7. \A u \in Task : Tame(u)'
    BY <1>2, <2>3, <2>5, <2>6 DEF Tame
  <2> QED
    BY <1>2, <2>3, <2>7 DEF IInv
<1> QED
  BY <1>5, <1>6

\* The first try of pthread_mutex_timedlock: if it succeeds, the count is
\* never given back.
LEMMA LeakStep ==
  ASSUME IInv, NEW t \in Task, pc[t] = "begin", call[t].form # "unlock", IsMutex,
         Free(t), ObtainFor(t), Goto(t, "timed"),
         UNCHANGED <<objVars, call, timer, heldVars>>
  PROVE  IInv'
<1>1. /\ kind' = kind /\ valid' = valid /\ destroyed' = destroyed
      /\ call' = call /\ timer' = timer /\ reads' = reads /\ writes' = writes
  BY DEF objVars, heldVars
<1>2. timer' \in [Task -> {"off", "armed", "fired"}]
  BY <1>1 DEF IInv, Types
<1>3. /\ Types' /\ Only(t) /\ Started' /\ Rules(t)' /\ pc'[t] = "timed"
      /\ Served'[t] = Held(t) + IF "timed" \in Busy /\ ~Queued(sema', t) THEN 1 ELSE 0
  BY <1>1, <1>2, GoesOn
<1>4. pc[t] \notin Busy /\ "timed" \notin Busy
  BY DEF Busy
<1>5. (\A n : ~Waits(sema, t, n)) /\ Served[t] = Held(t) /\ Held(t) \in Nat
  BY <1>4, NotWaiting, ServedLemma DEF IInv
<1>6. Served'[t] = Served[t]
  BY <1>3, <1>4, <1>5
<1>7. /\ Accounts' /\ Owned'
      /\ \A u \in Task \ {t} : Tame(u)'
      /\ \A u, m : Waits(sema', u, m) <=> Waits(sema, u, m)
      /\ sema'.owner = NoTask => call[t].shared
      /\ sema'.owner # NoTask => ~call[t].shared
  BY <1>3, <1>6, Granted
<1>8. ~call[t].shared /\ reads[t] = 0
  BY DEF IInv, Tame, Rules
<1>9. ~Pending(t)'
  BY <1>3, <1>4 DEF Pending
<1>10. InMode(t)'
  BY <1>1, <1>7, <1>8, <1>9 DEF InMode
<1>11. Asks(t)'
  BY <1>5, <1>7 DEF Asks
<1>12. \A u \in Task : Tame(u)'
  BY <1>3, <1>7, <1>10, <1>11 DEF Tame
<1> QED
  BY <1>3, <1>7, <1>12 DEF IInv

\* An unlock that releases the semaphore.
LEMMA GiveBackStep ==
  ASSUME IInv, NEW t \in Task, pc[t] = "begin", call[t].form = "unlock", GiveBack(t),
         Held(t) > 0 \/ (IsMutex /\ sema.owner = t)
  PROVE  IInv'
<1>1. Types /\ Rules(t) /\ InMode(t)
  BY DEF IInv, Tame
<1>2. /\ pc' = [pc EXCEPT ![t] = "idle"]
      /\ call' = [call EXCEPT ![t] = NoCall]
      /\ timer' = [timer EXCEPT ![t] = "off"]
      /\ kind' = kind /\ valid' = valid /\ destroyed' = destroyed
      /\ sema' = Release(sema)
  BY DEF GiveBack, Return, Goto, objVars
<1>3. IF call[t].shared THEN reads' = [reads EXCEPT ![t] = Less(reads[t])] /\ writes' = writes
                        ELSE writes' = [writes EXCEPT ![t] = Less(writes[t])] /\ reads' = reads
  BY DEF GiveBack
<1>4. NoCall \in Calls
  BY DEF NoCall, Calls, Form
<1>5. call[t].shared <=> reads[t] > 0
  BY <1>1 DEF Rules
<1>6. /\ reads' \in [Task -> Nat] /\ writes' \in [Task -> Nat]
      /\ \A u \in Task \ {t} : reads'[u] = reads[u] /\ writes'[u] = writes[u]
      /\ reads'[t] + writes'[t] = Left(reads[t] + writes[t])
      /\ reads[t] = 0 => reads'[t] = 0
      /\ writes[t] = 0 => writes'[t] = 0
  <2>0. reads[t] \in Nat /\ writes[t] \in Nat
    BY <1>1 DEF Types
  <2>1. CASE call[t].shared
    <3>1. Less(reads[t]) = reads[t] - 1 /\ Left(reads[t] + writes[t]) = reads[t] + writes[t] - 1
      BY <1>5, <2>0, <2>1 DEF Less, Left
    <3> QED
      BY <1>1, <1>3, <1>5, <2>0, <2>1, <3>1 DEF Types
  <2>2. CASE ~call[t].shared
    <3>1. Less(writes[t]) \in Nat /\ reads[t] = 0 /\ Less(writes[t]) = Left(reads[t] + writes[t])
      BY <1>5, <2>0, <2>2 DEF Less, Left
    <3>2. writes[t] = 0 => Less(writes[t]) = 0
      BY DEF Less
    <3> QED
      BY <1>1, <1>3, <2>0, <2>2, <3>1, <3>2 DEF Types
  <2> QED
    BY <2>1, <2>2
<1>7. Types'
  BY <1>1, <1>2, <1>4, <1>6 DEF Types
<1>8. Only(t)
  BY <1>1, <1>2, <1>6 DEF Types, Only
<1>9. pc'[t] = "idle" /\ call'[t] = NoCall
  BY <1>1, <1>2 DEF Types
<1>10. Started'
  BY <1>2, <1>8, <1>9, Past
<1>11. ~Pending(t)'
  BY <1>9 DEF Pending, Busy
<1>12. ~Queued(sema, t) /\ Served[t] = Held(t)
  <2>1. pc[t] \notin Busy
    BY DEF Busy
  <2> QED
    BY <2>1, NotWaiting
<1>13. Served'[t] = Left(Served[t])
  <2>1. Held(t)' = Left(Held(t))
    BY <1>6 DEF Held
  <2>2. Served'[t] = Held(t)' /\ Held(t)' \in Nat
    BY <1>7, <1>11, ServedNext
  <2> QED
    BY <1>12, <2>1, <2>2
<1>14. /\ Accounts' /\ Owned'
       /\ \A u \in Task \ {t} : Tame(u)'
       /\ \A n : ~Waits(sema', t, n)
       /\ Served'[t] > 0 => sema'.owner = sema.owner
  <2>1. Served[t] > 0 \/ sema.owner = t
    BY <1>12
  <2>2. Served[t] = 0 => IsMutex
    BY <1>12
  <2> QED
    BY <1>2, <1>7, <1>8, <1>12, <1>13, <2>1, <2>2, GivenBack
<1>15. InMode(t)'
  <2>1. Served[t] \in Nat
    BY <1>1, ServedLemma
  <2>2. Served'[t] > 0 => Served[t] > 0
    BY <1>13, <2>1 DEF Left
  <2> QED
    BY <1>1, <1>6, <1>11, <1>14, <2>2 DEF InMode
<1>16. Asks(t)'
  BY <1>14 DEF Asks
<1>17. Rules(t)'
  <2>1. IsMutex' <=> IsMutex
    BY <1>2 DEF IsMutex
  <2>2. ~NoCall.shared
    BY DEF NoCall
  <2>3. IsMutex' => reads'[t] = 0 /\ ~call'[t].shared
    BY <1>1, <1>6, <1>9, <2>1, <2>2 DEF Rules
  <2> QED
    BY <1>9, <2>3 DEF Rules
<1>18. \A u \in Task : Tame(u)'
  BY <1>14, <1>15, <1>16, <1>17 DEF Tame
<1> QED
  BY <1>7, <1>10, <1>14, <1>18 DEF IInv

\* A timed call that is over time takes its request back, or releases what
\* was served meanwhile.
LEMMA TimedOutStep ==
  ASSUME IInv, NEW t \in Task, TimedOut(t)
  PROVE  IInv'
<1>0. pc[t] = "vacate" /\ sema' = Vacate(sema, t) /\ Fail(t)
  BY DEF TimedOut
<1>1. /\ Types' /\ Only(t) /\ Started' /\ Rules(t)'
      /\ ~Pending(t)' /\ Served'[t] = Held(t)
      /\ reads' = reads /\ writes' = writes
  BY <1>0, Failed
<1>2. InMode(t) /\ Held(t) \in Nat /\ Served[t] = Held(t) + IF Pending(t) THEN 1 ELSE 0
  BY ServedLemma DEF IInv, Tame
<1>3. Pending(t) <=> ~Queued(sema, t)
  BY <1>0 DEF Pending, Busy
<1>4. CASE Queued(sema, t)
  <2>1. sema' = Withdraw(sema, t)
    BY <1>0, <1>4 DEF Vacate
  <2>2. Served'[t] = Served[t]
    BY <1>1, <1>2, <1>3, <1>4
  <2>3. /\ Accounts' /\ Owned'
        /\ \A u \in Task \ {t} : Tame(u)'
        /\ \A n : ~Waits(sema', t, n)
        /\ sema'.owner = sema.owner
    BY <1>1, <1>4, <2>1, <2>2, TakenBack
  <2>4. InMode(t)' /\ Asks(t)'
    BY <1>1, <1>2, <2>2, <2>3 DEF InMode, Asks
  <2>5. \A u \in Task : Tame(u)'
    BY <1>1, <2>3, <2>4 DEF Tame
  <2> QED
    BY <1>1, <2>3, <2>5 DEF IInv
<1>5. CASE ~Queued(sema, t)
  <2>1. sema' = Release(sema)
    BY <1>0, <1>5 DEF Vacate
  <2>2. Served[t] = Held(t) + 1
    BY <1>2, <1>3, <1>5
  <2>3. Served[t] > 0 /\ Served'[t] = Left(Served[t])
    BY <1>1, <1>2, <2>2 DEF Left
  <2>4. /\ Accounts' /\ Owned'
        /\ \A u \in Task \ {t} : Tame(u)'
        /\ \A n : ~Waits(sema', t, n)
        /\ Served'[t] > 0 => sema'.owner = sema.owner
    <3>1. ~(Served[t] = 0)
      BY <2>3
    <3> QED
      BY <1>1, <1>5, <2>1, <2>3, <3>1, GivenBack
  <2>5. InMode(t)' /\ Asks(t)'
    BY <1>1, <1>2, <2>3, <2>4 DEF InMode, Asks
  <2>6. \A u \in Task : Tame(u)'
    BY <1>1, <2>4, <2>5 DEF Tame
  <2> QED
    BY <1>1, <2>4, <2>6 DEF IInv
<1> QED
  BY <1>4, <1>5

\* A task enters a call.
LEMMA CallStep ==
  ASSUME IInv, NEW t \in Task, Call(t)
  PROVE  IInv'
<1>1. PICK c \in Calls :
        /\ pc[t] = "idle" /\ ~destroyed /\ MayCall(t, c)
        /\ call' = [call EXCEPT ![t] = c]
        /\ Goto(t, IF valid THEN "begin" ELSE "init")
        /\ UNCHANGED <<objVars, sema, timer, heldVars>>
  BY DEF Call
<1>2. /\ kind' = kind /\ valid' = valid /\ destroyed' = destroyed /\ sema' = sema
      /\ timer' = timer /\ reads' = reads /\ writes' = writes
      /\ pc' = [pc EXCEPT ![t] = IF valid THEN "begin" ELSE "init"]
  BY <1>1 DEF objVars, heldVars, Goto
<1>3. Types /\ Rules(t) /\ InMode(t)
  BY DEF IInv, Tame
<1>4. Types'
  BY <1>1, <1>2, <1>3 DEF Types
<1>5. Only(t) /\ call'[t] = c /\ pc'[t] = IF valid THEN "begin" ELSE "init"
  BY <1>1, <1>2, <1>3 DEF Types, Only
<1>6. (\A n : ~Waits(sema, t, n)) /\ Served[t] = Held(t) /\ Held(t) \in Nat
  <2>1. pc[t] \notin Busy
    BY <1>1 DEF Busy
  <2> QED
    BY <1>3, <2>1, NotWaiting, ServedLemma
<1>7. ~Pending(t)'
  BY <1>5 DEF Pending, Busy
<1>8. Held(t)' = Held(t)
  BY <1>2 DEF Held
<1>9. Served'[t] = Served[t]
  BY <1>4, <1>6, <1>7, <1>8, ServedNext
<1>10. Accounts' /\ Owned' /\ \A u \in Task \ {t} : Tame(u)'
  BY <1>2, <1>4, <1>5, <1>9, Quiet
<1>11. InMode(t)' /\ Asks(t)'
  BY <1>2, <1>3, <1>6, <1>7, <1>9 DEF InMode, Asks
<1>12. Rules(t)'
  <2>1. IsMutex' <=> IsMutex
    BY <1>2 DEF IsMutex
  <2>2. /\ IsMutex => ~c.shared
        /\ IF c.form = "unlock"
           THEN (c.shared <=> reads[t] > 0) /\ (kind \in {"NORMAL", "RWLOCK"} => Held(t) > 0)
           ELSE IF c.shared THEN writes[t] = 0 ELSE reads[t] = 0
    BY <1>1 DEF MayCall
  <2>3. IsMutex => reads[t] = 0
    BY <1>3 DEF Rules
  <2> QED
    BY <1>2, <1>5, <1>8, <2>1, <2>2, <2>3 DEF Rules
<1>13. Started'
  <2>1. Started
    BY DEF IInv
  <2>2. \A u \in Task : Held(u)' = Held(u)
    BY <1>2 DEF Held
  <2>3. CASE valid
    <3>1. \A u \in Task : pc'[u] # "init"
      BY <1>5, <2>1, <2>3 DEF Started, Only
    <3> QED
      BY <1>2, <2>1, <2>3, <3>1 DEF Started
  <2>4. CASE ~valid
    <3>1. t \in Starters
      BY <1>1, <2>4 DEF MayCall
    <3>2. \A u \in Task : pc'[u] \in {"idle", "init"}
      BY <1>5, <2>1, <2>4 DEF Started, Only
    <3>3. \A u \in Task : pc'[u] = "init" => u \in Starters
      BY <1>5, <2>1, <3>1 DEF Started, Only
    <3> QED
      BY <1>1, <1>2, <2>1, <2>2, <2>4, <3>2, <3>3 DEF Started
  <2> QED
    BY <2>3, <2>4
<1>14. \A u \in Task : Tame(u)'
  BY <1>10, <1>11, <1>12 DEF Tame
<1> QED
  BY <1>4, <1>10, <1>13, <1>14 DEF IInv

\* A static object is initialised.
LEMMA InitStaticStep ==
  ASSUME IInv, NEW t \in Task, InitStatic(t)
  PROVE  IInv'
<1>1. /\ pc[t] = "init" /\ sema' = FreeSemaphore /\ valid' = TRUE
      /\ pc' = [pc EXCEPT ![t] = "begin"]
      /\ kind' = kind /\ destroyed' = destroyed /\ call' = call
      /\ timer' = timer /\ reads' = reads /\ writes' = writes
  BY DEF InitStatic, Goto, heldVars
<1>2. Started /\ Types /\ Rules(t) /\ InMode(t)
  BY DEF IInv, Tame
<1>3. /\ ~valid /\ ~destroyed /\ sema' = sema
      /\ \A a, b \in Starters : a = b
      /\ \A u \in Task : pc[u] = "init" => u = t
  BY <1>1, <1>2 DEF Started
<1>4. Types'
  BY <1>1, <1>2 DEF Types
<1>5. Only(t) /\ pc'[t] = "begin"
  BY <1>1, <1>2 DEF Types, Only
<1>6. (\A n : ~Waits(sema, t, n)) /\ Served[t] = Held(t) /\ Held(t) \in Nat
  <2>1. pc[t] \notin Busy
    BY <1>1 DEF Busy
  <2> QED
    BY <1>2, <2>1, NotWaiting, ServedLemma
<1>7. ~Pending(t)'
  BY <1>5 DEF Pending, Busy
<1>8. Held(t)' = Held(t)
  BY <1>1 DEF Held
<1>9. Served'[t] = Served[t]
  BY <1>4, <1>6, <1>7, <1>8, ServedNext
<1>10. Accounts' /\ Owned' /\ \A u \in Task \ {t} : Tame(u)'
  BY <1>3, <1>4, <1>5, <1>9, Quiet
<1>11. InMode(t)' /\ Asks(t)'
  BY <1>1, <1>2, <1>3, <1>6, <1>7, <1>9 DEF InMode, Asks
<1>12. Rules(t)'
  <2>1. IsMutex' <=> IsMutex
    BY <1>1 DEF IsMutex
  <2> QED
    BY <1>1, <1>2, <1>5, <1>8, <2>1 DEF Rules
<1>13. Started'
  <2>1. \A u \in Task : pc'[u] # "init"
    BY <1>3, <1>5 DEF Only
  <2> QED
    BY <1>1, <1>3, <2>1 DEF Started
<1>14. \A u \in Task : Tame(u)'
  BY <1>10, <1>11, <1>12 DEF Tame
<1> QED
  BY <1>4, <1>10, <1>13, <1>14 DEF IInv

\* The deadline of a timed call passes.
LEMMA TimerStep ==
  ASSUME IInv, NEW t \in Task, TimerFires(t)
  PROVE  IInv'
<1>1. /\ kind' = kind /\ valid' = valid /\ destroyed' = destroyed /\ sema' = sema
      /\ pc' = pc /\ call' = call /\ reads' = reads /\ writes' = writes
      /\ timer' = [timer EXCEPT ![t] = "fired"]
  BY DEF TimerFires, objVars, heldVars
<1>2. Types'
  BY <1>1 DEF IInv, Types
<1>3. Only(t)
  BY <1>1 DEF Only
<1>4. Held(t)' = Held(t) /\ (Pending(t)' <=> Pending(t))
  BY <1>1 DEF Held, Pending
<1>5. Served'[t] = Served[t]
  BY <1>2, <1>4, ServedLemma, ServedNext DEF IInv
<1>6. Accounts' /\ Owned' /\ \A u \in Task \ {t} : Tame(u)'
  BY <1>1, <1>2, <1>3, <1>5, Quiet
<1>7. Tame(t)'
  <2>1. InMode(t) /\ Asks(t) /\ Rules(t) /\ (IsMutex' <=> IsMutex)
    BY <1>1 DEF IInv, Tame, IsMutex
  <2> QED
    BY <1>1, <1>4, <1>5, <2>1 DEF Tame, InMode, Asks, Rules
<1>8. Started'
  BY <1>1 DEF IInv, Started, Held
<1> QED
  BY <1>2, <1>6, <1>7, <1>8 DEF IInv

\* The object is destroyed.
LEMMA DestroyStep ==
  ASSUME IInv, NEW t \in Task, Destroy(t)
  PROVE  IInv'
<1>1. /\ Held(t) = 0 /\ (\A u \in Task : pc[u] = "idle")
      /\ valid => Grants(sema, t, FALSE)
      /\ destroyed' = TRUE /\ valid' = FALSE /\ sema' = FreeSemaphore
      /\ kind' = kind /\ pc' = pc /\ call' = call /\ timer' = timer
      /\ reads' = reads /\ writes' = writes
  BY DEF Destroy, MayDestroy, heldVars
<1>2. Types /\ Started /\ Covers(sema, Served)
  BY DEF IInv, Accounts
<1>3. Types'
  BY <1>1, <1>2 DEF Types
<1>4. \A u \in Task : /\ ~Pending(u) /\ ~Pending(u)' /\ Held(u)' = Held(u)
                      /\ Served[u] = Held(u) /\ Held(u) \in Nat
  <2>1. \A u \in Task : ~Pending(u) /\ ~Pending(u)'
    BY <1>1 DEF Pending, Busy
  <2>2. \A u \in Task : Held(u)' = Held(u)
    BY <1>1 DEF Held
  <2> QED
    BY <1>2, <2>1, <2>2, ServedLemma
<1>5. \A u \in Task : Held(u) = 0
  <2>1. CASE ~valid
    BY <1>2, <2>1 DEF Started
  <2>2. CASE valid /\ sema.nest = 0
    BY <1>2, <1>4, <2>2, NothingCounted
  <2>3. CASE valid /\ sema.nest # 0
    <3>1. sema.owner = t
      BY <1>1, <2>3 DEF Grants
    <3>2. \A u \in Task : Served[u] > 0 => sema.owner \in {u, NoTask}
      BY <1>2 DEF Covers
    <3>3. \A u \in Task : Held(u) > 0 => u = t
      BY <1>4, <3>1, <3>2, NoTaskAssumption
    <3> QED
      BY <1>1, <1>4, <3>3
  <2> QED
    BY <2>1, <2>2, <2>3
<1>6. Served' \in [Task -> Nat] /\ \A u \in Task : Served'[u] = 0
  BY <1>3, <1>4, <1>5, ServedNext
<1>7. Accounts'
  BY <1>1, <1>6, FreeCounted DEF Accounts
<1>8. Owned'
  BY <1>1 DEF Owned, FreeSemaphore
<1>9. ASSUME NEW u \in Task PROVE Tame(u)'
  <2>1. InMode(u)'
    BY <1>6 DEF InMode
  <2>2. Asks(u)'
    BY <1>1, FreeOrderly DEF Asks
  <2>3. Rules(u)'
    <3>1. Rules(u) /\ (IsMutex' <=> IsMutex)
      BY <1>1 DEF IInv, Tame, IsMutex
    <3> QED
      BY <1>1, <3>1 DEF Rules
  <2> QED
    BY <2>1, <2>2, <2>3 DEF Tame
<1>10. Started'
  BY <1>1, <1>4, <1>5 DEF Started
<1> QED
  BY <1>3, <1>7, <1>8, <1>9, <1>10 DEF IInv

-----------------------------------------------------------------------------
(***************************************************************************)
(* The theorems                                                            *)
(***************************************************************************)
\* The invariant holds at first.
LEMMA InitInv ==
  ASSUME SafeStart, Init
  PROVE  IInv
<1>1. /\ kind \in AllKinds /\ valid \in BOOLEAN /\ (~valid => TRUE \in Static)
      /\ sema = FreeSemaphore /\ destroyed = FALSE
      /\ pc = [t \in Task |-> "idle"] /\ call = [t \in Task |-> NoCall]
      /\ timer = [t \in Task |-> "off"]
      /\ reads = [t \in Task |-> 0] /\ writes = [t \in Task |-> 0]
  BY KindsAssumption, StaticAssumption DEF Init
<1>2. NoCall \in Calls /\ ~NoCall.shared
  BY DEF NoCall, Calls, Form
<1>3. Types
  BY <1>1, <1>2 DEF Types
<1>4. \A t \in Task : Held(t) = 0 /\ ~Pending(t)
  BY <1>1 DEF Held, Pending, Busy
<1>5. Served \in [Task -> Nat] /\ \A t \in Task : Served[t] = 0
  BY <1>3, <1>4, ServedLemma
<1>6. Accounts
  BY <1>1, <1>5, FreeCounted DEF Accounts
<1>7. Owned
  BY <1>1 DEF Owned, FreeSemaphore
<1>8. ASSUME NEW t \in Task PROVE Tame(t)
  <2>1. InMode(t)
    BY <1>5 DEF InMode
  <2>2. Asks(t)
    BY <1>1, FreeOrderly DEF Asks
  <2>3. Rules(t)
    BY <1>1, <1>2 DEF Rules
  <2> QED
    BY <2>1, <2>2, <2>3 DEF Tame
<1>9. Started
  <2>1. \A t \in Task : pc[t] = "idle"
    BY <1>1
  <2>2. ~valid => \A a, b \in Starters : a = b
    BY <1>1 DEF SafeStart
  <2> QED
    BY <1>1, <1>4, <2>1, <2>2 DEF Started
<1> QED
  BY <1>3, <1>6, <1>7, <1>8, <1>9 DEF IInv

\* Every step of a call keeps the invariant.
LEMMA StepInv ==
  ASSUME IInv, NEW t \in Task, Step(t)
  PROVE  IInv'
<1>1. CASE InitStatic(t)
  BY <1>1, InitStaticStep
<1>2. CASE Refuse(t)
  BY <1>2, FailStep DEF Refuse
<1>3. CASE MutexLock(t) \/ RWLock(t)
  <2>1. /\ pc[t] = "begin" /\ call[t].form # "unlock" /\ Goto(t, "wait") /\ ObtainFor(t)
        /\ UNCHANGED <<objVars, call, heldVars>> /\ timer' = timer
    BY <1>3 DEF MutexLock, RWLock, Enqueue, In
  <2>2. timer' \in [Task -> {"off", "armed", "fired"}]
    BY <2>1 DEF IInv, Types
  <2> QED
    BY <2>1, <2>2, AskStep
<1>4. CASE LockReturn(t)
  <2>1. Pending(t) /\ Acquire(t) /\ sema' = sema
    BY <1>4 DEF LockReturn, Pending, Busy
  <2> QED
    BY <2>1, TakeStep
<1>5. CASE MutexTryLock(t) \/ RWTryLock(t)
  <2>1. pc[t] = "begin" /\ call[t].form # "unlock" /\ Attempt(t)
    BY <1>5 DEF MutexTryLock, RWTryLock, In
  <2>2. CASE Free(t) /\ ObtainFor(t) /\ Acquire(t)
    BY <2>1, <2>2, TryStep
  <2>3. CASE Fail(t) /\ sema' = sema
    BY <2>1, <2>3, FailStep
  <2> QED
    BY <2>1, <2>2, <2>3 DEF Attempt
<1>6. CASE MutexTimedTry(t)
  <2>1. /\ pc[t] = "begin" /\ call[t].form # "unlock" /\ IsMutex
        /\ IF Free(t) THEN ObtainFor(t) ELSE sema' = sema
        /\ Goto(t, "timed") /\ UNCHANGED <<objVars, call, timer, heldVars>>
    BY <1>6 DEF MutexTimedTry, In
  <2>2. CASE Free(t)
    BY <2>1, <2>2, LeakStep
  <2>3. CASE ~Free(t)
    BY <2>1, <2>3, GoStep
  <2> QED
    BY <2>2, <2>3
<1>7. CASE RWTimedTry(t)
  <2>1. pc[t] = "begin" /\ call[t].form # "unlock"
    BY <1>7 DEF RWTimedTry, In
  <2>2. CASE Free(t) /\ ObtainFor(t) /\ Acquire(t)
    BY <2>1, <2>2, TryStep
  <2>3. CASE Goto(t, "timed") /\ UNCHANGED <<objVars, sema, call, timer, heldVars>>
    BY <2>1, <2>3, GoStep
  <2> QED
    BY <1>7, <2>2, <2>3 DEF RWTimedTry
<1>8. CASE TimedGiveUp(t)
  BY <1>8, FailStep DEF TimedGiveUp
<1>r. pc[t] \in {"timed", "port"} => call[t].form # "unlock"
  <2>1. Rules(t)
    BY DEF IInv, Tame
  <2> QED
    BY <2>1 DEF Rules
<1>9. CASE Procure(t)
  <2>1. /\ pc[t] = "timed" /\ Goto(t, "port") /\ ObtainFor(t)
        /\ UNCHANGED <<objVars, call, heldVars>>
        /\ timer' = [timer EXCEPT ![t] = "armed"]
    BY <1>9 DEF Procure
  <2>2. timer' \in [Task -> {"off", "armed", "fired"}]
    BY <2>1 DEF IInv, Types
  <2> QED
    BY <1>r, <2>1, <2>2, AskStep
<1>10. CASE Collect(t)
  <2>1. CASE timer[t] = "armed" /\ Acquire(t)
    <3>1. pc[t] = "port" /\ ~Queued(sema, t) /\ sema' = sema
      BY <1>10, <2>1 DEF Collect, Arrived
    <3>2. Pending(t)
      BY <3>1 DEF Pending, Busy
    <3> QED
      BY <2>1, <3>1, <3>2, TakeStep
  <2>2. CASE Goto(t, "vacate") /\ UNCHANGED <<objVars, call, timer, heldVars>>
    <3>1. pc[t] = "port" /\ sema' = sema
      BY <1>10 DEF Collect
    <3> QED
      BY <1>r, <2>2, <3>1, GoStep
  <2> QED
    BY <1>10, <2>1, <2>2 DEF Collect
<1>11. CASE TimedOut(t)
  BY <1>11, TimedOutStep
<1>12. CASE MutexUnlock(t)
  <2>1. pc[t] = "begin" /\ call[t].form = "unlock" /\ IsMutex
    BY <1>12 DEF MutexUnlock, In
  <2>2. CASE NotOwner(t)
    BY <1>12, <2>1, <2>2, FailStep DEF MutexUnlock
  <2>3. CASE ~NotOwner(t)
    <3>1. GiveBack(t)
      BY <1>12, <2>3 DEF MutexUnlock
    <3>2. Held(t) > 0 \/ sema.owner = t
      <4>1. Rules(t)
        BY DEF IInv, Tame
      <4> QED
        BY <2>1, <2>3, <4>1 DEF NotOwner, Mine, Rules
    <3> QED
      BY <2>1, <3>1, <3>2, GiveBackStep
  <2> QED
    BY <2>2, <2>3
<1>13. CASE RWUnlock(t)
  <2>1. pc[t] = "begin" /\ call[t].form = "unlock" /\ ~IsMutex
    BY <1>13 DEF RWUnlock, In
  <2>2. CASE sema.nest < 1
    BY <1>13, <2>1, <2>2, FailStep DEF RWUnlock
  <2>3. CASE ~(sema.nest < 1)
    <3>1. GiveBack(t)
      BY <1>13, <2>3 DEF RWUnlock
    <3>2. Held(t) > 0
      <4>1. Rules(t)
        BY DEF IInv, Tame
      <4> QED
        BY <2>1, <4>1 DEF Rules, IsMutex
    <3> QED
      BY <2>1, <3>1, <3>2, GiveBackStep
  <2> QED
    BY <2>2, <2>3
<1> QED
  BY <1>1, <1>2, <1>3, <1>4, <1>5, <1>6, <1>7, <1>8, <1>9, <1>10, <1>11, <1>12, <1>13 DEF Step

\* IInv is an invariant.
THEOREM Invariance ==
  ASSUME SafeStart
  PROVE  Spec => []IInv
<1>1. Init => IInv
  BY InitInv
<1>2. IInv /\ [Next]_vars => IInv'
  <2> SUFFICES ASSUME IInv, [Next]_vars PROVE IInv'
    OBVIOUS
  <2>1. CASE Next
    <3>1. PICK t \in Task : Call(t) \/ Step(t) \/ TimerFires(t) \/ Destroy(t)
      BY <2>1 DEF Next
    <3> QED
      BY <3>1, CallStep, StepInv, TimerStep, DestroyStep
  <2>2. CASE UNCHANGED vars
    <3>1. /\ kind' = kind /\ valid' = valid /\ destroyed' = destroyed /\ sema' = sema
          /\ pc' = pc /\ call' = call /\ timer' = timer
          /\ reads' = reads /\ writes' = writes
      BY <2>2 DEF vars, objVars, heldVars
    <3> QED
      BY <3>1 DEF IInv, Types, Accounts, Owned, Tame, InMode, Asks, Rules, Started,
                  Served, Held, Pending, IsMutex
  <2> QED
    BY <2>1, <2>2
<1> QED
  BY <1>1, <1>2, PTL DEF Spec

\* The variables keep their types: in particular ss_NestCount never goes
\* below zero.
THEOREM TypeCorrect ==
  ASSUME SafeStart
  PROVE  Spec => []TypeOK
<1>1. IInv => TypeOK
  BY OrderlyTypes DEF IInv, Types, TypeOK, Accounts, Covers, Orderly
<1> QED
  BY <1>1, Invariance, PTL

\* A lock held for writing, and a mutex, is held by one task, whichever calls
\* time out, and whoever the semaphore is handed over to.
THEOREM LocksExclude ==
  ASSUME SafeStart
  PROVE  Spec => []Exclusive
<1>1. IInv => Exclusive
  <2> SUFFICES ASSUME IInv, NEW t \in Task, writes[t] > 0,
                      NEW u \in Task \ {t}, Held(u) # 0
               PROVE  FALSE
    BY DEF Exclusive
  <2>1. /\ Held(t) > 0 /\ Held(u) > 0 /\ Served[t] > 0 /\ Served[u] > 0
    <3>1. \A v \in Task : /\ Held(v) \in Nat /\ reads[v] \in Nat /\ writes[v] \in Nat
                          /\ Held(v) = reads[v] + writes[v]
                          /\ Served[v] = Held(v) + IF Pending(v) THEN 1 ELSE 0
      BY ServedLemma DEF IInv
    <3>2. Held(t) > 0 /\ Held(u) > 0
      BY <3>1
    <3> QED
      BY <3>1, <3>2
  <2>2. sema.owner # NoTask
    <3>1. InMode(t)
      BY DEF IInv, Tame
    <3> QED
      BY <2>1, <3>1 DEF InMode
  <2>3. sema.owner \in {t, NoTask} /\ sema.owner \in {u, NoTask}
    BY <2>1 DEF IInv, Accounts, Covers
  <2> QED
    BY <2>2, <2>3
<1> QED
  BY <1>1, Invariance, PTL

\* ss_NestCount covers every lock that is held or about to be, a timed call
\* that failed has left no request behind, and nobody waits for a free lock.
THEOREM CountsAreRight ==
  ASSUME SafeStart
  PROVE  Spec => []NestAccounted
<1>1. IInv => NestAccounted
  <2> SUFFICES ASSUME IInv PROVE NestAccounted
    OBVIOUS
  <2>1. Taken = Pairs(Served)
    BY DEF Taken, Pairs
  <2>2. /\ Orderly(sema) /\ Cardinality(Taken) <= sema.nest
        /\ Cardinality(Taken) \in Nat /\ sema.nest \in Nat
        /\ ~IsMutex => sema.nest = Cardinality(Taken)
    BY <2>1, OrderlyTypes, FS_CardinalityType DEF IInv, Accounts, Covers, Exact
  <2>3. IF IsMutex THEN sema.nest >= Cardinality(Taken) ELSE sema.nest = Cardinality(Taken)
    BY <2>2
  <2>4. sema.queue # <<>> => sema.nest > 0
    <3>1. sema.nest = 0 => sema.queue = <<>>
      BY <2>2 DEF Orderly, FreeSemaphore
    <3> QED
      BY <2>2, <3>1
  <2>5. \A t \in Task : Queued(sema, t) => pc[t] \in Busy
    BY NotWaiting
  <2> QED
    BY <2>3, <2>4, <2>5 DEF NestAccounted
<1> QED
  BY <1>1, Invariance, PTL

=============================================================================
