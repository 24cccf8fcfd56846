--------------------------- MODULE SignalSemaphore ---------------------------
(***************************************************************************)
(* The signal semaphore of exec.library, the only blocking lock under      *)
(* every object of src/pthreads.  exec is not part of the repository: the  *)
(* operators below are the behaviour pthread.c relies on.                  *)
(*                                                                         *)
(* A semaphore is a record: the owner, how often it is obtained, and the   *)
(* requests that wait for it.  Whoever shares a semaphore is not recorded: *)
(* ss_Owner is empty while ss_NestCount is positive.  The owner of the     *)
(* exclusive mode may obtain the semaphore again in either mode.  A        *)
(* semaphore that was released for the last time is handed over to the     *)
(* first waiter, so a late comer never overtakes the queue.                *)
(*                                                                         *)
(* A request comes from ObtainSemaphore, which sleeps until it is served,  *)
(* or from Procure, which gets a message when it is served and can be      *)
(* taken back by Vacate.                                                   *)
(***************************************************************************)
EXTENDS Integers, Sequences, FiniteSets

CONSTANTS Task,   \* the tasks of the program
          NoTask  \* the owner of a semaphore that is free or shared

ASSUME NoTaskAssumption == NoTask \notin Task

Request == [task : Task, shared : BOOLEAN]

Semaphore ==
  [owner : Task \cup {NoTask}, nest : Nat, queue : Seq(Request)]

\* InitSemaphore
FreeSemaphore == [owner |-> NoTask, nest |-> 0, queue |-> <<>>]

Queued(sem, t) == \E i \in 1..Len(sem.queue) : sem.queue[i].task = t

\* AttemptSemaphore and AttemptSemaphoreShared succeed.
Grants(sem, t, shared) ==
  \/ sem.nest = 0
  \/ sem.owner = t
  \/ shared /\ sem.owner = NoTask

Attempts(sem, t) == Grants(sem, t, FALSE)

\* ObtainSemaphore, ObtainSemaphoreShared and Procure: t has the semaphore,
\* or waits at the end of its queue.
ObtainMode(sem, t, shared) ==
  IF Grants(sem, t, shared)
  THEN [sem EXCEPT !.owner = IF sem.nest = 0 /\ ~shared THEN t ELSE @,
                   !.nest = @ + 1]
  ELSE [sem EXCEPT !.queue = Append(@, [task |-> t, shared |-> shared])]

Obtain(sem, t) == ObtainMode(sem, t, FALSE)

\* The requests at the positions of the set w, in their order.  (SelectSeq is
\* recursive, and nothing could be proved about it.)
Rank(w, i) == Cardinality({j \in w : j <= i})
Pick(queue, w) ==
  [k \in 1..Cardinality(w) |-> queue[CHOOSE i \in w : Rank(w, i) = k]]

Readers(queue) == {i \in 1..Len(queue) : queue[i].shared}
Writers(queue) == {i \in 1..Len(queue) : ~queue[i].shared}
OthersThan(queue, t) == {i \in 1..Len(queue) : queue[i].task # t}

\* The last release serves the first request, with a reader all readers.
Serve(queue) ==
  IF queue = <<>> THEN FreeSemaphore
  ELSE IF Head(queue).shared
  THEN [owner |-> NoTask, nest |-> Cardinality(Readers(queue)),
        queue |-> Pick(queue, Writers(queue))]
  ELSE [owner |-> Head(queue).task, nest |-> 1, queue |-> Tail(queue)]

\* ReleaseSemaphore
Release(sem) ==
  IF sem.nest = 1 THEN Serve(sem.queue) ELSE [sem EXCEPT !.nest = @ - 1]

Withdraw(sem, t) == [sem EXCEPT !.queue = Pick(@, OthersThan(@, t))]

VacateKeeps(sem, t) == Withdraw(sem, t)
VacateReleases(sem, t) == Release(sem)

\* Vacate takes a waiting request back and releases one that was served.
Vacate(sem, t) ==
  IF Queued(sem, t) THEN Withdraw(sem, t) ELSE Release(sem)

=============================================================================
