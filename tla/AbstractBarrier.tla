--------------------------- MODULE AbstractBarrier ---------------------------
(***************************************************************************)
(* What a reusable barrier promises: tasks gather until there are Count of *)
(* them, the one that completes the round leaves at once with the serial   *)
(* answer, the others leave one by one, and nobody enters the next round   *)
(* before the last of them has left.                                       *)
(***************************************************************************)
EXTENDS Naturals, FiniteSets

CONSTANTS Task, Count

VARIABLES inside,    \* the tasks gathered for the current round
          leaving,   \* the tasks of a completed round still to leave
          answer     \* what pthread_barrier_wait answered a task last

vars == <<inside, leaving, answer>>

Init ==
  /\ inside = {}
  /\ leaving = {}
  /\ answer = [t \in Task |-> "none"]

Gather(t) ==
  /\ leaving = {}
  /\ t \notin inside
  /\ Cardinality(inside) + 1 < Count
  /\ inside' = inside \cup {t}
  /\ UNCHANGED <<leaving, answer>>

Complete(t) ==
  /\ leaving = {}
  /\ t \notin inside
  /\ Cardinality(inside) + 1 = Count
  /\ inside' = {}
  /\ leaving' = inside
  /\ answer' = [answer EXCEPT ![t] = "serial"]

Leave(t) ==
  /\ t \in leaving
  /\ leaving' = leaving \ {t}
  /\ answer' = [answer EXCEPT ![t] = "zero"]
  /\ UNCHANGED inside

Next == \E t \in Task : Gather(t) \/ Complete(t) \/ Leave(t)

Spec == Init /\ [][Next]_vars

=============================================================================
