------------------------------- MODULE MCLocks -------------------------------
(***************************************************************************)
(* Instances of Locks for TLC.                                             *)
(***************************************************************************)
EXTENDS Locks

CONSTANTS t1, t2, t3

\* Every task makes every call.
AnyCalls == [t \in Task |-> Calls]

=============================================================================
