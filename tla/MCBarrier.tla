----------------------------- MODULE MCBarrier -----------------------------
(***************************************************************************)
(* Small instances of Barrier for TLC.                                     *)
(***************************************************************************)
EXTENDS Barrier

CONSTANTS t1, t2, t3

\* t3 has no signal bit left and waits with the fallback bit.
SomeSignals == t1 :> 1 @@ t2 :> 1 @@ t3 :> 0

=============================================================================
