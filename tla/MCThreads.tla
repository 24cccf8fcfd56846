----------------------------- MODULE MCThreads -----------------------------
(***************************************************************************)
(* Small instances of Threads for TLC: three addresses besides main's, so  *)
(* that one of them is used again after at most three creations.           *)
(***************************************************************************)
EXTENDS Threads, TLC

CONSTANTS p1, p2, p3

\* The addresses of threads are alike.
AddressSymmetry == Permutations({p1, p2, p3})

=============================================================================
