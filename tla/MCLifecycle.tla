---------------------------- MODULE MCLifecycle ----------------------------
(***************************************************************************)
(* Lifecycle for TLC with several delivering threads: they are alike, and  *)
(* the invariants do not tell them apart.                                  *)
(***************************************************************************)
EXTENDS Lifecycle, TLC

WorkerSymmetry == Permutations(Workers)
=============================================================================
