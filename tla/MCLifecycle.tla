----------------------------- MODULE MCLifecycle ------------------------------
(***************************************************************************)
(* Lifecycle for TLC.                                                      *)
(***************************************************************************)
EXTENDS Lifecycle, TLC

\* CLI processes and container processes are interchangeable.
Symmetry == Permutations(CLIs) \cup Permutations(Insts)
===============================================================================
