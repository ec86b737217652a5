------------------------------ MODULE MCForwards ------------------------------
(* Forwards for TLC. *)
EXTENDS Forwards, TLC

\* Containers and sessions are told apart only by who refers to them.
Symmetry == Permutations(Insts) \cup Permutations(Sessions)
===============================================================================
