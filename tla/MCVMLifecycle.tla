--------------------------- MODULE MCVMLifecycle ------------------------------
(* VMLifecycle for TLC.                                                    *)
EXTENDS VMLifecycle, TLC

\* CLI processes and VMMs are interchangeable.
Symmetry == Permutations(CLIs) \cup Permutations(Insts)
===============================================================================
