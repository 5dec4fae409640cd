------------------------------ MODULE MCPlayer ------------------------------
(* Player on small sets of threads and sources.                            *)
EXTENDS Player, TLC

\* Clients are interchangeable, and so is the memory of the sources.
Symmetry == Permutations(Clients) \cup Permutations(Sources)
=============================================================================
