------------------------------- MODULE MCLoop -------------------------------
(* Loop.tla for TLC: handlers and threads are interchangeable.             *)
EXTENDS Loop, TLC

Symmetry == Permutations(Handlers) \cup Permutations(Threads)
=============================================================================
