------------------------------ MODULE MCQueue ------------------------------
(* Instances of Queue and of its contract for TLC.                          *)
EXTENDS QueueContract

\* Functors of one kind, and queues, are interchangeable.
Symmetry == Permutations(Queues) \cup Permutations(Temps)

=============================================================================
