------------------------------ MODULE MCEvent ------------------------------
(* Instances of Event for TLC.                                              *)
EXTENDS Event, TLC

\* Objects of one kind, events and functors are interchangeable.
Symmetry == Permutations(Events) \cup Permutations(Cores) \cup Permutations(Evs)
=============================================================================
