------------------------------ MODULE MCBuffer ------------------------------
(* Instances of Buffer for TLC.                                             *)
EXTENDS Buffer, TLC

\* Objects, structures of libevent, data and workers are interchangeable.
Symmetry ==
  Permutations(Buffers) \cup Permutations(Evbufs) \cup Permutations(Items)
    \cup Permutations(Workers)
=============================================================================
