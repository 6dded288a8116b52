------------------------------ MODULE MCKeyVal ------------------------------
(* Instances of KeyVal for TLC.                                             *)
EXTENDS KeyVal, TLC

\* Objects, lists, keys and values are interchangeable.
Symmetry ==
  Permutations(Owners) \cup Permutations(Lists) \cup Permutations(Keys)
    \cup Permutations(Values)
=============================================================================
