------------------------------ MODULE MCVHost ------------------------------
(* Instances of VHost for TLC.                                              *)
EXTENDS VHost, TLC

\* Objects are interchangeable, and so are the structures of libevent.
Symmetry == Permutations(Objs) \cup Permutations(Hosts)
=============================================================================
