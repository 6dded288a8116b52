---------------------------- MODULE MCHttpClient ----------------------------
(* Instances of HttpClient for TLC.                                         *)
EXTENDS HttpClient, TLC

\* Objects of one kind, structures of libevent and functors are interchangeable.
Symmetry ==
  Permutations(Requests) \cup Permutations(Connections) \cup Permutations(Reqs)
    \cup Permutations(Conns) \cup Permutations(Functors)
=============================================================================
