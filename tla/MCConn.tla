------------------------------- MODULE MCConn -------------------------------
(* Instances of Conn for TLC.                                               *)
EXTENDS Conn, TLC

\* Objects, structures of libevent and sockets are interchangeable.
Symmetry ==
  Permutations(Listeners) \cup Permutations(Levs) \cup Permutations(Bevs)
    \cup Permutations(Bufs) \cup Permutations(Socks) \cup Permutations(Functors)
=============================================================================
