------------------------------ MODULE Channel ------------------------------
(***************************************************************************)
(* One direction of a connection as the program sees it, without buffers,   *)
(* watermarks, sockets or TLS: what write() promises about read(), and what *)
(* the end that is told means.                                              *)
(***************************************************************************)
EXTENDS Naturals, SequencesExt

VARIABLES
  written,   \* how many items the writer wrote: 1, 2, ...
  taken,     \* the items that the reader has taken, in order
  kept,      \* all that was written can still arrive
  closed,    \* the writer can write no more
  ended      \* what the reader was told: "open", "eof" or "error"

vars == <<written, taken, kept, closed, ended>>

Init ==
  /\ written = 0 /\ taken = <<>> /\ kept = TRUE /\ closed = FALSE
  /\ ended = "open"

Put ==
  /\ ~closed
  /\ written' = written + 1
  /\ UNCHANGED <<taken, kept, closed, ended>>

\* The next items, none of them twice and none left out.
Get(n) ==
  /\ taken' = taken \o [i \in 1..n |-> Len(taken) + i]
  /\ Len(taken') <= written
  /\ UNCHANGED <<written, kept, closed, ended>>

\* The writer closes with things left to send, or writes after it closed: what has
\* not been taken may be lost.
Spoil ==
  /\ kept' = FALSE /\ closed' = TRUE
  /\ written' \in {written, written + 1}
  /\ UNCHANGED <<taken, ended>>

Close == closed' = TRUE /\ UNCHANGED <<written, taken, kept, ended>>

\* The reader is told once.  The end of file is that of a writer that closed.
End(how) ==
  /\ ended = "open" /\ ended' = how
  /\ how = "eof" => closed
  /\ UNCHANGED <<written, taken, kept, closed>>

Next ==
  \/ Put \/ Spoil \/ Close
  \/ \E n \in 1..written : Get(n)
  \/ \E how \in {"eof", "error"} : End(how)

Spec == Init /\ [][Next]_vars
=============================================================================
