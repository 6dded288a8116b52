---------------------------- MODULE OnceContract ----------------------------
(***************************************************************************)
(* What the once() family of e4pp::queue promises about one functor, with   *)
(* no event, closure or poll: once(fn) runs fn at most once, on the queue   *)
(* it was given to and while the loop of that queue runs; once(other, fn)   *)
(* runs it at most once and on `other' alone, after the loop of the first   *)
(* queue has carried it over.  A functor is lost when libevent refuses its  *)
(* event or when the queue that holds it is destroyed, never while the loop *)
(* that holds it runs.                                                      *)
(***************************************************************************)
CONSTANTS Queues, Fns, None

VARIABLES
  fate,      \* fate[f]: how far the functor has come
  at,        \* at[f]: the queue that holds it, or held it last
  goal,      \* goal[f]: the queue it is to run on
  looping    \* the queues whose loop is running

vars == <<fate, at, goal, looping>>

Init ==
  /\ fate = [f \in Fns |-> "new"]
  /\ at = [f \in Fns |-> None]
  /\ goal = [f \in Fns |-> None]
  /\ looping = {}

\* once() on q with d the queue fn is to run on: accepted, or refused.
Put(f, state, q, d) ==
  /\ fate' = [fate EXCEPT ![f] = state]
  /\ at' = [at EXCEPT ![f] = q]
  /\ goal' = [goal EXCEPT ![f] = d]
  /\ UNCHANGED looping

Accept(f) ==
  /\ fate[f] = "new"
  /\ \/ \E q \in Queues : Put(f, "waiting", q, q)
     \/ \E q, d \in Queues : Put(f, "carried", q, d)
     \/ Put(f, "lost", None, None)

\* The functors in lost are never to run.
Lose(lost) ==
  /\ fate' = [f \in Fns |-> IF f \in lost THEN "lost" ELSE fate[f]]
  /\ at' = [f \in Fns |-> IF f \in lost THEN None ELSE at[f]]
  /\ goal' = [f \in Fns |-> IF f \in lost THEN None ELSE goal[f]]
  /\ UNCHANGED looping

\* The loop of the first queue hands the functor over, or fails to.
Carry(f) ==
  /\ fate[f] = "carried" /\ at[f] \in looping
  /\ \/ /\ fate' = [fate EXCEPT ![f] = "waiting"]
        /\ at' = [at EXCEPT ![f] = goal[f]]
        /\ UNCHANGED <<goal, looping>>
     \/ Lose({f})

Run(f) ==
  /\ fate[f] = "waiting" /\ at[f] = goal[f] /\ at[f] \in looping
  /\ fate' = [fate EXCEPT ![f] = "ran"]
  /\ UNCHANGED <<at, goal, looping>>

Enter(q) ==
  /\ q \notin looping
  /\ looping' = looping \cup {q}
  /\ UNCHANGED <<fate, at, goal>>

Leave(q) ==
  /\ q \in looping
  /\ looping' = looping \ {q}
  /\ UNCHANGED <<fate, at, goal>>

\* A queue whose loop does not run is destroyed with all it holds.
Discard(q) ==
  /\ q \notin looping
  /\ Lose({f \in Fns : fate[f] \in {"waiting", "carried"} /\ at[f] = q})

Next ==
  \/ \E f \in Fns : Accept(f) \/ Carry(f) \/ Run(f)
  \/ \E q \in Queues : Enter(q) \/ Leave(q) \/ Discard(q)

Spec == Init /\ [][Next]_vars
=============================================================================
