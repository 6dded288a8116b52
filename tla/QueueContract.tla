--------------------------- MODULE QueueContract ---------------------------
(* Queue implements OnceContract: the refinement mapping.                   *)
EXTENDS Queue, FiniteSets

HeldIn(events) == {q \in Queues : Waiting(q) \cap events # {}}

Final(f) == {Ev(f, s) : s \in {"borrowed", "owned", "inner"}}

\* The queues that have run f, once for each time.
Runs(f) ==
  UNION {{<<q, i>> : i \in {j \in DOMAIN log[q] : log[q][j] \in Final(f)}}
           : q \in Queues}

Lost(f) == \E e \in dropped : e.fn = f

\* A functor that was lost and ran, or that ran twice, has no fate of the contract.
fateOf(f) ==
  IF f \notin sub THEN "new"
  ELSE IF Runs(f) # {}
       THEN IF Cardinality(Runs(f)) = 1 /\ ~ Lost(f) THEN "ran" ELSE "reran"
  ELSE IF Lost(f) THEN "lost"
  ELSE IF HeldIn({Ev(f, "outer")}) # {} THEN "carried"
  ELSE "waiting"

atOf(f) ==
  IF fateOf(f) \in {"new", "lost"} THEN None
  ELSE IF fateOf(f) \in {"ran", "reran"} THEN (CHOOSE r \in Runs(f) : TRUE)[1]
  ELSE IF fateOf(f) = "carried" THEN CHOOSE q \in HeldIn({Ev(f, "outer")}) : TRUE
  ELSE CHOOSE q \in HeldIn(Final(f)) : TRUE

goalOf(f) ==
  IF fateOf(f) \notin {"new", "lost"} /\ dest[f] # None THEN dest[f] ELSE atOf(f)

Contract == INSTANCE OnceContract WITH
  fate <- [f \in Fns |-> fateOf(f)],
  at <- [f \in Fns |-> atOf(f)],
  goal <- [f \in Fns |-> goalOf(f)],
  looping <- {q \in Queues : loop[q] # "out"}

\* Each functor handed to once() runs at most once, on the right queue, inside
\* that queue's loop, and is lost only when an event is refused or a queue is
\* destroyed: every step of Queue is a step of OnceContract or changes nothing
\* it talks about.
ImplementsContract == Contract!Spec
=============================================================================
