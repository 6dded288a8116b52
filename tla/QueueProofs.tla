---------------------------- MODULE QueueProofs ----------------------------
(* Theorems about Queue, for every set of queues and functors.              *)
EXTENDS QueueContract, SequenceTheorems, FiniteSetTheorems, TLAPS

\* Posting on the FIFO of due events adds that event, once.
LEMMA AppendSet ==
  ASSUME NEW S, NEW s \in Seq(S), NEW e \in S
  PROVE  /\ Append(s, e) \in Seq(S)
         /\ ToSet(Append(s, e)) = ToSet(s) \cup {e}
         /\ IsInjective(s) /\ e \notin ToSet(s) => IsInjective(Append(s, e))
<1>1. /\ Append(s, e) \in Seq(S)
      /\ Len(s) \in Nat
      /\ DOMAIN s = 1..Len(s)
      /\ DOMAIN Append(s, e) = 1..(Len(s) + 1)
      /\ Append(s, e)[Len(s) + 1] = e
      /\ \A i \in 1..Len(s) : Append(s, e)[i] = s[i]
  BY AppendProperties, LenProperties
<1>2. 1..(Len(s) + 1) = 1..Len(s) \cup {Len(s) + 1}
  BY <1>1
<1>3. ToSet(Append(s, e)) = ToSet(s) \cup {e}
  BY <1>1, <1>2 DEF ToSet
<1>4. IsInjective(s) /\ e \notin ToSet(s) => IsInjective(Append(s, e))
  BY <1>1, <1>2 DEF IsInjective, ToSet
<1> QED  BY <1>1, <1>3, <1>4

\* Taking the oldest due event removes that event and nothing else.
LEMMA TailSet ==
  ASSUME NEW S, NEW s \in Seq(S), s # << >>, IsInjective(s)
  PROVE  /\ Head(s) \in S
         /\ Tail(s) \in Seq(S)
         /\ IsInjective(Tail(s))
         /\ Head(s) \in ToSet(s)
         /\ ToSet(Tail(s)) = ToSet(s) \ {Head(s)}
<1>1. /\ Head(s) = s[1] /\ Head(s) \in S
      /\ Tail(s) \in Seq(S)
      /\ Len(s) \in Nat /\ Len(s) >= 1
      /\ DOMAIN s = 1..Len(s)
      /\ DOMAIN Tail(s) = 1..(Len(s) - 1)
      /\ \A i \in 1..(Len(s) - 1) : Tail(s)[i] = s[i + 1]
  BY HeadTailProperties, LenProperties, EmptySeq
<1>2. IsInjective(Tail(s))
  BY <1>1 DEF IsInjective
<1>3. Head(s) \in ToSet(s)
  BY <1>1 DEF ToSet
<1>4. ASSUME NEW x \in ToSet(Tail(s))  PROVE  x \in ToSet(s) \ {Head(s)}
  <2>1. PICK i \in 1..(Len(s) - 1) : x = Tail(s)[i]
    BY <1>1 DEF ToSet
  <2>2. i + 1 \in 1..Len(s) /\ x = s[i + 1] /\ i + 1 # 1
    BY <1>1, <2>1
  <2> QED  BY <1>1, <2>2 DEF ToSet, IsInjective
<1>5. ASSUME NEW x \in ToSet(s) \ {Head(s)}  PROVE  x \in ToSet(Tail(s))
  <2>1. PICK i \in 1..Len(s) : x = s[i] /\ i # 1
    BY <1>1 DEF ToSet
  <2>2. i - 1 \in 1..(Len(s) - 1) /\ Tail(s)[i - 1] = s[i]
    BY <1>1, <2>1
  <2> QED  BY <1>1, <2>1, <2>2 DEF ToSet
<1> QED  BY <1>1, <1>2, <1>3, <1>4, <1>5

-----------------------------------------------------------------------------
LEMMA EventTypes ==
  /\ \A f \in Fns, s \in {"borrowed", "owned", "outer", "inner"} :
       Ev(f, s) \in Event
  /\ \A x \in Exits : Ev(x, "exit") \in Event
BY DEF Event, Ev

LEMMA WaitingType ==
  ASSUME TypeOK, NEW q \in Queues
  PROVE  Waiting(q) \subseteq Event
<1>1. active[q] \in Seq(Event) /\ armed[q] \subseteq Event
  BY DEF TypeOK
<1>2. ToSet(active[q]) \subseteq Event
  BY <1>1 DEF ToSet
<1> QED  BY <1>1, <1>2 DEF Waiting

LEMMA AppendType ==
  ASSUME NEW fifo \in [Queues -> Seq(Event)], NEW q, NEW e \in Event
  PROVE  /\ Enqueue(fifo, q, e) \in [Queues -> Seq(Event)]
         /\ [fifo EXCEPT ![q] = Append(@, e)] \in [Queues -> Seq(Event)]
<1>1. CASE q \in Queues
  <2>1. Append(fifo[q], e) \in Seq(Event)
    BY <1>1, AppendProperties
  <2> QED  BY <2>1 DEF Enqueue
<1>2. CASE q \notin Queues
  BY <1>2 DEF Enqueue
<1> QED  BY <1>1, <1>2

LEMMA AddType ==
  ASSUME TypeOK, NEW q \in Queues, NEW e \in Event, Add(q, e)
  PROVE  /\ armed' \in [Queues -> SUBSET Event]
         /\ active' \in [Queues -> Seq(Event)]
<1>1. active \in [Queues -> Seq(Event)] /\ armed \in [Queues -> SUBSET Event]
  BY DEF TypeOK
<1>2. [armed EXCEPT ![q] = @ \cup {e}] \in [Queues -> SUBSET Event]
  BY <1>1
<1>3. Enqueue(active, q, e) \in [Queues -> Seq(Event)]
  BY <1>1, AppendType
<1> QED  BY <1>1, <1>2, <1>3 DEF Add

LEMMA SubmitType ==
  ASSUME TypeOK, NEW q \in Queues, NEW f \in Fns,
         NEW s \in {"borrowed", "owned", "outer"}, Submit(q, f, s),
         dest' \in [Fns -> Queues \cup {None}]
  PROVE  TypeOK'
<1>1. Ev(f, s) \in Event
  BY EventTypes
<1>2. /\ armed' \in [Queues -> SUBSET Event]
      /\ active' \in [Queues -> Seq(Event)]
      /\ dropped' \subseteq Event
  <2>1. CASE Add(q, Ev(f, s)) /\ UNCHANGED dropped
    BY <1>1, <2>1, AddType DEF TypeOK
  <2>2. CASE dropped' = dropped \cup {Ev(f, s)} /\ UNCHANGED pending
    BY <1>1, <2>2 DEF TypeOK, pending
  <2> QED  BY <2>1, <2>2 DEF Submit
<1>3. heap' \subseteq Event
  BY <1>1 DEF Submit, Closure, TypeOK
<1>4. sub' \subseteq Fns \cup Exits
  BY DEF Submit, TypeOK
<1> QED  BY <1>2, <1>3, <1>4 DEF Submit, TypeOK, control

LEMMA TakeType ==
  ASSUME TypeOK, NEW q \in Queues, NEW e \in Event, Take(q, e)
  PROVE  /\ running' \in [Queues -> Event \cup {None}]
         /\ log' \in [Queues -> Seq(Event)]
         /\ Pop(q) \in [Queues -> Seq(Event)]
<1>1. active[q] \in Seq(Event) /\ active[q] # <<>>
  BY DEF TypeOK, Take
<1>2. Tail(active[q]) \in Seq(Event)
  BY <1>1
<1>3. Pop(q) \in [Queues -> Seq(Event)]
  BY <1>2 DEF Pop, TypeOK
<1>4. running' \in [Queues -> Event \cup {None}]
  BY DEF TypeOK, Take
<1>5. log' \in [Queues -> Seq(Event)]
  BY AppendType DEF TypeOK, Take
<1> QED  BY <1>3, <1>4, <1>5

LEMMA TypeStep == TypeOK /\ [Next]_vars => TypeOK'
<1> SUFFICES ASSUME TypeOK, [Next]_vars  PROVE TypeOK'
  OBVIOUS
<1>1. CASE UNCHANGED vars
  BY <1>1 DEF TypeOK, vars
<1>2. ASSUME NEW q \in Queues, NEW f \in Fns, OnceRef(q, f)  PROVE TypeOK'
  BY <1>2, SubmitType DEF OnceRef, TypeOK
<1>3. ASSUME NEW q \in Queues, NEW f \in Fns, OnceMove(q, f)  PROVE TypeOK'
  BY <1>3, SubmitType DEF OnceMove, TypeOK
<1>4. ASSUME NEW q \in Queues, NEW other \in Queues, NEW f \in Fns,
             OnceRequeue(q, other, f)
      PROVE  TypeOK'
  <2>1. dest' \in [Fns -> Queues \cup {None}]
    BY <1>4 DEF OnceRequeue, TypeOK
  <2> QED  BY <1>4, <2>1, SubmitType DEF OnceRequeue
<1>5. ASSUME NEW q \in Queues, NEW x \in Exits, LoopExit(q, x)  PROVE TypeOK'
  <2>1. Ev(x, "exit") \in Event
    BY EventTypes
  <2> QED  BY <1>5, <2>1, AddType DEF LoopExit, TypeOK, control
<1>6. ASSUME NEW q \in Queues, NEW fl \in FlagSets, Dispatch(q, fl)
      PROVE  TypeOK'
  BY <1>6, FlagsAssumption DEF Dispatch, TypeOK, pending, functors
<1>7. ASSUME NEW q \in Queues, LoopBreak(q)  PROVE TypeOK'
  BY <1>7 DEF LoopBreak, TypeOK, pending, functors
<1>8. ASSUME NEW q \in Queues, Destroy(q)  PROVE TypeOK'
  <2>1. Waiting(q) \subseteq Event
    BY WaitingType
  <2> QED  BY <1>8, <2>1 DEF Destroy, TypeOK, control, functors
<1>9. ASSUME NEW q \in Queues, NEW e \in armed[q], Expire(q, e)
      PROVE  TypeOK'
  <2>1. e \in Event
    BY DEF TypeOK
  <2>2. active' \in [Queues -> Seq(Event)]
    BY <1>9, <2>1, AppendType DEF Expire, TypeOK
  <2> QED  BY <1>9, <2>1, <2>2 DEF Expire, TypeOK, control, functors
<1>10. ASSUME NEW q \in Queues, LoopCheck(q) \/ Wake(q) \/ EndBatch(q)
       PROVE  TypeOK'
  BY <1>10 DEF LoopCheck, Wake, EndBatch, Return, TypeOK, pending, functors
<1>11. ASSUME NEW q \in Queues, StartBatch(q)  PROVE TypeOK'
  BY <1>11 DEF StartBatch, TypeOK, pending, functors, control
<1>12. ASSUME NEW q \in Queues, NEW f \in Fns,
              CallBorrowed(q, f) \/ CallOwned(q, f) \/ CallInner(q, f)
       PROVE  TypeOK'
  <2>1. PICK e \in Event : Take(q, e)
    BY <1>12, EventTypes DEF CallBorrowed, CallOwned, CallInner
  <2>2. read' \in [Fns -> {"none", "intact", "garbage"}]
    BY <1>12 DEF CallBorrowed, CallOwned, CallInner, Found, TypeOK
  <2>3. brk' \in [Queues -> BOOLEAN]
    BY <1>12 DEF CallBorrowed, CallOwned, CallInner, Body, TypeOK
  <2>4. /\ active' = Pop(q)
        /\ UNCHANGED <<base, armed, loop, term, flags, ret, functors, heap,
                       dropped>>
    BY <1>12 DEF CallBorrowed, CallOwned, CallInner
  <2> QED  BY <2>1, <2>2, <2>3, <2>4, TakeType DEF TypeOK, functors
<1>13. ASSUME NEW q \in Queues, NEW f \in Fns, CallOuter(q, f)  PROVE TypeOK'
  <2>1. /\ Ev(f, "outer") \in Event
        /\ Ev(f, "inner") \in Event
    BY EventTypes
  <2>2. Take(q, Ev(f, "outer"))
    BY <1>13 DEF CallOuter
  <2>3. Pop(q) \in [Queues -> Seq(Event)]
    BY <2>1, <2>2, TakeType
  <2>4. active' \in [Queues -> Seq(Event)] /\ dropped' \subseteq Event
    <3>1. CASE active' = Enqueue(Pop(q), dest[f], Ev(f, "inner"))
               /\ UNCHANGED dropped
      BY <3>1, <2>1, <2>3, AppendType DEF TypeOK
    <3>2. CASE active' = Pop(q) /\ dropped' = dropped \cup {Ev(f, "inner")}
      BY <3>2, <2>1, <2>3 DEF TypeOK
    <3> QED  BY <1>13, <3>1, <3>2 DEF CallOuter
  <2>5. heap' \subseteq Event
    BY <1>13, <2>1 DEF CallOuter, Closure, TypeOK
  <2>6. read' \in [Fns -> {"none", "intact", "garbage"}]
    BY <1>13 DEF CallOuter, Found, TypeOK
  <2> QED
    BY <1>13, <2>1, <2>2, <2>4, <2>5, <2>6, TakeType
    DEF CallOuter, TypeOK, control, functors
<1>14. ASSUME NEW q \in Queues, NEW x \in Exits, CallExit(q, x)  PROVE TypeOK'
  <2>1. Ev(x, "exit") \in Event
    BY EventTypes
  <2> QED  BY <1>14, <2>1, TakeType DEF CallExit, TypeOK, functors
<1>15. ASSUME NEW q \in Queues, EndCall(q)  PROVE TypeOK'
  BY <1>15 DEF EndCall, TypeOK, pending, control, functors
<1>16. ASSUME NEW f \in Fns, EndLife(f)  PROVE TypeOK'
  BY <1>16 DEF EndLife, TypeOK, pending, control
<1> QED
  BY <1>1, <1>2, <1>3, <1>4, <1>5, <1>6, <1>7, <1>8, <1>9, <1>10, <1>11,
     <1>12, <1>13, <1>14, <1>15, <1>16
  DEF Next, LoopStep, Call

\* Every step keeps every variable within its type.
THEOREM TypeCorrect == Spec => []TypeOK
<1>1. Init => TypeOK
  BY DEF Init, TypeOK, Flags
<1>2. TypeOK /\ [Next]_vars => TypeOK'
  BY TypeStep
<1> QED  BY <1>1, <1>2, PTL DEF Spec

-----------------------------------------------------------------------------
Everywhere == dropped \cup UNION {Held(q) : q \in Queues}

LEMMA HeldType ==
  ASSUME TypeOK, NEW q \in Queues
  PROVE  /\ Held(q) \subseteq Event
         /\ None \notin Waiting(q)
         /\ Waiting(q) \subseteq Held(q)
BY WaitingType, NoneAssumption DEF Held, TypeOK

\* An event that nothing holds, put on one queue, is held there alone.
LEMMA AddHolds ==
  ASSUME TypeOK, OneHolder, NEW q \in Queues, NEW e \in Event,
         e \notin Everywhere, Add(q, e), UNCHANGED running
  PROVE  /\ Held(q)' = Held(q) \cup {e}
         /\ Waiting(q)' = Waiting(q) \cup {e}
         /\ \A r \in Queues \ {q} :
              Held(r)' = Held(r) /\ Waiting(r)' = Waiting(r)
         /\ dropped' = dropped => OneHolder'
<1>1. /\ active \in [Queues -> Seq(Event)] /\ armed \in [Queues -> SUBSET Event]
      /\ active[q] \in Seq(Event)
      /\ running \in [Queues -> Event \cup {None}]
  BY DEF TypeOK
<1>2. e \notin Held(q) /\ e \notin Waiting(q) /\ e \notin ToSet(active[q])
      /\ e \notin armed[q] /\ e # running[q]
  BY NoneAssumption DEF Everywhere, Held, Waiting
<1>3. /\ armed'[q] \cup ToSet(active'[q]) = Waiting(q) \cup {e}
      /\ IsInjective(active'[q])
      /\ armed'[q] \cap ToSet(active'[q]) = {}
  <2>1. CASE armed' = [armed EXCEPT ![q] = @ \cup {e}] /\ UNCHANGED active
    BY <1>1, <1>2, <2>1 DEF OneHolder, Waiting
  <2>2. CASE active' = Enqueue(active, q, e) /\ UNCHANGED armed
    <3>1. active'[q] = Append(active[q], e) /\ armed'[q] = armed[q]
      BY <1>1, <2>2 DEF Enqueue
    <3> QED  BY <1>1, <1>2, <3>1, AppendSet DEF OneHolder, Waiting
  <2> QED  BY <2>1, <2>2 DEF Add
<1>4. \A r \in Queues \ {q} : armed'[r] = armed[r] /\ active'[r] = active[r]
  BY <1>1 DEF Add, Enqueue
<1>5. /\ Waiting(q)' = Waiting(q) \cup {e}
      /\ \A r \in Queues \ {q} : Waiting(r)' = Waiting(r)
  BY <1>3, <1>4 DEF Waiting
<1>6. /\ Held(q)' = Held(q) \cup {e}
      /\ \A r \in Queues \ {q} : Held(r)' = Held(r)
  BY <1>5 DEF Held
<1>7. ASSUME dropped' = dropped  PROVE OneHolder'
  <2>1. e \notin dropped /\ \A r \in Queues : e \notin Held(r)
    BY DEF Everywhere
  <2>2. ASSUME NEW r \in Queues
        PROVE  /\ IsInjective(active'[r])
               /\ armed'[r] \cap ToSet(active'[r]) = {}
               /\ running'[r] \notin Waiting(r)'
               /\ dropped' \cap Held(r)' = {}
    <3>1. CASE r = q
      BY <1>2, <1>3, <1>5, <1>6, <1>7, <2>1, <3>1 DEF OneHolder
    <3>2. CASE r # q
      BY <1>4, <1>5, <1>6, <1>7, <3>2 DEF OneHolder
    <3> QED  BY <3>1, <3>2
  <2>3. \A r, t \in Queues : r # t => Held(r)' \cap Held(t)' = {}
    BY <1>6, <2>1 DEF OneHolder
  <2> QED  BY <2>2, <2>3 DEF OneHolder
<1> QED  BY <1>5, <1>6, <1>7

\* The oldest due event, taken by the loop, is no longer waiting anywhere.
LEMMA PopWaiting ==
  ASSUME TypeOK, OneHolder, NEW q \in Queues, NEW e \in Event, Take(q, e)
  PROVE  /\ Pop(q) \in [Queues -> Seq(Event)]
         /\ \A r \in Queues : IsInjective(Pop(q)[r])
         /\ e \in Waiting(q)
         /\ armed[q] \cup ToSet(Pop(q)[q]) = Waiting(q) \ {e}
         /\ armed[q] \cap ToSet(Pop(q)[q]) = {}
         /\ \A r \in Queues \ {q} : Pop(q)[r] = active[r]
<1>1. /\ active \in [Queues -> Seq(Event)] /\ active[q] \in Seq(Event)
      /\ active[q] # <<>> /\ Head(active[q]) = e
      /\ IsInjective(active[q]) /\ armed[q] \cap ToSet(active[q]) = {}
  BY DEF TypeOK, Take, OneHolder
<1>2. Pop(q)[q] = Tail(active[q])
      /\ \A r \in Queues \ {q} : Pop(q)[r] = active[r]
  BY <1>1 DEF Pop
<1>3. /\ IsInjective(Tail(active[q]))
      /\ e \in ToSet(active[q])
      /\ ToSet(Tail(active[q])) = ToSet(active[q]) \ {e}
  BY <1>1, TailSet
<1>4. armed[q] \cup ToSet(Pop(q)[q]) = Waiting(q) \ {e}
  BY <1>1, <1>2, <1>3 DEF Waiting
<1> QED
  BY <1>1, <1>2, <1>3, <1>4, TakeType DEF OneHolder, Waiting

-----------------------------------------------------------------------------
(* Each group of actions preserves OnceInv.                                 *)

LEMMA QuietStep ==
  ASSUME OnceInv, UNCHANGED <<armed, active, running, dropped, heap, sub, dest>>
  PROVE  OnceInv' /\ \A r \in Queues : Held(r)' \subseteq Held(r)
<1>1. \A q \in Queues : Waiting(q)' = Waiting(q) /\ Held(q)' = Held(q)
  BY DEF Waiting, Held
<1> QED
  BY <1>1 DEF OnceInv, OneHolder, HeapOwned, Submitted, Routed

\* once() of any kind: the new event is the functor's first.
LEMMA SubmitStep ==
  ASSUME TypeOK, OnceInv, NEW q \in Queues, NEW f \in Fns,
         NEW s \in {"borrowed", "owned", "outer"}, Submit(q, f, s),
         dest' \in [Fns -> Queues \cup {None}],
         \A g \in Fns \ {f} : dest'[g] = dest[g],
         s = "outer" => dest'[f] \in Queues
  PROVE  OnceInv' /\ \A r \in Queues : Held(r)' \subseteq Held(r) \cup {Ev(f, s)}
<1> DEFINE e == Ev(f, s)
<1>1. e \in Event /\ e.fn = f /\ e.stage = s
  BY EventTypes DEF Ev
<1>2. \A d \in Everywhere : d.fn # f
  BY DEF OnceInv, Submitted, Everywhere, Submit
<1>3. e \notin Everywhere /\ Ev(f, "inner") \notin Everywhere
      /\ Ev(f, "outer") \notin Everywhere
  BY <1>1, <1>2 DEF Ev
<1>4. UNCHANGED running
  BY DEF Submit
<1>5. /\ OneHolder'
      /\ Everywhere' = Everywhere \cup {e}
      /\ \A r \in Queues : /\ Waiting(r)' \subseteq Waiting(r) \cup {e}
                            /\ Held(r)' \subseteq Held(r) \cup {e}
  <2>1. CASE Add(q, e) /\ UNCHANGED dropped
    <3>1. /\ Held(q)' = Held(q) \cup {e}
          /\ Waiting(q)' = Waiting(q) \cup {e}
          /\ \A r \in Queues \ {q} :
               Held(r)' = Held(r) /\ Waiting(r)' = Waiting(r)
          /\ OneHolder'
      BY <1>1, <1>3, <1>4, <2>1, AddHolds DEF OnceInv
    <3>2. \A r \in Queues : Held(r)' = IF r = q THEN Held(q) \cup {e} ELSE Held(r)
      BY <3>1
    <3>3. Everywhere' = Everywhere \cup {e}
      BY <2>1, <3>2 DEF Everywhere
    <3> QED  BY <3>1, <3>3
  <2>2. CASE dropped' = dropped \cup {e} /\ UNCHANGED pending
    <3>1. \A r \in Queues : /\ Waiting(r)' = Waiting(r) /\ Held(r)' = Held(r)
                            /\ active'[r] = active[r] /\ armed'[r] = armed[r]
                            /\ running'[r] = running[r]
      BY <1>4, <2>2 DEF Waiting, Held, pending
    <3>2. Everywhere' = Everywhere \cup {e}
      BY <2>2, <3>1 DEF Everywhere
    <3>3. \A r \in Queues : dropped' \cap Held(r)' = {}
      BY <1>3, <2>2, <3>1 DEF OnceInv, OneHolder, Everywhere
    <3>4. OneHolder'
      BY <3>1, <3>3 DEF OnceInv, OneHolder
    <3> QED  BY <3>1, <3>2, <3>4
  <2> QED  BY <2>1, <2>2 DEF Submit
<1>6. HeapOwned'
  <2>1. heap' = heap \cup Closure(e)
    BY DEF Submit
  <2>2. heap = {d \in Everywhere : OwnsHeap(d)}
    BY DEF OnceInv, HeapOwned, Everywhere
  <2>3. heap' = {d \in Everywhere' : OwnsHeap(d)}
    BY <1>5, <2>1, <2>2 DEF Closure
  <2> QED  BY <2>3 DEF HeapOwned, Everywhere
<1>7. Submitted'
  <2>1. sub' = sub \cup {f}
    BY DEF Submit
  <2>2. \A d \in Everywhere' : d.fn \in sub'
    BY <1>1, <1>5, <2>1 DEF OnceInv, Submitted, Everywhere
  <2> QED  BY <2>2 DEF Submitted, Everywhere
<1>8. Routed'
  <2> SUFFICES ASSUME NEW r \in Queues, NEW t \in Queues, NEW g \in Fns,
                      Ev(g, "outer") \in Waiting(r)'
               PROVE  /\ dest'[g] \in Queues
                      /\ Ev(g, "inner") \notin dropped' \cup Held(t)'
    BY DEF Routed
  <2>1. Ev(g, "inner") # e
    BY DEF Ev
  <2>2. Ev(g, "inner") \in dropped' \cup Held(t)'
          => Ev(g, "inner") \in dropped \cup Held(t)
    BY <1>5, <2>1 DEF Submit
  <2>3. CASE g = f
    <3>1. Ev(g, "outer") \notin Waiting(r)
      BY <1>3, <2>3 DEF Everywhere, Held
    <3>2. s = "outer"
      BY <1>5, <3>1 DEF Ev
    <3> QED  BY <1>3, <2>2, <2>3, <3>2 DEF Everywhere
  <2>4. CASE g # f
    <3>1. Ev(g, "outer") \in Waiting(r)
      BY <1>5, <2>4 DEF Ev
    <3> QED  BY <2>2, <2>4, <3>1 DEF OnceInv, Routed
  <2> QED  BY <2>3, <2>4
<1> QED  BY <1>5, <1>6, <1>7, <1>8 DEF OnceInv

LEMMA LoopExitStep ==
  ASSUME TypeOK, OnceInv, NEW q \in Queues, NEW x \in Exits, LoopExit(q, x)
  PROVE  OnceInv' /\ \A r \in Queues : Held(r)' \subseteq Held(r) \cup {Ev(x, "exit")}
<1> DEFINE e == Ev(x, "exit")
<1>1. e \in Event /\ e.fn = x /\ ~ OwnsHeap(e)
      /\ \A f \in Fns : e # Ev(f, "outer") /\ e # Ev(f, "inner")
  BY EventTypes DEF Ev, OwnsHeap
<1>2. e \notin Everywhere
  BY <1>1 DEF OnceInv, Submitted, Everywhere, LoopExit
<1>3. /\ OneHolder'
      /\ \A r \in Queues : Held(r)' = IF r = q THEN Held(r) \cup {e} ELSE Held(r)
      /\ \A r \in Queues : Waiting(r)' \subseteq Waiting(r) \cup {e}
  BY <1>1, <1>2, AddHolds DEF LoopExit, OnceInv
<1>4. UNCHANGED <<dropped, heap, dest>> /\ sub' = sub \cup {x}
  BY DEF LoopExit
<1>5. Everywhere' = Everywhere \cup {e}
  BY <1>3, <1>4 DEF Everywhere
<1>6. HeapOwned'
  <2>1. {d \in Everywhere' : OwnsHeap(d)} = {d \in Everywhere : OwnsHeap(d)}
    BY <1>1, <1>5
  <2> QED  BY <1>4, <2>1 DEF OnceInv, HeapOwned, Everywhere
<1>7. Submitted'
  <2>1. \A d \in Everywhere' : d.fn \in sub'
    BY <1>1, <1>4, <1>5 DEF OnceInv, Submitted, Everywhere
  <2> QED  BY <2>1 DEF Submitted, Everywhere
<1>8. Routed'
  BY <1>1, <1>3, <1>4 DEF OnceInv, Routed
<1> QED  BY <1>3, <1>6, <1>7, <1>8 DEF OnceInv

\* A due event moves from the timers to the FIFO and stays held by its queue.
LEMMA ExpireStep ==
  ASSUME TypeOK, OnceInv, NEW q \in Queues, NEW e \in armed[q], Expire(q, e)
  PROVE  OnceInv' /\ \A r \in Queues : Held(r)' \subseteq Held(r)
<1>1. /\ active \in [Queues -> Seq(Event)] /\ armed \in [Queues -> SUBSET Event]
      /\ active[q] \in Seq(Event) /\ e \in Event
      /\ IsInjective(active[q]) /\ e \notin ToSet(active[q])
      /\ armed[q] \cap ToSet(active[q]) = {}
  BY DEF TypeOK, OnceInv, OneHolder
<1>2. /\ armed'[q] = armed[q] \ {e} /\ active'[q] = Append(active[q], e)
      /\ \A r \in Queues \ {q} : armed'[r] = armed[r] /\ active'[r] = active[r]
  BY <1>1 DEF Expire, Enqueue
<1>3. /\ ToSet(active'[q]) = ToSet(active[q]) \cup {e}
      /\ IsInjective(active'[q])
  BY <1>1, <1>2, AppendSet
<1>4. \A r \in Queues : /\ Waiting(r)' = Waiting(r)
                        /\ IsInjective(active'[r])
                        /\ armed'[r] \cap ToSet(active'[r]) = {}
  <2> SUFFICES ASSUME NEW r \in Queues
               PROVE  /\ armed'[r] \cup ToSet(active'[r])
                           = armed[r] \cup ToSet(active[r])
                      /\ IsInjective(active'[r])
                      /\ armed'[r] \cap ToSet(active'[r]) = {}
    BY DEF Waiting
  <2>1. CASE r = q
    BY <1>1, <1>2, <1>3, <2>1
  <2>2. CASE r # q
    BY <1>2, <2>2 DEF OnceInv, OneHolder
  <2> QED  BY <2>1, <2>2
<1>5. UNCHANGED <<running, dropped, heap, sub, dest>>
  BY DEF Expire, functors
<1>6. \A r \in Queues : Held(r)' = Held(r)
  BY <1>4, <1>5 DEF Held
<1> QED
  BY <1>4, <1>5, <1>6 DEF OnceInv, OneHolder, HeapOwned, Submitted, Routed

\* A callback that posts nothing: its event moves from the FIFO to the loop.
LEMMA CallStep ==
  ASSUME TypeOK, OnceInv, NEW q \in Queues, NEW e \in Event, Take(q, e),
         active' = Pop(q), UNCHANGED <<armed, dropped, heap, sub, dest>>
  PROVE  OnceInv' /\ \A r \in Queues : Held(r)' \subseteq Held(r)
<1>1. /\ running[q] = None /\ running'[q] = e
      /\ \A r \in Queues \ {q} : running'[r] = running[r]
  BY DEF Take, TypeOK
<1>2. /\ e \in Waiting(q) /\ Waiting(q)' = Waiting(q) \ {e}
      /\ \A r \in Queues \ {q} : Waiting(r)' = Waiting(r)
      /\ \A r \in Queues : /\ IsInjective(active'[r])
                           /\ armed'[r] \cap ToSet(active'[r]) = {}
  BY PopWaiting DEF Waiting, OnceInv, OneHolder
<1>3. e # None
  BY NoneAssumption
<1>4. \A r \in Queues : Held(r)' = Held(r)
  BY <1>1, <1>2, <1>3 DEF Held
<1>5. OneHolder'
  <2>1. \A r \in Queues : running'[r] \notin Waiting(r)'
    BY <1>1, <1>2 DEF OnceInv, OneHolder
  <2>2. \A r \in Queues : dropped' \cap Held(r)' = {}
    BY <1>4 DEF OnceInv, OneHolder
  <2>3. \A r, t \in Queues : r # t => Held(r)' \cap Held(t)' = {}
    BY <1>4 DEF OnceInv, OneHolder
  <2> QED  BY <1>2, <2>1, <2>2, <2>3 DEF OneHolder
<1>6. HeapOwned' /\ Submitted'
  BY <1>4 DEF OnceInv, HeapOwned, Submitted
<1>7. Routed'
  BY <1>2, <1>4 DEF OnceInv, Routed
<1> QED  BY <1>4, <1>5, <1>6, <1>7 DEF OnceInv

\* The callback ends and its closure is deleted.
LEMMA EndCallStep ==
  ASSUME TypeOK, OnceInv, NEW q \in Queues, EndCall(q)
  PROVE  OnceInv' /\ \A r \in Queues : Held(r)' \subseteq Held(r)
<1> DEFINE e == running[q]
<1>1. /\ running'[q] = None /\ e # None
      /\ \A r \in Queues \ {q} : running'[r] = running[r]
      /\ heap' = heap \ {e}
      /\ UNCHANGED <<armed, active, dropped, sub, dest>>
  BY DEF EndCall, TypeOK, pending, functors
<1>2. \A r \in Queues : Waiting(r)' = Waiting(r) /\ None \notin Waiting(r)
  BY <1>1, WaitingType, NoneAssumption DEF Waiting
<1>3. /\ Held(q)' = Held(q) \ {e}
      /\ \A r \in Queues \ {q} : Held(r)' = Held(r)
  BY <1>1, <1>2 DEF Held, OnceInv, OneHolder
<1>4. OneHolder'
  <2>1. \A r \in Queues : Held(r)' \subseteq Held(r)
    BY <1>3
  <2>2. \A r \in Queues : running'[r] \notin Waiting(r)'
    BY <1>1, <1>2 DEF OnceInv, OneHolder
  <2> QED  BY <1>1, <2>1, <2>2 DEF OnceInv, OneHolder
<1>5. Everywhere' = Everywhere \ {e}
  <2>1. e \in Held(q)
    BY <1>1 DEF Held
  <2>2. e \notin dropped /\ \A r \in Queues \ {q} : e \notin Held(r)
    BY <2>1 DEF OnceInv, OneHolder
  <2> QED  BY <1>1, <1>3, <2>2 DEF Everywhere
<1>6. HeapOwned'
  <2>1. heap' = {d \in Everywhere' : OwnsHeap(d)}
    BY <1>1, <1>5 DEF OnceInv, HeapOwned, Everywhere
  <2> QED  BY <2>1 DEF HeapOwned, Everywhere
<1>7. Submitted'
  BY <1>1, <1>3 DEF OnceInv, Submitted
<1>8. Routed'
  BY <1>1, <1>2, <1>3 DEF OnceInv, Routed
<1> QED  BY <1>3, <1>4, <1>6, <1>7, <1>8 DEF OnceInv

\* What the queue still held is dropped, uncalled.
LEMMA DestroyStep ==
  ASSUME TypeOK, OnceInv, NEW q \in Queues, Destroy(q)
  PROVE  OnceInv' /\ \A r \in Queues : Held(r)' \subseteq Held(r)
<1>1. /\ dropped' = dropped \cup Waiting(q)
      /\ armed'[q] = {} /\ active'[q] = <<>>
      /\ \A r \in Queues \ {q} : armed'[r] = armed[r] /\ active'[r] = active[r]
      /\ UNCHANGED <<running, heap, sub, dest>>
  BY DEF Destroy, TypeOK, functors
<1>2. ToSet(active'[q]) = {} /\ IsInjective(active'[q])
  BY <1>1 DEF ToSet, IsInjective
<1>3. /\ Waiting(q)' = {}
      /\ Held(q)' = Held(q) \ Waiting(q)
      /\ \A r \in Queues \ {q} : Waiting(r)' = Waiting(r) /\ Held(r)' = Held(r)
  BY <1>1, <1>2 DEF Waiting, Held, OnceInv, OneHolder
<1>4. OneHolder'
  <2>1. \A r \in Queues : /\ IsInjective(active'[r])
                          /\ armed'[r] \cap ToSet(active'[r]) = {}
                          /\ running'[r] \notin Waiting(r)'
    BY <1>1, <1>2, <1>3 DEF OnceInv, OneHolder
  <2>2. \A r \in Queues : dropped' \cap Held(r)' = {}
    BY <1>1, <1>3, HeldType DEF OnceInv, OneHolder
  <2>3. \A r, t \in Queues : r # t => Held(r)' \cap Held(t)' = {}
    BY <1>3 DEF OnceInv, OneHolder
  <2> QED  BY <2>1, <2>2, <2>3 DEF OneHolder
<1>5. Everywhere' = Everywhere
  BY <1>1, <1>3, HeldType DEF Everywhere
<1>6. HeapOwned' /\ Submitted'
  BY <1>1, <1>5 DEF OnceInv, HeapOwned, Submitted, Everywhere
<1>7. Routed'
  <2> SUFFICES ASSUME NEW r \in Queues, NEW t \in Queues, NEW f \in Fns,
                      Ev(f, "outer") \in Waiting(r)'
               PROVE  /\ dest'[f] \in Queues
                      /\ Ev(f, "inner") \notin dropped' \cup Held(t)'
    BY DEF Routed
  <2>1. Ev(f, "outer") \in Waiting(r)
    BY <1>3
  <2>2. dropped' \cup Held(t)' \subseteq dropped \cup Held(q) \cup Held(t)
    BY <1>1, <1>3, HeldType
  <2> QED  BY <1>1, <2>1, <2>2 DEF OnceInv, Routed
<1> QED  BY <1>3, <1>4, <1>6, <1>7 DEF OnceInv

\* The requeue closure runs: its event moves to the loop, and the inner closure,
\* which nothing held, is posted on the other queue or dropped.
LEMMA CallOuterStep ==
  ASSUME TypeOK, OnceInv, NEW q \in Queues, NEW f \in Fns, CallOuter(q, f)
  PROVE  OnceInv' /\ \A r \in Queues : Held(r)' \subseteq Held(r) \cup {Ev(f, "inner")}
<1> DEFINE o == Ev(f, "outer")
           e == Ev(f, "inner")
           d == dest[f]
<1>1. /\ o \in Event /\ e \in Event /\ e.fn = f /\ OwnsHeap(e)
      /\ e # o /\ o # None /\ e # None
      /\ \A g \in Fns : e # Ev(g, "outer")
      /\ \A g \in Fns : g # f => e # Ev(g, "inner")
  BY EventTypes, NoneAssumption DEF Ev, OwnsHeap
<1>2. /\ Take(q, o)
      /\ heap' = heap \cup {e}
      /\ UNCHANGED <<armed, sub, dest>>
  BY <1>1 DEF CallOuter, Closure, functors
<1>3. /\ running[q] = None /\ running'[q] = o
      /\ \A r \in Queues \ {q} : running'[r] = running[r]
  BY <1>2 DEF Take, TypeOK
<1>4. /\ Pop(q) \in [Queues -> Seq(Event)]
      /\ \A r \in Queues : IsInjective(Pop(q)[r])
      /\ o \in Waiting(q)
      /\ armed[q] \cup ToSet(Pop(q)[q]) = Waiting(q) \ {o}
      /\ armed[q] \cap ToSet(Pop(q)[q]) = {}
      /\ \A r \in Queues \ {q} : Pop(q)[r] = active[r]
  BY <1>1, <1>2, PopWaiting DEF OnceInv
<1>5. d \in Queues /\ e \notin dropped /\ \A r \in Queues : e \notin Held(r)
  BY <1>4 DEF OnceInv, Routed
<1>6. \A r \in Queues : None \notin Waiting(r) /\ Waiting(r) \subseteq Held(r)
  BY HeldType
<1>7. e \notin Everywhere /\ f \in sub
  BY <1>1, <1>4, <1>5, <1>6 DEF OnceInv, Submitted, Everywhere, Ev
<1> DEFINE Left(r) == IF r = q THEN Waiting(r) \ {o} ELSE Waiting(r)
<1>8. \A r \in Queues : /\ armed[r] \cup ToSet(Pop(q)[r]) = Left(r)
                        /\ armed[r] \cap ToSet(Pop(q)[r]) = {}
  BY <1>4 DEF Waiting, OnceInv, OneHolder
<1> DEFINE new == {e} \ dropped'
<1>9. /\ dropped' = dropped \cup ({e} \ new)
      /\ \A r \in Queues : /\ Waiting(r)' = Left(r) \cup (IF r = d THEN new ELSE {})
                            /\ IsInjective(active'[r])
                            /\ armed'[r] \cap ToSet(active'[r]) = {}
  <2>1. CASE active' = Enqueue(Pop(q), d, e) /\ UNCHANGED dropped
    <3>1. /\ active'[d] = Append(Pop(q)[d], e) /\ Pop(q)[d] \in Seq(Event)
          /\ \A r \in Queues \ {d} : active'[r] = Pop(q)[r]
      BY <1>4, <1>5, <2>1 DEF Enqueue
    <3>2. e \notin Left(d)
      BY <1>5, <1>6
    <3>3. e \notin ToSet(Pop(q)[d]) /\ e \notin armed[d]
      BY <1>5, <1>8, <3>2
    <3>4. /\ ToSet(active'[d]) = ToSet(Pop(q)[d]) \cup {e}
          /\ IsInjective(active'[d])
      BY <1>1, <1>4, <1>5, <3>1, <3>3, AppendSet
    <3>5. ASSUME NEW r \in Queues
          PROVE  /\ armed'[r] \cup ToSet(active'[r])
                      = Left(r) \cup (IF r = d THEN {e} ELSE {})
                 /\ IsInjective(active'[r])
                 /\ armed'[r] \cap ToSet(active'[r]) = {}
      <4>1. CASE r = d
        BY <1>2, <1>5, <1>8, <3>3, <3>4, <4>1
      <4>2. CASE r # d
        BY <1>2, <1>4, <1>8, <3>1, <4>2
      <4> QED  BY <4>1, <4>2
    <3>6. \A r \in Queues : Waiting(r)' = Left(r) \cup (IF r = d THEN {e} ELSE {})
      BY <3>5 DEF Waiting
    <3>7. new = {e}
      BY <1>5, <2>1
    <3> QED  BY <2>1, <3>5, <3>6, <3>7
  <2>2. CASE active' = Pop(q) /\ dropped' = dropped \cup {e}
    <3>1. \A r \in Queues : Waiting(r)' = Left(r)
      BY <1>2, <1>8, <2>2 DEF Waiting
    <3>2. \A r \in Queues : /\ IsInjective(active'[r])
                            /\ armed'[r] \cap ToSet(active'[r]) = {}
      BY <1>2, <1>4, <1>8, <2>2
    <3>3. new = {}
      BY <2>2
    <3> QED  BY <2>2, <3>1, <3>2, <3>3
  <2> QED  BY <2>1, <2>2 DEF CallOuter
<1>10. \A r \in Queues : Held(r)' = Held(r) \cup (IF r = d THEN new ELSE {})
  BY <1>1, <1>3, <1>4, <1>9 DEF Held
<1>11. OneHolder'
  <2>1. ASSUME NEW r \in Queues  PROVE running'[r] \notin Waiting(r)'
    <3>1. CASE r = q
      BY <1>1, <1>3, <1>9, <3>1
    <3>2. CASE r # q
      <4>1. running'[r] = running[r] /\ running[r] \notin Waiting(r)
        BY <1>3, <3>2 DEF OnceInv, OneHolder
      <4>2. running[r] # e
        BY <1>1, <1>5 DEF Held
      <4> QED  BY <1>9, <3>2, <4>1, <4>2
    <3> QED  BY <3>1, <3>2
  <2>2. \A r \in Queues : dropped' \cap Held(r)' = {}
    BY <1>5, <1>9, <1>10 DEF OnceInv, OneHolder
  <2>3. \A r, t \in Queues : r # t => Held(r)' \cap Held(t)' = {}
    BY <1>5, <1>10 DEF OnceInv, OneHolder
  <2> QED  BY <1>9, <2>1, <2>2, <2>3 DEF OneHolder
<1>12. Everywhere' = Everywhere \cup {e}
  <2>1. UNION {Held(r)' : r \in Queues} = (UNION {Held(r) : r \in Queues}) \cup new
    BY <1>5, <1>10
  <2> QED  BY <1>9, <2>1 DEF Everywhere
<1>13. HeapOwned'
  <2>1. heap' = {c \in Everywhere' : OwnsHeap(c)}
    BY <1>1, <1>2, <1>12 DEF OnceInv, HeapOwned, Everywhere
  <2> QED  BY <2>1 DEF HeapOwned, Everywhere
<1>14. Submitted'
  <2>1. \A c \in Everywhere' : c.fn \in sub'
    BY <1>1, <1>2, <1>7, <1>12 DEF OnceInv, Submitted, Everywhere
  <2> QED  BY <2>1 DEF Submitted, Everywhere
<1>15. Routed'
  <2> SUFFICES ASSUME NEW r \in Queues, NEW t \in Queues, NEW g \in Fns,
                      Ev(g, "outer") \in Waiting(r)'
               PROVE  /\ dest'[g] \in Queues
                      /\ Ev(g, "inner") \notin dropped' \cup Held(t)'
    BY DEF Routed
  <2>1. Ev(g, "outer") \in Left(r)
    BY <1>1, <1>9
  <2>2. g # f
    BY <1>4, <1>6, <2>1 DEF OnceInv, OneHolder
  <2>3. Ev(g, "inner") # e
    BY <1>1, <2>2
  <2> QED  BY <1>2, <1>9, <1>10, <2>1, <2>3 DEF OnceInv, Routed
<1> QED  BY <1>10, <1>11, <1>13, <1>14, <1>15 DEF OnceInv

-----------------------------------------------------------------------------
LEMMA OnceInvInductive == TypeOK /\ OnceInv /\ [Next]_vars => OnceInv'
<1> SUFFICES ASSUME TypeOK, OnceInv, [Next]_vars  PROVE OnceInv'
  OBVIOUS
<1>1. CASE UNCHANGED vars
  BY <1>1, QuietStep DEF vars
<1>2. ASSUME NEW q \in Queues, NEW f \in Fns, OnceRef(q, f) \/ OnceMove(q, f)
      PROVE  OnceInv'
  BY <1>2, SubmitStep DEF OnceRef, OnceMove, TypeOK
<1>3. ASSUME NEW q \in Queues, NEW other \in Queues, NEW f \in Fns,
             OnceRequeue(q, other, f)
      PROVE  OnceInv'
  <2>1. /\ dest' \in [Fns -> Queues \cup {None}] /\ dest'[f] = other
        /\ \A g \in Fns \ {f} : dest'[g] = dest[g]
    BY <1>3 DEF OnceRequeue, TypeOK
  <2> QED  BY <1>3, <2>1, SubmitStep DEF OnceRequeue
<1>4. ASSUME NEW q \in Queues, NEW x \in Exits, LoopExit(q, x)  PROVE OnceInv'
  BY <1>4, LoopExitStep
<1>5. ASSUME NEW q \in Queues, NEW fl \in FlagSets, Dispatch(q, fl)
      PROVE  OnceInv'
  BY <1>5, QuietStep DEF Dispatch, pending, functors
<1>6. ASSUME NEW q \in Queues,
             LoopBreak(q) \/ LoopCheck(q) \/ StartBatch(q) \/ Wake(q)
               \/ EndBatch(q)
      PROVE  OnceInv'
  BY <1>6, QuietStep
  DEF LoopBreak, LoopCheck, StartBatch, Wake, EndBatch, pending, functors
<1>7. ASSUME NEW f \in Fns, EndLife(f)  PROVE OnceInv'
  BY <1>7, QuietStep DEF EndLife, pending
<1>8. ASSUME NEW q \in Queues, NEW e \in armed[q], Expire(q, e)  PROVE OnceInv'
  BY <1>8, ExpireStep
<1>9. ASSUME NEW q \in Queues, NEW f \in Fns,
             CallBorrowed(q, f) \/ CallOwned(q, f) \/ CallInner(q, f)
      PROVE  OnceInv'
  <2>1. PICK e \in Event : Take(q, e)
    BY <1>9, EventTypes DEF CallBorrowed, CallOwned, CallInner
  <2>2. active' = Pop(q) /\ UNCHANGED <<armed, dropped, heap, sub, dest>>
    BY <1>9 DEF CallBorrowed, CallOwned, CallInner, functors
  <2> QED  BY <2>1, <2>2, CallStep
<1>10. ASSUME NEW q \in Queues, NEW f \in Fns, CallOuter(q, f)  PROVE OnceInv'
  BY <1>10, CallOuterStep
<1>11. ASSUME NEW q \in Queues, NEW x \in Exits, CallExit(q, x)  PROVE OnceInv'
  BY <1>11, CallStep, EventTypes DEF CallExit, functors
<1>12. ASSUME NEW q \in Queues, EndCall(q)  PROVE OnceInv'
  BY <1>12, EndCallStep
<1>13. ASSUME NEW q \in Queues, Destroy(q)  PROVE OnceInv'
  BY <1>13, DestroyStep
<1> QED
  BY <1>1, <1>2, <1>3, <1>4, <1>5, <1>6, <1>7, <1>8, <1>9, <1>10, <1>11,
     <1>12, <1>13
  DEF Next, LoopStep, Call

LEMMA OnceInvInit == Init => OnceInv
<1> SUFFICES ASSUME Init  PROVE OnceInv
  OBVIOUS
<1>1. \A q \in Queues : /\ active[q] = <<>> /\ armed[q] = {} /\ running[q] = None
                        /\ ToSet(active[q]) = {} /\ IsInjective(active[q])
  BY DEF Init, ToSet, IsInjective
<1>2. \A q \in Queues : Waiting(q) = {} /\ Held(q) = {}
  BY <1>1 DEF Waiting, Held
<1>3. dropped = {} /\ heap = {}
  BY DEF Init
<1> QED
  BY <1>1, <1>2, <1>3 DEF OnceInv, OneHolder, HeapOwned, Submitted, Routed

\* Every variable keeps its type, and no event is ever held twice, so that no
\* closure is called twice or deleted twice.
THEOREM EventHeldOnce == Spec => []SingleHolder
<1>1. TypeOK /\ OnceInv /\ [Next]_vars => OnceInv'
  BY OnceInvInductive
<1>2. TypeOK /\ OnceInv => SingleHolder
  BY DEF OnceInv, SingleHolder
<1> QED  BY <1>1, <1>2, OnceInvInit, TypeCorrect, PTL DEF Spec

\* The closures alive are exactly those of the events held, which never dangle,
\* and of the events dropped uncalled, the only ones that leak.
THEOREM ClosuresOwned == Spec => []HeapOwned
<1>1. TypeOK /\ OnceInv /\ [Next]_vars => OnceInv'
  BY OnceInvInductive
<1>2. OnceInv => HeapOwned
  BY DEF OnceInv
<1> QED  BY <1>1, <1>2, OnceInvInit, TypeCorrect, PTL DEF Spec

-----------------------------------------------------------------------------
(* What the trampolines read.                                               *)

ReadInv == ReadsIntact /\ ObjectsKept

\* A step that neither submits a functor, nor reads one, nor ends one's life.
LEMMA ReadQuiet ==
  ASSUME ReadInv, UNCHANGED <<read, dest, sub, obj>>,
         \A q \in Queues : \A e \in Held(q)' \ Held(q) :
           e.stage \notin {"borrowed", "outer"}
  PROVE  ReadInv'
<1>1. \A q \in Queues, f \in Fns :
        /\ Ev(f, "borrowed") \in Held(q)' => Ev(f, "borrowed") \in Held(q)
        /\ Ev(f, "outer") \in Held(q)' => Ev(f, "outer") \in Held(q)
  BY DEF Ev
<1> QED  BY <1>1 DEF ReadInv, ReadsIntact, ObjectsKept

LEMMA ReadSubmit ==
  ASSUME TypeOK, OnceInv, ReadInv, NEW q \in Queues, NEW f \in Fns,
         NEW s \in {"borrowed", "owned", "outer"}, Submit(q, f, s),
         s = "borrowed" => f \in Named,
         \A g \in Fns \ {f} : dest'[g] = dest[g],
         dest'[f] = dest[f] \/ dest'[f] \in Queues,
         \A r \in Queues : Held(r)' \subseteq Held(r) \cup {Ev(f, s)}
  PROVE  ReadInv'
<1>1. UNCHANGED <<read, obj>> /\ sub' = sub \cup {f} /\ obj[f] = "alive"
  BY DEF Submit, ReadInv, ObjectsKept
<1>2. ReadsIntact'
  BY <1>1, NoneAssumption DEF ReadInv, ReadsIntact
<1>3. ASSUME NEW r \in Queues, NEW g \in Fns, NEW t \in {"borrowed", "outer"},
             Ev(g, t) \in Held(r)'
      PROVE  Ev(g, t) \in Held(r) \/ (g = f /\ t = s)
  BY <1>3 DEF Ev
<1>4. ObjectsKept'
  BY <1>1, <1>3 DEF ReadInv, ObjectsKept
<1> QED  BY <1>2, <1>4 DEF ReadInv

\* A trampoline that reads the functor of an event it has just taken.
LEMMA ReadCall ==
  ASSUME ReadInv, NEW f \in Fns, UNCHANGED <<dest, sub, obj>>,
         \A g \in Fns \ {f} : read'[g] = read[g],
         read'[f] = "garbage" => f \in Temps /\ dest[f] # None,
         \A q \in Queues : \A e \in Held(q)' \ Held(q) :
           e.stage \notin {"borrowed", "outer"}
  PROVE  ReadInv'
<1>1. \A q \in Queues, g \in Fns :
        /\ Ev(g, "borrowed") \in Held(q)' => Ev(g, "borrowed") \in Held(q)
        /\ Ev(g, "outer") \in Held(q)' => Ev(g, "outer") \in Held(q)
  BY DEF Ev
<1> QED  BY <1>1 DEF ReadInv, ReadsIntact, ObjectsKept

LEMMA TakenHeld ==
  ASSUME TypeOK, NEW q \in Queues, NEW e \in Event, Take(q, e), OneHolder
  PROVE  e \in Waiting(q) /\ e \in Held(q)
BY PopWaiting DEF Held

LEMMA ReadInvInductive ==
  TypeOK /\ OnceInv /\ ReadInv /\ [Next]_vars => ReadInv'
<1> SUFFICES ASSUME TypeOK, OnceInv, ReadInv, [Next]_vars  PROVE ReadInv'
  OBVIOUS
<1> USE DEF functors
<1>1. CASE UNCHANGED vars
  <2>1. \A q \in Queues : Held(q)' = Held(q)
    BY <1>1 DEF vars, Held, Waiting
  <2> QED  BY <1>1, <2>1, ReadQuiet DEF vars
<1>2. ASSUME NEW q \in Queues, NEW f \in Fns, OnceRef(q, f) \/ OnceMove(q, f)
      PROVE  ReadInv'
  BY <1>2, SubmitStep, ReadSubmit DEF OnceRef, OnceMove, TypeOK
<1>3. ASSUME NEW q \in Queues, NEW other \in Queues, NEW f \in Fns,
             OnceRequeue(q, other, f)
      PROVE  ReadInv'
  <2>1. /\ dest' \in [Fns -> Queues \cup {None}] /\ dest'[f] = other
        /\ \A g \in Fns \ {f} : dest'[g] = dest[g]
    BY <1>3 DEF OnceRequeue, TypeOK
  <2> QED  BY <1>3, <2>1, SubmitStep, ReadSubmit DEF OnceRequeue
<1>4. ASSUME NEW q \in Queues, NEW x \in Exits, LoopExit(q, x)  PROVE ReadInv'
  <2>1. /\ UNCHANGED <<read, dest, obj>> /\ sub' = sub \cup {x}
        /\ \A r \in Queues : Held(r)' \subseteq Held(r) \cup {Ev(x, "exit")}
    BY <1>4, LoopExitStep DEF LoopExit
  <2>2. \A r \in Queues, f \in Fns :
          /\ Ev(f, "borrowed") \in Held(r)' => Ev(f, "borrowed") \in Held(r)
          /\ Ev(f, "outer") \in Held(r)' => Ev(f, "outer") \in Held(r)
    BY <2>1 DEF Ev
  <2> QED  BY <2>1, <2>2 DEF ReadInv, ReadsIntact, ObjectsKept
<1>5. ASSUME NEW q \in Queues, NEW fl \in FlagSets, Dispatch(q, fl)
      PROVE  ReadInv'
  BY <1>5, QuietStep, ReadQuiet DEF Dispatch, pending
<1>6. ASSUME NEW q \in Queues,
             LoopBreak(q) \/ LoopCheck(q) \/ StartBatch(q) \/ Wake(q)
               \/ EndBatch(q)
      PROVE  ReadInv'
  BY <1>6, QuietStep, ReadQuiet
  DEF LoopBreak, LoopCheck, StartBatch, Wake, EndBatch, pending
<1>7. ASSUME NEW f \in Fns, EndLife(f)  PROVE ReadInv'
  <2>1. UNCHANGED <<read, dest, sub>> /\ f \in sub
        /\ \A g \in Fns \ {f} : obj'[g] = obj[g]
    BY <1>7 DEF EndLife, TypeOK
  <2>2. \A q \in Queues : Held(q)' = Held(q)
    BY <1>7 DEF EndLife, pending, Held, Waiting
  <2>3. \A q \in Queues : f \in Named => Ev(f, "borrowed") \notin Held(q)
                                        /\ Ev(f, "outer") \notin Held(q)
    BY <1>7 DEF EndLife
  <2>4. ReadsIntact'
    BY <2>1 DEF ReadInv, ReadsIntact
  <2>5. ObjectsKept'
    BY <2>1, <2>2, <2>3 DEF ReadInv, ObjectsKept
  <2> QED  BY <2>4, <2>5 DEF ReadInv
<1>8. ASSUME NEW q \in Queues, NEW e \in armed[q], Expire(q, e)  PROVE ReadInv'
  BY <1>8, ExpireStep, ReadQuiet DEF Expire
<1>9. ASSUME NEW q \in Queues, NEW f \in Fns, CallBorrowed(q, f)
      PROVE  ReadInv'
  <2>1. Ev(f, "borrowed") \in Event /\ Take(q, Ev(f, "borrowed"))
        /\ active' = Pop(q) /\ UNCHANGED <<armed, dropped, heap, sub, dest, obj>>
    BY <1>9, EventTypes DEF CallBorrowed
  <2>2. obj[f] = "alive"
    BY <2>1, TakenHeld DEF OnceInv, ReadInv, ObjectsKept
  <2>3. read' = [read EXCEPT ![f] = "intact"]
    BY <1>9, <2>2 DEF CallBorrowed, Found
  <2> QED  BY <2>1, <2>3, CallStep, ReadCall DEF TypeOK
<1>10. ASSUME NEW q \in Queues, NEW f \in Fns, CallOwned(q, f)
       PROVE  ReadInv'
  <2>1. Ev(f, "owned") \in Event /\ Take(q, Ev(f, "owned"))
        /\ active' = Pop(q) /\ UNCHANGED <<armed, dropped, heap, sub, dest, obj>>
    BY <1>10, EventTypes DEF CallOwned
  <2>2. Ev(f, "owned") \in heap
    BY <2>1, TakenHeld DEF OnceInv, HeapOwned, OwnsHeap, Ev
  <2>3. read' = [read EXCEPT ![f] = "intact"]
    BY <1>10, <2>2 DEF CallOwned, Found
  <2> QED  BY <2>1, <2>3, CallStep, ReadCall DEF TypeOK
<1>11. ASSUME NEW q \in Queues, NEW f \in Fns, CallInner(q, f)
       PROVE  ReadInv'
  <2>1. Ev(f, "inner") \in Event /\ Take(q, Ev(f, "inner"))
        /\ active' = Pop(q) /\ UNCHANGED <<armed, dropped, heap, sub, dest, obj>>
    BY <1>11, EventTypes DEF CallInner
  <2>2. Ev(f, "inner") \in heap
    BY <2>1, TakenHeld DEF OnceInv, HeapOwned, OwnsHeap, Ev
  <2>3. read' = [read EXCEPT ![f] = @]
    BY <1>11, <2>2 DEF CallInner, Found
  <2>4. read' = read
    BY <2>3 DEF TypeOK
  <2> QED  BY <2>1, <2>4, CallStep, ReadQuiet
<1>12. ASSUME NEW q \in Queues, NEW f \in Fns, CallOuter(q, f)  PROVE ReadInv'
  <2>1. Ev(f, "outer") \in Event /\ Take(q, Ev(f, "outer"))
        /\ UNCHANGED <<sub, dest, obj>>
    BY <1>12, EventTypes DEF CallOuter
  <2>2. Ev(f, "outer") \in Waiting(q) /\ Ev(f, "outer") \in Held(q)
    BY <2>1, TakenHeld DEF OnceInv
  <2>3. dest[f] # None
    BY <2>2, NoneAssumption DEF OnceInv, Routed
  <2>4. PICK found \in Found(obj[f] = "alive") :
          read' = [read EXCEPT ![f] = found]
    BY <1>12 DEF CallOuter
  <2>5. read'[f] = "garbage" => obj[f] # "alive"
    BY <2>4 DEF Found, TypeOK
  <2>6. read'[f] = "garbage" => f \in Temps
    BY <2>2, <2>5 DEF ReadInv, ObjectsKept, Fns
  <2>7. \A g \in Fns \ {f} : read'[g] = read[g]
    BY <2>4 DEF TypeOK
  <2>8. \A r \in Queues : \A e \in Held(r)' \ Held(r) : e.stage = "inner"
    BY <1>12, CallOuterStep DEF Ev
  <2> QED  BY <2>1, <2>3, <2>6, <2>7, <2>8, ReadCall
<1>13. ASSUME NEW q \in Queues, NEW x \in Exits, CallExit(q, x)  PROVE ReadInv'
  <2>1. Ev(x, "exit") \in Event
    BY EventTypes
  <2> QED  BY <1>13, <2>1, CallStep, ReadQuiet DEF CallExit
<1>14. ASSUME NEW q \in Queues, EndCall(q)  PROVE ReadInv'
  BY <1>14, EndCallStep, ReadQuiet DEF EndCall
<1>15. ASSUME NEW q \in Queues, Destroy(q)  PROVE ReadInv'
  BY <1>15, DestroyStep, ReadQuiet DEF Destroy
<1> QED
  BY <1>1, <1>2, <1>3, <1>4, <1>5, <1>6, <1>7, <1>8, <1>9, <1>10, <1>11,
     <1>12, <1>13, <1>14, <1>15
  DEF Next, LoopStep, Call

\* The trampolines read live functors: the one exception is the requeue closure
\* of a functor that was a temporary.
THEOREM NamedReadsIntact == Spec => []ReadsIntact
<1>1. Init => ReadInv
  <2> SUFFICES ASSUME Init  PROVE ReadInv
    OBVIOUS
  <2>1. \A q \in Queues : Held(q) = {}
    BY DEF Init, Held, Waiting, ToSet
  <2> QED  BY <2>1 DEF Init, ReadInv, ReadsIntact, ObjectsKept
<1>2. TypeOK /\ OnceInv /\ [Next]_vars => OnceInv'
  BY OnceInvInductive
<1>3. TypeOK /\ OnceInv /\ ReadInv /\ [Next]_vars => ReadInv'
  BY ReadInvInductive
<1>4. ReadInv => ReadsIntact
  BY DEF ReadInv
<1> QED
  BY <1>1, <1>2, <1>3, <1>4, OnceInvInit, TypeCorrect, PTL DEF Spec

-----------------------------------------------------------------------------
(* The order of requeued functors.                                          *)

\* What a queue has called and is about to call, in that order.
Trace(q) == log[q] \o active[q]

Precedes(s, x, y) == \E i, j \in DOMAIN s : i < j /\ s[i] = x /\ s[j] = y

\* An inner closure was posted by its outer one, and none is lost but what was dropped.
Posted(q, f) ==
  /\ Ev(f, "inner") \notin armed[q]
  /\ Ev(f, "inner") \in ToSet(Trace(q)) => \E r \in Queues : Ev(f, "outer") \in ToSet(log[r])
  /\ Ev(f, "outer") \in ToSet(log[q]) =>
       dest[f] \in Queues /\ Ev(f, "inner") \in dropped \cup ToSet(Trace(dest[f]))

\* The inner closures are due, or were called, in the order of the outer ones.
Follows(q, d, f, g) ==
  /\ dest[f] = d /\ dest[g] = d
  /\ Precedes(log[q], Ev(f, "outer"), Ev(g, "outer"))
  /\ Ev(g, "inner") \in ToSet(Trace(d))
  /\ Ev(f, "inner") \notin dropped
  => Precedes(Trace(d), Ev(f, "inner"), Ev(g, "inner"))

\* What makes RequeueInOrder inductive; and an event that was called is called no more.
Travels ==
  /\ \A q, r \in Queues : \A e \in ToSet(log[q]) : e.fn \in sub /\ e \notin Waiting(r)
  /\ \A q \in Queues, f \in Fns : Posted(q, f)
  /\ \A q, d \in Queues, f, g \in Fns : Follows(q, d, f, g)

\* What a concatenation holds, and where.
LEMMA ConcatSet ==
  ASSUME NEW S, NEW s \in Seq(S), NEW t \in Seq(S)
  PROVE  /\ s \o t \in Seq(S)
         /\ ToSet(s \o t) = ToSet(s) \cup ToSet(t)
         /\ \A x, y : Precedes(s, x, y) => Precedes(s \o t, x, y)
         /\ \A x, y : Precedes(s \o t, x, y) /\ y \notin ToSet(t) => Precedes(s, x, y)
<1>1. /\ s \o t \in Seq(S) /\ Len(s) \in Nat /\ Len(t) \in Nat
      /\ DOMAIN s = 1 .. Len(s) /\ DOMAIN t = 1 .. Len(t)
      /\ DOMAIN (s \o t) = 1 .. Len(s) + Len(t)
      /\ \A i \in 1 .. Len(s) + Len(t) :
           (s \o t)[i] = IF i <= Len(s) THEN s[i] ELSE t[i - Len(s)]
  BY ConcatProperties, LenProperties
<1>2. \A i \in DOMAIN s : i \in DOMAIN (s \o t) /\ (s \o t)[i] = s[i]
  BY <1>1
<1>3. \A i \in DOMAIN t :
        i + Len(s) \in DOMAIN (s \o t) /\ (s \o t)[i + Len(s)] = t[i]
  <2> SUFFICES ASSUME NEW i \in 1 .. Len(t)
               PROVE  i + Len(s) \in 1 .. Len(s) + Len(t) /\ (s \o t)[i + Len(s)] = t[i]
    BY <1>1
  <2>1. /\ i + Len(s) \in 1 .. Len(s) + Len(t) /\ ~(i + Len(s) <= Len(s))
        /\ (i + Len(s)) - Len(s) = i
    BY <1>1
  <2> QED  BY <1>1, <2>1
<1>4. \A i \in DOMAIN (s \o t) :
        \/ i \in DOMAIN s /\ (s \o t)[i] = s[i]
        \/ i - Len(s) \in DOMAIN t /\ (s \o t)[i] = t[i - Len(s)]
  <2> SUFFICES ASSUME NEW i \in 1 .. Len(s) + Len(t)
               PROVE  \/ i \in 1 .. Len(s) /\ (s \o t)[i] = s[i]
                      \/ i - Len(s) \in 1 .. Len(t) /\ (s \o t)[i] = t[i - Len(s)]
    BY <1>1
  <2>1. CASE i <= Len(s)
    <3>1. i \in 1 .. Len(s)  BY <1>1, <2>1
    <3> QED  BY <1>1, <2>1, <3>1
  <2>2. CASE ~(i <= Len(s))
    <3>1. i - Len(s) \in 1 .. Len(t)  BY <1>1, <2>2
    <3> QED  BY <1>1, <2>2, <3>1
  <2> QED  BY <2>1, <2>2
<1>5. ToSet(s \o t) = ToSet(s) \cup ToSet(t)
  <2>1. ASSUME NEW x \in ToSet(s \o t) PROVE x \in ToSet(s) \cup ToSet(t)
    <3>1. PICK i \in DOMAIN (s \o t) : (s \o t)[i] = x  BY <2>1 DEF ToSet
    <3> QED  BY <3>1, <1>4 DEF ToSet
  <2>2. ASSUME NEW x \in ToSet(s) PROVE x \in ToSet(s \o t)
    BY <2>2, <1>2 DEF ToSet
  <2>3. ASSUME NEW x \in ToSet(t) PROVE x \in ToSet(s \o t)
    BY <2>3, <1>3 DEF ToSet
  <2> QED  BY <2>1, <2>2, <2>3
<1>6. ASSUME NEW x, NEW y, Precedes(s, x, y) PROVE Precedes(s \o t, x, y)
  BY <1>6, <1>2 DEF Precedes
<1>7. ASSUME NEW x, NEW y, Precedes(s \o t, x, y), y \notin ToSet(t)
      PROVE  Precedes(s, x, y)
  <2>1. PICK i, j \in DOMAIN (s \o t) : i < j /\ (s \o t)[i] = x /\ (s \o t)[j] = y
    BY <1>7 DEF Precedes
  <2>2. j \in DOMAIN s /\ s[j] = y  BY <2>1, <1>4, <1>7 DEF ToSet
  <2>3. i \in 1 .. Len(s)  BY <2>1, <2>2, <1>1
  <2> QED  BY <2>1, <2>2, <2>3, <1>1, <1>2 DEF Precedes
<1> QED  BY <1>1, <1>5, <1>6, <1>7

\* One more element comes after all the others.
LEMMA AppendPrecedes ==
  ASSUME NEW S, NEW s \in Seq(S), NEW e \in S
  PROVE  /\ \A x, y : Precedes(s, x, y) => Precedes(Append(s, e), x, y)
         /\ \A x, y : Precedes(Append(s, e), x, y) =>
              Precedes(s, x, y) \/ (y = e /\ x \in ToSet(s))
         /\ \A x \in ToSet(s) : Precedes(Append(s, e), x, e)
<1>1. /\ Len(s) \in Nat /\ DOMAIN s = 1 .. Len(s)
      /\ DOMAIN Append(s, e) = 1 .. (Len(s) + 1)
      /\ Append(s, e)[Len(s) + 1] = e
      /\ \A i \in 1 .. Len(s) : Append(s, e)[i] = s[i]
  BY AppendProperties, LenProperties
<1>2. \A i \in DOMAIN s : i \in DOMAIN Append(s, e) /\ i < Len(s) + 1
  BY <1>1
<1>3. ASSUME NEW x, NEW y, Precedes(s, x, y) PROVE Precedes(Append(s, e), x, y)
  BY <1>1, <1>2, <1>3 DEF Precedes
<1>4. ASSUME NEW x, NEW y, Precedes(Append(s, e), x, y)
      PROVE  Precedes(s, x, y) \/ (y = e /\ x \in ToSet(s))
  <2>1. PICK i, j \in 1 .. (Len(s) + 1) :
          i < j /\ Append(s, e)[i] = x /\ Append(s, e)[j] = y
    BY <1>1, <1>4 DEF Precedes
  <2>2. i \in 1 .. Len(s) /\ s[i] = x  BY <1>1, <2>1
  <2>3. CASE j = Len(s) + 1  BY <1>1, <2>1, <2>2, <2>3 DEF ToSet
  <2>4. CASE j # Len(s) + 1
    <3>1. j \in 1 .. Len(s)  BY <1>1, <2>1, <2>4
    <3> QED  BY <1>1, <2>1, <2>2, <3>1 DEF Precedes
  <2> QED  BY <2>3, <2>4
<1>5. ASSUME NEW x \in ToSet(s) PROVE Precedes(Append(s, e), x, e)
  <2>1. PICK i \in DOMAIN s : s[i] = x  BY <1>5 DEF ToSet
  <2>2. Len(s) + 1 \in DOMAIN Append(s, e)  BY <1>1
  <2> QED  BY <1>1, <1>2, <2>1, <2>2 DEF Precedes
<1> QED  BY <1>3, <1>4, <1>5

\* The element that goes from the head of one sequence to the end of another, in front
\* of it, and one that is put behind both.
LEMMA ConcatMoves ==
  ASSUME NEW S, NEW s \in Seq(S), NEW t \in Seq(S)
  PROVE  /\ t # <<>> => Append(s, Head(t)) \o Tail(t) = s \o t
         /\ \A e \in S : s \o Append(t, e) = Append(s \o t, e)
<1>1. /\ Len(s) \in Nat /\ Len(t) \in Nat
      /\ s \o t \in Seq(S) /\ Len(s \o t) = Len(s) + Len(t)
      /\ \A i \in 1 .. Len(s) + Len(t) :
           (s \o t)[i] = IF i <= Len(s) THEN s[i] ELSE t[i - Len(s)]
  BY ConcatProperties, LenProperties
<1>2. ASSUME t # <<>> PROVE Append(s, Head(t)) \o Tail(t) = s \o t
  <2>1. /\ Head(t) = t[1] /\ Head(t) \in S /\ Tail(t) \in Seq(S) /\ Len(t) >= 1
        /\ Len(Tail(t)) = Len(t) - 1
        /\ \A i \in 1 .. (Len(t) - 1) : Tail(t)[i] = t[i + 1]
    BY <1>1, <1>2, HeadTailProperties, LenProperties, EmptySeq
  <2> DEFINE a == Append(s, Head(t))
  <2>2. /\ a \in Seq(S) /\ Len(a) = Len(s) + 1 /\ a[Len(s) + 1] = t[1]
        /\ \A i \in 1 .. Len(s) : a[i] = s[i]
    BY <1>1, <2>1, AppendProperties
  <2> HIDE DEF a
  <2>3. /\ a \o Tail(t) \in Seq(S) /\ Len(a \o Tail(t)) = Len(a) + Len(Tail(t))
        /\ \A i \in 1 .. Len(a) + Len(Tail(t)) :
             (a \o Tail(t))[i] = IF i <= Len(a) THEN a[i] ELSE Tail(t)[i - Len(a)]
    BY <2>1, <2>2, ConcatProperties
  <2>4. Len(a \o Tail(t)) = Len(s \o t)  BY <1>1, <2>1, <2>2, <2>3
  <2>5. ASSUME NEW i \in 1 .. Len(s) + Len(t)
        PROVE  (a \o Tail(t))[i] = (s \o t)[i]
    <3>1. CASE i <= Len(s)
      <4>1. (a \o Tail(t))[i] = a[i] /\ a[i] = s[i]  BY <1>1, <2>1, <2>2, <2>3, <3>1
      <4> QED  BY <1>1, <3>1, <4>1
    <3>2. CASE i = Len(s) + 1
      <4>1. (a \o Tail(t))[i] = a[i]  BY <1>1, <2>1, <2>2, <2>3, <3>2
      <4>2. i - Len(s) = 1 /\ ~(i <= Len(s))  BY <1>1, <3>2
      <4> QED  BY <1>1, <2>2, <3>2, <4>1, <4>2
    <3>3. CASE i > Len(s) + 1
      <4>1. (a \o Tail(t))[i] = Tail(t)[i - Len(a)]  BY <1>1, <2>1, <2>2, <2>3, <3>3
      <4>2. i - Len(a) \in 1 .. (Len(t) - 1) /\ (i - Len(a)) + 1 = i - Len(s)
        BY <1>1, <2>1, <2>2, <3>3
      <4>3. Tail(t)[i - Len(a)] = t[i - Len(s)]  BY <2>1, <4>2
      <4>4. ~(i <= Len(s))  BY <1>1, <3>3
      <4> QED  BY <1>1, <4>1, <4>3, <4>4
    <3>4. \A m \in Nat : i <= m \/ i = m + 1 \/ i > m + 1  OBVIOUS
    <3> QED  BY <1>1, <3>1, <3>2, <3>3, <3>4
  <2>6. a \o Tail(t) = s \o t  BY <1>1, <2>3, <2>4, <2>5, SeqEqual
  <2> QED  BY <2>6 DEF a
<1>3. ASSUME NEW e \in S PROVE s \o Append(t, e) = Append(s \o t, e)
  <2> DEFINE b == Append(t, e)
             c == Append(s \o t, e)
  <2>1. /\ b \in Seq(S) /\ Len(b) = Len(t) + 1 /\ b[Len(t) + 1] = e
        /\ \A i \in 1 .. Len(t) : b[i] = t[i]
    BY <1>1, AppendProperties
  <2>2. /\ c \in Seq(S) /\ Len(c) = Len(s) + Len(t) + 1 /\ c[Len(s) + Len(t) + 1] = e
        /\ \A i \in 1 .. Len(s) + Len(t) : c[i] = (s \o t)[i]
    BY <1>1, AppendProperties
  <2> HIDE DEF b, c
  <2>3. /\ s \o b \in Seq(S) /\ Len(s \o b) = Len(s) + Len(b)
        /\ \A i \in 1 .. Len(s) + Len(b) :
             (s \o b)[i] = IF i <= Len(s) THEN s[i] ELSE b[i - Len(s)]
    BY <2>1, ConcatProperties
  <2>4. Len(s \o b) = Len(c)  BY <1>1, <2>1, <2>2, <2>3
  <2>5. ASSUME NEW i \in 1 .. Len(s) + Len(t) + 1 PROVE (s \o b)[i] = c[i]
    <3>1. CASE i <= Len(s)
      <4>1. (s \o b)[i] = s[i]  BY <1>1, <2>1, <2>3, <3>1
      <4>2. c[i] = (s \o t)[i]  BY <1>1, <2>2, <3>1
      <4> QED  BY <1>1, <3>1, <4>1, <4>2
    <3>2. CASE i > Len(s) /\ i <= Len(s) + Len(t)
      <4>1. (s \o b)[i] = b[i - Len(s)]  BY <1>1, <2>1, <2>3, <3>2
      <4>2. i - Len(s) \in 1 .. Len(t)  BY <1>1, <3>2
      <4>3. c[i] = (s \o t)[i]  BY <1>1, <2>2, <3>2
      <4>4. ~(i <= Len(s))  BY <1>1, <3>2
      <4> QED  BY <1>1, <2>1, <4>1, <4>2, <4>3, <4>4
    <3>3. CASE i = Len(s) + Len(t) + 1
      <4>1. (s \o b)[i] = b[i - Len(s)]  BY <1>1, <2>1, <2>3, <3>3
      <4>2. i - Len(s) = Len(t) + 1  BY <1>1, <3>3
      <4> QED  BY <2>1, <2>2, <3>3, <4>1, <4>2
    <3>4. \A m, n \in Nat :
            i \in 1 .. m + n + 1 => i <= m \/ (i > m /\ i <= m + n) \/ i = m + n + 1
      OBVIOUS
    <3> QED  BY <1>1, <2>5, <3>1, <3>2, <3>3, <3>4
  <2>6. s \o b = c  BY <1>1, <2>2, <2>3, <2>4, <2>5, SeqEqual
  <2> QED  BY <2>6 DEF b, c
<1> QED  BY <1>2, <1>3

LEMMA ConcatAppend ==
  ASSUME NEW S, NEW s \in Seq(S), NEW t \in Seq(S), NEW e \in S
  PROVE  s \o Append(t, e) = Append(s \o t, e)
BY ConcatMoves


LEMMA TraceType ==
  ASSUME TypeOK, NEW q \in Queues
  PROVE  /\ log[q] \in Seq(Event) /\ active[q] \in Seq(Event) /\ Trace(q) \in Seq(Event)
         /\ ToSet(Trace(q)) = ToSet(log[q]) \cup ToSet(active[q])
         /\ ToSet(active[q]) \subseteq Waiting(q)
<1>1. log[q] \in Seq(Event) /\ active[q] \in Seq(Event)  BY DEF TypeOK
<1> QED  BY <1>1, ConcatSet DEF Trace, Waiting

LEMMA EvParts ==
  \A f, g, s, t : Ev(f, s) = Ev(g, t) <=> f = g /\ s = t
BY DEF Ev

\* Nothing is called or posted, and nothing is forgotten but what was not submitted.
LEMMA TravelsQuiet ==
  ASSUME Travels, UNCHANGED <<log, active, armed, dropped, dest>>, sub \subseteq sub'
  PROVE  Travels'
<1>1. \A q \in Queues, f \in Fns : Posted(q, f)' <=> Posted(q, f)
  BY DEF Posted, Trace
<1>2. \A q, d \in Queues, f, g \in Fns : Follows(q, d, f, g)' <=> Follows(q, d, f, g)
  BY DEF Follows, Trace
<1> QED  BY <1>1, <1>2 DEF Travels, Waiting

\* An event that is no inner closure and was not called waits, or is due, or dropped.
LEMMA TravelsPosted ==
  ASSUME TypeOK, Travels, UNCHANGED log, sub \subseteq sub', dropped \subseteq dropped',
         \A f \in Fns \cap sub : dest'[f] = dest[f],
         NEW e \in Event, e.stage # "inner", \A q \in Queues : e \notin ToSet(log[q]),
         \A q \in Queues : /\ Waiting(q)' \subseteq Waiting(q) \cup {e}
                           /\ armed'[q] \subseteq armed[q] \cup {e}
                           /\ active'[q] \in {active[q], Append(active[q], e)}
  PROVE  Travels'
<1>1. \A f : Ev(f, "inner") # e  BY DEF Ev
<1>2. ASSUME NEW q \in Queues
      PROVE  /\ \A x : x # e => (x \in ToSet(Trace(q)') <=> x \in ToSet(Trace(q)))
             /\ \A x, y : Precedes(Trace(q), x, y) => Precedes(Trace(q)', x, y)
  <2>1. CASE active'[q] = active[q]
    <3>1. Trace(q)' = Trace(q)  BY <2>1 DEF Trace
    <3> QED  BY <3>1
  <2>2. CASE active'[q] = Append(active[q], e)
    <3>1. /\ log[q] \in Seq(Event) /\ active[q] \in Seq(Event) /\ Trace(q) \in Seq(Event)
          /\ e \in Event
      BY TraceType
    <3>2. Trace(q)' = log[q] \o Append(active[q], e)  BY <2>2 DEF Trace
    <3>3. log[q] \o Append(active[q], e) = Append(log[q] \o active[q], e)
      <4>1. \A s, t \in Seq(Event) : s \o Append(t, e) = Append(s \o t, e)
        BY <3>1, ConcatAppend
      <4> QED  BY ONLY <3>1, <4>1
    <3>4. Trace(q)' = Append(Trace(q), e)  BY <3>2, <3>3 DEF Trace
    <3>5. ToSet(Append(Trace(q), e)) = ToSet(Trace(q)) \cup {e}  BY <3>1, AppendSet
    <3>6. \A x, y : Precedes(Trace(q), x, y) => Precedes(Append(Trace(q), e), x, y)
      BY <3>1, AppendPrecedes
    <3> QED  BY <3>4, <3>5, <3>6
  <2> QED  BY <2>1, <2>2
<1>3. \A q \in Queues, f \in Fns : Ev(f, "outer") \in ToSet(log[q]) => f \in sub
  BY DEF Travels, Ev
<1>4. \A q, r \in Queues : \A x \in ToSet(log[q]') : x.fn \in sub' /\ x \notin Waiting(r)'
  BY DEF Travels
<1>5. ASSUME NEW q \in Queues, NEW f \in Fns PROVE Posted(q, f)'
  <2>1. Posted(q, f)  BY DEF Travels
  <2>2. Ev(f, "inner") \notin armed'[q]  BY <1>1, <2>1 DEF Posted
  <2>3. Ev(f, "inner") \in ToSet(Trace(q)') =>
          \E r \in Queues : Ev(f, "outer") \in ToSet(log'[r])
    BY <1>1, <1>2, <2>1 DEF Posted
  <2>4. ASSUME Ev(f, "outer") \in ToSet(log'[q])
        PROVE  /\ dest'[f] \in Queues
               /\ Ev(f, "inner") \in dropped' \cup ToSet(Trace(dest[f])')
    <3>1. dest'[f] = dest[f]  BY <1>3, <2>4
    <3>2. PICK d \in Queues : d = dest[f]  BY <2>1, <2>4 DEF Posted
    <3>3. Ev(f, "inner") \in dropped \cup ToSet(Trace(d))  BY <2>1, <2>4, <3>2 DEF Posted
    <3>4. Ev(f, "inner") \in dropped' \cup ToSet(Trace(d)')  BY <1>1, <1>2, <3>3
    <3> QED  BY <3>1, <3>2, <3>4 DEF Trace
  <2> QED  BY <2>2, <2>3, <2>4 DEF Posted
<1>6. ASSUME NEW q \in Queues, NEW d \in Queues, NEW f \in Fns, NEW g \in Fns
      PROVE  Follows(q, d, f, g)'
  <2> SUFFICES ASSUME dest'[f] = d, dest'[g] = d,
                      Precedes(log[q], Ev(f, "outer"), Ev(g, "outer")),
                      Ev(g, "inner") \in ToSet(Trace(d)'), Ev(f, "inner") \notin dropped'
               PROVE  Precedes(Trace(d)', Ev(f, "inner"), Ev(g, "inner"))
    BY DEF Follows
  <2>1. Ev(f, "outer") \in ToSet(log[q]) /\ Ev(g, "outer") \in ToSet(log[q])
    BY DEF Precedes, ToSet
  <2>2. dest[f] = d /\ dest[g] = d  BY <1>3, <2>1
  <2>3. Ev(g, "inner") \in ToSet(Trace(d))  BY <1>1, <1>2
  <2>4. Follows(q, d, f, g)  BY DEF Travels
  <2>5. Precedes(Trace(d), Ev(f, "inner"), Ev(g, "inner"))
    BY <2>2, <2>3, <2>4 DEF Follows
  <2> QED  BY <1>2, <2>5
<1> QED  BY <1>4, <1>5, <1>6 DEF Travels

\* The loop takes an event: it goes from the due ones to the log, and so the trace stays.
LEMMA TakeTrace ==
  ASSUME TypeOK, OnceInv, NEW q \in Queues, NEW e \in Event, Take(q, e)
  PROVE  /\ log[q] \in Seq(Event) /\ log'[q] = Append(log[q], e)
         /\ \A r \in Queues \ {q} : log'[r] = log[r]
         /\ ToSet(log'[q]) = ToSet(log[q]) \cup {e}
         /\ \A r \in Queues : log'[r] \o Pop(q)[r] = Trace(r)
         /\ \A r \in Queues : armed[r] \cup ToSet(Pop(q)[r]) = Waiting(r) \ {e}
         /\ e \in Waiting(q)
<1>1. /\ log[q] \in Seq(Event) /\ active[q] \in Seq(Event)
      /\ active[q] # <<>> /\ Head(active[q]) = e
  BY TraceType DEF Take
<1>2. log'[q] = Append(log[q], e) /\ \A r \in Queues \ {q} : log'[r] = log[r]
  BY DEF Take, TypeOK
<1>3. Pop(q)[q] = Tail(active[q]) /\ \A r \in Queues \ {q} : Pop(q)[r] = active[r]
  BY DEF Pop, TypeOK
<1>4. Append(log[q], e) \o Tail(active[q]) = log[q] \o active[q]  BY <1>1, ConcatMoves
<1>5. \A r \in Queues : log'[r] \o Pop(q)[r] = Trace(r)  BY <1>2, <1>3, <1>4 DEF Trace
<1>6. ToSet(log'[q]) = ToSet(log[q]) \cup {e}  BY <1>1, <1>2, AppendSet
<1>7. /\ e \in Waiting(q) /\ armed[q] \cup ToSet(Pop(q)[q]) = Waiting(q) \ {e}
  BY PopWaiting DEF OnceInv
<1>8. ASSUME NEW r \in Queues \ {q}
      PROVE  armed[r] \cup ToSet(Pop(q)[r]) = Waiting(r) \ {e}
  <2>1. e \notin Waiting(r)  BY <1>7, HeldType DEF OnceInv, OneHolder
  <2>2. armed[r] \cup ToSet(Pop(q)[r]) = Waiting(r)  BY <1>3 DEF Waiting
  <2> QED  BY <2>1, <2>2
<1> QED  BY <1>1, <1>2, <1>5, <1>6, <1>7, <1>8

\* The event of a callback that posts nothing.
LEMMA TravelsCall ==
  ASSUME TypeOK, OnceInv, Travels, NEW q \in Queues, NEW e \in Event, Take(q, e),
         e.stage # "outer", active' = Pop(q), UNCHANGED <<armed, dropped, sub, dest>>
  PROVE  Travels'
<1>1. \A f : Ev(f, "outer") # e  BY DEF Ev
<1>2. /\ log[q] \in Seq(Event) /\ log'[q] = Append(log[q], e)
      /\ \A r \in Queues \ {q} : log'[r] = log[r]
      /\ ToSet(log'[q]) = ToSet(log[q]) \cup {e}
  BY TakeTrace
<1>3. ASSUME NEW r \in Queues
      PROVE  Trace(r)' = Trace(r) /\ Waiting(r)' = Waiting(r) \ {e}
  <2>1. log'[r] \o active'[r] = Trace(r)  BY TakeTrace
  <2>2. armed'[r] \cup ToSet(active'[r]) = Waiting(r) \ {e}  BY TakeTrace
  <2> QED  BY <2>1, <2>2 DEF Trace, Waiting
<1>4. e.fn \in sub
  BY TakeTrace, HeldType DEF OnceInv, Submitted
<1>5. ASSUME NEW r \in Queues, NEW t \in Queues, NEW x \in ToSet(log'[r])
      PROVE  x.fn \in sub' /\ x \notin Waiting(t)'
  BY <1>2, <1>3, <1>4, <1>5 DEF Travels
<1>6. \A r \in Queues, f \in Fns :
        Ev(f, "outer") \in ToSet(log'[r]) <=> Ev(f, "outer") \in ToSet(log[r])
  BY <1>1, <1>2
<1>7. ASSUME NEW r \in Queues, NEW f \in Fns PROVE Posted(r, f)'
  <2>1. Posted(r, f)  BY DEF Travels
  <2>2. Ev(f, "outer") \in ToSet(log'[r]) =>
          dest[f] \in Queues /\ Ev(f, "inner") \in dropped \cup ToSet(Trace(dest[f]))
    BY <1>6, <2>1 DEF Posted
  <2>3. dest[f] \in Queues => Trace(dest[f])' = Trace(dest[f])
    <3>1. ASSUME NEW d \in Queues, dest[f] = d PROVE Trace(dest[f])' = Trace(dest[f])
      <4>1. dest'[f] = d  BY <3>1
      <4> QED  BY <1>3, <3>1, <4>1 DEF Trace
    <3> QED  BY <3>1
  <2>4. Ev(f, "inner") \in ToSet(Trace(r)') =>
          \E t \in Queues : Ev(f, "outer") \in ToSet(log'[t])
    BY <1>3, <1>6, <2>1 DEF Posted
  <2> QED  BY <2>1, <2>2, <2>3, <2>4 DEF Posted
<1>8. ASSUME NEW r \in Queues, NEW f \in Fns, NEW g \in Fns,
             Precedes(log'[r], Ev(f, "outer"), Ev(g, "outer"))
      PROVE  Precedes(log[r], Ev(f, "outer"), Ev(g, "outer"))
  <2>1. CASE r = q
    <3>1. Precedes(Append(log[q], e), Ev(f, "outer"), Ev(g, "outer"))
      BY <1>2, <1>8, <2>1
    <3> QED  BY <1>1, <1>2, <2>1, <3>1, AppendPrecedes
  <2>2. CASE r # q  BY <1>2, <1>8, <2>2
  <2> QED  BY <2>1, <2>2
<1>9. ASSUME NEW r \in Queues, NEW d \in Queues, NEW f \in Fns, NEW g \in Fns
      PROVE  Follows(r, d, f, g)'
  <2>1. Follows(r, d, f, g)  BY DEF Travels
  <2> QED  BY <1>3, <1>8, <2>1 DEF Follows
<1> QED  BY <1>5, <1>7, <1>9 DEF Travels

\* A requeue closure is called, and posts the inner one behind what is due or drops it.
LEMMA TravelsOuter ==
  ASSUME TypeOK, OnceInv, Travels, NEW q \in Queues, NEW h \in Fns, CallOuter(q, h)
  PROVE  Travels'
<1> DEFINE o == Ev(h, "outer")
           e == Ev(h, "inner")
<1>1. /\ o \in Event /\ e \in Event /\ e # o
      /\ \A f : Ev(f, "outer") # e /\ Ev(f, "inner") # o
      /\ \A f : f # h => Ev(f, "outer") # o /\ Ev(f, "inner") # e
  BY EventTypes, EvParts
<1>2. Take(q, o) /\ UNCHANGED <<armed, sub, dest>>
  BY DEF CallOuter, functors
<1>3. /\ log[q] \in Seq(Event) /\ log'[q] = Append(log[q], o)
      /\ \A r \in Queues \ {q} : log'[r] = log[r]
      /\ ToSet(log'[q]) = ToSet(log[q]) \cup {o}
      /\ \A r \in Queues : log'[r] \o Pop(q)[r] = Trace(r)
      /\ \A r \in Queues : armed[r] \cup ToSet(Pop(q)[r]) = Waiting(r) \ {o}
      /\ o \in Waiting(q)
  BY <1>1, <1>2, TakeTrace
<1>4. /\ dest[h] \in Queues /\ h \in sub
      /\ e \notin dropped /\ \A r \in Queues : e \notin Waiting(r)
  BY <1>3, HeldType DEF OnceInv, Routed, Submitted, Ev
<1>d. PICK d \in Queues : d = dest[h]  BY <1>4
<1>5. \A r \in Queues : o \notin ToSet(log[r])
  BY <1>3 DEF Travels
<1>6. \A r \in Queues : e \notin ToSet(Trace(r)) /\ e \notin ToSet(log[r])
  <2> SUFFICES ASSUME NEW r \in Queues PROVE e \notin ToSet(Trace(r)) /\ e \notin ToSet(log[r])
    OBVIOUS
  <2>1. Posted(r, h)  BY DEF Travels
  <2>2. e \notin ToSet(Trace(r))  BY <1>5, <2>1 DEF Posted
  <2> QED  BY <2>2, TraceType
<1>7. /\ Pop(q) \in [Queues -> Seq(Event)]
      /\ \A r \in Queues : log'[r] \in Seq(Event) /\ Trace(r) \in Seq(Event)
      /\ \A r \in Queues : Pop(q)[r] \in Seq(Event)
  <2>1. Pop(q) \in [Queues -> Seq(Event)] /\ log' \in [Queues -> Seq(Event)]
    BY <1>1, <1>2, TakeType
  <2> QED  BY <2>1, TraceType
\* What becomes of the inner closure.
<1>8. /\ dropped \subseteq dropped' /\ dropped' \subseteq dropped \cup {e}
      /\ \A r \in Queues : Waiting(r)' \subseteq (Waiting(r) \ {o}) \cup {e}
      /\ \A r \in Queues :
           \/ Trace(r)' = Trace(r)
           \/ r = d /\ Trace(r)' = Append(Trace(r), e)
      /\ e \in dropped' \/ Trace(d)' = Append(Trace(d), e)
  <2>1. CASE active' = Enqueue(Pop(q), d, e) /\ UNCHANGED dropped
    <3>1. active'[d] = Append(Pop(q)[d], e) /\ \A r \in Queues \ {d} : active'[r] = Pop(q)[r]
      BY <1>4, <1>7, <2>1 DEF Enqueue
    <3>2. \A r \in Queues \ {d} : /\ Trace(r)' = Trace(r)
                                  /\ Waiting(r)' = Waiting(r) \ {o}
      <4> SUFFICES ASSUME NEW r \in Queues \ {d}
                   PROVE  /\ log'[r] \o active'[r] = Trace(r)
                          /\ armed'[r] \cup ToSet(active'[r]) = Waiting(r) \ {o}
        BY DEF Trace, Waiting
      <4> QED  BY <1>2, <1>3, <3>1
    <3>3. Trace(d)' = Append(Trace(d), e)
      <4>1. log'[d] \in Seq(Event) /\ Pop(q)[d] \in Seq(Event) /\ e \in Event
        BY <1>1, <1>4, <1>7
      <4>2. \A s, t \in Seq(Event) : s \o Append(t, e) = Append(s \o t, e)
        BY <4>1, ConcatAppend
      <4>3. log'[d] \o Append(Pop(q)[d], e) = Append(log'[d] \o Pop(q)[d], e)
        BY ONLY <4>1, <4>2
      <4>4. log'[d] \o Pop(q)[d] = Trace(d)  BY <1>3, <1>4
      <4>5. log'[d] \o active'[d] = Append(Trace(d), e)  BY <3>1, <4>3, <4>4
      <4> QED  BY <4>5 DEF Trace
    <3>4. Waiting(d)' = (Waiting(d) \ {o}) \cup {e}
      <4>1. ToSet(active'[d]) = ToSet(Pop(q)[d]) \cup {e}
        BY <1>1, <1>4, <1>7, <3>1, AppendSet
      <4>2. armed'[d] \cup ToSet(active'[d]) = (Waiting(d) \ {o}) \cup {e}
        BY <1>2, <1>3, <1>4, <4>1
      <4> QED  BY <4>2 DEF Waiting
    <3> HIDE DEF e
    <3> QED  BY <2>1, <3>2, <3>3, <3>4
  <2>2. CASE active' = Pop(q) /\ dropped' = dropped \cup {e}
    <3>1. \A r \in Queues : Trace(r)' = Trace(r) /\ Waiting(r)' = Waiting(r) \ {o}
      <4> SUFFICES ASSUME NEW r \in Queues
                   PROVE  /\ log'[r] \o active'[r] = Trace(r)
                          /\ armed'[r] \cup ToSet(active'[r]) = Waiting(r) \ {o}
        BY DEF Trace, Waiting
      <4> QED  BY <1>2, <1>3, <2>2
    <3> HIDE DEF e
    <3> QED  BY <2>2, <3>1
  <2> QED  BY <1>d, <2>1, <2>2 DEF CallOuter
<1>9. ASSUME NEW r \in Queues
      PROVE  /\ ToSet(Trace(r)) \subseteq ToSet(Trace(r)')
             /\ ToSet(Trace(r)') \subseteq ToSet(Trace(r)) \cup {e}
             /\ \A x, y : Precedes(Trace(r), x, y) => Precedes(Trace(r)', x, y)
  <2>1. /\ ToSet(Append(Trace(r), e)) = ToSet(Trace(r)) \cup {e}
        /\ \A x, y : Precedes(Trace(r), x, y) => Precedes(Append(Trace(r), e), x, y)
    BY <1>1, <1>7, AppendSet, AppendPrecedes
  <2> QED  BY <1>8, <2>1
<1> HIDE DEF o, e
<1>10. \A r \in Queues : ToSet(log'[r]) = ToSet(log[r]) \cup (IF r = q THEN {o} ELSE {})
  BY <1>3
<1>11. ASSUME NEW r \in Queues, NEW t \in Queues, NEW x \in ToSet(log'[r])
       PROVE  x.fn \in sub' /\ x \notin Waiting(t)'
  <2>1. CASE x = o
    <3>1. x.fn \in sub'  BY <1>2, <1>4, <2>1 DEF o, Ev
    <3>2. x \notin Waiting(t)'  BY <1>1, <1>8, <2>1
    <3> QED  BY <3>1, <3>2
  <2>2. CASE x # o
    <3>1. x \in ToSet(log[r])  BY <1>10, <1>11, <2>2
    <3>2. x # e /\ x.fn \in sub /\ x \notin Waiting(t)  BY <1>6, <3>1 DEF Travels
    <3> QED  BY <1>2, <1>8, <3>2
  <2> QED  BY <2>1, <2>2
<1>12. ASSUME NEW r \in Queues, NEW f \in Fns PROVE Posted(r, f)'
  <2>1. Posted(r, f)  BY DEF Travels
  <2>2. Ev(f, "inner") \notin armed'[r]  BY <1>2, <2>1 DEF Posted
  <2>3. ASSUME Ev(f, "inner") \in ToSet(Trace(r)')
        PROVE  \E t \in Queues : Ev(f, "outer") \in ToSet(log'[t])
    <3>1. CASE f = h
      <4>1. o \in ToSet(log'[q])  BY <1>3
      <4> QED  BY <3>1, <4>1 DEF o
    <3>2. CASE f # h
      <4>1. Ev(f, "inner") \in ToSet(Trace(r))  BY <1>1, <1>9, <2>3, <3>2
      <4>2. PICK t \in Queues : Ev(f, "outer") \in ToSet(log[t])  BY <2>1, <4>1 DEF Posted
      <4> QED  BY <1>10, <4>2
    <3> QED  BY <3>1, <3>2
  <2>4. ASSUME Ev(f, "outer") \in ToSet(log'[r])
        PROVE  dest'[f] \in Queues /\ Ev(f, "inner") \in dropped' \cup ToSet(Trace(dest[f])')
    <3>1. CASE f = h
      <4>1. dest'[f] = d /\ Ev(f, "inner") = e  BY <1>2, <1>d, <3>1 DEF e
      <4>2. ToSet(Append(Trace(d), e)) = ToSet(Trace(d)) \cup {e}
        BY <1>1, <1>4, <1>7, AppendSet
      <4>3. e \in dropped' \cup ToSet(Trace(d)')  BY <1>8, <4>2
      <4> QED  BY <1>4, <4>1, <4>3 DEF Trace
    <3>2. CASE f # h
      <4>1. Ev(f, "outer") \in ToSet(log[r])  BY <1>1, <1>10, <2>4, <3>2
      <4>2. PICK c \in Queues : c = dest[f]  BY <2>1, <4>1 DEF Posted
      <4>3. Ev(f, "inner") \in dropped \cup ToSet(Trace(c))  BY <2>1, <4>1, <4>2 DEF Posted
      <4>4. Ev(f, "inner") \in dropped' \cup ToSet(Trace(c)')  BY <1>8, <1>9, <4>3
      <4>5. dest'[f] = c  BY <1>2, <4>2
      <4> QED  BY <4>4, <4>5 DEF Trace
    <3> QED  BY <3>1, <3>2
  <2> QED  BY <2>2, <2>3, <2>4 DEF Posted
<1>13. ASSUME NEW r \in Queues, NEW c \in Queues, NEW f \in Fns, NEW g \in Fns
       PROVE  Follows(r, c, f, g)'
  <2> SUFFICES ASSUME dest'[f] = c, dest'[g] = c,
                      Precedes(log'[r], Ev(f, "outer"), Ev(g, "outer")),
                      Ev(g, "inner") \in ToSet(Trace(c)'), Ev(f, "inner") \notin dropped'
               PROVE  Precedes(Trace(c)', Ev(f, "inner"), Ev(g, "inner"))
    BY DEF Follows
  <2>1. dest[f] = c /\ dest[g] = c  BY <1>2
  <2>2. Follows(r, c, f, g) /\ Posted(r, f)  BY DEF Travels
  <2>3. CASE Precedes(log[r], Ev(f, "outer"), Ev(g, "outer"))
    <3>1. Ev(g, "outer") \in ToSet(log[r])  BY <2>3 DEF Precedes, ToSet
    <3>2. g # h  BY <1>5, <3>1 DEF o
    <3>3. Ev(g, "inner") \in ToSet(Trace(c))  BY <1>1, <1>9, <3>2
    <3>4. Precedes(Trace(c), Ev(f, "inner"), Ev(g, "inner"))
      BY <1>8, <2>1, <2>2, <2>3, <3>3 DEF Follows
    <3> QED  BY <1>9, <3>4
  <2>4. CASE ~Precedes(log[r], Ev(f, "outer"), Ev(g, "outer"))
    <3>1. r = q  BY <1>3, <2>4
    <3>2. Precedes(Append(log[q], o), Ev(f, "outer"), Ev(g, "outer"))  BY <1>3, <3>1
    <3>3. Ev(g, "outer") = o /\ Ev(f, "outer") \in ToSet(log[q])
      BY <1>1, <1>3, <2>4, <3>1, <3>2, AppendPrecedes
    <3>4. g = h  BY <1>1, <3>3
    <3>5. c = d /\ Ev(g, "inner") = e  BY <1>d, <2>1, <3>4 DEF e
    <3>6. Ev(f, "inner") \in ToSet(Trace(c))
      BY <1>8, <2>1, <2>2, <3>1, <3>3 DEF Posted
    <3>7. Trace(c)' # Trace(c)
      <4>1. e \notin ToSet(Trace(c)) /\ e \in ToSet(Trace(c)')  BY <1>6, <3>5
      <4> QED  BY <4>1
    <3>8. Trace(c)' = Append(Trace(c), e)  BY <1>8, <3>7
    <3>9. Precedes(Append(Trace(c), e), Ev(f, "inner"), e)
      BY <1>1, <1>7, <3>6, AppendPrecedes
    <3> QED  BY <3>5, <3>8, <3>9
  <2> QED  BY <2>3, <2>4
<1> QED  BY <1>11, <1>12, <1>13 DEF Travels

\* What is due on a queue that is destroyed is dropped; the log stays.
LEMMA TravelsDestroy ==
  ASSUME TypeOK, OnceInv, Travels, NEW q \in Queues, Destroy(q)
  PROVE  Travels'
<1>1. /\ dropped' = dropped \cup Waiting(q)
      /\ armed'[q] = {} /\ active'[q] = <<>>
      /\ \A r \in Queues \ {q} : armed'[r] = armed[r] /\ active'[r] = active[r]
      /\ UNCHANGED <<log, sub, dest>>
  BY DEF Destroy, TypeOK, functors
<1>2. ASSUME NEW r \in Queues \ {q} PROVE Trace(r)' = Trace(r) /\ Waiting(r)' = Waiting(r)
  BY <1>1 DEF Trace, Waiting
<1>3. /\ log[q] \in Seq(Event) /\ active[q] \in Seq(Event)
      /\ ToSet(Trace(q)) = ToSet(log[q]) \cup ToSet(active[q])
      /\ ToSet(active[q]) \subseteq Waiting(q)
  BY TraceType
<1>4. Trace(q)' = log[q]
  <2>1. \A s \in Seq(Event) : s \o <<>> = s  BY EmptySeq, ConcatEmptySeq
  <2> QED  BY <1>1, <1>3, <2>1 DEF Trace
<1>5. Waiting(q)' = {}  BY <1>1 DEF Waiting, ToSet
<1>6. \A r \in Queues : Waiting(r)' \subseteq Waiting(r)  BY <1>2, <1>5
<1>7. ASSUME NEW r \in Queues
      PROVE  /\ ToSet(Trace(r)') \subseteq ToSet(Trace(r))
             /\ ToSet(Trace(r)) \subseteq ToSet(Trace(r)') \cup dropped'
  BY <1>1, <1>2, <1>3, <1>4
<1>8. ASSUME NEW r \in Queues, NEW t \in Queues, NEW x \in ToSet(log'[r])
      PROVE  x.fn \in sub' /\ x \notin Waiting(t)'
  BY <1>1, <1>6, <1>8 DEF Travels
<1>9. ASSUME NEW r \in Queues, NEW f \in Fns PROVE Posted(r, f)'
  <2>1. Posted(r, f)  BY DEF Travels
  <2>2. Ev(f, "inner") \notin armed'[r]  BY <1>1, <2>1 DEF Posted
  <2>3. Ev(f, "inner") \in ToSet(Trace(r)') =>
          \E t \in Queues : Ev(f, "outer") \in ToSet(log'[t])
    BY <1>1, <1>7, <2>1 DEF Posted
  <2>4. ASSUME Ev(f, "outer") \in ToSet(log'[r])
        PROVE  dest'[f] \in Queues /\ Ev(f, "inner") \in dropped' \cup ToSet(Trace(dest[f])')
    <3>1. PICK c \in Queues : c = dest[f]  BY <1>1, <2>1, <2>4 DEF Posted
    <3>2. Ev(f, "inner") \in dropped \cup ToSet(Trace(c))
      BY <1>1, <2>1, <2>4, <3>1 DEF Posted
    <3>3. Ev(f, "inner") \in dropped' \cup ToSet(Trace(c)')  BY <1>1, <1>7, <3>2
    <3>4. dest'[f] = c  BY <1>1, <3>1
    <3> QED  BY <3>3, <3>4 DEF Trace
  <2> QED  BY <2>2, <2>3, <2>4 DEF Posted
<1>10. ASSUME NEW r \in Queues, NEW c \in Queues, NEW f \in Fns, NEW g \in Fns
       PROVE  Follows(r, c, f, g)'
  <2> SUFFICES ASSUME dest[f] = c, dest[g] = c,
                      Precedes(log[r], Ev(f, "outer"), Ev(g, "outer")),
                      Ev(g, "inner") \in ToSet(Trace(c)'), Ev(f, "inner") \notin dropped'
               PROVE  Precedes(Trace(c)', Ev(f, "inner"), Ev(g, "inner"))
    BY <1>1 DEF Follows
  <2>1. Follows(r, c, f, g)  BY DEF Travels
  <2>2. Precedes(Trace(c), Ev(f, "inner"), Ev(g, "inner"))
    BY <1>1, <1>7, <2>1 DEF Follows
  <2>3. CASE c # q  BY <1>2, <2>2, <2>3
  <2>4. CASE c = q
    <3>1. Ev(g, "inner") \in ToSet(log[q])  BY <1>4, <2>4
    <3>2. Ev(g, "inner") \notin ToSet(active[q])  BY <1>3, <3>1 DEF Travels
    <3>3. Precedes(log[q], Ev(f, "inner"), Ev(g, "inner"))
      BY <1>3, <2>2, <2>4, <3>2, ConcatSet DEF Trace
    <3> QED  BY <1>4, <2>4, <3>3
  <2> QED  BY <2>3, <2>4
<1> QED  BY <1>8, <1>9, <1>10 DEF Travels


\* An event that was not submitted before becomes due, waits, or is refused.
LEMMA TravelsSubmit ==
  ASSUME TypeOK, Travels, UNCHANGED log, NEW q \in Queues, NEW e \in Event,
         e.stage # "inner", e.fn \notin sub, sub' = sub \cup {e.fn},
         dropped \subseteq dropped', \A f \in Fns : f # e.fn => dest'[f] = dest[f],
         Add(q, e) \/ UNCHANGED pending
  PROVE  Travels'
<1>1. \A r \in Queues : e \notin ToSet(log[r])  BY DEF Travels
<1>2. ASSUME NEW r \in Queues
      PROVE  /\ armed'[r] \subseteq armed[r] \cup {e}
             /\ active'[r] \in {active[r], Append(active[r], e)}
  <2>1. active \in [Queues -> Seq(Event)] /\ armed \in [Queues -> SUBSET Event]
    BY DEF TypeOK
  <2>2. CASE armed' = [armed EXCEPT ![q] = @ \cup {e}] /\ UNCHANGED active
    BY <2>1, <2>2
  <2>3. CASE active' = Enqueue(active, q, e) /\ UNCHANGED armed
    <3>1. active'[r] = IF r = q THEN Append(active[r], e) ELSE active[r]
      BY <2>1, <2>3 DEF Enqueue
    <3> QED  BY <2>3, <3>1
  <2>4. CASE UNCHANGED pending  BY <2>4 DEF pending
  <2> QED  BY <2>2, <2>3, <2>4 DEF Add
<1>3. ASSUME NEW r \in Queues PROVE Waiting(r)' \subseteq Waiting(r) \cup {e}
  <2>1. active[r] \in Seq(Event)  BY DEF TypeOK
  <2>2. ToSet(Append(active[r], e)) = ToSet(active[r]) \cup {e}  BY <2>1, AppendSet
  <2>3. ToSet(active'[r]) \subseteq ToSet(active[r]) \cup {e}  BY <1>2, <2>2
  <2> QED  BY <1>2, <2>3 DEF Waiting
<1> QED  BY <1>1, <1>2, <1>3, TravelsPosted

\* A timer that expires is no inner closure, which is posted as due.
LEMMA TravelsExpire ==
  ASSUME TypeOK, Travels, NEW q \in Queues, NEW e \in armed[q], Expire(q, e)
  PROVE  Travels'
<1>1. /\ e \in Event /\ e \in Waiting(q)
      /\ armed'[q] \subseteq armed[q] /\ active'[q] = Append(active[q], e)
      /\ \A r \in Queues \ {q} : armed'[r] = armed[r] /\ active'[r] = active[r]
  BY DEF Expire, Enqueue, TypeOK, Waiting
<1>2. UNCHANGED <<log, sub, dropped, dest>>  BY DEF Expire, functors
<1>3. e.stage # "inner"
  <2> SUFFICES ASSUME e.stage = "inner" PROVE FALSE
    OBVIOUS
  <2>1. PICK f \in Fns : e = Ev(f, "inner")  BY <1>1 DEF Event, Ev
  <2>2. Posted(q, f)  BY DEF Travels
  <2> QED  BY <2>1, <2>2 DEF Posted
<1>4. \A r \in Queues : e \notin ToSet(log[r])  BY <1>1 DEF Travels
<1>5. ASSUME NEW r \in Queues PROVE Waiting(r)' \subseteq Waiting(r) \cup {e}
  <2>1. active[r] \in Seq(Event)  BY DEF TypeOK
  <2>2. ToSet(Append(active[r], e)) = ToSet(active[r]) \cup {e}  BY <1>1, <2>1, AppendSet
  <2>3. ToSet(active'[r]) \subseteq ToSet(active[r]) \cup {e}  BY <1>1, <2>2
  <2> QED  BY <1>1, <2>3 DEF Waiting
<1> QED  BY <1>1, <1>2, <1>3, <1>4, <1>5, TravelsPosted

LEMMA TravelsInductive == TypeOK /\ OnceInv /\ Travels /\ [Next]_vars => Travels'
<1> SUFFICES ASSUME TypeOK, OnceInv, Travels, [Next]_vars  PROVE Travels'
  OBVIOUS
<1>1. CASE UNCHANGED vars
  BY <1>1, TravelsQuiet DEF vars
<1>2. ASSUME NEW q \in Queues, NEW f \in Fns, NEW s \in {"borrowed", "owned", "outer"},
             Submit(q, f, s), \A g \in Fns : g # f => dest'[g] = dest[g]
      PROVE  Travels'
  <2>1. Ev(f, s) \in Event /\ Ev(f, s).fn = f /\ Ev(f, s).stage = s
    BY EventTypes DEF Ev
  <2>2. /\ f \notin sub /\ sub' = sub \cup {f} /\ dropped \subseteq dropped'
        /\ UNCHANGED log /\ (Add(q, Ev(f, s)) \/ UNCHANGED pending)
    BY <1>2 DEF Submit
  <2> QED  BY <1>2, <2>1, <2>2, TravelsSubmit
<1>3. ASSUME NEW q \in Queues, NEW f \in Fns, OnceRef(q, f) \/ OnceMove(q, f)
      PROVE  Travels'
  BY <1>2, <1>3 DEF OnceRef, OnceMove
<1>4. ASSUME NEW q \in Queues, NEW other \in Queues, NEW f \in Fns,
             OnceRequeue(q, other, f)
      PROVE  Travels'
  BY <1>2, <1>4 DEF OnceRequeue, TypeOK
<1>5. ASSUME NEW q \in Queues, NEW x \in Exits, LoopExit(q, x)  PROVE Travels'
  <2>1. Ev(x, "exit") \in Event /\ Ev(x, "exit").fn = x /\ Ev(x, "exit").stage = "exit"
    BY EventTypes DEF Ev
  <2> QED  BY <1>5, <2>1, TravelsSubmit DEF LoopExit
<1>6. ASSUME NEW q \in Queues, NEW fl \in FlagSets, Dispatch(q, fl)  PROVE Travels'
  BY <1>6, TravelsQuiet DEF Dispatch, pending, functors
<1>7. ASSUME NEW q \in Queues,
             LoopBreak(q) \/ LoopCheck(q) \/ StartBatch(q) \/ Wake(q)
               \/ EndBatch(q) \/ EndCall(q)
      PROVE  Travels'
  BY <1>7, TravelsQuiet
  DEF LoopBreak, LoopCheck, StartBatch, Wake, EndBatch, EndCall, pending, functors
<1>8. ASSUME NEW f \in Fns, EndLife(f)  PROVE Travels'
  BY <1>8, TravelsQuiet DEF EndLife, pending
<1>9. ASSUME NEW q \in Queues, NEW e \in armed[q], Expire(q, e)  PROVE Travels'
  BY <1>9, TravelsExpire
<1>10. ASSUME NEW q \in Queues, NEW f \in Fns,
              CallBorrowed(q, f) \/ CallOwned(q, f) \/ CallInner(q, f)
       PROVE  Travels'
  <2>1. PICK e \in Event : Take(q, e) /\ e.stage # "outer"
    BY <1>10, EventTypes DEF CallBorrowed, CallOwned, CallInner, Ev
  <2>2. active' = Pop(q) /\ UNCHANGED <<armed, dropped, sub, dest>>
    BY <1>10 DEF CallBorrowed, CallOwned, CallInner, functors
  <2> QED  BY <2>1, <2>2, TravelsCall
<1>11. ASSUME NEW q \in Queues, NEW f \in Fns, CallOuter(q, f)  PROVE Travels'
  BY <1>11, TravelsOuter
<1>12. ASSUME NEW q \in Queues, NEW x \in Exits, CallExit(q, x)  PROVE Travels'
  <2>1. Ev(x, "exit") \in Event /\ Ev(x, "exit").stage # "outer"
    BY EventTypes DEF Ev
  <2> QED  BY <1>12, <2>1, TravelsCall DEF CallExit, functors
<1>13. ASSUME NEW q \in Queues, Destroy(q)  PROVE Travels'
  BY <1>13, TravelsDestroy
<1> QED
  BY <1>1, <1>3, <1>4, <1>5, <1>6, <1>7, <1>8, <1>9, <1>10, <1>11, <1>12, <1>13
  DEF Next, LoopStep, Call

LEMMA TravelsInit == Init => Travels
<1> SUFFICES ASSUME Init  PROVE Travels
  OBVIOUS
<1>1. TypeOK  BY DEF Init, TypeOK, Flags
<1>2. \A q \in Queues : log[q] = <<>> /\ active[q] = <<>> /\ armed[q] = {}
  BY DEF Init
<1>3. \A q \in Queues : ToSet(log[q]) = {} /\ ToSet(active[q]) = {}
  BY <1>2 DEF ToSet
<1>4. \A q \in Queues : ToSet(Trace(q)) = {}  BY <1>1, <1>3, TraceType
<1>5. \A q \in Queues, f \in Fns : Posted(q, f)  BY <1>2, <1>3, <1>4 DEF Posted
<1>6. \A q, d \in Queues, f, g \in Fns : Follows(q, d, f, g)
  BY <1>4 DEF Follows
<1> QED  BY <1>3, <1>5, <1>6 DEF Travels

\* An inner closure that was called is not due, so the order is that of the log.
LEMMA TravelsOrder == TypeOK /\ Travels => RequeueInOrder
<1> SUFFICES ASSUME TypeOK, Travels, NEW q \in Queues, NEW d \in Queues,
                    NEW f \in Fns, NEW g \in Fns, dest[f] = d, dest[g] = d,
                    RunBefore(q, Ev(f, "outer"), Ev(g, "outer")),
                    Ev(g, "inner") \in ToSet(log[d]), Ev(f, "inner") \notin dropped
             PROVE  RunBefore(d, Ev(f, "inner"), Ev(g, "inner"))
  BY DEF RequeueInOrder
<1>1. \A r, x, y : RunBefore(r, x, y) <=> Precedes(log[r], x, y)
  BY DEF RunBefore, Precedes
<1>2. /\ log[d] \in Seq(Event) /\ active[d] \in Seq(Event)
      /\ Ev(g, "inner") \in ToSet(Trace(d)) /\ ToSet(active[d]) \subseteq Waiting(d)
  BY TraceType
<1>3. Precedes(Trace(d), Ev(f, "inner"), Ev(g, "inner"))
  BY <1>1, <1>2 DEF Travels, Follows
<1>4. Ev(g, "inner") \notin ToSet(active[d])  BY <1>2 DEF Travels
<1>5. Precedes(log[d], Ev(f, "inner"), Ev(g, "inner"))
  BY <1>2, <1>3, <1>4, ConcatSet DEF Trace
<1> QED  BY <1>1, <1>5

\* Functors that go from one queue to the same other one are called there in the order
\* their requeue closures ran, whatever else the two queues do.
THEOREM RequeuedInOrder == Spec => []RequeueInOrder
<1>1. TypeOK /\ OnceInv /\ [Next]_vars => OnceInv'
  BY OnceInvInductive
<1>2. TypeOK /\ OnceInv /\ Travels /\ [Next]_vars => Travels'
  BY TravelsInductive
<1>3. TypeOK /\ Travels => RequeueInOrder
  BY TravelsOrder
<1> QED
  BY <1>1, <1>2, <1>3, OnceInvInit, TravelsInit, TypeCorrect, PTL DEF Spec

-----------------------------------------------------------------------------
(* Queue implements OnceContract.                                           *)

Stages == {"borrowed", "owned", "inner"}

\* The events of f that a queue still has to call.
Mine(f, q) == {e \in Waiting(q) : e.fn = f}

OnlyOn(f, q, s) == \A r \in Queues : Mine(f, r) = IF r = q THEN {Ev(f, s)} ELSE {}

Nowhere(f) == \A r \in Queues : Mine(f, r) = {}

IsNew(f) == f \notin sub /\ ~ Lost(f) /\ dest[f] = None /\ Runs(f) = {} /\ Nowhere(f)

IsLost(f) == f \in sub /\ Lost(f) /\ Runs(f) = {} /\ Nowhere(f)

IsCarried(f, q) ==
  /\ f \in sub /\ ~ Lost(f) /\ dest[f] \in Queues
  /\ Runs(f) = {} /\ OnlyOn(f, q, "outer")

IsWaiting(f, q, s) ==
  /\ f \in sub /\ ~ Lost(f) /\ dest[f] \in {None, q}
  /\ Runs(f) = {} /\ OnlyOn(f, q, s)

HasRun(f, q, i) ==
  /\ f \in sub /\ ~ Lost(f) /\ dest[f] \in {None, q}
  /\ Runs(f) = {<<q, i>>} /\ Nowhere(f)

\* A functor has one event at a time, until it is called or lost.
OnItsWay(f) ==
  \/ IsNew(f) \/ IsLost(f)
  \/ \E q \in Queues : \/ IsCarried(f, q)
                       \/ \E s \in Stages : IsWaiting(f, q, s)
                       \/ \E i \in Nat : HasRun(f, q, i)

Journey ==
  /\ \A f \in Fns : OnItsWay(f)
  /\ \A q \in Queues : running[q] # None => loop[q] = "batch"

Shows(f, state, q, d) == fateOf(f) = state /\ atOf(f) = q /\ goalOf(f) = d

\* What the refinement mapping makes of each.
FatesShown ==
  \A f \in Fns :
    /\ IsNew(f) => Shows(f, "new", None, None)
    /\ IsLost(f) => Shows(f, "lost", None, None)
    /\ \A q \in Queues : IsCarried(f, q) => Shows(f, "carried", q, dest[f])
    /\ \A q \in Queues, s \in Stages : IsWaiting(f, q, s) => Shows(f, "waiting", q, q)
    /\ \A q \in Queues, i \in Nat : HasRun(f, q, i) => Shows(f, "ran", q, q)

LEMMA Fates == FatesShown
<1> SUFFICES ASSUME NEW f \in Fns
             PROVE  /\ IsNew(f) => Shows(f, "new", None, None)
                    /\ IsLost(f) => Shows(f, "lost", None, None)
                    /\ \A q \in Queues : IsCarried(f, q) => Shows(f, "carried", q, dest[f])
                    /\ \A q \in Queues, s \in Stages :
                         IsWaiting(f, q, s) => Shows(f, "waiting", q, q)
                    /\ \A q \in Queues, i \in Nat : HasRun(f, q, i) => Shows(f, "ran", q, q)
  BY DEF FatesShown
<1>1. ASSUME IsNew(f) PROVE Shows(f, "new", None, None)
  BY <1>1 DEF IsNew, Shows, fateOf, atOf, goalOf
<1>2. ASSUME IsLost(f) PROVE Shows(f, "lost", None, None)
  BY <1>2 DEF IsLost, Shows, fateOf, atOf, goalOf
<1>3. ASSUME NEW q \in Queues, NEW s \in Stages \cup {"outer"}, OnlyOn(f, q, s)
      PROVE  \A S : HeldIn({Ev(f, t) : t \in S}) = IF s \in S THEN {q} ELSE {}
  <2> SUFFICES ASSUME NEW S, NEW r \in Queues
               PROVE  Waiting(r) \cap {Ev(f, t) : t \in S} # {} <=> r = q /\ s \in S
    BY DEF HeldIn
  <2>1. \A t : Ev(f, t) \in Waiting(r) <=> Ev(f, t) \in Mine(f, r)
    BY DEF Mine, Ev
  <2>2. \A t : Ev(f, t) \in Waiting(r) <=> r = q /\ t = s
    BY <1>3, <2>1, EvParts DEF OnlyOn
  <2> QED  BY <2>2
<1>4. ASSUME NEW q \in Queues, IsCarried(f, q) PROVE Shows(f, "carried", q, dest[f])
  <2>1. HeldIn({Ev(f, "outer")}) = {q}
    <3>1. {Ev(f, t) : t \in {"outer"}} = {Ev(f, "outer")}  OBVIOUS
    <3>2. OnlyOn(f, q, "outer")  BY <1>4 DEF IsCarried
    <3>3. HeldIn({Ev(f, t) : t \in {"outer"}}) = {q}  BY <1>3, <3>2
    <3> QED  BY <3>1, <3>3
  <2>2. fateOf(f) = "carried"  BY <1>4, <2>1 DEF IsCarried, fateOf
  <2>3. (CHOOSE r \in {q} : TRUE) = q  OBVIOUS
  <2>4. atOf(f) = q  BY <2>1, <2>2, <2>3 DEF atOf
  <2> QED  BY <1>4, <2>2, <2>4, NoneAssumption DEF IsCarried, Shows, goalOf
<1>5. ASSUME NEW q \in Queues, NEW s \in Stages, IsWaiting(f, q, s)
      PROVE  Shows(f, "waiting", q, q)
  <2>1. OnlyOn(f, q, s)  BY <1>5 DEF IsWaiting
  <2>2. HeldIn({Ev(f, "outer")}) = {}
    <3>1. {Ev(f, t) : t \in {"outer"}} = {Ev(f, "outer")}  OBVIOUS
    <3>2. s \notin {"outer"}  BY DEF Stages
    <3>3. HeldIn({Ev(f, t) : t \in {"outer"}}) = {}  BY <1>3, <2>1, <3>2
    <3> QED  BY <3>1, <3>3
  <2>3. HeldIn(Final(f)) = {q}
    <3>1. HeldIn({Ev(f, t) : t \in Stages}) = {q}  BY <1>3, <2>1
    <3> QED  BY <3>1 DEF Final, Stages
  <2>4. fateOf(f) = "waiting"  BY <1>5, <2>2 DEF IsWaiting, fateOf
  <2>5. (CHOOSE r \in {q} : TRUE) = q  OBVIOUS
  <2>6. atOf(f) = q  BY <2>3, <2>4, <2>5 DEF atOf
  <2> QED  BY <1>5, <2>4, <2>6 DEF IsWaiting, Shows, goalOf
<1>6. ASSUME NEW q \in Queues, NEW i \in Nat, HasRun(f, q, i) PROVE Shows(f, "ran", q, q)
  <2>1. Runs(f) = {<<q, i>>}  BY <1>6 DEF HasRun
  <2>2. Cardinality(Runs(f)) = 1  BY <2>1, FS_Singleton
  <2>3. fateOf(f) = "ran"  BY <1>6, <2>1, <2>2 DEF HasRun, fateOf
  <2>4. (CHOOSE r \in {<<q, i>>} : TRUE) = <<q, i>>  OBVIOUS
  <2>5. atOf(f) = q  BY <2>1, <2>3, <2>4 DEF atOf
  <2> QED  BY <1>6, <2>3, <2>5 DEF HasRun, Shows, goalOf
<1> QED  BY <1>1, <1>2, <1>4, <1>5, <1>6

LEMMA FatesNext == FatesShown'
BY Fates, PTL

-----------------------------------------------------------------------------
(* The steps of the contract.                                               *)

Keeps(f) == fateOf(f)' = fateOf(f) /\ atOf(f)' = atOf(f) /\ goalOf(f)' = goalOf(f)

Running == {q \in Queues : loop[q] # "out"}

Step == [Contract!Next]_(Contract!vars)

\* The functors that a step does not touch.
Unmoved(f) ==
  /\ f \in sub' <=> f \in sub
  /\ Lost(f)' <=> Lost(f)
  /\ dest'[f] = dest[f]
  /\ Runs(f)' = Runs(f)
  /\ \A r \in Queues : Mine(f, r)' = Mine(f, r)

LEMMA UnmovedKeeps ==
  ASSUME NEW f \in Fns, OnItsWay(f), Unmoved(f)
  PROVE  OnItsWay(f)' /\ Keeps(f)
<1>1. ASSUME IsNew(f) PROVE OnItsWay(f)' /\ Keeps(f)
  <2>1. IsNew(f)'  BY <1>1 DEF Unmoved, IsNew, Nowhere
  <2> QED  BY <1>1, <2>1, Fates, FatesNext DEF FatesShown, Shows, Keeps, OnItsWay
<1>2. ASSUME IsLost(f) PROVE OnItsWay(f)' /\ Keeps(f)
  <2>1. IsLost(f)'  BY <1>2 DEF Unmoved, IsLost, Nowhere
  <2> QED  BY <1>2, <2>1, Fates, FatesNext DEF FatesShown, Shows, Keeps, OnItsWay
<1>3. ASSUME NEW q \in Queues, IsCarried(f, q) PROVE OnItsWay(f)' /\ Keeps(f)
  <2>1. IsCarried(f, q)'  BY <1>3 DEF Unmoved, IsCarried, OnlyOn
  <2> QED  BY <1>3, <2>1, Fates, FatesNext DEF Unmoved, FatesShown, Shows, Keeps, OnItsWay
<1>4. ASSUME NEW q \in Queues, NEW s \in Stages, IsWaiting(f, q, s)
      PROVE  OnItsWay(f)' /\ Keeps(f)
  <2>1. IsWaiting(f, q, s)'  BY <1>4 DEF Unmoved, IsWaiting, OnlyOn
  <2> QED  BY <1>4, <2>1, Fates, FatesNext DEF FatesShown, Shows, Keeps, OnItsWay
<1>5. ASSUME NEW q \in Queues, NEW i \in Nat, HasRun(f, q, i)
      PROVE  OnItsWay(f)' /\ Keeps(f)
  <2>1. HasRun(f, q, i)'  BY <1>5 DEF Unmoved, HasRun, Nowhere
  <2> QED  BY <1>5, <2>1, Fates, FatesNext DEF FatesShown, Shows, Keeps, OnItsWay
<1> QED  BY <1>1, <1>2, <1>3, <1>4, <1>5 DEF OnItsWay

LEMMA StutterStep ==
  ASSUME \A f \in Fns : Keeps(f), Running' = Running
  PROVE  Step
BY DEF Keeps, Running, Step, Contract!vars

LEMMA EnterStep ==
  ASSUME \A f \in Fns : Keeps(f), NEW q \in Queues, q \notin Running,
         Running' = Running \cup {q}
  PROVE  Step
<1>1. Contract!Enter(q)  BY DEF Keeps, Running, Contract!Enter
<1> QED  BY <1>1 DEF Step, Contract!Next

LEMMA LeaveStep ==
  ASSUME \A f \in Fns : Keeps(f), NEW q \in Queues, q \in Running,
         Running' = Running \ {q}
  PROVE  Step
<1>1. Contract!Leave(q)  BY DEF Keeps, Running, Contract!Leave
<1> QED  BY <1>1 DEF Step, Contract!Next

LEMMA AcceptStep ==
  ASSUME NEW f \in Fns, \A g \in Fns \ {f} : Keeps(g), Running' = Running,
         fateOf(f) = "new", NEW q \in Queues, NEW d \in Queues,
         \/ Shows(f, "waiting", q, q)' \/ Shows(f, "carried", q, d)'
         \/ Shows(f, "lost", None, None)'
  PROVE  Step
<1>1. ASSUME NEW state, NEW r, NEW t, Shows(f, state, r, t)'
      PROVE  Contract!Put(f, state, r, t)
  BY <1>1 DEF Keeps, Shows, Running, Contract!Put
<1>2. Contract!Accept(f)  BY <1>1 DEF Contract!Accept
<1> QED  BY <1>2 DEF Step, Contract!Next

LEMMA CarryStep ==
  ASSUME NEW f \in Fns, \A g \in Fns \ {f} : Keeps(g), Running' = Running,
         NEW q \in Running, NEW d \in Queues, Shows(f, "carried", q, d),
         Shows(f, "waiting", d, d)' \/ Shows(f, "lost", None, None)'
  PROVE  Step
<1>1. CASE Shows(f, "waiting", d, d)'
  BY <1>1 DEF Keeps, Shows, Running, Contract!Carry, Step, Contract!Next
<1>2. CASE Shows(f, "lost", None, None)'
  <2>1. Contract!Lose({f})  BY <1>2 DEF Keeps, Shows, Running, Contract!Lose
  <2> QED  BY <2>1 DEF Shows, Running, Contract!Carry, Step, Contract!Next
<1> QED  BY <1>1, <1>2

LEMMA RunStep ==
  ASSUME NEW f \in Fns, \A g \in Fns \ {f} : Keeps(g), Running' = Running,
         NEW q \in Running, Shows(f, "waiting", q, q), Shows(f, "ran", q, q)'
  PROVE  Step
<1>1. Contract!Run(f)  BY DEF Keeps, Shows, Running, Contract!Run
<1> QED  BY <1>1 DEF Step, Contract!Next

LEMMA DiscardStep ==
  ASSUME NEW q \in Queues \ Running, Running' = Running,
         \A f \in Fns : IF fateOf(f) \in {"waiting", "carried"} /\ atOf(f) = q
                        THEN Shows(f, "lost", None, None)' ELSE Keeps(f)
  PROVE  Step
<1> DEFINE lost == {f \in Fns : /\ [g \in Fns |-> fateOf(g)][f] \in {"waiting", "carried"}
                                /\ [g \in Fns |-> atOf(g)][f] = q}
<1>1. Contract!Lose(lost)  BY DEF Keeps, Shows, Running, Contract!Lose
<1>2. Contract!Discard(q)  BY <1>1 DEF Running, Contract!Discard
<1> QED  BY <1>2 DEF Step, Contract!Next

-----------------------------------------------------------------------------
(* Each action is a step of the contract.                                   *)

LEMMA RunsAppend ==
  ASSUME NEW q \in Queues, NEW e \in Event, log[q] \in Seq(Event),
         log'[q] = Append(log[q], e), \A r \in Queues \ {q} : log'[r] = log[r],
         NEW f \in Fns
  PROVE  /\ Len(log[q]) + 1 \in Nat
         /\ Runs(f)' = IF e \in Final(f) THEN Runs(f) \cup {<<q, Len(log[q]) + 1>>}
                                         ELSE Runs(f)
<1> DEFINE n == Len(log[q]) + 1
<1>1. /\ n \in Nat /\ DOMAIN log[q] = 1 .. Len(log[q]) /\ n \notin DOMAIN log[q]
      /\ DOMAIN log'[q] = DOMAIN log[q] \cup {n}
      /\ log'[q][n] = e /\ \A i \in DOMAIN log[q] : log'[q][i] = log[q][i]
  <2>1. Len(log[q]) \in Nat /\ DOMAIN log[q] = 1 .. Len(log[q])  BY LenProperties
  <2>2. /\ DOMAIN log'[q] = 1 .. Len(log[q]) + 1 /\ log'[q][n] = e
        /\ \A i \in 1 .. Len(log[q]) : log'[q][i] = log[q][i]
    BY AppendProperties, LenProperties
  <2>3. 1 .. Len(log[q]) + 1 = (1 .. Len(log[q])) \cup {n} /\ n \notin 1 .. Len(log[q])
    BY <2>1
  <2> QED  BY <2>1, <2>2, <2>3
<1> HIDE DEF n
<1>2. /\ \A x : x \in Runs(f) <=> \E r \in Queues : \E i \in DOMAIN log[r] :
                                    log[r][i] \in Final(f) /\ x = <<r, i>>
      /\ \A x : x \in Runs(f)' <=> \E r \in Queues : \E i \in DOMAIN log'[r] :
                                     log'[r][i] \in Final(f) /\ x = <<r, i>>
  BY DEF Runs, Final
<1>3. ASSUME NEW x \in Runs(f) PROVE x \in Runs(f)'
  <2>1. PICK r \in Queues : \E i \in DOMAIN log[r] : log[r][i] \in Final(f) /\ x = <<r, i>>
    BY <1>2
  <2>2. PICK i \in DOMAIN log[r] : log[r][i] \in Final(f) /\ x = <<r, i>>  BY <2>1
  <2>3. i \in DOMAIN log'[r] /\ log'[r][i] = log[r][i]  BY <1>1
  <2> QED  BY <1>2, <2>2, <2>3
<1>4. ASSUME e \in Final(f) PROVE <<q, n>> \in Runs(f)'
  BY <1>1, <1>2, <1>4
<1>5. ASSUME NEW x \in Runs(f)' PROVE x \in Runs(f) \/ (e \in Final(f) /\ x = <<q, n>>)
  <2>1. PICK r \in Queues : \E i \in DOMAIN log'[r] : log'[r][i] \in Final(f) /\ x = <<r, i>>
    BY <1>2
  <2>2. PICK i \in DOMAIN log'[r] : log'[r][i] \in Final(f) /\ x = <<r, i>>  BY <2>1
  <2>3. CASE r = q /\ i = n  BY <1>1, <2>2, <2>3
  <2>4. CASE ~ (r = q /\ i = n)
    <3>1. i \in DOMAIN log[r] /\ log'[r][i] = log[r][i]  BY <1>1, <2>4
    <3> QED  BY <1>2, <2>2, <3>1
  <2> QED  BY <2>3, <2>4
<1>6. Runs(f)' = IF e \in Final(f) THEN Runs(f) \cup {<<q, n>>} ELSE Runs(f)
  BY <1>3, <1>4, <1>5
<1> QED  BY <1>1, <1>6 DEF n

LEMMA QuietKeeps ==
  ASSUME Journey, UNCHANGED <<armed, active, log, dropped, sub, dest>>
  PROVE  \A f \in Fns : OnItsWay(f)' /\ Keeps(f)
<1> SUFFICES ASSUME NEW f \in Fns PROVE OnItsWay(f)' /\ Keeps(f)
  OBVIOUS
<1>1. \A q \in Queues : Waiting(q)' = Waiting(q)  BY DEF Waiting
<1>2. Unmoved(f)  BY <1>1 DEF Unmoved, Lost, Runs, Mine
<1> QED  BY <1>2, UnmovedKeeps DEF Journey

\* The event of a functor, and that alone, tells where it is.
LEMMA Located ==
  ASSUME NEW f \in Fns, OnItsWay(f), NEW q \in Queues, NEW s, Ev(f, s) \in Waiting(q)
  PROVE  \/ s = "outer" /\ IsCarried(f, q)
         \/ s \in Stages /\ IsWaiting(f, q, s)
<1>1. Ev(f, s) \in Mine(f, q)  BY DEF Mine, Ev
<1>2. ~ Nowhere(f)  BY <1>1 DEF Nowhere
<1>3. ASSUME NEW r \in Queues, NEW t, OnlyOn(f, r, t) PROVE r = q /\ t = s
  BY <1>1, <1>3, EvParts DEF OnlyOn
<1>4. ASSUME NEW r \in Queues, IsCarried(f, r) PROVE s = "outer" /\ IsCarried(f, q)
  BY <1>3, <1>4 DEF IsCarried
<1>5. ASSUME NEW r \in Queues, NEW t \in Stages, IsWaiting(f, r, t)
      PROVE  s \in Stages /\ IsWaiting(f, q, s)
  <2>1. r = q /\ t = s  BY <1>3, <1>5 DEF IsWaiting
  <2> QED  BY <1>5, <2>1
<1> QED  BY <1>2, <1>4, <1>5 DEF OnItsWay, IsNew, IsLost, HasRun

LEMMA StepSubmit ==
  ASSUME TypeOK, OnceInv, Journey, NEW q \in Queues, NEW f \in Fns, NEW d \in Queues,
         NEW s \in {"borrowed", "owned", "outer"}, Submit(q, f, s),
         \A g \in Fns \ {f} : dest'[g] = dest[g],
         dest'[f] = IF s = "outer" THEN d ELSE dest[f]
  PROVE  Journey' /\ Step
<1> DEFINE e == Ev(f, s)
<1>1. e \in Event /\ e.fn = f  BY EventTypes DEF Ev
<1>2. /\ f \notin sub /\ sub' = sub \cup {f} /\ UNCHANGED <<running, loop, log>>
      /\ \/ Add(q, e) /\ UNCHANGED dropped
         \/ dropped' = dropped \cup {e} /\ UNCHANGED <<armed, active>>
  BY DEF Submit, pending
<1>3. IsNew(f)
  BY <1>2 DEF Journey, OnItsWay, IsNew, IsLost, IsCarried, IsWaiting, HasRun
<1>4. e \notin Everywhere  BY <1>1, <1>2 DEF OnceInv, Submitted, Everywhere
<1> HIDE DEF e
<1>5. \A g \in Fns : Runs(g)' = Runs(g)  BY <1>2 DEF Runs
<1>6. \/ /\ dropped' = dropped
         /\ \A r \in Queues : Waiting(r)' = Waiting(r) \cup (IF r = q THEN {e} ELSE {})
      \/ /\ dropped' = dropped \cup {e}
         /\ \A r \in Queues : Waiting(r)' = Waiting(r)
  <2>1. CASE Add(q, e) /\ UNCHANGED dropped
    BY <1>1, <1>2, <1>4, <2>1, AddHolds DEF OnceInv
  <2>2. CASE dropped' = dropped \cup {e} /\ UNCHANGED <<armed, active>>
    BY <2>2 DEF Waiting
  <2> QED  BY <1>2, <2>1, <2>2
<1>7. ASSUME NEW g \in Fns \ {f} PROVE OnItsWay(g)' /\ Keeps(g)
  <2>1. \A r \in Queues : Mine(g, r)' = Mine(g, r)  BY <1>1, <1>6 DEF Mine
  <2>2. Lost(g)' <=> Lost(g)  BY <1>1, <1>6 DEF Lost
  <2>3. Unmoved(g)  BY <1>2, <1>5, <2>1, <2>2 DEF Unmoved
  <2> QED  BY <2>3, UnmovedKeeps DEF Journey
<1>8. IF dropped' = dropped
      THEN IF s = "outer" THEN IsCarried(f, q)' ELSE IsWaiting(f, q, s)'
      ELSE IsLost(f)'
  <2>1. CASE dropped' = dropped
    <3>1. \A r \in Queues : Waiting(r)' = Waiting(r) \cup (IF r = q THEN {e} ELSE {})
      BY <1>4, <1>6, <2>1 DEF Everywhere
    <3>2. OnlyOn(f, q, s)'  BY <1>1, <1>3, <3>1 DEF OnlyOn, Mine, IsNew, Nowhere, e
    <3>3. ~ Lost(f)'  BY <1>3, <2>1 DEF IsNew, Lost
    <3> QED
      BY <1>2, <1>3, <1>5, <2>1, <3>2, <3>3 DEF IsNew, IsCarried, IsWaiting
  <2>2. CASE dropped' # dropped
    <3>1. Nowhere(f)'  BY <1>3, <1>6, <2>2 DEF Nowhere, Mine, IsNew
    <3>2. Lost(f)'  BY <1>1, <1>6, <2>2 DEF Lost
    <3> QED  BY <1>2, <1>3, <1>5, <2>2, <3>1, <3>2 DEF IsNew, IsLost
  <2> QED  BY <2>1, <2>2
<1>9. Journey'
  BY <1>2, <1>7, <1>8 DEF Journey, OnItsWay, Stages
<1>10. Step
  <2>1. fateOf(f) = "new"  BY <1>3, Fates DEF FatesShown, Shows
  <2>2. Running' = Running  BY <1>2 DEF Running
  <2>3. CASE dropped' = dropped /\ s = "outer"
    <3>1. Shows(f, "carried", q, dest[f])'  BY <1>8, <2>3, FatesNext DEF FatesShown
    <3>2. Shows(f, "carried", q, d)'  BY <2>3, <3>1 DEF Shows
    <3> QED  BY <1>7, <2>1, <2>2, <3>2, AcceptStep
  <2>4. CASE dropped' = dropped /\ s # "outer"
    <3>1. Shows(f, "waiting", q, q)'  BY <1>8, <2>4, FatesNext DEF FatesShown, Stages
    <3> QED  BY <1>7, <2>1, <2>2, <3>1, AcceptStep
  <2>5. CASE dropped' # dropped
    <3>1. Shows(f, "lost", None, None)'  BY <1>8, <2>5, FatesNext DEF FatesShown
    <3> QED  BY <1>7, <2>1, <2>2, <3>1, AcceptStep
  <2> QED  BY <2>3, <2>4, <2>5
<1> QED  BY <1>9, <1>10

\* A callback that posts nothing, of an event that may be a functor's last.
LEMMA StepCall ==
  ASSUME TypeOK, OnceInv, Journey, NEW q \in Queues, NEW e \in Event, Take(q, e),
         e.stage # "outer", active' = Pop(q), UNCHANGED <<armed, dropped, sub, dest, loop>>
  PROVE  Journey' /\ Step
<1>1. /\ log[q] \in Seq(Event) /\ log'[q] = Append(log[q], e)
      /\ \A r \in Queues \ {q} : log'[r] = log[r]
      /\ e \in Waiting(q)
  BY TakeTrace
<1>2. \A r \in Queues : Waiting(r)' = Waiting(r) \ {e}
  <2> SUFFICES ASSUME NEW r \in Queues
               PROVE  armed'[r] \cup ToSet(active'[r]) = Waiting(r) \ {e}
    BY DEF Waiting
  <2> QED  BY TakeTrace
<1>3. \A r \in Queues : running'[r] # None => loop'[r] = "batch"
  BY DEF Take, Journey, TypeOK
<1>4. q \in Running /\ Running' = Running  BY DEF Take, Running
<1>5. ASSUME NEW g \in Fns, g # e.fn PROVE OnItsWay(g)' /\ Keeps(g)
  <2>1. \A r \in Queues : Mine(g, r)' = Mine(g, r)  BY <1>2, <1>5 DEF Mine
  <2>2. Runs(g)' = Runs(g)
    <3>1. e \notin Final(g)  BY <1>5 DEF Final, Ev
    <3> QED  BY <1>1, <3>1, RunsAppend
  <2>3. Unmoved(g)  BY <2>1, <2>2 DEF Unmoved, Lost
  <2> QED  BY <2>3, UnmovedKeeps DEF Journey
<1>6. CASE e.fn \notin Fns
  <2>1. \A g \in Fns : OnItsWay(g)' /\ Keeps(g)  BY <1>5, <1>6
  <2> QED  BY <1>3, <1>4, <2>1, StutterStep DEF Journey
<1>7. CASE e.fn \in Fns
  <2>1. PICK f \in Fns, s \in Stages : e = Ev(f, s)
    <3>1. e.stage \in Stages /\ e = Ev(e.fn, e.stage)
      BY <1>7, ExitsAssumption DEF Event, Ev, Stages
    <3> QED  BY <1>7, <3>1
  <2>2. IsWaiting(f, q, s)
    <3>1. s # "outer"  BY DEF Stages
    <3> QED  BY <1>1, <2>1, <3>1, Located DEF Journey
  <2>3. PICK i \in Nat : HasRun(f, q, i)'
    <3> DEFINE n == Len(log[q]) + 1
    <3>1. e \in Final(f)  BY <2>1 DEF Final, Stages
    <3>2. n \in Nat /\ Runs(f)' = {<<q, n>>}
      BY <1>1, <2>2, <3>1, RunsAppend DEF IsWaiting
    <3>3. Nowhere(f)'
      BY <1>2, <2>1, <2>2 DEF IsWaiting, OnlyOn, Nowhere, Mine
    <3>4. f \in sub' /\ ~ Lost(f)' /\ dest'[f] \in {None, q}
      BY <2>2 DEF IsWaiting, Lost
    <3>5. PICK m \in Nat : m = n  BY <3>2
    <3>6. HasRun(f, q, m)'  BY <3>2, <3>3, <3>4, <3>5 DEF HasRun
    <3> QED  BY <3>6
  <2>4. Shows(f, "waiting", q, q) /\ Shows(f, "ran", q, q)'
    BY <2>2, <2>3, Fates, FatesNext DEF FatesShown
  <2>5. e.fn = f  BY <2>1 DEF Ev
  <2>6. Journey'  BY <1>3, <1>5, <2>3, <2>5 DEF Journey, OnItsWay
  <2> QED  BY <1>4, <1>5, <2>4, <2>5, <2>6, RunStep
<1> QED  BY <1>6, <1>7

\* A requeue closure hands its functor over, or loses it.
LEMMA StepOuter ==
  ASSUME TypeOK, OnceInv, Journey, NEW q \in Queues, NEW f \in Fns, CallOuter(q, f)
  PROVE  Journey' /\ Step
<1> DEFINE o == Ev(f, "outer")
           e == Ev(f, "inner")
<1>1. o \in Event /\ e \in Event /\ o.fn = f /\ e.fn = f /\ e # o
  BY EventTypes DEF Ev
<1>2. Take(q, o) /\ UNCHANGED <<armed, sub, dest, loop>>
  BY DEF CallOuter, functors
<1>3. /\ log[q] \in Seq(Event) /\ log'[q] = Append(log[q], o)
      /\ \A r \in Queues \ {q} : log'[r] = log[r]
      /\ \A r \in Queues : armed[r] \cup ToSet(Pop(q)[r]) = Waiting(r) \ {o}
      /\ o \in Waiting(q)
  BY <1>1, <1>2, TakeTrace
<1>4. IsCarried(f, q)  BY <1>3, Located DEF Journey, Stages
<1>5. PICK d \in Queues : d = dest[f]  BY <1>4 DEF IsCarried
<1>6. \A r \in Queues : running'[r] # None => loop'[r] = "batch"
  BY <1>2 DEF Take, Journey, TypeOK
<1>7. q \in Running /\ Running' = Running  BY <1>2 DEF Take, Running
<1>8. \A g \in Fns : Runs(g)' = Runs(g)
  <2>1. \A g \in Fns : o \notin Final(g)  BY DEF Final, Ev
  <2> QED  BY <1>1, <1>3, <2>1, RunsAppend
<1>9. \/ /\ dropped' = dropped
         /\ \A r \in Queues :
              Waiting(r)' = (Waiting(r) \ {o}) \cup (IF r = d THEN {e} ELSE {})
      \/ /\ dropped' = dropped \cup {e}
         /\ \A r \in Queues : Waiting(r)' = Waiting(r) \ {o}
  <2>1. Pop(q) \in [Queues -> Seq(Event)]  BY <1>1, <1>2, TakeType
  <2>2. CASE active' = Enqueue(Pop(q), d, e) /\ UNCHANGED dropped
    <3>1. /\ active'[d] = Append(Pop(q)[d], e)
          /\ \A r \in Queues \ {d} : active'[r] = Pop(q)[r]
      BY <2>1, <2>2 DEF Enqueue
    <3>2. ToSet(active'[d]) = ToSet(Pop(q)[d]) \cup {e}  BY <1>1, <2>1, <3>1, AppendSet
    <3>3. ASSUME NEW r \in Queues
          PROVE  armed'[r] \cup ToSet(active'[r])
                   = (Waiting(r) \ {o}) \cup (IF r = d THEN {e} ELSE {})
      BY <1>2, <1>3, <3>1, <3>2
    <3> QED  BY <2>2, <3>3 DEF Waiting
  <2>3. CASE active' = Pop(q) /\ dropped' = dropped \cup {e}
    <3>1. ASSUME NEW r \in Queues
          PROVE  armed'[r] \cup ToSet(active'[r]) = Waiting(r) \ {o}
      BY <1>2, <1>3, <2>3
    <3> QED  BY <2>3, <3>1 DEF Waiting
  <2> QED  BY <1>5, <2>2, <2>3 DEF CallOuter
<1> HIDE DEF o, e
<1>10. ASSUME NEW g \in Fns \ {f} PROVE OnItsWay(g)' /\ Keeps(g)
  <2>1. \A r \in Queues : Mine(g, r)' = Mine(g, r)  BY <1>1, <1>9 DEF Mine
  <2>2. Lost(g)' <=> Lost(g)  BY <1>1, <1>9 DEF Lost
  <2>3. Unmoved(g)  BY <1>2, <1>8, <2>1, <2>2 DEF Unmoved
  <2> QED  BY <2>3, UnmovedKeeps DEF Journey
<1>11. \A r \in Queues : Mine(f, r) \subseteq {o}
  BY <1>4 DEF IsCarried, OnlyOn, o
<1>12. IsWaiting(f, d, "inner")' \/ IsLost(f)'
  <2>1. CASE /\ dropped' = dropped
             /\ \A r \in Queues :
                  Waiting(r)' = (Waiting(r) \ {o}) \cup (IF r = d THEN {e} ELSE {})
    <3>1. OnlyOn(f, d, "inner")'  BY <1>1, <1>11, <2>1 DEF OnlyOn, Mine, e
    <3>2. ~ Lost(f)' /\ f \in sub' /\ dest'[f] = d /\ Runs(f)' = {}
      BY <1>2, <1>4, <1>5, <1>8, <2>1 DEF IsCarried, Lost
    <3> QED  BY <3>1, <3>2 DEF IsWaiting
  <2>2. CASE /\ dropped' = dropped \cup {e}
             /\ \A r \in Queues : Waiting(r)' = Waiting(r) \ {o}
    <3>1. Nowhere(f)'  BY <1>11, <2>2 DEF Nowhere, Mine
    <3>2. Lost(f)' /\ f \in sub' /\ Runs(f)' = {}
      BY <1>1, <1>2, <1>4, <1>8, <2>2 DEF IsCarried, Lost
    <3> QED  BY <3>1, <3>2 DEF IsLost
  <2> QED  BY <1>9, <2>1, <2>2
<1>13. Journey'  BY <1>6, <1>10, <1>12 DEF Journey, OnItsWay, Stages
<1>14. Step
  <2>1. Shows(f, "carried", q, d)  BY <1>4, <1>5, Fates DEF FatesShown
  <2>2. Shows(f, "waiting", d, d)' \/ Shows(f, "lost", None, None)'
    BY <1>12, FatesNext DEF FatesShown, Stages
  <2> QED  BY <1>7, <1>10, <2>1, <2>2, CarryStep
<1> QED  BY <1>13, <1>14

\* What a queue still had to call is lost with it.
LEMMA StepDestroy ==
  ASSUME TypeOK, OnceInv, Journey, NEW q \in Queues, Destroy(q)
  PROVE  Journey' /\ Step
<1>1. /\ dropped' = dropped \cup Waiting(q)
      /\ armed'[q] = {} /\ active'[q] = <<>>
      /\ \A r \in Queues \ {q} : armed'[r] = armed[r] /\ active'[r] = active[r]
      /\ UNCHANGED <<log, sub, dest, loop, running>> /\ loop[q] = "out"
  BY DEF Destroy, TypeOK, functors, control
<1>2. \A r \in Queues : Waiting(r)' = IF r = q THEN {} ELSE Waiting(r)
  BY <1>1 DEF Waiting, ToSet
<1>3. q \notin Running /\ Running' = Running  BY <1>1 DEF Running
<1>4. ASSUME NEW f \in Fns
      PROVE  /\ OnItsWay(f)'
             /\ IF fateOf(f) \in {"waiting", "carried"} /\ atOf(f) = q
                THEN Shows(f, "lost", None, None)' ELSE Keeps(f)
  <2>1. OnItsWay(f) /\ Runs(f)' = Runs(f)  BY <1>1 DEF Journey, Runs
  <2>2. CASE \E s \in Stages \cup {"outer"} : Ev(f, s) \in Waiting(q)
    <3>1. PICK s \in Stages \cup {"outer"} : Ev(f, s) \in Waiting(q)  BY <2>2
    <3>2. IsCarried(f, q) \/ (s \in Stages /\ IsWaiting(f, q, s))
      BY <2>1, <3>1, Located
    <3>3. IsLost(f)'
      <4>1. Lost(f)'  BY <1>1, <3>1 DEF Lost, Ev
      <4>2. Nowhere(f)'
        BY <1>2, <3>2 DEF Nowhere, Mine, IsCarried, IsWaiting, OnlyOn
      <4> QED  BY <1>1, <2>1, <3>2, <4>1, <4>2 DEF IsLost, IsCarried, IsWaiting
    <3>4. fateOf(f) \in {"waiting", "carried"} /\ atOf(f) = q
      BY <3>2, Fates DEF FatesShown, Shows
    <3> QED  BY <3>3, <3>4, FatesNext DEF FatesShown, OnItsWay
  <2>3. CASE \A s \in Stages \cup {"outer"} : Ev(f, s) \notin Waiting(q)
    <3>1. Mine(f, q) = {}
      <4> SUFFICES ASSUME NEW e \in Waiting(q), e.fn = f PROVE FALSE
        BY DEF Mine
      <4>1. e \in Event  BY WaitingType
      <4>2. e.stage \in Stages \cup {"outer"} /\ e = Ev(f, e.stage)
        BY <4>1, ExitsAssumption DEF Event, Ev, Stages
      <4> QED  BY <2>3, <4>2
    <3>2. Unmoved(f)
      <4>1. \A r \in Queues : Mine(f, r)' = Mine(f, r)  BY <1>2, <3>1 DEF Mine
      <4>2. Lost(f)' <=> Lost(f)  BY <1>1, <3>1 DEF Lost, Mine
      <4> QED  BY <1>1, <2>1, <4>1, <4>2 DEF Unmoved
    <3>3. OnItsWay(f)' /\ Keeps(f)  BY <2>1, <3>2, UnmovedKeeps
    <3>4. ~ (fateOf(f) \in {"waiting", "carried"} /\ atOf(f) = q)
      <4>1. ~ IsCarried(f, q)  BY <3>1 DEF IsCarried, OnlyOn
      <4>2. \A s \in Stages : ~ IsWaiting(f, q, s)  BY <3>1 DEF IsWaiting, OnlyOn
      <4> QED
        BY <2>1, <4>1, <4>2, Fates, NoneAssumption DEF FatesShown, Shows, OnItsWay
    <3> QED  BY <3>3, <3>4
  <2> QED  BY <2>2, <2>3
<1>5. Journey'  BY <1>1, <1>4 DEF Journey
<1> QED  BY <1>3, <1>4, <1>5, DiscardStep

\* The loop: it enters, leaves, goes round, or ends a callback.
LEMMA StepLoop ==
  ASSUME TypeOK, Journey, NEW q \in Queues,
         UNCHANGED <<armed, active, log, dropped, sub, dest>>,
         \A r \in Queues \ {q} : loop'[r] = loop[r] /\ running'[r] = running[r],
         running'[q] # None => loop'[q] = "batch"
  PROVE  Journey' /\ Step
<1>1. \A f \in Fns : OnItsWay(f)' /\ Keeps(f)  BY QuietKeeps
<1>2. \A r \in Queues : running'[r] # None => loop'[r] = "batch"  BY DEF Journey
<1>3. Step
  <2>1. Running' \in {Running, Running \cup {q}, Running \ {q}}  BY DEF Running
  <2> QED  BY <1>1, <2>1, StutterStep, EnterStep, LeaveStep
<1> QED  BY <1>1, <1>2, <1>3 DEF Journey

LEMMA JourneyStep == TypeOK /\ OnceInv /\ Journey /\ [Next]_vars => Journey' /\ Step
<1> SUFFICES ASSUME TypeOK, OnceInv, Journey, [Next]_vars  PROVE Journey' /\ Step
  OBVIOUS
<1> USE DEF pending, functors, control
<1>1. ASSUME UNCHANGED <<armed, active, log, dropped, sub, dest, loop, running>>
      PROVE  Journey' /\ Step
  <2>1. \A f \in Fns : OnItsWay(f)' /\ Keeps(f)  BY <1>1, QuietKeeps
  <2>2. Running' = Running  BY <1>1 DEF Running
  <2> QED  BY <1>1, <2>1, <2>2, StutterStep DEF Journey
<1>2. ASSUME NEW q \in Queues, NEW f \in Fns, OnceRef(q, f) \/ OnceMove(q, f)
      PROVE  Journey' /\ Step
  BY <1>2, StepSubmit DEF OnceRef, OnceMove
<1>3. ASSUME NEW q \in Queues, NEW other \in Queues, NEW f \in Fns,
             OnceRequeue(q, other, f)
      PROVE  Journey' /\ Step
  <2>1. dest'[f] = other /\ \A g \in Fns \ {f} : dest'[g] = dest[g]
    BY <1>3 DEF OnceRequeue, TypeOK
  <2> QED  BY <1>3, <2>1, StepSubmit DEF OnceRequeue
<1>4. ASSUME NEW q \in Queues, NEW x \in Exits, LoopExit(q, x)  PROVE Journey' /\ Step
  <2>1. Ev(x, "exit") \in Event /\ Ev(x, "exit").fn = x /\ x \notin Fns
    BY EventTypes, ExitsAssumption DEF Ev
  <2>2. Ev(x, "exit") \notin Everywhere
    BY <1>4, <2>1 DEF LoopExit, OnceInv, Submitted, Everywhere
  <2>3. \A r \in Queues : Waiting(r)' \subseteq Waiting(r) \cup {Ev(x, "exit")}
                          /\ Waiting(r) \subseteq Waiting(r)'
    BY <1>4, <2>1, <2>2, AddHolds DEF LoopExit, OnceInv
  <2>4. ASSUME NEW f \in Fns PROVE OnItsWay(f)' /\ Keeps(f)
    <3>1. \A r \in Queues : Mine(f, r)' = Mine(f, r)  BY <2>1, <2>3 DEF Mine
    <3>2. Unmoved(f)  BY <1>4, <2>1, <3>1 DEF LoopExit, Unmoved, Lost, Runs
    <3> QED  BY <3>2, UnmovedKeeps DEF Journey
  <2>5. Running' = Running /\ UNCHANGED <<loop, running>>  BY <1>4 DEF LoopExit, Running
  <2> QED  BY <2>4, <2>5, StutterStep DEF Journey
<1>5. ASSUME NEW q \in Queues, NEW fl \in FlagSets, Dispatch(q, fl)
      PROVE  Journey' /\ Step
  <2>1. running[q] = None /\ UNCHANGED running  BY <1>5 DEF Dispatch, Journey
  <2>2. \A r \in Queues \ {q} : loop'[r] = loop[r]  BY <1>5 DEF Dispatch, TypeOK
  <2> QED  BY <1>5, <2>1, <2>2, StepLoop DEF Dispatch
<1>6. ASSUME NEW q \in Queues,
             LoopCheck(q) \/ StartBatch(q) \/ Wake(q) \/ EndBatch(q)
      PROVE  Journey' /\ Step
  <2>1. running[q] = None /\ UNCHANGED running
    BY <1>6 DEF LoopCheck, StartBatch, Wake, EndBatch, Journey
  <2>2. \A r \in Queues \ {q} : loop'[r] = loop[r]
    BY <1>6 DEF LoopCheck, StartBatch, Wake, EndBatch, Return, TypeOK
  <2> QED  BY <1>6, <2>1, <2>2, StepLoop DEF LoopCheck, StartBatch, Wake, EndBatch
<1>7. ASSUME NEW q \in Queues, EndCall(q)  PROVE Journey' /\ Step
  <2>1. running'[q] = None /\ \A r \in Queues \ {q} : /\ loop'[r] = loop[r]
                                                      /\ running'[r] = running[r]
    BY <1>7 DEF EndCall, TypeOK
  <2> QED  BY <1>7, <2>1, StepLoop DEF EndCall
<1>8. ASSUME NEW q \in Queues, LoopBreak(q)  PROVE Journey' /\ Step
  BY <1>1, <1>8 DEF LoopBreak
<1>9. ASSUME NEW f \in Fns, EndLife(f)  PROVE Journey' /\ Step
  BY <1>1, <1>9 DEF EndLife
<1>10. ASSUME NEW q \in Queues, NEW e \in armed[q], Expire(q, e)  PROVE Journey' /\ Step
  <2>1. \A r \in Queues : Waiting(r)' = Waiting(r)
    <3>1. /\ e \in Event /\ active[q] \in Seq(Event)
          /\ armed'[q] = armed[q] \ {e} /\ active'[q] = Append(active[q], e)
          /\ \A r \in Queues \ {q} : armed'[r] = armed[r] /\ active'[r] = active[r]
      BY <1>10 DEF Expire, Enqueue, TypeOK
    <3>2. ToSet(active'[q]) = ToSet(active[q]) \cup {e}  BY <3>1, AppendSet
    <3>3. ASSUME NEW r \in Queues
          PROVE  armed'[r] \cup ToSet(active'[r]) = armed[r] \cup ToSet(active[r])
      BY <3>1, <3>2
    <3> QED  BY <3>3 DEF Waiting
  <2>2. ASSUME NEW f \in Fns PROVE OnItsWay(f)' /\ Keeps(f)
    <3>1. Unmoved(f)  BY <1>10, <2>1 DEF Expire, Unmoved, Lost, Runs, Mine
    <3> QED  BY <3>1, UnmovedKeeps DEF Journey
  <2>3. Running' = Running /\ UNCHANGED <<loop, running>>  BY <1>10 DEF Expire, Running
  <2> QED  BY <2>2, <2>3, StutterStep DEF Journey
<1>11. ASSUME NEW q \in Queues, NEW f \in Fns,
              CallBorrowed(q, f) \/ CallOwned(q, f) \/ CallInner(q, f)
       PROVE  Journey' /\ Step
  <2>1. PICK e \in Event : Take(q, e) /\ e.stage # "outer"
    BY <1>11, EventTypes DEF CallBorrowed, CallOwned, CallInner, Ev
  <2>2. active' = Pop(q) /\ UNCHANGED <<armed, dropped, sub, dest, loop>>
    BY <1>11 DEF CallBorrowed, CallOwned, CallInner
  <2> QED  BY <2>1, <2>2, StepCall
<1>12. ASSUME NEW q \in Queues, NEW f \in Fns, CallOuter(q, f)  PROVE Journey' /\ Step
  BY <1>12, StepOuter
<1>13. ASSUME NEW q \in Queues, NEW x \in Exits, CallExit(q, x)  PROVE Journey' /\ Step
  <2>1. Ev(x, "exit") \in Event /\ Ev(x, "exit").stage # "outer"
    BY EventTypes DEF Ev
  <2> QED  BY <1>13, <2>1, StepCall DEF CallExit
<1>14. ASSUME NEW q \in Queues, Destroy(q)  PROVE Journey' /\ Step
  BY <1>14, StepDestroy
<1>15. CASE UNCHANGED vars  BY <1>1, <1>15 DEF vars
<1> QED
  BY <1>2, <1>3, <1>4, <1>5, <1>6, <1>7, <1>8, <1>9, <1>10, <1>11, <1>12, <1>13, <1>14,
     <1>15
  DEF Next, LoopStep, Call

LEMMA JourneyInit == Init => Journey /\ Contract!Init
<1> SUFFICES ASSUME Init  PROVE Journey /\ Contract!Init
  OBVIOUS
<1>1. \A q \in Queues : DOMAIN log[q] = {} /\ Waiting(q) = {}
  BY EmptySeq DEF Init, Waiting, ToSet
<1>2. \A f \in Fns : IsNew(f)
  BY <1>1 DEF Init, IsNew, Lost, Runs, Nowhere, Mine
<1>3. \A f \in Fns : Shows(f, "new", None, None)  BY <1>2, Fates DEF FatesShown
<1>4. Contract!Init  BY <1>3 DEF Init, Contract!Init, Shows
<1> QED  BY <1>2, <1>4 DEF Init, Journey, OnItsWay

\* Queue implements OnceContract: a functor is called at most once, on the queue it was
\* meant for and while that one's loop runs, and is lost only when an event is refused or
\* a queue is destroyed.
THEOREM KeepsTheContract == Spec => ImplementsContract
<1>1. TypeOK /\ OnceInv /\ [Next]_vars => OnceInv'
  BY OnceInvInductive
<1>2. Init => Journey /\ Contract!Init
  BY JourneyInit
<1>3. TypeOK /\ OnceInv /\ Journey /\ [Next]_vars
        => Journey' /\ [Contract!Next]_(Contract!vars)
  BY JourneyStep DEF Step
<1> QED
  BY <1>1, <1>2, <1>3, OnceInvInit, TypeCorrect, PTL DEF Spec, ImplementsContract, Contract!Spec
=============================================================================
