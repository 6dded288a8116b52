---------------------------- MODULE ServerProofs ----------------------------
(***************************************************************************)
(* Theorems about Server, for any number of requests and signals: nothing   *)
(* is used after it was freed, a request that waits for its reply is in the *)
(* hands of exactly one functor, and the whole refines OnceContract.  What  *)
(* they need of the queue is what QueueProofs proves of every queue.        *)
(*                                                                          *)
(* And about KeyVal, the lists that main() of the same program builds and   *)
(* parses before it starts the server, for any number of objects, lists,    *)
(* keys and values: each list has one owner, and parse() shows the entries  *)
(* to its functors in order and misses none.                                *)
(***************************************************************************)
EXTENDS Server, KeyVal, SequenceTheorems, FiniteSetTheorems, TLAPS

\* The queue of the server, with the theorems about it.
P == INSTANCE QueueProofs WITH
  Queues <- {Main}, Named <- {}, Temps <- Replies, Exits <- {Timeout},
  Breakers <- {}, FlagSets <- {{"noexit"}}

C(r) == P!Ev(Chunk(r), "owned")
N(r) == P!Ev(End(r), "owned")
X == P!Ev(Timeout, "exit")
W == P!Waiting(Main)
Places == P!Held(Main) \cup dropped

-----------------------------------------------------------------------------
(* The inductive invariant.                                                 *)

\* main() runs the loop once and goes on when it has ended; a signal ends it, and so
\* its functor is never called again.
Control ==
  /\ running[Main] # None => loop[Main] = "batch"
  /\ ret[Main] # "none" => loop[Main] = "out"
  /\ server = "freed" => ret[Main] # "none"
  /\ base[Main] = "freed" => server = "freed" /\ W = {}
  /\ \A s \in Signals :
       handler[s] = "deleted" =>
         (loop[Main] = "top" /\ brk[Main]) \/ ret[Main] # "none"

OnlyOwned == \A e \in Places : e.stage = "owned" \/ e = X

\* Where the reply to a request stands.
Progress(r) ==
  /\ request[r] = "none" <=> Chunk(r) \notin sub
  /\ End(r) \in sub => Chunk(r) \in sub /\ C(r) \notin W \cup dropped
  /\ Chunk(r) \in sub /\ End(r) \notin sub /\ r \notin forgotten => C(r) \in Places
  /\ r \in forgotten => Chunk(r) \in sub /\ End(r) \notin sub /\ C(r) \notin W \cup dropped
  /\ End(r) \in sub /\ r \notin replied => N(r) \in W \cup dropped
  /\ r \in replied => End(r) \in sub /\ N(r) \notin W \cup dropped
  /\ request[r] = "cut" => r \notin replied
  /\ request[r] = "freed" => r \in replied \/ ret[Main] # "none"
  /\ server = "freed" => request[r] # "open"

Inv ==
  /\ TypeOK /\ dangling = {} /\ P!OnceInv
  /\ Control /\ OnlyOwned
  /\ \A r \in Requests : Progress(r)

-----------------------------------------------------------------------------
(* The queue.                                                               *)

\* What Queue assumes holds of this queue.
LEMMA Assumptions ==
  /\ {} \subseteq P!Fns
  /\ {{"noexit"}} \subseteq SUBSET P!Flags
  /\ {Timeout} \cap P!Fns = {}
  /\ None \notin P!Event \cup {Main}
<1>1. None \notin Q!Event \cup {Main}  BY NoneAssumption
<1>2. Q!Event = P!Event  BY DEF Q!Event, P!Event, Q!Fns, P!Fns
<1>3. {Timeout} \cap P!Fns = {}
  BY DEF P!Fns, Replies, Timeout
<1> QED  BY <1>1, <1>2, <1>3 DEF P!Flags

LEMMA SameQueue ==
  /\ Q!TypeOK <=> P!TypeOK
  /\ Q!Init <=> P!Init
  /\ Q!Held(Main) = P!Held(Main)
<1> USE DEF Q!Event, P!Event, Q!Fns, P!Fns, Q!Flags, P!Flags
<1>1. Q!TypeOK <=> P!TypeOK  BY DEF Q!TypeOK, P!TypeOK
<1>2. Q!Init <=> P!Init  BY DEF Q!Init, P!Init
<1>3. Q!Held(Main) = P!Held(Main)
  BY DEF Q!Held, P!Held, Q!Waiting, P!Waiting, Q!ToSet, P!ToSet
<1> QED  BY <1>1, <1>2, <1>3

LEMMA SameEvents ==
  ASSUME NEW r
  PROVE  /\ Q!Ev(Chunk(r), "owned") = C(r)
         /\ Q!Ev(End(r), "owned") = N(r)
BY DEF Q!Ev, P!Ev, C, N

LEMMA SameOnce ==
  ASSUME NEW f, Q!OnceMove(Main, f)
  PROVE  P!OnceMove(Main, f)
BY DEF Q!OnceMove, P!OnceMove, Q!Submit, P!Submit, Q!Add, P!Add, Q!Ev, P!Ev,
       Q!Enqueue, P!Enqueue, Q!Closure, P!Closure, Q!OwnsHeap, P!OwnsHeap,
       Q!pending, P!pending, Q!control, P!control

LEMMA SameLoopExit ==
  ASSUME Q!LoopExit(Main, Timeout)
  PROVE  P!LoopExit(Main, Timeout)
BY DEF Q!LoopExit, P!LoopExit, Q!Add, P!Add, Q!Ev, P!Ev, Q!Enqueue, P!Enqueue,
       Q!control, P!control

LEMMA SameCalls ==
  /\ Q!CallExit(Main, Timeout) => P!CallExit(Main, Timeout)
  /\ \A f : Q!CallOwned(Main, f) => P!CallOwned(Main, f)
  /\ Q!EndCall(Main) => P!EndCall(Main)
BY DEF Q!CallExit, P!CallExit, Q!CallOwned, P!CallOwned, Q!EndCall, P!EndCall,
       Q!Take, P!Take, Q!Ev, P!Ev, Q!Pop, P!Pop, Q!Found, P!Found, Q!Body, P!Body,
       Q!functors, P!functors, Q!control, P!control, Q!pending, P!pending

LEMMA SameLoop ==
  /\ Q!Dispatch(Main, {"noexit"}) => P!Dispatch(Main, {"noexit"})
  /\ Q!LoopCheck(Main) => P!LoopCheck(Main)
  /\ Q!StartBatch(Main) => P!StartBatch(Main)
  /\ Q!Wake(Main) => P!Wake(Main)
  /\ Q!EndBatch(Main) => P!EndBatch(Main)
  /\ Q!Destroy(Main) => P!Destroy(Main)
  /\ \A e : Q!Expire(Main, e) => P!Expire(Main, e)
<1> USE DEF Q!functors, P!functors, Q!control, P!control, Q!pending, P!pending
<1>1. Q!Waiting(Main) = P!Waiting(Main)
  BY DEF Q!Waiting, P!Waiting, Q!ToSet, P!ToSet
<1>2. Q!Dispatch(Main, {"noexit"}) => P!Dispatch(Main, {"noexit"})
  BY DEF Q!Dispatch, P!Dispatch
<1>3. Q!LoopCheck(Main) => P!LoopCheck(Main)
  BY <1>1 DEF Q!LoopCheck, P!LoopCheck, Q!Return, P!Return
<1>4. Q!StartBatch(Main) => P!StartBatch(Main)
  BY DEF Q!StartBatch, P!StartBatch
<1>5. /\ Q!Wake(Main) => P!Wake(Main)
      /\ Q!EndBatch(Main) => P!EndBatch(Main)
  BY DEF Q!Wake, P!Wake, Q!EndBatch, P!EndBatch, Q!Return, P!Return
<1>6. Q!Destroy(Main) => P!Destroy(Main)
  BY <1>1 DEF Q!Destroy, P!Destroy
<1>7. \A e : Q!Expire(Main, e) => P!Expire(Main, e)
  BY DEF Q!Expire, P!Expire, Q!Enqueue, P!Enqueue
<1> QED  BY <1>2, <1>3, <1>4, <1>5, <1>6, <1>7

-----------------------------------------------------------------------------
(* What a step of the queue does to the events it holds.                    *)

Still == W' = W /\ UNCHANGED <<sub, dropped, running>>
Posts(e) ==
  /\ e.fn \notin sub /\ sub' = sub \cup {e.fn} /\ running' = running
  /\ \/ W' = W \cup {e} /\ dropped' = dropped
     \/ W' = W /\ dropped' = dropped \cup {e}
Takes(e) ==
  /\ loop[Main] = "batch" /\ running[Main] = None /\ running'[Main] = e
  /\ e \in W /\ W' = W \ {e} /\ UNCHANGED <<sub, dropped>>
CallEnds == running'[Main] = None /\ W' = W /\ UNCHANGED <<sub, dropped>>
Frees == W' = {} /\ dropped' = dropped \cup W /\ UNCHANGED <<sub, running>>

LEMMA StillEffect ==
  ASSUME UNCHANGED <<armed, active, sub, dropped, running>>
  PROVE  Still
BY DEF Still, W, P!Waiting

LEMMA AddEffect ==
  ASSUME P!TypeOK, P!OnceInv, NEW e \in P!Event, e.fn \notin sub,
         P!Add(Main, e), UNCHANGED running
  PROVE  W' = W \cup {e}
<1>1. e \notin P!Everywhere
  BY DEF P!OnceInv, P!Submitted, P!Everywhere
<1>2. P!OneHolder  BY DEF P!OnceInv
<1>3. Main \in {Main}  OBVIOUS
<1>4. P!Waiting(Main)' = P!Waiting(Main) \cup {e}
  BY <1>1, <1>2, <1>3, Assumptions, P!AddHolds
<1> QED  BY <1>4 DEF W

LEMMA OnceEffect ==
  ASSUME P!TypeOK, P!OnceInv, NEW f \in Replies, P!OnceMove(Main, f)
  PROVE  Posts(P!Ev(f, "owned"))
<1> DEFINE e == P!Ev(f, "owned")
<1>1. e \in P!Event /\ e.fn = f
  BY DEF P!Ev, P!Event, P!Fns
<1>2. f \notin sub /\ sub' = sub \cup {f} /\ running' = running
  BY DEF P!OnceMove, P!Submit
<1>3. \/ P!Add(Main, e) /\ dropped' = dropped
      \/ dropped' = dropped \cup {e} /\ UNCHANGED <<armed, active>>
  BY DEF P!OnceMove, P!Submit, P!pending
<1>4. CASE P!Add(Main, e) /\ dropped' = dropped
  <2>1. W' = W \cup {e}  BY <1>1, <1>2, <1>4, AddEffect
  <2> QED  BY <2>1, <1>1, <1>2, <1>4 DEF Posts
<1>5. CASE dropped' = dropped \cup {e} /\ UNCHANGED <<armed, active>>
  <2>1. W' = W  BY <1>5 DEF W, P!Waiting
  <2> QED  BY <2>1, <1>1, <1>2, <1>5 DEF Posts
<1> QED  BY <1>3, <1>4, <1>5

LEMMA LoopExitEffect ==
  ASSUME P!TypeOK, P!OnceInv, P!LoopExit(Main, Timeout)
  PROVE  Posts(X)
<1>1. X \in P!Event /\ X.fn = Timeout
  BY DEF X, P!Ev, P!Event
<1>2. Timeout \notin sub /\ sub' = sub \cup {Timeout} /\ running' = running
      /\ P!Add(Main, X) /\ dropped' = dropped
  BY DEF P!LoopExit, X
<1>3. W' = W \cup {X}  BY <1>1, <1>2, AddEffect
<1> QED  BY <1>1, <1>2, <1>3 DEF Posts

LEMMA TakeEffect ==
  ASSUME P!TypeOK, P!OnceInv, NEW e \in P!Event, P!Take(Main, e),
         active' = P!Pop(Main), UNCHANGED <<armed, sub, dropped>>
  PROVE  Takes(e)
<1>1. P!OneHolder  BY DEF P!OnceInv
<1>2. Main \in {Main}  OBVIOUS
<1>3. /\ e \in P!Waiting(Main)
      /\ armed[Main] \cup P!ToSet(P!Pop(Main)[Main]) = P!Waiting(Main) \ {e}
  BY <1>1, <1>2, Assumptions, P!PopWaiting
<1>4. P!Waiting(Main)' = armed[Main] \cup P!ToSet(P!Pop(Main)[Main])
  BY DEF P!Waiting
<1>5. loop[Main] = "batch" /\ running[Main] = None /\ running'[Main] = e
  BY <1>2 DEF P!Take, P!TypeOK
<1> QED  BY <1>3, <1>4, <1>5 DEF Takes, W

LEMMA CallOwnedEffect ==
  ASSUME P!TypeOK, P!OnceInv, NEW f \in Replies, P!CallOwned(Main, f)
  PROVE  Takes(P!Ev(f, "owned"))
<1>1. P!Ev(f, "owned") \in P!Event  BY DEF P!Ev, P!Event, P!Fns
<1> QED  BY <1>1, TakeEffect DEF P!CallOwned, P!functors

LEMMA CallExitEffect ==
  ASSUME P!TypeOK, P!OnceInv, P!CallExit(Main, Timeout)
  PROVE  Takes(X)
<1>1. X \in P!Event  BY DEF X, P!Ev, P!Event
<1> QED  BY <1>1, TakeEffect DEF P!CallExit, P!functors, X

LEMMA ExpireEffect ==
  ASSUME P!TypeOK, NEW e \in armed[Main], P!Expire(Main, e)
  PROVE  Still
<1>1. /\ active \in [{Main} -> Seq(P!Event)] /\ armed \in [{Main} -> SUBSET P!Event]
      /\ active[Main] \in Seq(P!Event) /\ e \in P!Event
  BY DEF P!TypeOK
<1>2. /\ armed'[Main] = armed[Main] \ {e}
      /\ active'[Main] = Append(active[Main], e)
      /\ UNCHANGED <<sub, dropped, running>>
  BY <1>1 DEF P!Expire, P!Enqueue, P!functors
<1>3. P!ToSet(Append(active[Main], e)) = P!ToSet(active[Main]) \cup {e}
  BY <1>1, Assumptions, P!AppendSet
<1>4. W' = W  BY <1>2, <1>3 DEF W, P!Waiting
<1> QED  BY <1>2, <1>4 DEF Still

LEMMA EndCallEffect ==
  ASSUME P!TypeOK, P!EndCall(Main)
  PROVE  CallEnds /\ running[Main] # None
BY DEF P!TypeOK, P!EndCall, CallEnds, W, P!Waiting, P!pending, P!functors

LEMMA DestroyEffect ==
  ASSUME P!TypeOK, P!Destroy(Main)
  PROVE  Frees
<1>1. armed'[Main] = {} /\ active'[Main] = <<>>
  BY DEF P!Destroy, P!TypeOK
<1>2. P!ToSet(<<>>) = {}  BY DEF P!ToSet
<1>3. W' = {}  BY <1>1, <1>2 DEF W, P!Waiting
<1> QED  BY <1>3 DEF P!Destroy, Frees, W, P!functors

-----------------------------------------------------------------------------
(* The invariants of the queue hold.                                        *)

LEMMA QueueSteps ==
  /\ \A f \in Replies : P!OnceMove(Main, f) \/ P!CallOwned(Main, f) => P!Next
  /\ P!LoopExit(Main, Timeout) \/ P!CallExit(Main, Timeout) => P!Next
  /\ P!Dispatch(Main, {"noexit"}) \/ P!Destroy(Main) \/ P!EndCall(Main) => P!Next
  /\ P!LoopCheck(Main) \/ P!StartBatch(Main) \/ P!Wake(Main) \/ P!EndBatch(Main) => P!Next
  /\ \A e \in armed[Main] : P!Expire(Main, e) => P!Next
BY DEF P!Next, P!LoopStep, P!Call, P!Fns

LEMMA RepliesType ==
  ASSUME NEW r \in Requests
  PROVE  Chunk(r) \in Replies /\ End(r) \in Replies
BY DEF Chunk, End, Replies

\* Every step is one of the queue, or leaves it alone, or is a signal.
LEMMA ServerStep ==
  ASSUME [Next]_vars
  PROVE  [P!Next]_(P!vars) \/ \E s \in Signals : Signal(s)
<1> USE DEF queue, P!vars
<1>1. CASE Turn
  BY <1>1, QueueSteps, SameLoop, SameCalls DEF Turn
<1>2. CASE Return  BY <1>2, QueueSteps, SameCalls DEF Return
<1>3. ASSUME NEW r \in Requests, SendChunk(r) \/ FailChunk(r) PROVE P!Next
  BY <1>3, QueueSteps, SameCalls, RepliesType DEF SendChunk, FailChunk
<1>4. ASSUME NEW r \in Requests, SendEnd(r) PROVE P!Next
  BY <1>4, QueueSteps, SameCalls, RepliesType DEF SendEnd
<1>5. ASSUME NEW r \in Requests, PostEnd(r) PROVE P!Next
  BY <1>5, QueueSteps, SameOnce, RepliesType DEF PostEnd
<1>6. ASSUME NEW r \in Requests, Request(r) PROVE P!Next
  BY <1>6, QueueSteps, SameOnce, RepliesType DEF Request
<1>7. CASE Start  BY <1>7, QueueSteps, SameLoop, SameLoopExit DEF Start
<1>8. ASSUME NEW e \in armed[Main], Expire(e) PROVE P!Next
  BY <1>8, QueueSteps, SameLoop DEF Expire
<1>9. CASE EndQueue  BY <1>9, QueueSteps, SameLoop DEF EndQueue
<1>10. CASE \/ EndServer \/ UNCHANGED vars
            \/ \E r \in Requests : Disconnect(r) \/ Sent(r)
  BY <1>10 DEF EndServer, Disconnect, Sent, vars
<1> QED
  BY <1>1, <1>2, <1>3, <1>4, <1>5, <1>6, <1>7, <1>8, <1>9, <1>10
  DEF Next, LoopStep

LEMMA QueueKept ==
  ASSUME Inv, [Next]_vars
  PROVE  P!TypeOK' /\ P!OnceInv'
<1>1. P!TypeOK /\ P!OnceInv  BY SameQueue DEF Inv, TypeOK
<1>2. CASE [P!Next]_(P!vars)
  BY <1>1, <1>2, Assumptions, P!TypeStep, P!OnceInvInductive
<1>3. ASSUME NEW s \in Signals, Signal(s) PROVE P!TypeOK' /\ P!OnceInv'
  <2>1. P!TypeOK'  BY <1>1, <1>3 DEF Signal, P!TypeOK
  <2>2. P!OnceInv'
    BY <1>1, <1>3, Assumptions, P!QuietStep DEF Signal
  <2> QED  BY <2>1, <2>2
<1> QED  BY <1>2, <1>3, ServerStep

OwnTypes ==
  /\ server \in {"up", "freed"}
  /\ request \in [Requests -> {"none", "open", "cut", "freed"}]
  /\ replied \subseteq Requests /\ forgotten \subseteq Requests
  /\ handler \in [Signals -> {"set", "deleted"}]

LEMMA TypeKept ==
  ASSUME Inv, [Next]_vars
  PROVE  TypeOK'
<1>1. Q!TypeOK' <=> P!TypeOK'
  BY DEF Q!TypeOK, P!TypeOK, Q!Event, P!Event, Q!Fns, P!Fns, Q!Flags, P!Flags
<1>2. Q!TypeOK'  BY <1>1, QueueKept
<1>3. OwnTypes  BY DEF Inv, TypeOK, OwnTypes
<1>4. OwnTypes'
  <2> USE DEF OwnTypes
  <2>1. CASE UNCHANGED own \/ UNCHANGED vars
    BY <2>1, <1>3 DEF own, http, vars
  <2>2. ASSUME NEW r \in Requests,
               \/ Request(r) \/ Disconnect(r) \/ Sent(r)
               \/ SendChunk(r) \/ FailChunk(r) \/ SendEnd(r)
        PROVE  OwnTypes'
    BY <2>2, <1>3 DEF Request, Disconnect, Sent, SendChunk, FailChunk, SendEnd, http
  <2>3. CASE EndServer  BY <2>3, <1>3 DEF EndServer
  <2>4. ASSUME NEW s \in Signals, Signal(s)
        PROVE  OwnTypes'
    BY <2>4, <1>3 DEF Signal, http
  <2>5. \/ UNCHANGED own \/ UNCHANGED vars \/ EndServer
        \/ \E s \in Signals : Signal(s)
        \/ \E r \in Requests : \/ Request(r) \/ Disconnect(r) \/ Sent(r)
                               \/ SendChunk(r) \/ FailChunk(r) \/ SendEnd(r)
    BY DEF Next, LoopStep, Turn, Return, PostEnd, Start, Expire, EndQueue
  <2> QED  BY <2>1, <2>2, <2>3, <2>4, <2>5
<1> QED  BY <1>2, <1>4 DEF TypeOK, OwnTypes

-----------------------------------------------------------------------------
(* What a step of the server does to them.                                  *)

LEMMA LoopEffects ==
  ASSUME Inv
  PROVE  /\ Turn => Still \/ Takes(X)
         /\ Return => CallEnds
         /\ Start => Still \/ Posts(X)
         /\ \A e \in armed[Main] : Expire(e) => Still
         /\ EndQueue => Frees
<1>1. P!TypeOK /\ P!OnceInv  BY SameQueue DEF Inv, TypeOK
<1>2. ASSUME Turn PROVE Still \/ Takes(X)
  <2>1. CASE P!CallExit(Main, Timeout)  BY <2>1, <1>1, CallExitEffect
  <2>2. CASE P!LoopCheck(Main) \/ P!StartBatch(Main) \/ P!Wake(Main) \/ P!EndBatch(Main)
    <3>1. UNCHANGED <<armed, active, sub, dropped, running>>
      BY <2>2 DEF P!LoopCheck, P!StartBatch, P!Wake, P!EndBatch, P!pending, P!functors
    <3> QED  BY <3>1, StillEffect
  <2> QED  BY <1>2, <2>1, <2>2, SameLoop, SameCalls DEF Turn
<1>3. Return => CallEnds  BY <1>1, SameCalls, EndCallEffect DEF Return
<1>4. ASSUME Start PROVE Still \/ Posts(X)
  <2>1. CASE P!LoopExit(Main, Timeout)  BY <2>1, <1>1, LoopExitEffect
  <2>2. CASE P!Dispatch(Main, {"noexit"})
    BY <2>2, StillEffect DEF P!Dispatch, P!pending, P!functors
  <2> QED  BY <1>4, <2>1, <2>2, SameLoop, SameLoopExit DEF Start
<1>5. \A e \in armed[Main] : Expire(e) => Still
  BY <1>1, SameLoop, ExpireEffect DEF Expire
<1>6. EndQueue => Frees  BY <1>1, SameLoop, DestroyEffect DEF EndQueue
<1> QED  BY <1>2, <1>3, <1>4, <1>5, <1>6

LEMMA RequestEffects ==
  ASSUME Inv, NEW r \in Requests
  PROVE  /\ Request(r) => Posts(C(r)) /\ dropped' = dropped
         /\ SendChunk(r) \/ FailChunk(r) => Takes(C(r))
         /\ PostEnd(r) => Posts(N(r))
         /\ SendEnd(r) => Takes(N(r))
         /\ Disconnect(r) \/ Sent(r) => Still
<1>1. P!TypeOK /\ P!OnceInv  BY SameQueue DEF Inv, TypeOK
<1>2. Request(r) => Posts(C(r)) /\ dropped' = dropped
  BY <1>1, SameOnce, RepliesType, OnceEffect DEF Request, C
<1>3. SendChunk(r) \/ FailChunk(r) => Takes(C(r))
  BY <1>1, SameCalls, RepliesType, CallOwnedEffect DEF SendChunk, FailChunk, C
<1>4. PostEnd(r) => Posts(N(r))
  BY <1>1, SameOnce, RepliesType, OnceEffect DEF PostEnd, N
<1>5. SendEnd(r) => Takes(N(r))
  BY <1>1, SameCalls, RepliesType, CallOwnedEffect DEF SendEnd, N
<1>6. Disconnect(r) \/ Sent(r) => Still
  BY StillEffect DEF Disconnect, Sent, queue
<1> QED  BY <1>2, <1>3, <1>4, <1>5, <1>6

LEMMA OtherEffects ==
  /\ EndServer => Still
  /\ \A s \in Signals : Signal(s) => Still
  /\ UNCHANGED vars => Still
BY StillEffect DEF EndServer, Signal, vars, queue

LEMMA Names ==
  ASSUME NEW r \in Requests
  PROVE  /\ Chunk(r) # End(r) /\ Chunk(r) # Timeout /\ End(r) # Timeout
         /\ C(r) # N(r) /\ C(r) # X /\ N(r) # X /\ X.fn = Timeout
         /\ C(r).fn = Chunk(r) /\ N(r).fn = End(r)
         /\ C(r).stage = "owned" /\ N(r).stage = "owned"
         /\ C(r) # None /\ N(r) # None
         /\ \A t \in Requests \ {r} :
              /\ Chunk(t) # Chunk(r) /\ Chunk(t) # End(r)
              /\ End(t) # End(r) /\ End(t) # Chunk(r)
              /\ C(t) # C(r) /\ C(t) # N(r) /\ N(t) # N(r) /\ N(t) # C(r)
<1>1. /\ Chunk(r) # End(r) /\ Chunk(r) # Timeout /\ End(r) # Timeout
      /\ \A t \in Requests \ {r} :
           /\ Chunk(t) # Chunk(r) /\ Chunk(t) # End(r)
           /\ End(t) # End(r) /\ End(t) # Chunk(r)
  BY DEF Chunk, End, Timeout
<1>2. /\ \A t : C(t).fn = Chunk(t) /\ N(t).fn = End(t)
      /\ \A t : C(t).stage = "owned" /\ N(t).stage = "owned"
      /\ X.fn = Timeout
  BY DEF C, N, X, P!Ev
<1>3. C(r) \in P!Event /\ N(r) \in P!Event
  BY RepliesType DEF C, N, P!Ev, P!Event, P!Fns
<1>4. C(r) # None /\ N(r) # None  BY <1>3, Assumptions
<1> QED  BY <1>1, <1>2, <1>4

LEMMA PlacesAre ==
  /\ Places = W \cup ({running[Main]} \ {None}) \cup dropped
  /\ Places' = W' \cup ({running'[Main]} \ {None}) \cup dropped'
BY DEF Places, P!Held, W

LEMMA PlacesStep ==
  /\ Still \/ CallEnds \/ Frees \/ (\E e : Takes(e)) => Places' \subseteq Places
  /\ \A e : Posts(e) => Places' \subseteq Places \cup {e}
BY PlacesAre DEF Still, CallEnds, Frees, Takes, Posts

-----------------------------------------------------------------------------
(* The steps keep the invariant.                                            *)

LEMMA OwnedKept ==
  ASSUME Inv, [Next]_vars
  PROVE  OnlyOwned'
<1>1. OnlyOwned  BY DEF Inv
<1>2. CASE Still \/ CallEnds \/ Frees \/ \E e : Takes(e)
  BY <1>1, <1>2, PlacesStep DEF OnlyOwned, X
<1>3. CASE Posts(X)
  BY <1>1, <1>3, PlacesStep DEF OnlyOwned, X
<1>4. ASSUME NEW r \in Requests, Posts(C(r)) \/ Posts(N(r)) PROVE OnlyOwned'
  BY <1>1, <1>4, PlacesStep, Names DEF OnlyOwned, X
<1> QED
  BY <1>2, <1>3, <1>4, LoopEffects, RequestEffects, OtherEffects
  DEF Next, LoopStep

LEMMA ControlKept ==
  ASSUME Inv, [Next]_vars
  PROVE  Control'
<1> USE DEF Ready
<1>1. /\ Control /\ P!TypeOK
      /\ loop \in [{Main} -> {"out", "top", "poll", "batch"}]
      /\ ret \in [{Main} -> {"none", "true", "false"}]
      /\ brk \in [{Main} -> BOOLEAN] /\ base \in [{Main} -> {"live", "freed"}]
      /\ running \in [{Main} -> P!Event \cup {None}]
      /\ handler \in [Signals -> {"set", "deleted"}]
  BY SameQueue DEF Inv, TypeOK, P!TypeOK
<1>2. CASE UNCHANGED <<base, running, loop, ret, brk, server, handler>> /\ W' = W
  BY <1>1, <1>2 DEF Control
<1>3. CASE Turn
  <2>1. CASE P!CallExit(Main, Timeout)
    <3>1. Takes(X)  BY <1>1, <2>1, CallExitEffect DEF Inv
    <3>2. UNCHANGED <<base, loop, ret, brk, server, handler>>
      BY <1>3, <2>1 DEF Turn, P!CallExit, P!Take, own, http
    <3> QED  BY <1>1, <3>1, <3>2 DEF Control, Takes
  <2>2. CASE P!LoopCheck(Main)
    <3>1. UNCHANGED <<base, running, brk, server, handler>> /\ W' = W
      BY <1>3, <2>2 DEF Turn, P!LoopCheck, own, http, W, P!Waiting, P!pending
    <3>2. /\ loop[Main] = "top"
          /\ \/ loop'[Main] = "out" /\ ret'[Main] # "none"
             \/ ~brk[Main] /\ ret' = ret /\ loop'[Main] = "poll"
      BY <1>1, <2>2 DEF P!LoopCheck, P!Return
    <3> QED  BY <1>1, <3>1, <3>2 DEF Control
  <2>3. CASE P!StartBatch(Main) \/ P!Wake(Main) \/ P!EndBatch(Main)
    <3>1. UNCHANGED <<base, running, brk, server, handler>> /\ W' = W
      BY <1>3, <2>3 DEF Turn, P!StartBatch, P!Wake, P!EndBatch, own, http, W,
                        P!Waiting, P!pending, P!control
    <3>2. /\ loop[Main] \in {"poll", "batch"}
          /\ \/ loop'[Main] = "out" /\ ret'[Main] # "none" /\ running[Main] = None
             \/ ret' = ret /\ loop'[Main] = "top" /\ running[Main] = None
             \/ ret' = ret /\ loop'[Main] = "batch" /\ loop[Main] = "poll"
      BY <1>1, <2>3 DEF P!StartBatch, P!Wake, P!EndBatch, P!Return, P!control, Control
    <3> QED  BY <1>1, <3>1, <3>2 DEF Control
  <2> QED  BY <1>3, <2>1, <2>2, <2>3, SameLoop, SameCalls DEF Turn
<1>4. CASE Return
  <2>1. P!EndCall(Main) /\ UNCHANGED own  BY <1>4, SameCalls DEF Return
  <2>2. /\ UNCHANGED <<base, ret, brk, server, handler>> /\ W' = W
        /\ running[Main] # None /\ running'[Main] = None
        /\ loop'[Main] # "out"
    BY <1>1, <2>1 DEF P!EndCall, P!control, P!pending, W, P!Waiting, own, http
  <2> QED  BY <1>1, <2>2 DEF Control
<1>5. CASE Start
  <2>1. CASE P!LoopExit(Main, Timeout)
    <3>1. UNCHANGED <<running, loop, ret, brk, server, handler, base>>
      BY <1>5, <2>1 DEF Start, P!LoopExit, P!control, own, http
    <3>2. base[Main] # "freed"
      BY <1>1, <2>1 DEF P!LoopExit, P!Add
    <3> QED  BY <1>1, <3>1, <3>2 DEF Control
  <2>2. CASE P!Dispatch(Main, {"noexit"}) /\ ret[Main] = "none"
    <3>1. /\ UNCHANGED <<base, running, server, handler>>
          /\ loop'[Main] = "top" /\ loop[Main] = "out" /\ ret'[Main] = "none"
          /\ base[Main] # "freed"
      BY <1>1, <1>5, <2>2 DEF Start, P!Dispatch, own, http
    <3> QED  BY <1>1, <2>2, <3>1 DEF Control
  <2> QED  BY <1>5, <2>1, <2>2, SameLoop, SameLoopExit DEF Start
<1>6. ASSUME NEW e \in armed[Main], Expire(e) PROVE Control'
  <2>1. Still  BY <1>6, LoopEffects
  <2>2. UNCHANGED <<base, loop, ret, brk, server, handler>>
    BY <1>6, SameLoop DEF Expire, P!Expire, P!control, own, http
  <2> QED  BY <1>2, <2>1, <2>2 DEF Still
<1>7. CASE EndServer
  <2>1. Still  BY <1>7, OtherEffects
  <2>2. /\ UNCHANGED <<base, loop, ret, brk, handler>>
        /\ ret[Main] # "none" /\ server' = "freed"
    BY <1>7 DEF EndServer, queue
  <2> QED  BY <1>1, <2>1, <2>2 DEF Control, Still
<1>8. CASE EndQueue
  <2>1. Frees  BY <1>8, LoopEffects
  <2>2. UNCHANGED <<loop, ret, brk, server, handler>> /\ server = "freed"
    BY <1>8, SameLoop DEF EndQueue, P!Destroy, P!control, own, http
  <2> QED  BY <1>1, <2>1, <2>2 DEF Control, Frees
<1>9. ASSUME NEW s \in Signals, Signal(s) PROVE Control'
  <2>1. Still  BY <1>9, OtherEffects
  <2>2. /\ UNCHANGED <<base, ret, server>> /\ loop[Main] # "out"
        /\ loop'[Main] = "top" /\ brk'[Main] = TRUE /\ running[Main] = None
    BY <1>1, <1>9 DEF Signal, http
  <2> QED  BY <1>1, <2>1, <2>2 DEF Control, Still
<1>10. ASSUME NEW r \in Requests, SendChunk(r) \/ FailChunk(r) \/ SendEnd(r)
       PROVE  Control'
  <2>1. Takes(C(r)) \/ Takes(N(r))  BY <1>10, RequestEffects
  <2>2. UNCHANGED <<base, loop, ret, server, handler>> /\ (brk[Main] => brk'[Main])
    BY <1>1, <1>10, SameCalls
    DEF SendChunk, FailChunk, SendEnd, P!CallOwned, P!Take, P!Body, http
  <2> QED  BY <1>1, <2>1, <2>2 DEF Control, Takes
<1>11. ASSUME NEW r \in Requests, Request(r) \/ PostEnd(r) PROVE Control'
  <2>1. Posts(C(r)) \/ Posts(N(r))  BY <1>11, RequestEffects
  <2>2. UNCHANGED <<base, loop, ret, brk, server, handler>> /\ loop[Main] # "out"
    BY <1>1, <1>11, SameOnce, Names
    DEF Request, PostEnd, P!OnceMove, P!Submit, P!control, own, http, Control, C, Q!Ev, P!Ev
  <2>3. base[Main] # "freed"  BY <1>1, <2>2 DEF Control
  <2> QED  BY <1>1, <2>1, <2>2, <2>3 DEF Control, Posts
<1>12. CASE UNCHANGED vars \/ \E r \in Requests : Disconnect(r) \/ Sent(r)
  <2>1. Still  BY <1>12, OtherEffects, RequestEffects
  <2>2. UNCHANGED <<base, loop, ret, brk, server, handler>>
    BY <1>12 DEF vars, Disconnect, Sent, queue, own, http
  <2> QED  BY <1>2, <2>1, <2>2 DEF Still
<1> QED
  BY <1>3, <1>4, <1>5, <1>6, <1>7, <1>8, <1>9, <1>10, <1>11, <1>12
  DEF Next, LoopStep

\* The step leaves the functors of request r where they are, or drops them.
SameFor(r) ==
  /\ Chunk(r) \in sub' <=> Chunk(r) \in sub
  /\ End(r) \in sub' <=> End(r) \in sub
  /\ C(r) \in W' \cup dropped' <=> C(r) \in W \cup dropped
  /\ N(r) \in W' \cup dropped' <=> N(r) \in W \cup dropped
  /\ End(r) \notin sub /\ r \notin forgotten /\ C(r) \in Places => C(r) \in Places'

LEMMA SameSteps ==
  ASSUME NEW r \in Requests
  PROVE  /\ Still => SameFor(r)
         /\ CallEnds /\ (running[Main] = C(r) => End(r) \in sub \/ r \in forgotten)
              => SameFor(r)
         /\ Frees => SameFor(r)
         /\ Takes(X) => SameFor(r)
         /\ Posts(X) => SameFor(r)
         /\ \A t \in Requests \ {r} :
              \/ Takes(C(t)) \/ Takes(N(t)) \/ Posts(C(t)) \/ Posts(N(t))
              => SameFor(r)
<1>1. Still => SameFor(r)  BY PlacesAre DEF Still, SameFor
<1>2. CallEnds /\ (running[Main] = C(r) => End(r) \in sub \/ r \in forgotten)
        => SameFor(r)
  BY PlacesAre DEF CallEnds, SameFor
<1>3. Frees => SameFor(r)  BY PlacesAre DEF Frees, SameFor
<1>4. \A e : Takes(e) /\ e # C(r) /\ e # N(r) => SameFor(r)
  BY PlacesAre DEF Takes, SameFor
<1>5. \A e : Posts(e) /\ e # C(r) /\ e # N(r) /\ e.fn \notin {Chunk(r), End(r)}
               => SameFor(r)
  BY PlacesAre DEF Posts, SameFor
<1> QED  BY <1>1, <1>2, <1>3, <1>4, <1>5, Names

LEMMA SameProgress ==
  ASSUME NEW r \in Requests, Progress(r), SameFor(r),
         UNCHANGED server, request'[r] = request[r], r \in replied' <=> r \in replied,
         r \in forgotten' <=> r \in forgotten,
         ret[Main] # "none" => ret'[Main] # "none"
  PROVE  Progress(r)'
BY DEF Progress, SameFor

LEMMA ProgressKept ==
  ASSUME Inv, [Next]_vars, NEW r \in Requests
  PROVE  Progress(r)'
<1>1. /\ Control /\ Progress(r) /\ P!TypeOK /\ P!OnceInv
      /\ ret \in [{Main} -> {"none", "true", "false"}]
      /\ request \in [Requests -> {"none", "open", "cut", "freed"}]
      /\ replied \subseteq Requests
  BY SameQueue DEF Inv, TypeOK, P!TypeOK
<1>2. CASE /\ SameFor(r) /\ UNCHANGED http
           /\ ret[Main] # "none" => ret'[Main] # "none"
  BY <1>1, <1>2, SameProgress DEF http
<1>3. CASE Turn
  <2>1. SameFor(r)  BY <1>3, LoopEffects, SameSteps
  <2>2. UNCHANGED http  BY <1>3 DEF Turn, own, http
  <2>3. ret'[Main] = ret[Main] \/ ret'[Main] # "none"
    BY <1>1, <1>3, SameLoop, SameCalls
    DEF Turn, P!LoopCheck, P!StartBatch, P!Wake, P!EndBatch, P!CallExit, P!Return,
        P!control
  <2> QED  BY <1>2, <2>1, <2>2, <2>3
<1>4. CASE Return
  <2>1. Q!Ev(Chunk(r), "owned") = C(r)  BY SameEvents
  <2>2. SameFor(r)
    BY <1>4, <2>1, LoopEffects, SameSteps DEF Return
  <2>3. UNCHANGED <<http, ret>>
    BY <1>4, SameCalls DEF Return, own, P!EndCall, P!control
  <2> QED  BY <1>2, <2>2, <2>3
<1>5. CASE Start
  <2>1. SameFor(r)  BY <1>5, LoopEffects, SameSteps
  <2>2. UNCHANGED http  BY <1>5 DEF Start, own, http
  <2>3. ret'[Main] = ret[Main] \/ ret[Main] = "none"
    BY <1>5, SameLoopExit DEF Start, P!LoopExit, P!control
  <2> QED  BY <1>2, <2>1, <2>2, <2>3
<1>6. ASSUME NEW e \in armed[Main], Expire(e) PROVE Progress(r)'
  <2>1. SameFor(r)  BY <1>6, LoopEffects, SameSteps
  <2>2. UNCHANGED <<http, ret>>
    BY <1>6, SameLoop DEF Expire, own, P!Expire, P!control
  <2> QED  BY <1>2, <2>1, <2>2
<1>7. CASE EndQueue
  <2>1. SameFor(r)  BY <1>7, LoopEffects, SameSteps
  <2>2. UNCHANGED <<http, ret>>
    BY <1>7, SameLoop DEF EndQueue, own, P!Destroy, P!control
  <2> QED  BY <1>2, <2>1, <2>2
<1>8. CASE UNCHANGED vars \/ \E s \in Signals : Signal(s)
  <2>1. SameFor(r)  BY <1>8, OtherEffects, SameSteps
  <2>2. UNCHANGED <<http, ret>>
    BY <1>8 DEF vars, own, queue, Signal, http
  <2> QED  BY <1>2, <2>1, <2>2
<1>9. CASE EndServer
  <2>1. SameFor(r)  BY <1>9, OtherEffects, SameSteps
  <2>2. /\ UNCHANGED <<replied, forgotten, ret>> /\ ret[Main] # "none"
        /\ request'[r] = IF request[r] = "open" THEN "freed" ELSE request[r]
    BY <1>9 DEF EndServer, queue
  <2> QED  BY <1>1, <2>1, <2>2 DEF Progress, SameFor
<1>10. ASSUME NEW t \in Requests \ {r},
              \/ Request(t) \/ Disconnect(t) \/ Sent(t)
              \/ SendChunk(t) \/ FailChunk(t) \/ PostEnd(t) \/ SendEnd(t)
       PROVE  Progress(r)'
  <2>1. SameFor(r)  BY <1>10, RequestEffects, SameSteps
  <2>2. /\ UNCHANGED server /\ request'[r] = request[r]
        /\ r \in replied' <=> r \in replied
        /\ r \in forgotten' <=> r \in forgotten
    BY <1>10, <1>1
    DEF Request, Disconnect, Sent, SendChunk, FailChunk, PostEnd, SendEnd, http, own
  <2>3. ret' = ret
    BY <1>10, SameOnce, SameCalls
    DEF Request, Disconnect, Sent, SendChunk, FailChunk, PostEnd, SendEnd, queue,
        P!OnceMove, P!Submit, P!CallOwned, P!control
  <2> QED  BY <1>1, <2>1, <2>2, <2>3, SameProgress
<1>11. CASE Request(r)
  <2>1. Posts(C(r)) /\ dropped' = dropped  BY <1>11, RequestEffects
  <2>2. /\ Chunk(r) \notin sub /\ request[r] = "none" /\ request'[r] = "open"
        /\ UNCHANGED <<server, replied, forgotten>> /\ server # "freed"
    BY <1>1, <1>11, <2>1, Names DEF Request, Posts, Ready, Control
  <2>3. C(r) \in W' \cup dropped' /\ C(r) \in Places'
    BY <2>1, PlacesAre DEF Posts
  <2>4. End(r) \notin sub /\ r \notin replied /\ r \notin forgotten
    BY <1>1, <2>2 DEF Progress
  <2>5. End(r) \notin sub' /\ Chunk(r) \in sub'
    BY <2>1, <2>4, Names DEF Posts
  <2> QED  BY <1>1, <2>2, <2>3, <2>4, <2>5 DEF Progress
<1>12. CASE Disconnect(r)
  <2>1. SameFor(r)  BY <1>12, RequestEffects, SameSteps
  <2>2. /\ UNCHANGED <<server, replied, forgotten, ret>> /\ request[r] = "open"
        /\ request'[r] = IF r \in replied THEN "freed" ELSE "cut"
    BY <1>1, <1>12 DEF Disconnect, queue
  <2> QED  BY <1>1, <2>1, <2>2 DEF Progress, SameFor
<1>13. CASE Sent(r)
  <2>1. SameFor(r)  BY <1>13, RequestEffects, SameSteps
  <2>2. /\ UNCHANGED <<server, replied, forgotten, ret>> /\ request[r] = "open"
        /\ r \in replied /\ request'[r] = "freed"
    BY <1>1, <1>13 DEF Sent, queue
  <2> QED  BY <1>1, <2>1, <2>2 DEF Progress, SameFor
<1>14. CASE SendChunk(r)
  <2>1. Takes(C(r))  BY <1>14, RequestEffects
  <2>2. UNCHANGED <<http, ret, sub, dropped>>
    BY <1>14, <2>1, SameCalls DEF SendChunk, http, P!CallOwned, Takes
  <2>3. /\ C(r) \in W /\ W' = W \ {C(r)} /\ C(r) \in Places'
        /\ C(r) # N(r)
    BY <2>1, PlacesAre, Names DEF Takes
  <2>4. C(r) \notin dropped
    BY <1>1, <2>3 DEF P!OnceInv, P!OneHolder, P!Held, W
  <2>5. End(r) \notin sub /\ r \notin replied  BY <1>1, <2>3 DEF Progress
  <2> QED  BY <1>1, <2>2, <2>3, <2>4, <2>5 DEF Progress, http
<1>15. CASE PostEnd(r)
  <2>1. Posts(N(r)) /\ running[Main] = C(r)
    BY <1>15, RequestEffects, SameEvents DEF PostEnd
  <2>2. UNCHANGED <<http, ret>>
    BY <1>15, SameOnce DEF PostEnd, own, P!OnceMove, P!Submit, P!control
  <2>3. /\ End(r) \notin sub /\ End(r) \in sub' /\ (Chunk(r) \in sub' <=> Chunk(r) \in sub)
        /\ N(r) \in W' \cup dropped'
        /\ C(r) \in W' \cup dropped' <=> C(r) \in W \cup dropped
    BY <2>1, Names DEF Posts
  <2>4. C(r) \in P!Held(Main) /\ C(r) \notin W \cup dropped
    BY <1>1, <2>1, Names DEF P!OnceInv, P!OneHolder, P!Held, W
  <2>5. Chunk(r) \in sub
    BY <1>1, <2>4, Names DEF P!OnceInv, P!Submitted
  <2>6. r \notin replied /\ r \notin forgotten
    BY <1>1, <1>15, <2>3 DEF Progress, PostEnd
  <2> QED  BY <1>1, <2>2, <2>3, <2>4, <2>5, <2>6 DEF Progress, http
<1>16. CASE SendEnd(r)
  <2>1. Takes(N(r))  BY <1>16, RequestEffects
  <2>2. /\ UNCHANGED <<server, forgotten, ret, sub, dropped>> /\ r \in replied'
        /\ request'[r] = IF request[r] = "cut" THEN "freed" ELSE request[r]
    BY <1>1, <1>16, <2>1, SameCalls DEF SendEnd, P!CallOwned, Takes
  <2>3. N(r) \in W /\ W' = W \ {N(r)}  BY <2>1 DEF Takes
  <2>4. N(r) \notin dropped /\ N(r) \in P!Held(Main)
    BY <1>1, <2>3 DEF P!OnceInv, P!OneHolder, P!Held, W
  <2>5. End(r) \in sub
    BY <1>1, <2>4, Names DEF P!OnceInv, P!Submitted
  <2> QED  BY <1>1, <2>2, <2>3, <2>4, <2>5 DEF Progress
<1>17. CASE FailChunk(r)
  <2>1. Takes(C(r))  BY <1>17, RequestEffects
  <2>2. /\ UNCHANGED <<server, request, replied, ret, sub, dropped>>
        /\ r \in forgotten'
    BY <1>17, <2>1, SameCalls DEF FailChunk, P!CallOwned, Takes
  <2>3. C(r) \in W /\ W' = W \ {C(r)}  BY <2>1 DEF Takes
  <2>4. C(r) \notin dropped /\ C(r) \in P!Held(Main)
    BY <1>1, <2>3 DEF P!OnceInv, P!OneHolder, P!Held, W
  <2>5. Chunk(r) \in sub
    BY <1>1, <2>4, Names DEF P!OnceInv, P!Submitted
  <2>6. End(r) \notin sub /\ r \notin replied  BY <1>1, <2>3 DEF Progress
  <2> QED  BY <1>1, <2>2, <2>3, <2>4, <2>5, <2>6 DEF Progress
<1> QED
  BY <1>3, <1>4, <1>5, <1>6, <1>7, <1>8, <1>9, <1>10, <1>11, <1>12, <1>13, <1>14,
     <1>15, <1>16, <1>17
  DEF Next, LoopStep

LEMMA NothingUsed ==
  ASSUME Inv, [Next]_vars
  PROVE  dangling' = {}
<1>1. dangling = {} /\ Control  BY DEF Inv
<1>2. CASE UNCHANGED dangling  BY <1>1, <1>2
<1>3. ASSUME NEW r \in Requests, SendChunk(r) PROVE dangling' = {}
  <2>1. Takes(C(r))  BY <1>3, RequestEffects
  <2>2. C(r) \in W /\ ret[Main] = "none"
    BY <1>1, <2>1 DEF Takes, Control
  <2>3. request[r] # "freed"  BY <2>2 DEF Inv, Progress
  <2> QED  BY <1>1, <1>3, <2>3 DEF SendChunk, Use
<1>4. ASSUME NEW r \in Requests, SendEnd(r) PROVE dangling' = {}
  <2>1. Takes(N(r))  BY <1>4, RequestEffects
  <2>2. N(r) \in W /\ ret[Main] = "none"
    BY <1>1, <2>1 DEF Takes, Control
  <2>3. request[r] # "freed"  BY <2>2 DEF Inv, Progress
  <2> QED  BY <1>1, <1>4, <2>3 DEF SendEnd, Use
<1>5. ASSUME NEW s \in Signals, Signal(s) PROVE dangling' = {}
  <2>1. handler[s] # "deleted"  BY <1>1, <1>5 DEF Signal, Ready, Control
  <2> QED  BY <1>1, <1>5, <2>1 DEF Signal
<1> QED
  BY <1>2, <1>3, <1>4, <1>5
  DEF Next, LoopStep, Turn, Return, PostEnd, Start, Expire, EndServer, EndQueue,
      Request, Disconnect, Sent, FailChunk, own, vars

LEMMA NextInv == Inv /\ [Next]_vars => Inv'
BY TypeKept, QueueKept, NothingUsed, ControlKept, OwnedKept, ProgressKept DEF Inv

LEMMA InitInv == Init => Inv
<1> SUFFICES ASSUME Init PROVE Inv  OBVIOUS
<1>1. P!Init  BY SameQueue DEF Init
<1>2. /\ armed[Main] = {} /\ active[Main] = <<>> /\ running[Main] = None
      /\ loop[Main] = "out" /\ ret[Main] = "none" /\ base[Main] = "live"
      /\ sub = {} /\ dropped = {}
  BY <1>1 DEF P!Init
<1>3. P!ToSet(<<>>) = {}  BY DEF P!ToSet
<1>4. W = {} /\ Places = {}  BY <1>2, <1>3, PlacesAre DEF W, P!Waiting
<1>5. P!OnceInv  BY <1>1, Assumptions, P!OnceInvInit
<1>6. P!TypeOK
  BY <1>1 DEF P!Init, P!TypeOK, P!Flags
<1>7. TypeOK /\ dangling = {}  BY <1>6, SameQueue DEF Init, TypeOK
<1>8. Control  BY <1>2 DEF Init, Control
<1>9. OnlyOwned  BY <1>4 DEF OnlyOwned
<1>10. \A r \in Requests : Progress(r)  BY <1>2, <1>4 DEF Init, Progress
<1> QED  BY <1>5, <1>7, <1>8, <1>9, <1>10 DEF Inv

THEOREM Invariant == Spec => []Inv
<1>1. Init => Inv  BY InitInv
<1>2. Inv /\ [Next]_vars => Inv'  BY NextInv
<1> QED  BY <1>1, <1>2, PTL DEF Spec

-----------------------------------------------------------------------------
(* Theorems.                                                                *)

\* However late the functors run, whatever the clients and signals do, and however
\* main() ends: no request and no functor of a signal is used after it was freed.
THEOREM NoUseAfterFree == Spec => []NothingDangles
<1>1. Inv => NothingDangles  BY DEF Inv, NothingDangles
<1> QED  BY <1>1, Invariant, PTL

\* The functor that has the request in its hands, as long as it waits.
Holder(r) == IF End(r) \in sub THEN N(r) ELSE C(r)

LEMMA FunctorsAre ==
  ASSUME Inv, NEW r \in Requests, NEW e \in Places
  PROVE  /\ e.fn \in sub
         /\ e.fn = Chunk(r) => e = C(r)
         /\ e.fn = End(r) => e = N(r)
<1>1. OnlyOwned /\ P!OnceInv /\ P!TypeOK
  BY SameQueue DEF Inv, TypeOK
<1>2. e \in P!Event /\ e.fn \in sub
  BY <1>1, Assumptions, P!HeldType DEF P!OnceInv, P!Submitted, Places, P!TypeOK
<1>3. e = P!Ev(e.fn, e.stage)  BY <1>2 DEF P!Ev, P!Event
<1>4. e.fn \in {Chunk(r), End(r)} => e.stage = "owned"
  BY <1>1, Names DEF OnlyOwned
<1> QED  BY <1>2, <1>3, <1>4 DEF C, N

LEMMA HeldByOne ==
  ASSUME Inv, NEW r \in Requests \ forgotten,
         request[r] \in {"open", "cut"}, r \notin replied
  PROVE  Answering(r) = {Holder(r)} /\ Holder(r) \in Places
<1>1. Progress(r)  BY DEF Inv
<1>2. Q!Held(Main) \cup dropped = Places  BY SameQueue DEF Places
<1>3. Chunk(r) \in sub  BY <1>1 DEF Progress
<1>4. Holder(r) \in Places
  BY <1>1, <1>3, PlacesAre DEF Progress, Holder
<1>5. CASE End(r) \in sub
  BY <1>2, <1>4, <1>5, FunctorsAre, Names DEF Answering, Holder
<1>6. CASE End(r) \notin sub
  BY <1>2, <1>4, <1>6, FunctorsAre, Names DEF Answering, Holder
<1> QED  BY <1>4, <1>5, <1>6

LEMMA HeldByNone ==
  ASSUME Inv, NEW r \in forgotten
  PROVE  r \notin replied /\ Answering(r) \subseteq {running[Main]}
<1>1. r \in Requests  BY DEF Inv, TypeOK
<1>2. End(r) \notin sub /\ C(r) \notin W \cup dropped /\ r \notin replied
  BY <1>1 DEF Inv, Progress
<1>3. Q!Held(Main) \cup dropped = Places  BY SameQueue DEF Places
<1>4. ASSUME NEW e \in Answering(r) PROVE e = running[Main]
  <2>1. e \in Places /\ e.fn \in {Chunk(r), End(r)}  BY <1>3 DEF Answering
  <2>2. e = C(r)  BY <1>1, <1>2, <2>1, FunctorsAre
  <2> QED  BY <1>2, <2>1, <2>2, PlacesAre
<1> QED  BY <1>2, <1>4

LEMMA InvInHand == Inv => InHand
<1> SUFFICES ASSUME Inv PROVE InHand  OBVIOUS
<1>1. ASSUME NEW r \in Requests \ forgotten,
             request[r] \in {"open", "cut"}, r \notin replied
      PROVE  Cardinality(Answering(r)) = 1
  BY <1>1, HeldByOne, FS_Singleton
<1>2. ASSUME base[Main] = "freed", NEW r \in Requests
      PROVE  \/ request[r] \in {"none", "freed"}
             \/ /\ request[r] = "cut"
                /\ r \in forgotten \/ Answering(r) \cap dropped # {}
  <2>1. /\ server = "freed" /\ W = {} /\ running[Main] = None
        /\ request[r] # "open" /\ (request[r] = "cut" => r \notin replied)
        /\ request[r] \in {"none", "open", "cut", "freed"}
    BY <1>2 DEF Inv, Control, Progress, TypeOK
  <2>2. Places = dropped  BY <2>1, PlacesAre
  <2>3. request[r] = "cut" => r \in forgotten \/ Answering(r) \cap dropped # {}
    BY <2>1, <2>2, HeldByOne
  <2> QED  BY <2>1, <2>3
<1> QED  BY <1>1, <1>2, HeldByNone DEF InHand

\* A request that waits for its reply is in the hands of exactly one functor, unless
\* the first one threw before it could post the second; when main() ends only those
\* of clients that had gone are left, with functors that threw or that ~queue() dropped.
THEOREM RequestsInHand == Spec => []InHand
<1>1. Inv => InHand  BY InvInHand
<1> QED  BY <1>1, Invariant, PTL
-----------------------------------------------------------------------------
(* What once() promises, to this program too.                               *)

LEMMA SignalIsQuiet ==
  ASSUME Inv, P!Journey, NEW s \in Signals, Signal(s)
  PROVE  P!Journey' /\ P!Step
<1>1. P!TypeOK  BY SameQueue DEF Inv, TypeOK
<1>2. /\ UNCHANGED <<armed, active, log, dropped, sub, dest, running>>
      /\ running[Main] = None
      /\ \A r \in {Main} \ {Main} : loop'[r] = loop[r] /\ running'[r] = running[r]
  BY DEF Signal, Ready
<1> QED  BY <1>1, <1>2, Assumptions, P!StepLoop

LEMMA ServerJourney ==
  ASSUME Inv, P!Journey, [Next]_vars
  PROVE  P!Journey' /\ P!Step
<1>1. P!TypeOK /\ P!OnceInv  BY SameQueue DEF Inv, TypeOK
<1>2. CASE [P!Next]_(P!vars)  BY <1>1, <1>2, Assumptions, P!JourneyStep
<1> QED  BY <1>2, SignalIsQuiet, ServerStep

\* Where a functor is, in the words of the contract, is the same for both instances.
SameFates ==
  \A f : /\ Q!fateOf(f) = P!fateOf(f)
         /\ Q!atOf(f) = P!atOf(f)
         /\ Q!goalOf(f) = P!goalOf(f)

LEMMA FatesSame == SameFates
<1> USE DEF Q!Waiting, P!Waiting, Q!ToSet, P!ToSet, Q!Ev, P!Ev, Q!Final, P!Final,
            Q!Lost, P!Lost, Q!Runs, P!Runs, Q!HeldIn, P!HeldIn, Q!fateOf, P!fateOf
<1>1. \A f : Q!fateOf(f) = P!fateOf(f)
  BY DEF Q!Cardinality, P!Cardinality
<1>2. \A f : Q!atOf(f) = P!atOf(f)  BY DEF Q!atOf, P!atOf
<1>3. \A f : Q!goalOf(f) = P!goalOf(f)  BY DEF Q!atOf, P!atOf, Q!goalOf, P!goalOf
<1> QED  BY ONLY <1>1, <1>2, <1>3 DEF SameFates

LEMMA FatesSameNext == SameFates'
BY FatesSame, PTL

LEMMA SameContract ==
  /\ Q!Contract!Init <=> P!Contract!Init
  /\ [Q!Contract!Next]_(Q!Contract!vars) <=> [P!Contract!Next]_(P!Contract!vars)
<1>1. Q!Fns = P!Fns  BY DEF Q!Fns, P!Fns
<1>2. /\ [f \in Q!Fns |-> Q!fateOf(f)] = [f \in P!Fns |-> P!fateOf(f)]
      /\ [f \in Q!Fns |-> Q!atOf(f)] = [f \in P!Fns |-> P!atOf(f)]
      /\ [f \in Q!Fns |-> Q!goalOf(f)] = [f \in P!Fns |-> P!goalOf(f)]
  BY <1>1, FatesSame DEF SameFates
<1>3. /\ [f \in Q!Fns |-> Q!fateOf(f)]' = [f \in P!Fns |-> P!fateOf(f)]'
      /\ [f \in Q!Fns |-> Q!atOf(f)]' = [f \in P!Fns |-> P!atOf(f)]'
      /\ [f \in Q!Fns |-> Q!goalOf(f)]' = [f \in P!Fns |-> P!goalOf(f)]'
  BY <1>1, FatesSameNext DEF SameFates, Q!Fns, P!Fns
<1>4. Q!Contract!Init <=> P!Contract!Init
  BY ONLY <1>1, <1>2 DEF Q!Contract!Init, P!Contract!Init
<1>5. Q!Contract!vars = P!Contract!vars /\ Q!Contract!vars' = P!Contract!vars'
  BY ONLY <1>2, <1>3 DEF Q!Contract!vars, P!Contract!vars
<1>6. \A f : Q!Contract!Accept(f) <=> P!Contract!Accept(f)
  BY ONLY <1>2, <1>3
  DEF Q!Contract!Accept, P!Contract!Accept, Q!Contract!Put, P!Contract!Put
<1>7. \A L : Q!Contract!Lose(L) <=> P!Contract!Lose(L)
  BY ONLY <1>1, <1>2, <1>3 DEF Q!Contract!Lose, P!Contract!Lose
<1>8. \A f : Q!Contract!Carry(f) <=> P!Contract!Carry(f)
  BY ONLY <1>2, <1>3, <1>7 DEF Q!Contract!Carry, P!Contract!Carry
<1>9. \A f : Q!Contract!Run(f) <=> P!Contract!Run(f)
  BY ONLY <1>2, <1>3 DEF Q!Contract!Run, P!Contract!Run
<1>10. \A q : /\ Q!Contract!Enter(q) <=> P!Contract!Enter(q)
              /\ Q!Contract!Leave(q) <=> P!Contract!Leave(q)
  BY ONLY <1>2, <1>3
  DEF Q!Contract!Enter, P!Contract!Enter, Q!Contract!Leave, P!Contract!Leave
<1>11. \A q : Q!Contract!Discard(q) <=> P!Contract!Discard(q)
  BY ONLY <1>1, <1>2, <1>7 DEF Q!Contract!Discard, P!Contract!Discard
<1>12. Q!Contract!Next <=> P!Contract!Next
  <2>1. (\E f \in Q!Fns :
           Q!Contract!Accept(f) \/ Q!Contract!Carry(f) \/ Q!Contract!Run(f))
        <=> \E f \in P!Fns :
              P!Contract!Accept(f) \/ P!Contract!Carry(f) \/ P!Contract!Run(f)
    BY ONLY <1>1, <1>6, <1>8, <1>9
  <2>2. \A q : Q!Contract!Enter(q) \/ Q!Contract!Leave(q) \/ Q!Contract!Discard(q)
                 <=> P!Contract!Enter(q) \/ P!Contract!Leave(q) \/ P!Contract!Discard(q)
    BY ONLY <1>10, <1>11
  <2> QED  BY ONLY <2>1, <2>2 DEF Q!Contract!Next, P!Contract!Next
<1> QED  BY ONLY <1>4, <1>5, <1>12

\* The program as a whole keeps the contract of once(): whatever its requests, its
\* timeout and its signals do from the callbacks of the loop, no functor runs twice or
\* outside of the loop, and none is lost but by a refused post or with the queue.
THEOREM ServerKeepsTheContract == Spec => OnceKept
<1>1. Init => P!Journey /\ P!Contract!Init
  BY SameQueue, Assumptions, P!JourneyInit DEF Init
<1>2. Inv /\ P!Journey /\ [Next]_vars
        => P!Journey' /\ [P!Contract!Next]_(P!Contract!vars)
  BY ServerJourney DEF P!Step
<1>3. /\ P!Contract!Init => Q!Contract!Init
      /\ [P!Contract!Next]_(P!Contract!vars) => [Q!Contract!Next]_(Q!Contract!vars)
  BY SameContract
<1>4. Init => Q!Contract!Init  BY <1>1, <1>3
<1>5. Inv /\ P!Journey /\ [Next]_vars => [Q!Contract!Next]_(Q!Contract!vars)
  BY <1>2, <1>3
<1> QED
  BY <1>1, <1>2, <1>4, <1>5, Invariant, PTL
  DEF Spec, OnceKept, Q!ImplementsContract, Q!Contract!Spec

-----------------------------------------------------------------------------
(* The second part of the module: KeyVal.  The inductive invariant.         *)

\* The list that parse() goes over.
Here == list[source]

\* No list has an entry twice.
Distinct ==
  \A l \in Lists : \A i, j \in DOMAIN list[l] : list[l][i] = list[l][j] => i = j

\* Where parse() stands.  Entries that the program took away from it end it at the
\* latest when the functor returns.
Reading ==
  /\ Parsing => source \in Lists
  /\ at = "call" => Len(shown) > 0 /\ entry \in Entry
  /\ Parsing /\ misuse = {} /\ entry # NoEntry => entry \in ToSet(Here)
  /\ faults # {} => misuse # {}
  /\ misuse # {} =>
       faults # {} \/ at = "idle" \/ (at = "call" /\ entry \notin ToSet(Here))

\* What the functors were told, whatever became of the list.
Told ==
  /\ \A n \in DOMAIN shown : shown[n].entry.key = pairs[shown[n].to]
  /\ \A n \in DOMAIN shown : shown[n].ok => shown[n].to \in accepted
  /\ \A i \in accepted : \E n \in DOMAIN shown : shown[n].to = i /\ shown[n].ok
  /\ \A n \in DOMAIN shown : \A j \in 1 .. shown[n].to - 1 :
       pairs[j] = pairs[shown[n].to] =>
         \E m \in 1 .. n - 1 : shown[m].to = j /\ shown[m].ok
  /\ \A m, n \in DOMAIN shown :
       m < n /\ shown[m].to = shown[n].to => ~shown[m].ok
  /\ at = "call" =>
       /\ shown[Len(shown)].entry = entry
       /\ ~shown[Len(shown)].ok
       /\ shown[Len(shown)].to \notin accepted

\* parse() has done with an entry that it showed, and with one that nobody waits for.
DoneWith(e) ==
  \/ \E n \in DOMAIN shown : shown[n].entry = e
  \/ \A k \in DOMAIN pairs : pairs[k] = e.key => k \in accepted

\* The entries shown stand in the list in the order in which they were shown, those
\* to come follow them, and parse() has done with all that the current one follows.
Ahead ==
  Parsing /\ misuse = {} =>
    /\ \A n \in DOMAIN shown : \E i \in DOMAIN Here : Here[i] = shown[n].entry
    /\ \A m, n \in DOMAIN shown : \A i, j \in DOMAIN Here :
         m < n /\ Here[i] = shown[m].entry /\ Here[j] = shown[n].entry => i < j
    /\ at = "loop" =>
         \A n \in DOMAIN shown : \A i, j \in DOMAIN Here :
           Here[i] = shown[n].entry /\ Here[j] = entry => i < j
    /\ \A i \in DOMAIN Here :
         (\A j \in DOMAIN Here : Here[j] = entry => i < j) => DoneWith(Here[i])

\* A list that was not filled is empty.
Raw == \A l \in Lists \ filled : list[l] = <<>>

\* Which misuse a fault comes from.
Blame ==
  /\ FaultNeedsMisuse
  /\ faults = {} => misuse \subseteq {"cleared in parse"}

ListInv == OwnedOnce /\ Distinct /\ Raw /\ Reading /\ Blame /\ Told /\ Ahead

-----------------------------------------------------------------------------
(* What the steps do.                                                       *)

\* The steps that only change which object has which list.
Handles == UNCHANGED <<list, parse, faults, misuse>>

Loses(l) == Discard(l) /\ UNCHANGED <<parse, faults>>

Gains(l, e) ==
  /\ e.value \notin Used
  /\ list' = [list EXCEPT ![l] = Append(@, e)]
  /\ UNCHANGED <<parse, faults, misuse>>

Fills(l, s) ==
  /\ l \notin filled
  /\ \A i, j \in DOMAIN s : s[i] = s[j] => i = j
  /\ list' = [list EXCEPT ![l] = s]
  /\ UNCHANGED <<parse, faults, misuse>>

\* The steps that objects and lists make, and the push that faults.
ListStep ==
  \/ Handles
  \/ \E l \in Lists : Loses(l)
  \/ \E l \in Lists, e \in Entry : Gains(l, e)
  \/ \E l \in Lists, s \in Seq(Entry) : Fills(l, s)

Breaks ==
  /\ UNCHANGED <<list, parse>>
  /\ faults' = {"null tail"} /\ misuse' = {"pushed to a fresh list"}

LEMMA ListSteps ==
  ASSUME KvTypeOK, Program, faults = {}, misuse = {}, ProgramNext
  PROVE  \/ ListStep
         \/ Breaks
         \/ \E o \in Owners \cup Refs, keys \in Seq(Keys) : StartParse(o, keys)
<1>0. \A o \in Owners \cup Refs : handle[o] # Null => handle[o] \in Lists
  BY DEF KvTypeOK
<1>1. ASSUME NEW o \in Owners, Destroy(o)  PROVE Loses(handle[o]) /\ handle[o] \in Lists
  BY <1>0, <1>1 DEF Destroy, Free, Loses
<1>2. ASSUME NEW o \in Owners, NEW l \in Lists, Construct(o, l)  PROVE Handles
  BY <1>2 DEF Construct, Handles
<1>3. ASSUME NEW o \in Owners, NEW p \in Owners, Move(o, p)  PROVE Handles
  BY <1>3 DEF Move, Handles
<1>4. ASSUME NEW o \in Owners, NEW p \in Owners, NEW l \in Lists, Reset(o, p, l)
      PROVE Loses(handle[o]) /\ handle[o] \in Lists
  BY <1>0, <1>4 DEF Reset, Free, Loses
<1>5. ASSUME NEW r \in Refs, NEW o \in Owners \cup Refs, Refer(r, o)  PROVE Handles
  BY <1>5 DEF Refer, Handles
<1>6. ASSUME NEW o \in Owners \cup Refs, NEW k \in Keys, NEW v \in Values, Push(o, k, v)
      PROVE \E l \in Lists, e \in Entry : Gains(l, e)
  <2>1. Gains(handle[o], [key |-> k, value |-> v])
    BY <1>6 DEF Push, Gains
  <2>2. [key |-> k, value |-> v] \in Entry  BY DEF Entry
  <2> QED  BY <1>0, <1>6, <2>1, <2>2 DEF Push, Usable
<1>7. ASSUME NEW o \in Owners \cup Refs, Clear(o)
      PROVE Loses(handle[o]) /\ handle[o] \in Lists
  BY <1>0, <1>7 DEF Clear, Usable, Loses, memory
<1>9. ASSUME NEW o \in Owners, NEW n \in 0 .. MaxEntries, NEW s \in [1 .. n -> Entry],
             Fill(o, s)
      PROVE Fills(handle[o], s) /\ handle[o] \in Lists /\ s \in Seq(Entry)
  BY <1>0, <1>9 DEF Fill, Usable, Fills, parse
<1>10. ASSUME NEW o \in Owners \cup Refs, PushFresh(o)  PROVE Breaks
  BY <1>10 DEF PushFresh, Breaks
<1>8. ASSUME NEW n \in 1 .. MaxPairs, NEW keys \in [1 .. n -> Keys]
      PROVE keys \in Seq(Keys)
  BY <1>8
<1> QED
  BY <1>1, <1>2, <1>3, <1>4, <1>5, <1>6, <1>7, <1>8, <1>9, <1>10
  DEF ProgramNext, ListStep

\* The effect of Append on the elements of a sequence.
LEMMA AppendElements ==
  ASSUME NEW S, NEW s \in Seq(S), NEW e \in S
  PROVE  /\ Append(s, e) \in Seq(S)
         /\ Len(Append(s, e)) = Len(s) + 1
         /\ DOMAIN Append(s, e) = 1 .. Len(s) + 1
         /\ Append(s, e)[Len(s) + 1] = e
         /\ \A i \in DOMAIN s : Append(s, e)[i] = s[i]
         /\ \A i \in DOMAIN Append(s, e) : i \in DOMAIN s \/ i = Len(s) + 1
<1>1. /\ Append(s, e) \in Seq(S) /\ Len(Append(s, e)) = Len(s) + 1
      /\ Append(s, e)[Len(s) + 1] = e
      /\ \A i \in 1 .. Len(s) : Append(s, e)[i] = s[i]
  OBVIOUS
<1>2. DOMAIN s = 1 .. Len(s) /\ Len(s) \in Nat  BY LenProperties
<1>3. DOMAIN Append(s, e) = 1 .. Len(s) + 1  BY <1>1, LenProperties
<1>4. \A i \in 1 .. Len(s) + 1 : i \in 1 .. Len(s) \/ i = Len(s) + 1  BY <1>2
<1> QED  BY <1>1, <1>2, <1>3, <1>4

\* h->next in a list that has no entry twice.
LEMMA AfterIs ==
  ASSUME NEW S, NEW s \in Seq(S), NEW c \in DOMAIN s,
         \A i, j \in DOMAIN s : s[i] = s[j] => i = j
  PROVE  After(s, s[c]) = IF c = Len(s) THEN NoEntry ELSE s[c + 1]
<1>1. DOMAIN s = 1 .. Len(s)  BY LenProperties
<1>2. c = CHOOSE j \in 1 .. Len(s) : s[j] = s[c]  BY <1>1
<1> QED  BY <1>2 DEF After

LEMMA ListsDistinct ==
  ASSUME KvTypeOK, Distinct, NEW l \in Lists
  PROVE  /\ list[l] \in Seq(Entry)
         /\ \A i, j \in DOMAIN list[l] : list[l][i] = list[l][j] => i = j
BY DEF KvTypeOK, Distinct

\* Where the current entry is, and where parse() goes from it.
LEMMA Current ==
  ASSUME KvTypeOK, Distinct, source \in Lists, entry \in ToSet(Here)
  PROVE  \E c \in DOMAIN Here :
           /\ Here[c] = entry /\ Here \in Seq(Entry)
           /\ After(Here, entry) = IF c = Len(Here) THEN NoEntry ELSE Here[c + 1]
<1>1. PICK c \in DOMAIN Here : Here[c] = entry  BY DEF ToSet
<1>2. /\ Here \in Seq(Entry)
      /\ \A i, j \in DOMAIN Here : Here[i] = Here[j] => i = j
  BY ListsDistinct DEF Here
<1>3. After(Here, Here[c]) = IF c = Len(Here) THEN NoEntry ELSE Here[c + 1]
  BY <1>2, AfterIs
<1> QED  BY <1>1, <1>2, <1>3

LEMMA NoEntryIs ==
  /\ NoEntry \notin Entry
  /\ \A e \in Entry : e.key \in Keys /\ e.key # Null
<1>1. NoEntry.key = Null  BY DEF NoEntry
<1>2. \A e \in Entry : e.key \in Keys  BY DEF Entry
<1> QED  BY <1>1, <1>2, NullAssumption

\* The loop is at an entry of its list until it ends.
LEMMA AtEntry ==
  ASSUME KvTypeOK, Reading, faults = {}, at = "loop", entry # NoEntry
  PROVE  /\ source \in Lists /\ misuse = {} /\ entry \in ToSet(Here)
         /\ entry \in Entry
BY DEF KvTypeOK, Reading, Parsing

-----------------------------------------------------------------------------
(* Types.                                                                   *)

\* What shown is a sequence of.
Showing == [to : DOMAIN pairs, entry : Entry, ok : BOOLEAN]

LEMMA ShownType ==
  ASSUME KvTypeOK
  PROVE  /\ shown \in Seq(Showing)
         /\ Len(shown) \in Nat /\ DOMAIN shown = 1 .. Len(shown)
         /\ \A n \in DOMAIN shown : shown[n] \in Showing
<1>1. shown \in Seq(Showing)  BY DEF KvTypeOK, Showing
<1> QED  BY <1>1, LenProperties, ElementOfSeq

LEMMA TypeOfParse ==
  ASSUME KvTypeOK, Distinct, Reading, faults = {}, ParseNext
  PROVE  KvTypeOK'
<1>0. UNCHANGED <<handle, made, freed, filled, list, pairs, source, misuse>>
  BY DEF ParseNext, ShowTo, Answer, Throw, Skip, EndParse, memory
<1>1. ASSUME NEW c \in DOMAIN Here, Here \in Seq(Entry),
             entry' = IF c = Len(Here) THEN NoEntry ELSE Here[c + 1]
      PROVE  entry' \in Entry \cup {NoEntry}
  <2>1. DOMAIN Here = 1 .. Len(Here) /\ Len(Here) \in Nat  BY <1>1, LenProperties
  <2>2. c # Len(Here) => c + 1 \in DOMAIN Here  BY <2>1
  <2> QED  BY <1>1, <2>1, <2>2, ElementOfSeq
<1>2. ASSUME NEW i \in DOMAIN pairs, ShowTo(i)  PROVE KvTypeOK'
  <2>1. /\ entry \in Entry /\ at' = "call"
        /\ UNCHANGED <<entry, accepted, faults>>
    BY <1>2, AtEntry DEF ShowTo, Ends
  <2>2. [to |-> i, entry |-> entry, ok |-> FALSE] \in Showing  BY <2>1 DEF Showing
  <2>3. shown' = Append(shown, [to |-> i, entry |-> entry, ok |-> FALSE])  BY <1>2 DEF ShowTo
  <2>4. shown' \in Seq(Showing)  BY <2>2, <2>3, ShownType, AppendElements
  <2> QED  BY <1>0, <2>1, <2>4 DEF KvTypeOK, Showing
<1>3. ASSUME NEW ok \in BOOLEAN, Answer(ok)  PROVE KvTypeOK'
  <2>1. source \in Lists /\ Len(shown) > 0
    BY <1>3 DEF Answer, Reading, Parsing
  <2>2. Len(shown) \in DOMAIN shown  BY <2>1, ShownType
  <2>3. shown[Len(shown)] \in Showing  BY <2>2, ShownType
  <2>4. [shown[Len(shown)] EXCEPT !.ok = ok] \in Showing  BY <2>3 DEF Showing
  <2>5. shown' = [shown EXCEPT ![Len(shown)] = [shown[Len(shown)] EXCEPT !.ok = ok]]
    BY <1>3, <2>2 DEF Answer
  <2>6. shown' \in Seq(Showing)  BY <2>2, <2>4, <2>5, ShownType, ExceptSeq
  <2>7. accepted' \subseteq DOMAIN pairs
    BY <1>3, <2>3 DEF Answer, KvTypeOK, Showing
  <2>8. entry' \in Entry \cup {NoEntry}
    BY <1>1, <1>3, <2>1, Current DEF Answer, Here
  <2>9. at' = "loop" /\ faults' \subseteq {"entry gone", "null tail"}
    BY <1>3 DEF Answer, KvTypeOK
  <2> QED  BY <1>0, <2>6, <2>7, <2>8, <2>9 DEF KvTypeOK, Showing
<1>4. ASSUME Skip  PROVE KvTypeOK'
  <2>1. source \in Lists /\ entry \in ToSet(Here)
    BY <1>4, AtEntry DEF Skip, Ends
  <2>2. entry' \in Entry \cup {NoEntry}
    BY <1>1, <1>4, <2>1, Current DEF Skip, Here
  <2>3. UNCHANGED <<at, accepted, shown, faults>>  BY <1>4 DEF Skip
  <2> QED  BY <1>0, <2>2, <2>3 DEF KvTypeOK
<1>5. ASSUME Throw \/ EndParse  PROVE KvTypeOK'
  BY <1>0, <1>5 DEF Throw, EndParse, KvTypeOK
<1> QED  BY <1>2, <1>3, <1>4, <1>5 DEF ParseNext

LEMMA TypeOfLists ==
  ASSUME KvTypeOK, ListStep
  PROVE  /\ UNCHANGED <<pairs, at, source, entry, accepted, shown, faults>>
         /\ list' \in [Lists -> Seq(Entry)] /\ misuse' \subseteq Misuses
<1>1. CASE Handles  BY <1>1 DEF Handles, parse, KvTypeOK
<1>2. ASSUME NEW l \in Lists, Loses(l)
      PROVE /\ UNCHANGED <<pairs, at, source, entry, accepted, shown, faults>>
            /\ list' \in [Lists -> Seq(Entry)] /\ misuse' \subseteq Misuses
  <2>1. <<>> \in Seq(Entry)  BY EmptySeq
  <2>2. list' \in [Lists -> Seq(Entry)]
    BY <1>2, <2>1 DEF Loses, Discard, KvTypeOK
  <2>3. misuse' \subseteq Misuses
    BY <1>2 DEF Loses, Discard, KvTypeOK, Misuses
  <2> QED  BY <1>2, <2>2, <2>3 DEF Loses, parse
<1>3. ASSUME NEW l \in Lists, NEW e \in Entry, Gains(l, e)
      PROVE /\ UNCHANGED <<pairs, at, source, entry, accepted, shown, faults>>
            /\ list' \in [Lists -> Seq(Entry)] /\ misuse' \subseteq Misuses
  <2>1. Append(list[l], e) \in Seq(Entry)  BY AppendElements DEF KvTypeOK
  <2> QED  BY <1>3, <2>1 DEF Gains, parse, KvTypeOK
<1>4. ASSUME NEW l \in Lists, NEW s \in Seq(Entry), Fills(l, s)
      PROVE /\ UNCHANGED <<pairs, at, source, entry, accepted, shown, faults>>
            /\ list' \in [Lists -> Seq(Entry)] /\ misuse' \subseteq Misuses
  BY <1>4 DEF Fills, parse, KvTypeOK
<1> QED  BY <1>1, <1>2, <1>3, <1>4 DEF ListStep

LEMMA StartStep ==
  ASSUME KvTypeOK, NEW o \in Owners \cup Refs, NEW keys \in Seq(Keys), StartParse(o, keys)
  PROVE  /\ KvTypeOK'
         /\ UNCHANGED <<handle, made, freed, filled, list, faults, misuse>>
         /\ at' = "loop" /\ source' \in Lists /\ Here' = list[source']
         /\ pairs' = keys /\ shown' = <<>> /\ accepted' = {}
         /\ entry' = First(Here')
<1>1. /\ UNCHANGED <<handle, made, freed, filled, list, faults, misuse>>
      /\ at' = "loop" /\ source' = handle[o] /\ pairs' = keys
      /\ entry' = First(list[handle[o]]) /\ shown' = <<>> /\ accepted' = {}
  BY DEF StartParse, memory
<1>2. handle[o] \in Lists  BY DEF StartParse, Usable, KvTypeOK
<1>3. Here' = list[source']  BY <1>1 DEF Here
<1>4. list[handle[o]] \in Seq(Entry)  BY <1>2 DEF KvTypeOK
<1>5. First(list[handle[o]]) \in Entry \cup {NoEntry}
  BY <1>4, HeadTailProperties DEF First
<1>6. shown' \in Seq([to : DOMAIN pairs', entry : Entry, ok : BOOLEAN])
  BY <1>1, EmptySeq
<1>7. KvTypeOK'  BY <1>1, <1>2, <1>5, <1>6 DEF KvTypeOK
<1> QED  BY <1>1, <1>2, <1>3, <1>7

-----------------------------------------------------------------------------
(* Who owns the lists.                                                      *)

\* What OwnedOnce says besides the types.
Owning ==
  /\ {handle[o] : o \in Owners} \ {Null} = made \ freed
  /\ \A o, p \in Owners : handle[o] = handle[p] => o = p \/ handle[o] = Null

LEMMA OwningSame ==
  ASSUME KvTypeOK, Owning, made' = made, freed' = freed, 
         \A o \in Owners : handle'[o] = handle[o]
  PROVE  Owning'
BY DEF Owning

\* A change of the handle of one owner, or of two.
LEMMA OwningStep ==
  ASSUME KvTypeOK, Owning, misuse = {}, Program, ProgramNext
  PROVE  /\ handle' \in [Owners \cup Refs -> Lists \cup {Null}]
         /\ made' \subseteq Lists /\ freed' \subseteq made' /\ filled' \subseteq made'
         /\ Owning'
<1> DEFINE Kept == /\ handle' \in [Owners \cup Refs -> Lists \cup {Null}]
                   /\ made' \subseteq Lists /\ freed' \subseteq made'
                   /\ filled' \subseteq made' /\ Owning'
<1>0. /\ handle \in [Owners \cup Refs -> Lists \cup {Null}]
      /\ made \subseteq Lists /\ freed \subseteq made /\ filled \subseteq made
      /\ Null \notin Lists
  BY NullAssumption DEF KvTypeOK
<1>1. ASSUME NEW o \in Owners, Destroy(o)  PROVE Kept
  <2>1. /\ handle[o] # Null /\ freed' = freed \cup {handle[o]} /\ made' = made
        /\ filled' = filled \ {handle[o]}
        /\ handle' = [handle EXCEPT ![o] = Null]
    BY <1>1 DEF Destroy, Free
  <2>2. handle[o] \in made  BY <2>1 DEF Owning
  <2>3. \A p \in Owners : handle'[p] = IF p = o THEN Null ELSE handle[p]
    BY <1>0, <2>1
  <2>4. Owning'  BY <1>0, <2>1, <2>2, <2>3 DEF Owning
  <2> QED  BY <1>0, <2>1, <2>2, <2>4
<1>2. ASSUME NEW o \in Owners, NEW l \in Lists, Construct(o, l)  PROVE Kept
  <2>1. /\ handle[o] = Null /\ l \notin made /\ made' = made \cup {l} /\ freed' = freed
        /\ filled' = filled
        /\ handle' = [handle EXCEPT ![o] = l]
    BY <1>2 DEF Construct
  <2>2. \A p \in Owners : handle'[p] = IF p = o THEN l ELSE handle[p]
    BY <1>0, <2>1
  <2>3. Owning'  BY <1>0, <2>1, <2>2 DEF Owning
  <2> QED  BY <1>0, <2>1, <2>3
<1>3. ASSUME NEW o \in Owners, NEW p \in Owners, Move(o, p)  PROVE Kept
  <2>1. /\ o # p /\ handle[o] # Null /\ handle[p] # Null /\ made' = made /\ freed' = freed
        /\ filled' = filled
        /\ handle' = [handle EXCEPT ![o] = handle[p], ![p] = handle[o]]
    BY <1>3 DEF Move
  <2>2. \A q \in Owners : handle'[q] = IF q = o THEN handle[p]
                                       ELSE IF q = p THEN handle[o] ELSE handle[q]
    BY <1>0, <2>1
  <2>3. Owning'  BY <1>0, <2>1, <2>2 DEF Owning
  <2> QED  BY <1>0, <2>1, <2>3
<1>4. ASSUME NEW o \in Owners, NEW p \in Owners, NEW l \in Lists, Reset(o, p, l)
      PROVE Kept
  <2>1. /\ o # p /\ handle[o] # Null /\ handle[p] # Null /\ l \notin made
        /\ made' = made \cup {l} /\ freed' = freed \cup {handle[o]}
        /\ filled' = filled \ {handle[o]}
        /\ handle' = [handle EXCEPT ![o] = handle[p], ![p] = l]
    BY <1>4 DEF Reset, Free
  <2>2. handle[o] \in made  BY <2>1 DEF Owning
  <2>3. \A q \in Owners : handle'[q] = IF q = o THEN handle[p]
                                       ELSE IF q = p THEN l ELSE handle[q]
    BY <1>0, <2>1
  <2>4. Owning'  BY <1>0, <2>1, <2>2, <2>3 DEF Owning
  <2> QED  BY <1>0, <2>1, <2>2, <2>4
<1>5. ASSUME NEW r \in Refs, NEW o \in Owners \cup Refs, Refer(r, o)  PROVE Kept
  <2>1. /\ made' = made /\ freed' = freed /\ filled' = filled
        /\ handle' = [handle EXCEPT ![r] = handle[o]]
    BY <1>5 DEF Refer
  <2>2. \A p \in Owners : handle'[p] = handle[p]  BY <1>0, <2>1, KindsAssumption
  <2>3. Owning'  BY <2>1, <2>2, OwningSame
  <2> QED  BY <1>0, <2>1, <2>3
<1>6. ASSUME UNCHANGED memory  PROVE Kept
  BY <1>0, <1>6 DEF memory, Owning
<1>7. ASSUME NEW o \in Owners \cup Refs, NEW k \in Keys, NEW v \in Values, Push(o, k, v)
      PROVE Kept
  BY <1>6, <1>7 DEF Push
<1>8. ASSUME NEW o \in Owners \cup Refs, Clear(o)  PROVE Kept
  BY <1>6, <1>8 DEF Clear
<1>9. ASSUME NEW o \in Owners \cup Refs, NEW keys, StartParse(o, keys)  PROVE Kept
  BY <1>6, <1>9 DEF StartParse
<1>10. ASSUME NEW o \in Owners \cup Refs, PushFresh(o)  PROVE Kept
  BY <1>6, <1>10 DEF PushFresh
<1>11. ASSUME NEW o \in Owners, NEW s, Fill(o, s)  PROVE Kept
  <2>1. /\ handle[o] # Null /\ UNCHANGED <<handle, made, freed>>
        /\ filled' = filled \cup {handle[o]}
    BY <1>11 DEF Fill, Usable
  <2>2. handle[o] \in made  BY <2>1 DEF Owning
  <2>3. Owning'  BY <2>1, OwningSame
  <2> QED  BY <1>0, <2>1, <2>2, <2>3
<1> QED
  BY <1>1, <1>2, <1>3, <1>4, <1>5, <1>7, <1>8, <1>9, <1>10, <1>11 DEF ProgramNext

-----------------------------------------------------------------------------
(* The lists, and where parse() stands.                                     *)

LEMMA RawStep ==
  ASSUME KvTypeOK, Raw, ProgramNext
  PROVE  Raw'
<1>0. \A o \in Owners \cup Refs : handle[o] # Null => handle[o] \in Lists
  BY DEF KvTypeOK
<1>1. ASSUME NEW l \in Lists, Discard(l), filled' = filled \/ filled' = filled \ {l}
      PROVE  Raw'
  <2>1. \A x \in Lists : list'[x] = IF x = l THEN <<>> ELSE list[x]
    BY <1>1 DEF Discard, KvTypeOK
  <2> QED  BY <1>1, <2>1 DEF Raw
<1>2. ASSUME NEW o \in Owners, \/ Destroy(o)
                               \/ \E p \in Owners, l \in Lists : Reset(o, p, l)
      PROVE  Raw'
  BY <1>0, <1>1, <1>2 DEF Destroy, Reset, Free
<1>3. ASSUME UNCHANGED <<filled, list>>  PROVE Raw'  BY <1>3 DEF Raw
<1>4. ASSUME NEW o \in Owners \cup Refs,
             \/ \E l \in Lists : Construct(o, l)
             \/ \E p \in Owners \cup Refs : Move(o, p) \/ Refer(o, p)
             \/ PushFresh(o) \/ \E keys : StartParse(o, keys)
      PROVE  Raw'
  BY <1>3, <1>4 DEF Construct, Move, Refer, PushFresh, StartParse, memory
<1>5. ASSUME NEW o \in Owners \cup Refs, Clear(o)  PROVE Raw'
  BY <1>0, <1>1, <1>5 DEF Clear, Usable, memory
<1>6. ASSUME NEW o \in Owners \cup Refs,
             \/ \E s : Fill(o, s)
             \/ \E k \in Keys, v \in Values : Push(o, k, v)
      PROVE  Raw'
  <2>1. /\ handle[o] \in filled' /\ filled \subseteq filled'
        /\ \A l \in Lists : l # handle[o] => list'[l] = list[l]
    BY <1>0, <1>6 DEF Fill, Push, Usable, memory, KvTypeOK
  <2> QED  BY <2>1 DEF Raw
<1> QED  BY <1>2, <1>4, <1>5, <1>6 DEF ProgramNext

\* A list that is not filled has no entry for a functor of parse() to be called with.
LEMMA NotUnderParse ==
  ASSUME KvTypeOK, Raw, Reading, Program, misuse = {}, NEW l \in Lists \ filled
  PROVE  ~(Parsing /\ source = l)
<1> SUFFICES ASSUME Parsing, source = l  PROVE FALSE  OBVIOUS
<1>1. at = "call"  BY DEF Parsing, Program
<1>2. entry \in ToSet(Here)  BY <1>1, NoEntryIs DEF Reading
<1>3. Here = <<>>  BY DEF Here, Raw
<1> QED  BY <1>2, <1>3 DEF ToSet

LEMMA GainsElements ==
  ASSUME KvTypeOK, NEW l \in Lists, NEW e \in Entry, Gains(l, e)
  PROVE  /\ \A x \in Lists : x # l => list'[x] = list[x]
         /\ list'[l] = Append(list[l], e)
         /\ \A x \in Lists : \A i \in DOMAIN list[x] :
              i \in DOMAIN list'[x] /\ list'[x][i] = list[x][i] /\ list[x][i] # e
         /\ \A x \in Lists : \A i \in DOMAIN list'[x] :
              i \notin DOMAIN list[x] =>
                /\ list'[x][i] = e
                /\ \A j \in DOMAIN list'[x] : j < i \/ j = i
                /\ \A j \in DOMAIN list[x] : j < i
<1>1. list' = [list EXCEPT ![l] = Append(list[l], e)]  BY DEF Gains, KvTypeOK
<1>2. \A x \in Lists : list'[x] = IF x = l THEN Append(list[l], e) ELSE list[x]
  BY <1>1 DEF KvTypeOK
<1>3. list[l] \in Seq(Entry)  BY DEF KvTypeOK
<1>4. /\ DOMAIN list[l] = 1 .. Len(list[l]) /\ Len(list[l]) \in Nat
      /\ DOMAIN Append(list[l], e) = 1 .. Len(list[l]) + 1
      /\ Append(list[l], e)[Len(list[l]) + 1] = e
      /\ \A i \in DOMAIN list[l] : Append(list[l], e)[i] = list[l][i]
  BY <1>3, AppendElements, LenProperties
<1>5. \A x \in Lists : \A i \in DOMAIN list[x] : list[x][i] # e
  BY DEF Gains, Used, ToSet
<1>6. ASSUME NEW x \in Lists, NEW i \in DOMAIN list[x]
      PROVE  i \in DOMAIN list'[x] /\ list'[x][i] = list[x][i] /\ list[x][i] # e
  <2>1. CASE x = l
    <3>1. i \in DOMAIN list[l]  BY <1>6, <2>1
    <3>2. i \in 1 .. Len(list[l]) + 1  BY <1>4, <3>1
    <3>3. list'[x] = Append(list[l], e)  BY <1>2, <2>1
    <3> QED  BY <1>4, <1>5, <1>6, <2>1, <3>1, <3>2, <3>3
  <2>2. CASE x # l  BY <1>2, <1>5, <1>6, <2>2
  <2> QED  BY <2>1, <2>2
<1>7. ASSUME NEW x \in Lists, NEW i \in DOMAIN list'[x], i \notin DOMAIN list[x]
      PROVE  /\ list'[x][i] = e
             /\ \A j \in DOMAIN list'[x] : j < i \/ j = i
             /\ \A j \in DOMAIN list[x] : j < i
  <2>1. x = l  BY <1>2, <1>7
  <2>2. i \in 1 .. Len(list[l]) + 1 /\ i \notin 1 .. Len(list[l])
    BY <1>2, <1>4, <1>7, <2>1
  <2>3. i = Len(list[l]) + 1  BY <1>4, <2>2
  <2>4. DOMAIN list'[x] = 1 .. Len(list[l]) + 1  BY <1>2, <1>4, <2>1
  <2>5. DOMAIN list[x] = 1 .. Len(list[l])  BY <1>4, <2>1
  <2>6. list'[x][i] = e  BY <1>2, <1>4, <2>1, <2>3
  <2> QED  BY <1>4, <2>3, <2>4, <2>5, <2>6
<1> QED  BY <1>2, <1>6, <1>7

LEMMA LosesElements ==
  ASSUME KvTypeOK, NEW l \in Lists, Loses(l), misuse = {}
  PROVE  /\ list'[l] = <<>> /\ \A x \in Lists : x # l => list'[x] = list[x]
         /\ Parsing /\ source = l => misuse' # {}
         /\ misuse' # {} => Parsing /\ source = l
         /\ UNCHANGED <<pairs, at, source, entry, accepted, shown, faults>>
BY DEF Loses, Discard, KvTypeOK, parse

LEMMA DistinctKept ==
  ASSUME KvTypeOK, Distinct, misuse = {}, ListStep
  PROVE  Distinct'
<1>1. CASE Handles  BY <1>1 DEF Handles, Distinct
<1>2. ASSUME NEW l \in Lists, Loses(l)  PROVE Distinct'
  <2>1. DOMAIN <<>> = {}  OBVIOUS
  <2> QED  BY <1>2, <2>1, LosesElements DEF Distinct
<1>3. ASSUME NEW l \in Lists, NEW e \in Entry, Gains(l, e)  PROVE Distinct'
  <2> SUFFICES ASSUME NEW x \in Lists, NEW i \in DOMAIN list'[x], NEW j \in DOMAIN list'[x],
                      list'[x][i] = list'[x][j]
               PROVE  i = j
    BY DEF Distinct
  <2>1. CASE i \in DOMAIN list[x] /\ j \in DOMAIN list[x]
    BY <1>3, <2>1, GainsElements DEF Distinct
  <2>2. CASE i \notin DOMAIN list[x] /\ j \in DOMAIN list[x]
    BY <1>3, <2>2, GainsElements
  <2>3. CASE i \in DOMAIN list[x] /\ j \notin DOMAIN list[x]
    BY <1>3, <2>3, GainsElements
  <2>4. CASE i \notin DOMAIN list[x] /\ j \notin DOMAIN list[x]
    <3>1. i \in Nat /\ j \in Nat
      <4>1. list[x] \in Seq(Entry) /\ list'[x] \in Seq(Entry)
        BY <1>3, TypeOfLists DEF KvTypeOK
      <4> QED  BY <4>1, LenProperties
    <3>2. (j < i \/ j = i) /\ (i < j \/ i = j)  BY <1>3, <2>4, GainsElements
    <3> QED  BY <3>1, <3>2
  <2> QED  BY <2>1, <2>2, <2>3, <2>4
<1>4. ASSUME NEW l \in Lists, NEW s \in Seq(Entry), Fills(l, s)  PROVE Distinct'
  <2>1. \A x \in Lists : list'[x] = IF x = l THEN s ELSE list[x]
    BY <1>4 DEF Fills, KvTypeOK
  <2>2. \A i, j \in DOMAIN s : s[i] = s[j] => i = j  BY <1>4 DEF Fills
  <2> QED  BY <2>1, <2>2 DEF Distinct
<1> QED  BY <1>1, <1>2, <1>3, <1>4 DEF ListStep

LEMMA ReadingOfLists ==
  ASSUME KvTypeOK, Raw, Reading, Program, misuse = {}, faults = {}, ListStep
  PROVE  Reading'
<1>1. CASE Handles  BY <1>1 DEF Handles, parse, Reading, Parsing, Here
<1>2. ASSUME NEW l \in Lists, Loses(l)  PROVE Reading'
  <2>1. /\ UNCHANGED <<pairs, at, source, entry, accepted, shown, faults>>
        /\ Parsing => source \in Lists
        /\ at = "call" => Len(shown) > 0 /\ entry \in Entry
    BY <1>2, LosesElements DEF Reading
  <2>2. CASE Parsing /\ source = l
    <3>1. at = "call"  BY <2>2 DEF Parsing, Program
    <3>2. Here' = <<>> /\ misuse' # {}  BY <1>2, <2>1, <2>2, LosesElements DEF Here
    <3>3. ToSet(Here') = {}  BY <3>2 DEF ToSet
    <3> QED  BY <2>1, <3>1, <3>2, <3>3 DEF Reading, Parsing
  <2>3. CASE ~(Parsing /\ source = l)
    <3>1. misuse' = {}  BY <1>2, <2>3, LosesElements
    <3>2. Parsing => Here' = Here  BY <1>2, <2>1, <2>3, LosesElements DEF Here
    <3> QED  BY <2>1, <3>1, <3>2 DEF Reading, Parsing
  <2> QED  BY <2>2, <2>3
<1>3. ASSUME NEW l \in Lists, NEW e \in Entry, Gains(l, e)  PROVE Reading'
  <2>1. UNCHANGED <<pairs, at, source, entry, accepted, shown, faults, misuse>>
    BY <1>3 DEF Gains, parse
  <2>2. source \in Lists => ToSet(Here) \subseteq ToSet(Here')
    BY <1>3, <2>1, GainsElements DEF Here, ToSet
  <2> QED  BY <2>1, <2>2 DEF Reading, Parsing
<1>4. ASSUME NEW l \in Lists, NEW s \in Seq(Entry), Fills(l, s)  PROVE Reading'
  <2>1. UNCHANGED <<pairs, at, source, entry, accepted, shown, faults, misuse>>
    BY <1>4 DEF Fills, parse
  <2>2. Parsing => Here' = Here
    BY <1>4, <2>1, NotUnderParse DEF Fills, Here, KvTypeOK, Reading
  <2> QED  BY <2>1, <2>2 DEF Reading, Parsing
<1> QED  BY <1>1, <1>2, <1>3, <1>4 DEF ListStep

LEMMA ReadingOfParse ==
  ASSUME KvTypeOK, Distinct, Reading, faults = {}, ParseNext
  PROVE  Reading'
<1>0. UNCHANGED <<list, source, misuse>> /\ Here' = Here
  BY DEF ParseNext, ShowTo, Answer, Throw, Skip, EndParse, Here
<1>1. ASSUME source \in Lists, entry \in ToSet(Here), entry' = After(Here, entry)
      PROVE  entry' # NoEntry => entry' \in ToSet(Here)
  <2>1. PICK c \in DOMAIN Here : /\ Here[c] = entry /\ Here \in Seq(Entry)
                                 /\ entry' = IF c = Len(Here) THEN NoEntry ELSE Here[c + 1]
    BY <1>1, Current
  <2>2. DOMAIN Here = 1 .. Len(Here) /\ Len(Here) \in Nat  BY <2>1, LenProperties
  <2>3. c # Len(Here) => c + 1 \in DOMAIN Here  BY <2>2
  <2> QED  BY <2>1, <2>3 DEF ToSet
<1>2. ASSUME NEW i \in DOMAIN pairs, ShowTo(i)  PROVE Reading'
  <2>1. /\ at = "loop" /\ at' = "call" /\ entry' = entry /\ faults' = faults
        /\ entry # NoEntry
        /\ shown' = Append(shown, [to |-> i, entry |-> entry, ok |-> FALSE])
    BY <1>2 DEF ShowTo, Ends
  <2>2. source \in Lists /\ misuse = {} /\ entry \in ToSet(Here) /\ entry \in Entry
    BY <2>1, AtEntry
  <2>3. [to |-> i, entry |-> entry, ok |-> FALSE] \in Showing  BY <2>2 DEF Showing
  <2>4. Len(shown') = Len(shown) + 1 /\ Len(shown) \in Nat
    BY <2>1, <2>3, ShownType, AppendElements
  <2>5. Len(shown') > 0  BY <2>4
  <2> QED  BY <1>0, <2>1, <2>2, <2>5 DEF Reading, Parsing
<1>3. ASSUME NEW ok \in BOOLEAN, Answer(ok)  PROVE Reading'
  <2>1. /\ at = "call" /\ at' = "loop" /\ source \in Lists /\ entry \in Entry
        /\ misuse = {} => entry \in ToSet(Here)
        /\ misuse # {} => entry \notin ToSet(Here)
    BY <1>3, NoEntryIs DEF Answer, Reading, Parsing
  <2>2. CASE entry \in ToSet(Here)
    <3>1. entry' = After(Here, entry) /\ faults' = faults
      BY <1>3, <2>2 DEF Answer, Here
    <3> QED  BY <1>0, <1>1, <2>1, <2>2, <3>1 DEF Reading, Parsing
  <2>3. CASE entry \notin ToSet(Here)
    <3>1. entry' = NoEntry /\ faults' # {}
      BY <1>3, <2>3 DEF Answer, Here
    <3> QED  BY <1>0, <2>1, <2>3, <3>1 DEF Reading, Parsing
  <2> QED  BY <2>2, <2>3
<1>4. ASSUME Skip  PROVE Reading'
  <2>1. /\ at = "loop" /\ UNCHANGED <<at, shown, faults>> /\ entry' = After(Here, entry)
        /\ source \in Lists /\ misuse = {} /\ entry \in ToSet(Here)
    BY <1>4, AtEntry DEF Skip, Ends, Here
  <2> QED  BY <1>0, <1>1, <2>1 DEF Reading, Parsing
<1>5. CASE Throw  BY <1>0, <1>5 DEF Throw, Reading, Parsing
<1>6. CASE EndParse  BY <1>0, <1>6 DEF EndParse, Reading, Parsing
<1> QED  BY <1>2, <1>3, <1>4, <1>5, <1>6 DEF ParseNext

LEMMA FirstIs ==
  ASSUME KvTypeOK, Distinct, NEW o \in Owners \cup Refs, NEW keys \in Seq(Keys),
         StartParse(o, keys)
  PROVE  /\ entry' # NoEntry => entry' \in ToSet(Here')
         /\ \A i, j \in DOMAIN Here' : Here'[j] = entry' => ~(i < j)
         /\ entry' = NoEntry => DOMAIN Here' = {}
<1>1. source' \in Lists /\ Here' = list[source'] /\ entry' = First(Here')
  BY StartStep
<1>2. PICK s \in Seq(Entry) : s = Here'  BY <1>1 DEF KvTypeOK
<1>3. DOMAIN s = 1 .. Len(s) /\ Len(s) \in Nat  BY LenProperties
<1>4. \A i, j \in DOMAIN s : s[i] = s[j] => i = j  BY <1>1, <1>2, ListsDistinct
<1>5. CASE s = <<>>
  BY <1>1, <1>2, <1>5 DEF First
<1>6. CASE s # <<>>
  <2>1. 1 \in DOMAIN s /\ Head(s) = s[1]  BY <1>3, <1>6, EmptySeq
  <2>2. entry' = s[1]  BY <1>1, <1>2, <1>6, <2>1 DEF First
  <2>3. entry' \in ToSet(Here')  BY <1>2, <2>1, <2>2 DEF ToSet
  <2>4. \A i, j \in DOMAIN s : s[j] = entry' => j = 1 /\ ~(i < j)
    BY <1>3, <1>4, <2>1, <2>2
  <2>5. entry' # NoEntry  BY <2>1, <2>2, NoEntryIs, ElementOfSeq, <1>3
  <2> QED  BY <1>2, <2>3, <2>4, <2>5
<1> QED  BY <1>5, <1>6

LEMMA ReadingOfStart ==
  ASSUME KvTypeOK, Distinct, misuse = {}, faults = {},
         NEW o \in Owners \cup Refs, NEW keys \in Seq(Keys), StartParse(o, keys)
  PROVE  Reading'
<1>1. /\ at' = "loop" /\ source' \in Lists /\ misuse' = {} /\ faults' = {}
  BY StartStep
<1> QED  BY <1>1, FirstIs DEF Reading, Parsing

-----------------------------------------------------------------------------
(* What the functors were told.                                             *)

LEMMA ToldSame ==
  ASSUME Told, UNCHANGED <<shown, pairs, accepted>>,
         at' = "call" => at = "call" /\ entry' = entry
  PROVE  Told'
BY DEF Told

LEMMA ToldOfStart ==
  ASSUME shown' = <<>>, accepted' = {}, at' = "loop"
  PROVE  Told'
<1>1. DOMAIN <<>> = {}  OBVIOUS
<1> QED  BY <1>1 DEF Told

LEMMA ToldOfShow ==
  ASSUME KvTypeOK, Reading, Told, faults = {}, NEW i \in DOMAIN pairs, ShowTo(i)
  PROVE  Told'
<1>1. /\ i \in Waiting(entry.key) /\ \A j \in Waiting(entry.key) : i <= j
      /\ UNCHANGED <<pairs, entry, accepted>> /\ entry \in Entry
      /\ shown' = Append(shown, [to |-> i, entry |-> entry, ok |-> FALSE])
  BY AtEntry DEF ShowTo, Ends
<1>2. PICK L \in Nat : L = Len(shown)  BY ShownType
<1>3. [to |-> i, entry |-> entry, ok |-> FALSE] \in Showing  BY <1>1 DEF Showing
<1>4. /\ DOMAIN shown = 1 .. L /\ DOMAIN shown' = 1 .. L + 1 /\ Len(shown') = L + 1
      /\ shown'[L + 1] = [to |-> i, entry |-> entry, ok |-> FALSE]
      /\ \A n \in 1 .. L : shown'[n] = shown[n]
  BY <1>1, <1>2, <1>3, ShownType, AppendElements
<1>5. /\ shown'[L + 1].to = i /\ shown'[L + 1].entry = entry /\ shown'[L + 1].ok = FALSE
  BY <1>4
<1>6. pairs[i] = entry.key /\ i \notin accepted  BY <1>1 DEF Waiting
<1>7. \A n \in 1 .. L + 1 : n \in 1 .. L \/ n = L + 1  BY <1>2
<1>8. \A n \in 1 .. L : n \in 1 .. L + 1  BY <1>2
<1>9. L + 1 \in 1 .. L + 1  BY <1>2
<1>10. /\ \A n \in DOMAIN shown' : shown'[n].entry.key = pairs'[shown'[n].to]
       /\ \A n \in DOMAIN shown' : shown'[n].ok => shown'[n].to \in accepted'
  BY <1>1, <1>4, <1>5, <1>6, <1>7 DEF Told
<1>11. \A j \in accepted' : \E n \in DOMAIN shown' : shown'[n].to = j /\ shown'[n].ok
  BY <1>1, <1>4, <1>8 DEF Told
<1>12. ASSUME NEW n \in DOMAIN shown', NEW j \in 1 .. shown'[n].to - 1,
              pairs'[j] = pairs'[shown'[n].to]
       PROVE  \E m \in 1 .. n - 1 : shown'[m].to = j /\ shown'[m].ok
  <2>1. CASE n \in 1 .. L
    <3>1. \E m \in 1 .. n - 1 : shown[m].to = j /\ shown[m].ok
      BY <1>1, <1>4, <1>12, <2>1 DEF Told
    <3>2. \A m \in 1 .. n - 1 : m \in 1 .. L  BY <1>2, <2>1
    <3> QED  BY <1>4, <3>1, <3>2
  <2>2. CASE n = L + 1
    <3>1. j \in 1 .. i - 1 /\ pairs[j] = entry.key  BY <1>1, <1>5, <1>6, <1>12, <2>2
    <3>2. j \in DOMAIN pairs /\ ~(i <= j)
      <4>1. pairs \in Seq(Keys)  BY DEF KvTypeOK
      <4>2. DOMAIN pairs = 1 .. Len(pairs) /\ Len(pairs) \in Nat  BY <4>1, LenProperties
      <4> QED  BY <3>1, <4>2
    <3>3. j \in accepted  BY <1>1, <3>1, <3>2 DEF Waiting
    <3>4. \E m \in 1 .. L : shown[m].to = j /\ shown[m].ok  BY <1>4, <3>3 DEF Told
    <3>5. n - 1 = L  BY <1>2, <2>2
    <3> QED  BY <1>4, <3>4, <3>5
  <2> QED  BY <1>4, <1>7, <2>1, <2>2
<1>13. ASSUME NEW m \in DOMAIN shown', NEW n \in DOMAIN shown', m < n,
              shown'[m].to = shown'[n].to
       PROVE  ~shown'[m].ok
  <2>1. m \in 1 .. L  BY <1>2, <1>4, <1>13
  <2>2. CASE n \in 1 .. L  BY <1>4, <1>13, <2>1, <2>2 DEF Told
  <2>3. CASE n = L + 1
    <3>1. shown[m].to = i  BY <1>4, <1>5, <1>13, <2>1, <2>3
    <3> QED  BY <1>4, <1>6, <2>1, <3>1 DEF Told
  <2> QED  BY <1>4, <1>7, <2>2, <2>3
<1>14. /\ shown'[Len(shown')].entry = entry' /\ ~shown'[Len(shown')].ok
       /\ shown'[Len(shown')].to \notin accepted'
  BY <1>1, <1>4, <1>5, <1>6
<1> QED  BY <1>10, <1>11, <1>12, <1>13, <1>14 DEF Told

\* What Answer does to the calls made so far.
LEMMA AnswerShown ==
  ASSUME KvTypeOK, Reading, NEW ok \in BOOLEAN, Answer(ok)
  PROVE  /\ Len(shown) \in DOMAIN shown /\ Len(shown) \in Nat
         /\ DOMAIN shown = 1 .. Len(shown) /\ DOMAIN shown' = DOMAIN shown
         /\ \A n \in DOMAIN shown :
              /\ shown'[n].to = shown[n].to /\ shown'[n].entry = shown[n].entry
              /\ n # Len(shown) => shown'[n].ok = shown[n].ok
         /\ shown'[Len(shown)].ok = ok
         /\ accepted' = IF ok THEN accepted \cup {shown[Len(shown)].to} ELSE accepted
<1>1. /\ at = "call"
      /\ accepted' = IF ok THEN accepted \cup {shown[Len(shown)].to} ELSE accepted
      /\ shown' = [shown EXCEPT ![Len(shown)].ok = ok]
  BY DEF Answer
<1>2. Len(shown) \in DOMAIN shown /\ Len(shown) \in Nat /\ DOMAIN shown = 1 .. Len(shown)
  BY <1>1, ShownType DEF Reading
<1>3. /\ DOMAIN shown' = DOMAIN shown
      /\ \A n \in DOMAIN shown : n # Len(shown) => shown'[n] = shown[n]
      /\ shown'[Len(shown)] = [shown[Len(shown)] EXCEPT !.ok = ok]
  BY <1>1, <1>2
<1>4. \A n \in DOMAIN shown : shown[n] \in Showing  BY ShownType
<1>5. shown[Len(shown)] \in Showing  BY <1>2, <1>4
<1>6. /\ shown'[Len(shown)].to = shown[Len(shown)].to
      /\ shown'[Len(shown)].entry = shown[Len(shown)].entry
      /\ shown'[Len(shown)].ok = ok
  BY <1>3, <1>5 DEF Showing
<1> QED  BY <1>1, <1>2, <1>3, <1>6

LEMMA ToldOfAnswer ==
  ASSUME KvTypeOK, Reading, Told, NEW ok \in BOOLEAN, Answer(ok)
  PROVE  Told'
<1>1. PICK L \in Nat :
        /\ L = Len(shown) /\ L \in DOMAIN shown
        /\ DOMAIN shown = 1 .. L /\ DOMAIN shown' = 1 .. L
        /\ \A n \in 1 .. L :
             /\ shown'[n].to = shown[n].to /\ shown'[n].entry = shown[n].entry
             /\ n # L => shown'[n].ok = shown[n].ok
        /\ shown'[L].ok = ok
        /\ accepted' = IF ok THEN accepted \cup {shown[L].to} ELSE accepted
  BY AnswerShown
<1>2. pairs' = pairs /\ at' = "loop" /\ at = "call"  BY DEF Answer
<1>3. ~shown[L].ok /\ shown[L].to \notin accepted  BY <1>1, <1>2 DEF Told
<1>4. /\ \A n \in DOMAIN shown' : shown'[n].entry.key = pairs'[shown'[n].to]
      /\ \A n \in DOMAIN shown' : shown'[n].ok => shown'[n].to \in accepted'
  <2>1. \A n \in 1 .. L : shown[n].ok => shown[n].to \in accepted  BY <1>1 DEF Told
  <2>2. ASSUME NEW n \in 1 .. L, shown'[n].ok  PROVE shown'[n].to \in accepted'
    BY <1>1, <2>1, <2>2
  <2> QED  BY <1>1, <1>2, <2>2 DEF Told
<1>5. ASSUME NEW j \in accepted'
      PROVE  \E n \in DOMAIN shown' : shown'[n].to = j /\ shown'[n].ok
  <2>1. CASE j \in accepted
    <3>1. PICK n \in 1 .. L : shown[n].to = j /\ shown[n].ok  BY <1>1, <2>1 DEF Told
    <3>2. n # L  BY <1>3, <3>1
    <3> QED  BY <1>1, <3>1, <3>2
  <2>2. CASE j \notin accepted  BY <1>1, <1>5, <2>2
  <2> QED  BY <2>1, <2>2
<1>6. ASSUME NEW n \in DOMAIN shown', NEW j \in 1 .. shown'[n].to - 1,
             pairs'[j] = pairs'[shown'[n].to]
      PROVE  \E m \in 1 .. n - 1 : shown'[m].to = j /\ shown'[m].ok
  <2>1. PICK m \in 1 .. n - 1 : shown[m].to = j /\ shown[m].ok
    BY <1>1, <1>2, <1>6 DEF Told
  <2>2. m \in 1 .. L /\ m # L  BY <1>1, <1>6
  <2> QED  BY <1>1, <2>1, <2>2
<1>7. ASSUME NEW m \in DOMAIN shown', NEW n \in DOMAIN shown', m < n,
             shown'[m].to = shown'[n].to
      PROVE  ~shown'[m].ok
  <2>1. m \in 1 .. L /\ n \in 1 .. L /\ m # L  BY <1>1, <1>7
  <2>2. shown[m].to = shown[n].to  BY <1>1, <1>7, <2>1
  <2>3. ~shown[m].ok  BY <1>1, <1>7, <2>1, <2>2 DEF Told
  <2> QED  BY <1>1, <2>1, <2>3
<1> QED  BY <1>2, <1>4, <1>5, <1>6, <1>7 DEF Told

-----------------------------------------------------------------------------
(* The order of the calls, and what parse() has passed.                     *)

LEMMA AheadSame ==
  ASSUME Ahead, UNCHANGED <<shown, pairs, accepted, entry>>,
         Parsing' /\ misuse' = {} => misuse = {} /\ Here' = Here /\ at' = at
  PROVE  Ahead'
<1>1. SUFFICES ASSUME Parsing', misuse' = {}  PROVE Ahead'  BY DEF Ahead
<1>2. misuse = {} /\ Here' = Here /\ at' = at /\ Parsing  BY <1>1 DEF Parsing
<1> QED  BY <1>2 DEF Ahead, DoneWith

LEMMA AheadOfLists ==
  ASSUME KvTypeOK, Distinct, Raw, Reading, Ahead, Program, misuse = {}, ListStep
  PROVE  Ahead'
<1>1. CASE Handles  BY <1>1, AheadSame DEF Handles, parse, Here
<1>2. ASSUME NEW l \in Lists, Loses(l)  PROVE Ahead'
  <2>1. UNCHANGED <<pairs, at, source, entry, accepted, shown>>  BY <1>2, LosesElements
  <2>2. ASSUME Parsing', misuse' = {}  PROVE Here' = Here
    <3>1. Parsing /\ source \in Lists /\ source # l
      BY <1>2, <2>1, <2>2, LosesElements DEF Parsing, Reading
    <3> QED  BY <1>2, <2>1, <3>1, LosesElements DEF Here
  <2> QED  BY <2>1, <2>2, AheadSame
<1>3. ASSUME NEW l \in Lists, NEW e \in Entry, Gains(l, e)  PROVE Ahead'
  <2>1. UNCHANGED <<pairs, at, source, entry, accepted, shown, misuse>>
    BY <1>3 DEF Gains, parse
  <2>2. SUFFICES ASSUME Parsing, misuse = {}, at = "call"  PROVE Ahead'
    BY <2>1 DEF Ahead, Parsing, Program
  <2>3. source \in Lists /\ entry \in ToSet(Here)
    BY <2>2, NoEntryIs DEF Reading, Parsing
  <2>4. PICK s, t : s = Here /\ t = Here'  OBVIOUS
  <2>5. /\ \A i \in DOMAIN s : i \in DOMAIN t /\ t[i] = s[i] /\ s[i] # e
        /\ \A i \in DOMAIN t : i \notin DOMAIN s =>
             t[i] = e /\ \A j \in DOMAIN s : j < i
    <3>1. s = list[source] /\ t = list'[source]  BY <2>1, <2>4 DEF Here
    <3> QED  BY <1>3, <2>3, <3>1, GainsElements
  <2>6. /\ \A n \in DOMAIN shown : \E i \in DOMAIN s : s[i] = shown[n].entry
        /\ \E i \in DOMAIN s : s[i] = entry
    BY <2>2, <2>3, <2>4 DEF Ahead, ToSet
  <2>7. \A n \in DOMAIN shown : shown[n].entry # e  BY <2>5, <2>6
  <2>8. \A n \in DOMAIN shown : \A i \in DOMAIN t :
          t[i] = shown[n].entry => i \in DOMAIN s /\ s[i] = shown[n].entry
    BY <2>5, <2>7
  <2>9. \A n \in DOMAIN shown : \E i \in DOMAIN t : t[i] = shown[n].entry
    BY <2>5, <2>6
  <2>10. \A m, n \in DOMAIN shown : \A i, j \in DOMAIN t :
           m < n /\ t[i] = shown[m].entry /\ t[j] = shown[n].entry => i < j
    BY <2>2, <2>4, <2>8 DEF Ahead
  <2>11. ASSUME NEW i \in DOMAIN t, \A j \in DOMAIN t : t[j] = entry => i < j
         PROVE  \/ \E n \in DOMAIN shown : shown[n].entry = t[i]
                \/ \A k \in DOMAIN pairs : pairs[k] = t[i].key => k \in accepted
    <3>1. PICK c \in DOMAIN s : s[c] = entry  BY <2>6
    <3>2. c \in DOMAIN t /\ t[c] = entry  BY <2>5, <3>1
    <3>3. i < c  BY <2>11, <3>2
    <3>4. i \in DOMAIN s
      <4>1. SUFFICES ASSUME i \notin DOMAIN s  PROVE FALSE  OBVIOUS
      <4>2. c < i  BY <2>5, <3>1, <4>1
      <4>3. c \in Nat /\ i \in Nat
        <5>1. list[source] \in Seq(Entry) /\ list'[source] \in Seq(Entry)
          BY <1>3, <2>3, TypeOfLists DEF KvTypeOK
        <5>2. s \in Seq(Entry) /\ t \in Seq(Entry)  BY <2>1, <2>4, <5>1 DEF Here
        <5> QED  BY <3>1, <5>2, LenProperties
      <4> QED  BY <3>3, <4>2, <4>3
    <3>5. t[i] = s[i]  BY <2>5, <3>4
    <3>6. \A j \in DOMAIN s : s[j] = entry => i < j  BY <2>5, <2>11
    <3> QED  BY <2>2, <2>4, <3>4, <3>5, <3>6 DEF Ahead, DoneWith
  <2> QED  BY <2>1, <2>2, <2>4, <2>9, <2>10, <2>11 DEF Ahead, DoneWith
<1>4. ASSUME NEW l \in Lists, NEW s \in Seq(Entry), Fills(l, s)  PROVE Ahead'
  <2>1. UNCHANGED <<pairs, at, source, entry, accepted, shown, misuse>>
    BY <1>4 DEF Fills, parse
  <2>2. Parsing => Here' = Here
    BY <1>4, <2>1, NotUnderParse DEF Fills, Here, KvTypeOK, Reading
  <2> QED  BY <2>1, <2>2, AheadSame DEF Parsing
<1> QED  BY <1>1, <1>2, <1>3, <1>4 DEF ListStep

LEMMA AheadOfStart ==
  ASSUME KvTypeOK, Distinct, NEW o \in Owners \cup Refs, NEW keys \in Seq(Keys),
         StartParse(o, keys)
  PROVE  Ahead'
<1>1. DOMAIN shown' = {}
  <2>1. shown' = <<>>  BY StartStep
  <2> QED  BY <2>1
<1>2. \A i \in DOMAIN Here' : \E j \in DOMAIN Here' : Here'[j] = entry' /\ ~(i < j)
  <2>1. CASE entry' = NoEntry  BY <2>1, FirstIs
  <2>2. CASE entry' # NoEntry  BY <2>2, FirstIs DEF ToSet
  <2> QED  BY <2>1, <2>2
<1> QED  BY <1>1, <1>2 DEF Ahead

\* The loop goes on from the entry at c, with which parse() has done.
LEMMA Passing ==
  ASSUME KvTypeOK, Distinct, Ahead, Parsing, misuse = {}, source \in Lists,
         NEW c \in DOMAIN Here, Here[c] = entry,
         UNCHANGED <<list, source, misuse, pairs>>,
         at' = "loop", entry' = After(Here, entry),
         DOMAIN shown' = DOMAIN shown,
         \A n \in DOMAIN shown : shown'[n].entry = shown[n].entry,
         accepted \subseteq accepted',
         \/ \E n \in DOMAIN shown : shown[n].entry = entry
         \/ \A k \in DOMAIN pairs : pairs[k] = entry.key => k \in accepted,
         \A n \in DOMAIN shown : \A i \in DOMAIN Here :
           Here[i] = shown[n].entry => i <= c
  PROVE  Ahead'
<1>1. PICK s \in Seq(Entry) : s = Here /\ s = Here'
  BY DEF Here, KvTypeOK
<1>2. DOMAIN s = 1 .. Len(s) /\ Len(s) \in Nat  BY LenProperties
<1>3. \A i, j \in DOMAIN s : s[i] = s[j] => i = j
  BY <1>1, ListsDistinct DEF Here
<1>4. entry' = IF c = Len(s) THEN NoEntry ELSE s[c + 1]
  BY <1>1, <1>3, AfterIs
<1>5. \A j \in DOMAIN s : s[j] = entry' => j = c + 1
  <2>1. CASE c = Len(s)
    BY <1>4, <2>1, NoEntryIs, ElementOfSeq, <1>2
  <2>2. CASE c # Len(s)
    <3>1. c + 1 \in DOMAIN s  BY <1>1, <1>2, <2>2
    <3> QED  BY <1>3, <1>4, <2>2, <3>1
  <2> QED  BY <2>1, <2>2
<1>6. \A n \in DOMAIN shown : \E i \in DOMAIN s : s[i] = shown[n].entry
  BY <1>1 DEF Ahead
<1>7. \A m, n \in DOMAIN shown : \A i, j \in DOMAIN s :
        m < n /\ s[i] = shown[m].entry /\ s[j] = shown[n].entry => i < j
  BY <1>1 DEF Ahead
<1>8. ASSUME NEW n \in DOMAIN shown, NEW i \in DOMAIN s, NEW j \in DOMAIN s,
             s[i] = shown[n].entry, s[j] = entry'
      PROVE  i < j
  <2>1. i <= c /\ j = c + 1  BY <1>1, <1>5, <1>8
  <2> QED  BY <1>1, <1>2, <2>1
<1>9. ASSUME NEW i \in DOMAIN s, \A j \in DOMAIN s : s[j] = entry' => i < j
      PROVE  \/ \E n \in DOMAIN shown : shown[n].entry = s[i]
             \/ \A k \in DOMAIN pairs : pairs[k] = s[i].key => k \in accepted
  <2>1. i <= c
    <3>1. CASE c = Len(s)  BY <1>2, <3>1
    <3>2. CASE c # Len(s)
      <4>1. c + 1 \in DOMAIN s  BY <1>1, <1>2, <3>2
      <4>2. s[c + 1] = entry'  BY <1>4, <3>2
      <4>3. i < c + 1  BY <1>9, <4>1, <4>2
      <4> QED  BY <1>1, <1>2, <4>3
    <3> QED  BY <3>1, <3>2
  <2>2. CASE i = c  BY <1>1, <2>2
  <2>3. CASE i # c
    <3>1. i < c  BY <1>1, <1>2, <2>1, <2>3
    <3>2. \A j \in DOMAIN s : s[j] = entry => i < j  BY <1>1, <1>3, <3>1
    <3> QED  BY <1>1, <3>2 DEF Ahead, DoneWith
  <2> QED  BY <2>2, <2>3
<1> QED  BY <1>1, <1>6, <1>7, <1>8, <1>9 DEF Ahead, DoneWith

LEMMA AheadOfShow ==
  ASSUME KvTypeOK, Distinct, Reading, Told, Ahead, faults = {}, NEW i \in DOMAIN pairs,
         ShowTo(i)
  PROVE  Ahead'
<1>1. /\ UNCHANGED <<list, source, pairs, entry, accepted, misuse>>
      /\ at = "loop" /\ at' = "call" /\ Here' = Here
      /\ shown' = Append(shown, [to |-> i, entry |-> entry, ok |-> FALSE])
  BY DEF ShowTo, Here
<1>2. misuse = {} /\ entry \in Entry /\ entry \in ToSet(Here) /\ Parsing
  BY AtEntry DEF ShowTo, Ends, Parsing
<1>3. PICK L \in Nat : L = Len(shown)  BY ShownType
<1>4. [to |-> i, entry |-> entry, ok |-> FALSE] \in Showing  BY <1>2 DEF Showing
<1>5. /\ DOMAIN shown = 1 .. L /\ DOMAIN shown' = 1 .. L + 1
      /\ shown'[L + 1].entry = entry
      /\ \A n \in 1 .. L : shown'[n] = shown[n]
  BY <1>1, <1>3, <1>4, ShownType, AppendElements
<1>6. \A n \in 1 .. L + 1 : n \in 1 .. L \/ n = L + 1  BY <1>3
<1>7. \A n \in DOMAIN shown' : \E k \in DOMAIN Here : Here[k] = shown'[n].entry
  BY <1>2, <1>5, <1>6 DEF Ahead, ToSet
<1>8. ASSUME NEW m \in DOMAIN shown', NEW n \in DOMAIN shown',
             NEW k \in DOMAIN Here, NEW j \in DOMAIN Here,
             m < n, Here[k] = shown'[m].entry, Here[j] = shown'[n].entry
      PROVE  k < j
  <2>1. m \in 1 .. L  BY <1>3, <1>5, <1>8
  <2>2. CASE n \in 1 .. L  BY <1>2, <1>5, <1>8, <2>1, <2>2 DEF Ahead
  <2>3. CASE n = L + 1  BY <1>1, <1>2, <1>5, <1>8, <2>1, <2>3 DEF Ahead
  <2> QED  BY <1>5, <1>6, <2>2, <2>3
<1>9. 1 .. L \subseteq 1 .. L + 1  BY <1>3
<1>10. ASSUME NEW k \in DOMAIN Here, \A j \in DOMAIN Here : Here[j] = entry => k < j
       PROVE  \/ \E n \in DOMAIN shown' : shown'[n].entry = Here[k]
              \/ \A x \in DOMAIN pairs : pairs[x] = Here[k].key => x \in accepted
  BY <1>2, <1>5, <1>9, <1>10 DEF Ahead, DoneWith
<1> QED  BY <1>1, <1>7, <1>8, <1>10 DEF Ahead, DoneWith

LEMMA AheadOfAnswer ==
  ASSUME KvTypeOK, Distinct, Reading, Told, Ahead, NEW ok \in BOOLEAN, Answer(ok)
  PROVE  Ahead'
<1>1. UNCHANGED <<list, source, pairs, misuse>> /\ at = "call" /\ at' = "loop" /\ Parsing
  BY DEF Answer, Parsing
<1>2. SUFFICES ASSUME misuse = {}  PROVE Ahead'  BY <1>1 DEF Ahead
<1>3. source \in Lists /\ entry \in ToSet(Here)
  BY <1>1, <1>2, NoEntryIs DEF Reading
<1>4. entry' = After(Here, entry)  BY <1>3 DEF Answer, Here
<1>5. PICK c \in DOMAIN Here : Here[c] = entry  BY <1>3 DEF ToSet
<1>6. PICK L \in Nat : /\ L = Len(shown) /\ L \in DOMAIN shown /\ DOMAIN shown = 1 .. L
                       /\ DOMAIN shown' = DOMAIN shown
                       /\ \A n \in DOMAIN shown : shown'[n].entry = shown[n].entry
                       /\ accepted \subseteq accepted'
  BY AnswerShown
<1>7. shown[L].entry = entry  BY <1>1, <1>6 DEF Told
<1>8. ASSUME NEW n \in DOMAIN shown, NEW i \in DOMAIN Here, Here[i] = shown[n].entry
      PROVE  i <= c
  <2>0. i \in Nat /\ c \in Nat
    <3>1. Here \in Seq(Entry)  BY <1>3, ListsDistinct DEF Here
    <3> QED  BY <3>1, LenProperties
  <2>1. CASE n = L
    <3>1. i = c  BY <1>3, <1>5, <1>7, <1>8, <2>1, ListsDistinct DEF Here
    <3> QED  BY <2>0, <3>1
  <2>2. CASE n # L
    <3>1. n < L  BY <1>6, <2>2
    <3>2. i < c  BY <1>1, <1>2, <1>5, <1>6, <1>7, <1>8, <3>1 DEF Ahead
    <3> QED  BY <2>0, <3>2
  <2> QED  BY <2>1, <2>2
<1> QED  BY <1>1, <1>2, <1>3, <1>4, <1>5, <1>6, <1>7, <1>8, Passing

LEMMA AheadOfSkip ==
  ASSUME KvTypeOK, Distinct, Reading, Ahead, faults = {}, Skip
  PROVE  Ahead'
<1>1. /\ UNCHANGED <<list, source, pairs, misuse, shown, accepted, at>>
      /\ at = "loop" /\ Parsing /\ entry' = After(Here, entry)
  BY DEF Skip, Parsing, Here
<1>2. source \in Lists /\ misuse = {} /\ entry \in ToSet(Here)
  BY AtEntry DEF Skip, Ends
<1>3. PICK c \in DOMAIN Here : Here[c] = entry  BY <1>2 DEF ToSet
<1>4. \A k \in DOMAIN pairs : pairs[k] = entry.key => k \in accepted
  BY DEF Skip, Waiting
<1>5. \A n \in DOMAIN shown : \A i \in DOMAIN Here : Here[i] = shown[n].entry => i <= c
  <2>1. \A i \in DOMAIN Here : i \in Nat
    <3>1. Here \in Seq(Entry)  BY <1>2, ListsDistinct DEF Here
    <3> QED  BY <3>1, LenProperties
  <2>2. \A n \in DOMAIN shown : \A i \in DOMAIN Here : Here[i] = shown[n].entry => i < c
    BY <1>1, <1>2, <1>3 DEF Ahead
  <2> QED  BY <2>1, <2>2, <1>3
<1> QED  BY <1>1, <1>2, <1>3, <1>4, <1>5, Passing

-----------------------------------------------------------------------------
(* The theorems.                                                            *)

LEMMA ListInitInv == KvInit => ListInv
<1> SUFFICES ASSUME KvInit  PROVE ListInv  OBVIOUS
<1>0. DOMAIN <<>> = {}  OBVIOUS
<1>1. KvTypeOK
  <2>1. <<>> \in Seq(Entry) /\ <<>> \in Seq(Keys) /\ shown \in Seq(Showing)
    BY EmptySeq DEF KvInit
  <2> QED  BY <2>1 DEF KvInit, KvTypeOK, Showing
<1>2. Owning  BY NullAssumption DEF KvInit, Owning
<1>3. Distinct  BY <1>0 DEF KvInit, Distinct
<1>4. Reading  BY DEF KvInit, Reading, Parsing
<1>5. Told  BY <1>0 DEF KvInit, Told
<1>6. Ahead  BY DEF KvInit, Ahead, Parsing
<1>7. Raw /\ Blame  BY DEF KvInit, Raw, Blame, FaultNeedsMisuse
<1> QED  BY <1>1, <1>2, <1>3, <1>4, <1>5, <1>6, <1>7 DEF ListInv, OwnedOnce, Owning

LEMMA ListNextInv == ListInv /\ [KvNext]_kvVars => ListInv'
<1> SUFFICES ASSUME ListInv, [KvNext]_kvVars  PROVE ListInv'  OBVIOUS
<1>0. KvTypeOK /\ Owning /\ Distinct /\ Raw /\ Reading /\ Blame /\ Told /\ Ahead
  BY DEF ListInv, OwnedOnce, Owning
<1> DEFINE Kept == /\ KvTypeOK' /\ Owning' /\ Distinct' /\ Raw' /\ Reading' /\ Blame'
                   /\ Told' /\ Ahead'
<1>1. ASSUME faults = {}, Program, misuse = {}, ProgramNext  PROVE Kept
  <2>1. /\ handle' \in [Owners \cup Refs -> Lists \cup {Null}]
        /\ made' \subseteq Lists /\ freed' \subseteq made' /\ filled' \subseteq made'
        /\ Owning'
    BY <1>0, <1>1, OwningStep
  <2>4. Raw'  BY <1>0, <1>1, RawStep
  <2>2. ASSUME ListStep  PROVE Kept
    <3>1. /\ UNCHANGED <<pairs, at, source, entry, accepted, shown, faults>>
          /\ list' \in [Lists -> Seq(Entry)] /\ misuse' \subseteq Misuses
      BY <1>0, <2>2, TypeOfLists
    <3>2. KvTypeOK'  BY <1>0, <2>1, <3>1 DEF KvTypeOK
    <3>3. Distinct'  BY <1>0, <1>1, <2>2, DistinctKept
    <3>4. Reading'  BY <1>0, <1>1, <2>2, ReadingOfLists
    <3>5. Told'  BY <1>0, <3>1, ToldSame
    <3>6. Ahead'  BY <1>0, <1>1, <2>2, AheadOfLists
    <3>7. misuse' \subseteq {"cleared in parse"}
      BY <1>1, <2>2 DEF ListStep, Handles, Loses, Gains, Fills, Discard
    <3>8. Blame'  BY <1>1, <3>1, <3>7 DEF Blame, FaultNeedsMisuse
    <3> QED  BY <2>1, <2>4, <3>2, <3>3, <3>4, <3>5, <3>6, <3>8
  <2>3. ASSUME NEW o \in Owners \cup Refs, NEW keys \in Seq(Keys), StartParse(o, keys)
        PROVE  Kept
    <3>1. /\ KvTypeOK' /\ UNCHANGED <<list, faults, misuse>>
          /\ at' = "loop" /\ shown' = <<>> /\ accepted' = {}
      BY <1>0, <2>3, StartStep
    <3>2. Distinct'  BY <1>0, <3>1 DEF Distinct
    <3>3. Reading'  BY <1>0, <1>1, <2>3, ReadingOfStart
    <3>4. Told'  BY <3>1, ToldOfStart
    <3>5. Ahead'  BY <1>0, <2>3, AheadOfStart
    <3>6. Blame'  BY <1>0, <3>1 DEF Blame, FaultNeedsMisuse
    <3> QED  BY <2>1, <2>4, <3>1, <3>2, <3>3, <3>4, <3>5, <3>6
  <2>5. ASSUME Breaks  PROVE Kept
    <3>1. /\ UNCHANGED <<list, pairs, at, source, entry, accepted, shown>>
          /\ faults' = {"null tail"} /\ misuse' = {"pushed to a fresh list"}
      BY <2>5 DEF Breaks, parse
    <3>2. KvTypeOK'  BY <1>0, <2>1, <3>1 DEF KvTypeOK, Misuses
    <3>3. Distinct'  BY <1>0, <3>1 DEF Distinct
    <3>4. Reading'  BY <1>0, <3>1 DEF Reading, Parsing
    <3>5. Blame'  BY <3>1 DEF Blame, FaultNeedsMisuse
    <3>6. Told'  BY <1>0, <3>1, ToldSame
    <3>7. Ahead'  BY <3>1 DEF Ahead
    <3> QED  BY <2>1, <2>4, <3>2, <3>3, <3>4, <3>5, <3>6, <3>7
  <2> QED  BY <1>0, <1>1, <2>2, <2>3, <2>5, ListSteps
<1>2. ASSUME faults = {}, ParseNext  PROVE Kept
  <2>1. UNCHANGED <<handle, made, freed, filled, list, misuse>>
    BY <1>2 DEF ParseNext, ShowTo, Answer, Throw, Skip, EndParse, memory
  <2>2. KvTypeOK'  BY <1>0, <1>2, TypeOfParse
  <2>3. Owning'  BY <1>0, <2>1, OwningSame
  <2>4. Distinct'  BY <1>0, <2>1 DEF Distinct
  <2>5. Reading'  BY <1>0, <1>2, ReadingOfParse
  <2>6. ASSUME NEW i \in DOMAIN pairs, ShowTo(i)  PROVE Told' /\ Ahead'
    BY <1>0, <1>2, <2>6, ToldOfShow, AheadOfShow
  <2>7. ASSUME NEW ok \in BOOLEAN, Answer(ok)  PROVE Told' /\ Ahead'
    BY <1>0, <1>2, <2>7, ToldOfAnswer, AheadOfAnswer
  <2>8. ASSUME Throw  PROVE Told' /\ Ahead'
    <3>1. /\ UNCHANGED <<shown, pairs, accepted, entry>>
          /\ ~Parsing' /\ at' # "call"
      BY <2>8 DEF Throw, Parsing
    <3> QED  BY <1>0, <3>1, ToldSame, AheadSame
  <2>9. ASSUME Skip  PROVE Told' /\ Ahead'
    <3>1. UNCHANGED <<shown, pairs, accepted>> /\ at' # "call"  BY <2>9 DEF Skip
    <3> QED  BY <1>0, <1>2, <2>9, <3>1, ToldSame, AheadOfSkip
  <2>10. ASSUME EndParse  PROVE Told' /\ Ahead'
    <3>1. /\ UNCHANGED <<shown, pairs, accepted, entry>>
          /\ ~Parsing' /\ at' # "call"
      BY <2>10 DEF EndParse, Parsing
    <3> QED  BY <1>0, <3>1, ToldSame, AheadSame
  <2>11. Told' /\ Ahead'  BY <1>2, <2>6, <2>7, <2>8, <2>9, <2>10 DEF ParseNext
  <2>12. Raw'  BY <1>0, <2>1 DEF Raw
  <2>13. Blame'
    <3>1. faults' \subseteq {"entry gone"}
      BY <1>2 DEF ParseNext, ShowTo, Answer, Throw, Skip, EndParse
    <3>2. faults' # {} => misuse' # {}  BY <2>5 DEF Reading
    <3> QED  BY <1>0, <1>2, <2>1, <3>1, <3>2 DEF Blame, FaultNeedsMisuse
  <2> QED  BY <2>2, <2>3, <2>4, <2>5, <2>11, <2>12, <2>13
<1>3. ASSUME UNCHANGED kvVars  PROVE Kept
  <2>1. /\ UNCHANGED <<handle, made, freed, filled, list, pairs, at, source, entry>>
        /\ UNCHANGED <<accepted, shown, faults, misuse>> /\ Here' = Here
    BY <1>3 DEF kvVars, Here
  <2>2. KvTypeOK' /\ Owning' /\ Distinct' /\ Raw' /\ Blame'
    BY <1>0, <2>1 DEF KvTypeOK, Owning, Distinct, Raw, Blame, FaultNeedsMisuse
  <2>3. Reading'  BY <1>0, <2>1 DEF Reading, Parsing
  <2> QED  BY <1>0, <2>1, <2>2, <2>3, ToldSame, AheadSame
<1>4. Kept  BY <1>1, <1>2, <1>3 DEF KvNext
<1> QED  BY <1>4 DEF ListInv, OwnedOnce, Owning

THEOREM ListInvariant == KvSpec => []ListInv
BY ListInitInv, ListNextInv, PTL DEF KvSpec

\* Whatever a program constructs, moves, resets and destroys, and whenever parse()
\* runs: no two keyval have one evkeyvalq, and none is freed twice or left behind.
THEOREM ListsOwnedOnce == KvSpec => []OwnedOnce
<1>1. ListInv => OwnedOnce  BY DEF ListInv
<1> QED  BY <1>1, ListInvariant, PTL

\* parse() reads no entry that is gone unless its functors removed it, and a push
\* writes through a null pointer only to a list that no query string has filled.
THEOREM ParseSurvives == KvSpec => []FaultNeedsMisuse
<1>1. ListInv => FaultNeedsMisuse  BY DEF ListInv, Blame
<1> QED  BY <1>1, ListInvariant, PTL

\* The order in which parse() shows the entries to its functors.
THEOREM ParseShowsInOrder == KvSpec => []ShownInOrder
<1>1. ListInv => ShownInOrder
  <2> SUFFICES ASSUME ListInv, Untouched  PROVE ShownInOrder  BY DEF ShownInOrder
  <2>0. KvTypeOK /\ Told /\ Ahead /\ misuse = {}
    BY DEF ListInv, OwnedOnce, KvTypeOK, Untouched
  <2>1. ASSUME NEW n \in DOMAIN shown
        PROVE  /\ shown[n].entry.key = pairs[shown[n].to]
               /\ \A j \in 1 .. shown[n].to - 1 :
                    pairs[j] = pairs[shown[n].to] =>
                      \E m \in 1 .. n - 1 : shown[m].to = j /\ shown[m].ok
    BY <2>0 DEF Told
  <2>2. ASSUME NEW m \in DOMAIN shown, NEW n \in DOMAIN shown, m < n
        PROVE  shown[m].to = shown[n].to => ~shown[m].ok
    BY <2>0, <2>2 DEF Told
  <2>3. ASSUME NEW m \in DOMAIN shown, NEW n \in DOMAIN shown, m < n, Parsing
        PROVE  (CHOOSE i \in DOMAIN list[source] : list[source][i] = shown[m].entry)
                 < CHOOSE i \in DOMAIN list[source] : list[source][i] = shown[n].entry
    <3>1. /\ \E i \in DOMAIN Here : Here[i] = shown[m].entry
          /\ \E i \in DOMAIN Here : Here[i] = shown[n].entry
          /\ \A i, j \in DOMAIN Here :
               Here[i] = shown[m].entry /\ Here[j] = shown[n].entry => i < j
      BY <2>0, <2>3 DEF Ahead
    <3>2. PICK p, q :
            /\ p = CHOOSE i \in DOMAIN list[source] : list[source][i] = shown[m].entry
            /\ q = CHOOSE i \in DOMAIN list[source] : list[source][i] = shown[n].entry
      OBVIOUS
    <3>3. p \in DOMAIN Here /\ Here[p] = shown[m].entry  BY <3>1, <3>2 DEF Here
    <3>4. q \in DOMAIN Here /\ Here[q] = shown[n].entry  BY <3>1, <3>2 DEF Here
    <3> QED  BY <3>1, <3>2, <3>3, <3>4
  <2> QED  BY <2>1, <2>2, <2>3 DEF ShownInOrder
<1> QED  BY <1>1, ListInvariant, PTL

\* parse() misses no entry that a functor waits for, those pushed on the way included.
THEOREM ParseShowsAll == KvSpec => ShownAll
<1> DEFINE Missed == \A i \in DOMAIN pairs, e \in ToSet(list[source]) :
                       e.key = pairs[i] =>
                         \/ \E n \in DOMAIN shown : shown[n].to = i /\ shown[n].ok
                         \/ \E n \in DOMAIN shown : shown[n].entry = e
<1>1. ASSUME ListInv, [KvNext]_kvVars, at = "loop", at' = "done", Untouched
      PROVE  Missed
  <2>0. KvTypeOK /\ Told /\ Ahead /\ misuse = {} /\ Parsing
    BY <1>1 DEF ListInv, OwnedOnce, KvTypeOK, Untouched, Parsing
  <2>1. EndParse
    BY <1>1 DEF KvNext, Program, ParseNext, ShowTo, Answer, Throw, Skip, kvVars
  <2>2. CASE accepted = DOMAIN pairs  BY <2>0, <2>2 DEF Told
  <2>3. CASE entry = NoEntry
    <3> SUFFICES ASSUME NEW i \in DOMAIN pairs, NEW c \in DOMAIN Here,
                        Here[c].key = pairs[i]
                 PROVE  \/ \E n \in DOMAIN shown : shown[n].to = i /\ shown[n].ok
                        \/ \E n \in DOMAIN shown : shown[n].entry = Here[c]
      BY DEF ToSet, Here
    <3>1. \A j \in DOMAIN Here : Here[j] # entry
      <4>1. source \in Lists  BY <1>1, <2>0 DEF ListInv, Reading
      <4>2. Here \in Seq(Entry)  BY <2>0, <4>1 DEF KvTypeOK, Here
      <4> QED  BY <2>3, <4>2, NoEntryIs, LenProperties, ElementOfSeq
    <3>2. DoneWith(Here[c])  BY <2>0, <3>1 DEF Ahead
    <3> QED  BY <2>0, <3>2 DEF DoneWith, Told
  <2> QED  BY <2>1, <2>2, <2>3 DEF EndParse, Ends
<1>2. ListInv /\ [KvNext]_kvVars => (at = "loop" /\ at' = "done" /\ Untouched => Missed)
  BY <1>1
<1> QED  BY <1>2, ListInvariant, PTL DEF KvSpec, ShownAll
=============================================================================
