------------------------------- MODULE Server -------------------------------
(***************************************************************************)
(* src/example/evhttpsrv.cpp on top of Queue: an HTTP server that answers   *)
(* each request later, from functors it hands to queue::once() with a       *)
(* pointer to the request, while clients go away, signals break the loop    *)
(* and dispatch(timeout) ends it; then the server and the queue go.         *)
(*                                                                          *)
(* The requests, connections and signals are those of libevent, modelled    *)
(* the way the example uses them.  Its sockets and signal events keep the   *)
(* queue from being empty: its loop never exits for want of events, which   *)
(* is what "noexit" says.                                                   *)
(*                                                                          *)
(* Bound: each member of Requests arrives at most once.                     *)
(***************************************************************************)
EXTENDS Naturals, Sequences, SequencesExt, FiniteSets

CONSTANTS
  Requests,
  Signals,   \* SIGINT, SIGTERM
  None

Main == "main"
Chunk(r) == <<r, "chunk">>   \* the functor that sends the chunk
End(r) == <<r, "end">>       \* the functor that ends the reply
Replies == Requests \X {"chunk", "end"}
Timeout == <<"timeout", "exit">>

VARIABLES
  base, armed, active, running, loop, brk, term, flags, ret, sub, obj, dest,
  heap, dropped, read, log   \* those of Queue

Q == INSTANCE QueueContract WITH
  Queues <- {Main}, Named <- {}, Temps <- Replies, Exits <- {Timeout},
  Breakers <- {}, FlagSets <- {{"noexit"}}

ASSUME NoneAssumption == None \notin Q!Event \cup {Main}

VARIABLES
  server,    \* "up" or "freed"
  request,   \* request[r]: "none", "open", "cut" from its connection, or "freed"
  replied,   \* the requests whose reply is complete
  forgotten, \* history: those whose first functor threw before it could post
  handler,   \* handler[s]: the heap functor of a signal, "set" or "deleted"
  dangling   \* history: what was used after it was freed

queue == <<base, armed, active, running, loop, brk, term, flags, ret, sub, obj,
           dest, heap, dropped, read, log>>
http == <<server, request, replied, forgotten>>
own == <<http, handler, dangling>>
vars == <<queue, own>>

Init ==
  /\ Q!Init
  /\ server = "up"
  /\ request = [r \in Requests |-> "none"]
  /\ replied = {}
  /\ forgotten = {}
  /\ handler = [s \in Signals |-> "set"]
  /\ dangling = {}

-----------------------------------------------------------------------------
(* The loop.                                                                *)

\* Mutant: queue.dispatch().
StartForever ==
  /\ UNCHANGED own
  /\ ret[Main] = "none" /\ Q!Dispatch(Main, {"noexit"})

\* queue.dispatch(seconds{80}), once.
Start ==
  /\ UNCHANGED own
  /\ \/ Q!LoopExit(Main, Timeout)
     \/ Timeout \in sub /\ ret[Main] = "none" /\ Q!Dispatch(Main, {"noexit"})

Turn ==
  /\ UNCHANGED own
  /\ \/ Q!LoopCheck(Main) \/ Q!StartBatch(Main) \/ Q!Wake(Main) \/ Q!EndBatch(Main)
     \/ Q!CallExit(Main, Timeout)

Expire(e) == UNCHANGED own /\ Q!Expire(Main, e)

\* The loop can call back for a socket or a signal.
Ready == loop[Main] \in {"poll", "batch"} /\ running[Main] = None

-----------------------------------------------------------------------------
(* Requests.                                                                *)

Use(r) == dangling' = dangling \cup (IF request[r] = "freed" THEN {r} ELSE {})

\* The callback of "/123": it starts the reply and leaves the rest for later.  What
\* once() would throw through the frames of libevent is left out.
Request(r) ==
  /\ Ready /\ request[r] = "none"
  /\ Q!OnceMove(Main, Chunk(r)) /\ dropped' = dropped
  /\ request' = [request EXCEPT ![r] = "open"]
  /\ UNCHANGED <<server, replied, forgotten, handler, dangling>>

\* The client closes, or the timeout of the server expires.  A request that waits
\* for its reply is only cut from its connection, any other one goes with it.
Disconnect(r) ==
  /\ Ready /\ request[r] = "open"
  /\ request' = [request EXCEPT ![r] = IF r \in replied THEN "freed" ELSE "cut"]
  /\ UNCHANGED <<queue, server, replied, forgotten, handler, dangling>>

\* The first functor sends the chunk, if there still is a connection, and posts the
\* second; the trampoline swallows what that throws.  If the buffer of the chunk
\* throws nothing is sent and nothing is posted.
SendChunk(r) ==
  /\ Q!CallOwned(Main, Chunk(r))
  /\ Use(r)
  /\ UNCHANGED <<http, handler>>
FailChunk(r) ==
  /\ Q!CallOwned(Main, Chunk(r))
  /\ forgotten' = forgotten \cup {r}
  /\ UNCHANGED <<server, request, replied, handler, dangling>>
PostEnd(r) ==
  /\ running[Main] = Q!Ev(Chunk(r), "owned") /\ r \notin forgotten
  /\ Q!OnceMove(Main, End(r))
  /\ UNCHANGED own

\* Mutant: the second functor sends nothing that ends the reply.
SendEndOpen(r) ==
  /\ Q!CallOwned(Main, End(r))
  /\ Use(r)
  /\ UNCHANGED <<http, handler>>

\* The second one: a request without a connection is freed here.
SendEnd(r) ==
  /\ Q!CallOwned(Main, End(r))
  /\ Use(r)
  /\ replied' = replied \cup {r}
  /\ request' = [request EXCEPT ![r] = IF @ = "cut" THEN "freed" ELSE @]
  /\ UNCHANGED <<server, forgotten, handler>>

\* Mutant: without its client the first functor posts nothing.
ReturnEarly ==
  /\ \A r \in Requests :
       running[Main] = Q!Ev(Chunk(r), "owned") =>
         End(r) \in sub \/ r \in forgotten \/ request[r] = "cut"
  /\ Q!EndCall(Main)
  /\ UNCHANGED own

\* The trampoline returns, once the functor has returned or thrown.
Return ==
  /\ \A r \in Requests :
       running[Main] = Q!Ev(Chunk(r), "owned") => End(r) \in sub \/ r \in forgotten
  /\ Q!EndCall(Main)
  /\ UNCHANGED own

\* The reply is on its way, and the request is done with.
Sent(r) ==
  /\ Ready /\ request[r] = "open" /\ r \in replied
  /\ request' = [request EXCEPT ![r] = "freed"]
  /\ UNCHANGED <<queue, server, replied, forgotten, handler, dangling>>

-----------------------------------------------------------------------------
(* Signals, and the end of main().                                          *)

\* Mutant: the functor does not call loop_break().
SignalGoesOn(s) ==
  /\ Ready
  /\ dangling' = dangling \cup (IF handler[s] = "deleted" THEN {s} ELSE {})
  /\ handler' = [handler EXCEPT ![s] = "deleted"]
  /\ UNCHANGED <<queue, http>>

\* The event is persistent, but its functor was moved to the heap and is deleted
\* after the first call.  It breaks the loop, which calls nothing any more.
Signal(s) ==
  /\ Ready
  /\ dangling' = dangling \cup (IF handler[s] = "deleted" THEN {s} ELSE {})
  /\ handler' = [handler EXCEPT ![s] = "deleted"]
  /\ brk' = [brk EXCEPT ![Main] = TRUE]
  /\ loop' = [loop EXCEPT ![Main] = "top"]
  /\ UNCHANGED <<http, base, armed, active, running, term, flags, ret, sub, obj,
                 dest, heap, dropped, read, log>>

\* ~server() closes the connections, with the requests on them.
EndServer ==
  /\ server = "up" /\ ret[Main] # "none"
  /\ server' = "freed"
  /\ request' = [r \in Requests |-> IF request[r] = "open" THEN "freed" ELSE request[r]]
  /\ UNCHANGED <<queue, replied, forgotten, handler, dangling>>

\* ~queue(), declared before the server and so destroyed after it.
EndQueue ==
  /\ server = "freed"
  /\ Q!Destroy(Main)
  /\ UNCHANGED own

-----------------------------------------------------------------------------
LoopStep ==
  \/ Turn \/ Return
  \/ \E r \in Requests : SendChunk(r) \/ FailChunk(r) \/ PostEnd(r) \/ SendEnd(r)

Next ==
  \/ LoopStep \/ Start \/ EndServer \/ EndQueue
  \/ \E e \in armed[Main] : Expire(e)
  \/ \E r \in Requests : Request(r) \/ Disconnect(r) \/ Sent(r)
  \/ \E s \in Signals : Signal(s)

Spec == Init /\ [][Next]_vars

Exit == Q!Ev(Timeout, "exit")

\* main() goes on; the loop keeps running, the timers of the functors expire, clients
\* are slow but not for ever.  Nothing is said of the 80 seconds of dispatch(), which
\* may be longer than any reply takes.
Fairness ==
  /\ WF_vars(Start) /\ WF_vars(EndServer) /\ WF_vars(EndQueue)
  /\ WF_vars(LoopStep)
  /\ SF_vars(\E e \in armed[Main] \ {Exit} : Expire(e))
  /\ \A r \in Requests : SF_vars(Sent(r))

FairSpec == Spec /\ Fairness

-----------------------------------------------------------------------------
(* Properties.                                                              *)

TypeOK ==
  /\ Q!TypeOK
  /\ server \in {"up", "freed"}
  /\ request \in [Requests -> {"none", "open", "cut", "freed"}]
  /\ replied \subseteq Requests /\ forgotten \subseteq Requests
  /\ handler \in [Signals -> {"set", "deleted"}]

\* The server as a whole keeps the contract of queue.once(), OnceContract: whatever its
\* callbacks do, no functor of it runs twice or outside of the loop, and none is lost but
\* by a refused post or with the queue.
OnceKept == Q!ImplementsContract

\* The functors use the request through the pointer they captured, up to two seconds
\* after its client may have gone, and a persistent signal event keeps the pointer
\* of a functor that was deleted: nothing is used after it was freed.
NothingDangles == TypeOK /\ dangling = {}

\* The functors that are still to do something for a request, or were dropped before
\* they could: the first one is done when it has posted the second.
Answering(r) ==
  {e \in Q!Held(Main) \cup dropped :
     e.fn \in {Chunk(r), End(r)} /\ (e.fn = Chunk(r) => End(r) \notin sub)}

\* A request that waits for its reply is in the hands of exactly one functor, from
\* its arrival on, whether its client is there or not, so that none is ended twice;
\* but one whose first functor threw is in nobody's hands, and is never answered.
\* When main() ends every request is freed, except one whose client had gone before
\* its functor was called, and whose functor the queue dropped or had thrown.
InHand ==
  /\ \A r \in Requests \ forgotten :
       request[r] \in {"open", "cut"} /\ r \notin replied => Cardinality(Answering(r)) = 1
  /\ \A r \in forgotten : r \notin replied /\ Answering(r) \subseteq {running[Main]}
  /\ base[Main] = "freed" =>
       \A r \in Requests :
         \/ request[r] \in {"none", "freed"}
         \/ request[r] = "cut" /\ (r \in forgotten \/ Answering(r) \cap dropped # {})

\* Each request gets its whole reply, unless its client goes, the first functor throws,
\* libevent refuses the second one, or a signal or the timeout stops the loop.
Replied ==
  \A r \in Requests :
    request[r] = "open" ~>
      \/ r \in replied /\ request[r] = "freed"
      \/ request[r] = "cut"
      \/ r \in forgotten
      \/ Q!Ev(End(r), "owned") \in dropped
      \/ brk[Main] \/ term[Main]

\* When the 80 seconds of dispatch() pass, main() ends, whatever its clients do.
MainEnds == SF_vars(Expire(Exit)) => <>(base[Main] = "freed")
=============================================================================
