------------------------------- MODULE Queue -------------------------------
(***************************************************************************)
(* e4pp::queue: the owner of an event_base, the once() family that hands a  *)
(* functor to the loop, the trampolines of functional.hpp that call it      *)
(* back, the requeue closures that carry a functor from one queue to        *)
(* another, and the control of the loop (dispatch, loop, loopexit,          *)
(* loop_break, destroy).                                                    *)
(*                                                                          *)
(* Any thread may call once(), loopexit() and loop_break() at any moment    *)
(* (use_threads() makes each libevent call atomic); one thread at a time    *)
(* runs the loop of a queue.  The steps of the loop itself belong to        *)
(* libevent and are modelled from the way queue.hpp uses them.              *)
(*                                                                          *)
(* Bound: a functor and a loopexit() are each submitted at most once; the   *)
(* loop may be entered any number of times.                                 *)
(***************************************************************************)
EXTENDS Naturals, Sequences, SequencesExt

CONSTANTS
  Queues,     \* the queue objects of the program
  Named,      \* functors that are objects of the caller: once(fn)
  Temps,      \* functors that are temporaries of the call: once([]{...})
  Exits,      \* calls of loopexit()
  Breakers,   \* the functors whose body calls loop_break() on the queue
              \* that runs them
  FlagSets,   \* the sets of evloop flags loop() is called with
  None

Fns == Named \cup Temps

Flags == {"once", "nonblock", "noexit"}

ASSUME BreakersAssumption == Breakers \subseteq Fns
ASSUME FlagsAssumption == FlagSets \subseteq SUBSET Flags
ASSUME ExitsAssumption == Exits \cap Fns = {}

(***************************************************************************)
(* A once event of libevent, told apart by its argument:                    *)
(*   borrowed  a pointer to the caller's functor, proxy_call(timer_fun&)    *)
(*   owned     a functor moved to the heap, proxy_call(timer_fun&&)         *)
(*   outer     the heap closure of timer_requeue / generic_requeue, which   *)
(*             holds the functor by reference                               *)
(*   inner     the heap closure posted on the other queue, which holds the  *)
(*             functor by value                                             *)
(*   exit      the internal event of event_base_loopexit                    *)
(***************************************************************************)
Event == [fn : Fns, stage : {"borrowed", "owned", "outer", "inner"}]
           \cup [fn : Exits, stage : {"exit"}]

ASSUME NoneAssumption == None \notin Event \cup Queues

Ev(f, s) == [fn |-> f, stage |-> s]

OwnsHeap(e) == e.stage \in {"owned", "outer", "inner"}

Closure(e) == IF OwnsHeap(e) THEN {e} ELSE {}

VARIABLES
  base,      \* base[q]: "live", or "freed" by destroy() or the destructor
  armed,     \* armed[q]: the once events waiting for their timeout
  active,    \* active[q]: the FIFO of events whose callback is due
  running,   \* running[q]: the event whose callback is executing
  loop,      \* loop[q]: where event_base_loop() stands
  brk,       \* brk[q]: event_break, read by stopped()
  term,      \* term[q]: event_gotterm, set by the event of loopexit()
  flags,     \* flags[q]: the flags of the loop() call in progress
  ret,       \* ret[q]: what the last dispatch() or loop() returned
  sub,       \* the functors and loopexits submitted so far
  obj,       \* obj[f]: the caller's functor object
  dest,      \* dest[f]: the other queue of once(other, ...)
  heap,      \* the heap closures allocated and not deleted
  dropped,   \* history: events refused by libevent or freed with the base
  read,      \* read[f]: what the trampolines found where they read f
  log        \* log[q]: history of the callbacks run on q, in order

pending == <<armed, active>>
control == <<brk, term, flags, ret>>
functors == <<sub, obj, dest>>
vars == <<base, armed, active, running, loop, brk, term, flags, ret,
          sub, obj, dest, heap, dropped, read, log>>

Waiting(q) == armed[q] \cup ToSet(active[q])

Held(q) == Waiting(q) \cup ({running[q]} \ {None})

Init ==
  /\ base = [q \in Queues |-> "live"]
  /\ armed = [q \in Queues |-> {}]
  /\ active = [q \in Queues |-> <<>>]
  /\ running = [q \in Queues |-> None]
  /\ loop = [q \in Queues |-> "out"]
  /\ brk = [q \in Queues |-> FALSE]
  /\ term = [q \in Queues |-> FALSE]
  /\ flags = [q \in Queues |-> {}]
  /\ ret = [q \in Queues |-> "none"]
  /\ sub = {}
  /\ obj = [f \in Fns |-> "alive"]
  /\ dest = [f \in Fns |-> None]
  /\ heap = {}
  /\ dropped = {}
  /\ read = [f \in Fns |-> "none"]
  /\ log = [q \in Queues |-> <<>>]

-----------------------------------------------------------------------------
(* Submission: once() and loopexit(), from any thread.                      *)

\* Mutant: due before the others.
EnqueueFirst(fifo, q, e) == [fifo EXCEPT ![q] = <<e>> \o @]

\* The event becomes due, behind those that already are.
Enqueue(fifo, q, e) == [fifo EXCEPT ![q] = Append(@, e)]

\* event_base_once(): a timer with a zero timeout is due at once, in FIFO
\* order; any other event waits.
Add(q, e) ==
  /\ base[q] = "live"
  /\ \/ armed' = [armed EXCEPT ![q] = @ \cup {e}] /\ UNCHANGED active
     \/ active' = Enqueue(active, q, e) /\ UNCHANGED armed

\* once(fd, ef, tv, fn): proxy_call() allocates what the event will own, then
\* event_base_once() takes the event or fails, and check_result() throws.
Submit(q, f, stage) ==
  /\ f \notin sub
  /\ sub' = sub \cup {f}
  /\ heap' = heap \cup Closure(Ev(f, stage))
  /\ \/ Add(q, Ev(f, stage)) /\ UNCHANGED dropped
     \/ dropped' = dropped \cup {Ev(f, stage)} /\ UNCHANGED pending
  /\ UNCHANGED <<base, running, loop, control, obj, read, log>>

\* once(fn) with an lvalue std::function or timer_fn.
OnceRef(q, f) ==
  /\ f \in Named
  /\ Submit(q, f, "borrowed")
  /\ UNCHANGED dest

\* Mutant: the rvalue is bound to proxy_call(timer_fun&).
OnceMoveByRef(q, f) ==
  /\ Submit(q, f, "borrowed")
  /\ UNCHANGED dest

\* once(fn) with an rvalue, or with a lambda, which converts to one.
OnceMove(q, f) ==
  /\ Submit(q, f, "owned")
  /\ UNCHANGED dest

\* once(other, ..., fn): the closure of timer_requeue or generic_requeue is
\* itself the functor posted on q.
OnceRequeue(q, other, f) ==
  /\ Submit(q, f, "outer")
  /\ dest' = [dest EXCEPT ![f] = other]

LoopExit(q, x) ==
  /\ x \notin sub
  /\ sub' = sub \cup {x}
  /\ Add(q, Ev(x, "exit"))
  /\ UNCHANGED <<base, running, loop, control, obj, dest, heap, dropped,
                 read, log>>

LoopBreak(q) ==
  /\ base[q] = "live"
  /\ brk' = [brk EXCEPT ![q] = TRUE]
  /\ UNCHANGED <<base, pending, running, loop, term, flags, ret, functors,
                 heap, dropped, read, log>>

\* The caller's functor object goes away.  A temporary dies at the end of the
\* call that submitted it; the program keeps a named one while an event still
\* refers to it.
EndLife(f) ==
  /\ f \in sub
  /\ f \in Named => \A q \in Queues :
                      Held(q) \cap {Ev(f, "borrowed"), Ev(f, "outer")} = {}
  /\ obj' = [obj EXCEPT ![f] = "dead"]
  /\ UNCHANGED <<base, pending, running, loop, control, sub, dest, heap,
                 dropped, read, log>>

\* destroy(): event_base_free() frees the once events and never calls them;
\* nothing deletes the closures they own.  The destructor does the same; the
\* program keeps the object itself while a requeue closure that waits elsewhere
\* refers to it, as CallOuter reads its handle.
Destroy(q) ==
  /\ base[q] = "live" /\ loop[q] = "out"
  /\ base' = [base EXCEPT ![q] = "freed"]
  /\ dropped' = dropped \cup Waiting(q)
  /\ armed' = [armed EXCEPT ![q] = {}]
  /\ active' = [active EXCEPT ![q] = <<>>]
  /\ UNCHANGED <<running, loop, control, functors, heap, read, log>>

-----------------------------------------------------------------------------
(* The loop.                                                                *)

\* dispatch() and loop(flags): dispatch(timeout) is LoopExit followed by this.
Dispatch(q, fl) ==
  /\ base[q] = "live" /\ loop[q] = "out"
  /\ loop' = [loop EXCEPT ![q] = "top"]
  /\ brk' = [brk EXCEPT ![q] = FALSE]
  /\ term' = [term EXCEPT ![q] = FALSE]
  /\ flags' = [flags EXCEPT ![q] = fl]
  /\ ret' = [ret EXCEPT ![q] = "none"]
  /\ UNCHANGED <<base, pending, running, functors, heap, dropped, read, log>>

Return(q, result) ==
  /\ loop' = [loop EXCEPT ![q] = "out"]
  /\ ret' = [ret EXCEPT ![q] = result]

\* Mutant: loop_break() is only noticed between two callbacks.
LoopCheckNoBreak(q) ==
  /\ loop[q] = "top"
  /\ IF term[q]
     THEN Return(q, "true")
     ELSE IF Waiting(q) = {} /\ "noexit" \notin flags[q]
          THEN Return(q, "false")
          ELSE loop' = [loop EXCEPT ![q] = "poll"] /\ UNCHANGED ret
  /\ UNCHANGED <<base, pending, running, brk, term, flags, functors, heap,
                 dropped, read, log>>

\* The head of event_base_loop(): stop for loopexit() or loop_break(), return
\* 1 when there is nothing left to wait for, else poll.  queue::dispatch()
\* returns true for 0 and false for 1.
LoopCheck(q) ==
  /\ loop[q] = "top"
  /\ IF term[q] \/ brk[q]
     THEN Return(q, "true")
     ELSE IF Waiting(q) = {} /\ "noexit" \notin flags[q]
          THEN Return(q, "false")
          ELSE loop' = [loop EXCEPT ![q] = "poll"] /\ UNCHANGED ret
  /\ UNCHANGED <<base, pending, running, brk, term, flags, functors, heap,
                 dropped, read, log>>

\* Mutant: the timer that expires is forgotten.
ExpireLost(q, e) ==
  /\ loop[q] = "poll" /\ e \in armed[q]
  /\ armed' = [armed EXCEPT ![q] = @ \ {e}]
  /\ UNCHANGED <<base, active, running, loop, control, functors, heap, dropped,
                 read, log>>

\* A timeout or a file descriptor of the poll is due.
Expire(q, e) ==
  /\ loop[q] = "poll" /\ e \in armed[q]
  /\ armed' = [armed EXCEPT ![q] = @ \ {e}]
  /\ active' = Enqueue(active, q, e)
  /\ UNCHANGED <<base, running, loop, control, functors, heap, dropped, read,
                 log>>

\* The poll ends with callbacks due, or without any.
StartBatch(q) ==
  /\ loop[q] = "poll" /\ active[q] # <<>>
  /\ loop' = [loop EXCEPT ![q] = "batch"]
  /\ UNCHANGED <<base, pending, running, control, functors, heap, dropped,
                 read, log>>

Wake(q) ==
  /\ loop[q] = "poll" /\ active[q] = <<>>
  /\ IF "nonblock" \in flags[q]
     THEN Return(q, "true")
     ELSE loop' = [loop EXCEPT ![q] = "top"] /\ UNCHANGED ret
  /\ UNCHANGED <<base, pending, running, brk, term, flags, functors, heap,
                 dropped, read, log>>

\* Every callback that was due has run, those activated meanwhile included.
EndBatch(q) ==
  /\ loop[q] = "batch" /\ running[q] = None /\ active[q] = <<>>
  /\ IF "once" \in flags[q]
     THEN Return(q, "true")
     ELSE loop' = [loop EXCEPT ![q] = "top"] /\ UNCHANGED ret
  /\ UNCHANGED <<base, pending, running, brk, term, flags, functors, heap,
                 dropped, read, log>>

-----------------------------------------------------------------------------
(* The callbacks.                                                           *)

\* The loop takes the oldest due event, of the given stage, and calls it.
Take(q, e) ==
  /\ loop[q] = "batch" /\ running[q] = None
  /\ active[q] # <<>> /\ Head(active[q]) = e
  /\ running' = [running EXCEPT ![q] = e]
  /\ log' = [log EXCEPT ![q] = Append(@, e)]

\* Mutant: the event stays due.
PopNot(q) == active

Pop(q) == [active EXCEPT ![q] = Tail(@)]

\* What a read of a functor finds: memory that is gone may still look intact.
Found(isThere) == IF isThere THEN {"intact"} ELSE {"intact", "garbage"}

\* The functor's own body, when it can be called at all.
Body(q, f, found) ==
  brk' = [brk EXCEPT ![q] = @ \/ (f \in Breakers /\ found = "intact")]

\* proxy_call(timer_fun&): calls the caller's object through a pointer.
CallBorrowed(q, f) ==
  /\ Take(q, Ev(f, "borrowed"))
  /\ active' = Pop(q)
  /\ \E r \in Found(obj[f] = "alive") :
       read' = [read EXCEPT ![f] = r] /\ Body(q, f, r)
  /\ UNCHANGED <<base, armed, loop, term, flags, ret, functors, heap, dropped>>

\* proxy_call(timer_fun&&): calls the functor it owns.
CallOwned(q, f) ==
  /\ Take(q, Ev(f, "owned"))
  /\ active' = Pop(q)
  /\ \E r \in Found(Ev(f, "owned") \in heap) :
       read' = [read EXCEPT ![f] = r] /\ Body(q, f, r)
  /\ UNCHANGED <<base, armed, loop, term, flags, ret, functors, heap, dropped>>

\* The outer lambda of timer_requeue / generic_requeue: forwards the functor it
\* captured by reference into the inner closure and posts that on the other
\* queue with a zero timeout; a failure is swallowed.
CallOuter(q, f) ==
  LET d == dest[f]
      inner == Ev(f, "inner")
  IN
  /\ Take(q, Ev(f, "outer"))
  /\ \E r \in Found(obj[f] = "alive") : read' = [read EXCEPT ![f] = r]
  /\ heap' = heap \cup Closure(inner)
  /\ \/ /\ base[d] = "live"
        /\ active' = Enqueue(Pop(q), d, inner)
        /\ UNCHANGED dropped
     \/ /\ active' = Pop(q)
        /\ dropped' = dropped \cup {inner}
  /\ UNCHANGED <<base, armed, loop, control, functors>>

\* The inner lambda, on the other queue: calls its copy of the functor.
CallInner(q, f) ==
  /\ Take(q, Ev(f, "inner"))
  /\ active' = Pop(q)
  /\ \E r \in Found(Ev(f, "inner") \in heap) :
       /\ read' = [read EXCEPT ![f] = IF r = "intact" THEN @ ELSE r]
       /\ Body(q, f, read'[f])
  /\ UNCHANGED <<base, armed, loop, term, flags, ret, functors, heap, dropped>>

CallExit(q, x) ==
  /\ Take(q, Ev(x, "exit"))
  /\ active' = Pop(q)
  /\ term' = [term EXCEPT ![q] = TRUE]
  /\ UNCHANGED <<base, armed, loop, brk, flags, ret, functors, heap, dropped,
                 read>>

\* Mutant: `delete fn' inside the try block, skipped when the functor throws.
EndCallThrown(q) ==
  /\ running[q] # None
  /\ running' = [running EXCEPT ![q] = None]
  /\ heap' \in {heap, heap \ {running[q]}}
  /\ loop' = [loop EXCEPT ![q] = IF brk[q] THEN "top" ELSE "batch"]
  /\ UNCHANGED <<base, pending, control, functors, dropped, read, log>>

\* The callback returns, its functor having returned or thrown: the trampoline
\* of an owned functor deletes it.  loop_break() is noticed here.
EndCall(q) ==
  /\ running[q] # None
  /\ running' = [running EXCEPT ![q] = None]
  /\ heap' = heap \ {running[q]}
  /\ loop' = [loop EXCEPT ![q] = IF brk[q] THEN "top" ELSE "batch"]
  /\ UNCHANGED <<base, pending, control, functors, dropped, read, log>>

-----------------------------------------------------------------------------
Call(q) ==
  \/ \E f \in Fns : \/ CallBorrowed(q, f)
                    \/ CallOwned(q, f)
                    \/ CallOuter(q, f)
                    \/ CallInner(q, f)
  \/ \E x \in Exits : CallExit(q, x)

\* The steps of the thread that runs the loop of q, once it is in the loop.
LoopStep(q) ==
  LoopCheck(q) \/ StartBatch(q) \/ Wake(q) \/ EndBatch(q) \/ Call(q)
    \/ EndCall(q)

Next ==
  \/ \E q \in Queues, f \in Fns :
       \/ OnceRef(q, f)
       \/ OnceMove(q, f)
       \/ \E other \in Queues : OnceRequeue(q, other, f)
  \/ \E q \in Queues :
       \/ \E x \in Exits : LoopExit(q, x)
       \/ \E fl \in FlagSets : Dispatch(q, fl)
       \/ LoopBreak(q)
       \/ Destroy(q)
       \/ \E e \in armed[q] : Expire(q, e)
       \/ LoopStep(q)
  \/ \E f \in Fns : EndLife(f)

Spec == Init /\ [][Next]_vars

\* The thread inside a loop keeps running, its callbacks return, and a loop that
\* polls again and again while timers are armed sees one of them expire.
Fairness ==
  \A q \in Queues :
    /\ WF_vars(LoopStep(q))
    /\ SF_vars(\E e \in armed[q] : Expire(q, e))

FairSpec == Spec /\ Fairness
-----------------------------------------------------------------------------
(* Properties.                                                              *)

Ran(e) == \E q \in Queues : e \in ToSet(log[q])

TypeOK ==
  /\ base \in [Queues -> {"live", "freed"}]
  /\ armed \in [Queues -> SUBSET Event]
  /\ active \in [Queues -> Seq(Event)]
  /\ running \in [Queues -> Event \cup {None}]
  /\ loop \in [Queues -> {"out", "top", "poll", "batch"}]
  /\ brk \in [Queues -> BOOLEAN]
  /\ term \in [Queues -> BOOLEAN]
  /\ flags \in [Queues -> SUBSET Flags]
  /\ ret \in [Queues -> {"none", "true", "false"}]
  /\ sub \subseteq Fns \cup Exits
  /\ obj \in [Fns -> {"alive", "dead"}]
  /\ dest \in [Fns -> Queues \cup {None}]
  /\ heap \subseteq Event
  /\ dropped \subseteq Event
  /\ read \in [Fns -> {"none", "intact", "garbage"}]
  /\ log \in [Queues -> Seq(Event)]

OneHolder ==
  /\ \A q \in Queues :
       /\ IsInjective(active[q])
       /\ armed[q] \cap ToSet(active[q]) = {}
       /\ running[q] \notin Waiting(q)
       /\ dropped \cap Held(q) = {}
  /\ \A q, r \in Queues : q # r => Held(q) \cap Held(r) = {}

\* Every variable has its type, and an event in the loop is one once() can make.
\* proxy_call(timer_fun&&) allocates a closure that exactly one callback must
\* delete: an event is held in one place only, so that no closure is called or
\* deleted twice.
SingleHolder == TypeOK /\ OneHolder

\* The live closures are those of the events still held by a loop, which
\* therefore never dangle, and those of the events that libevent refused or
\* freed uncalled: the only leaks of once().
HeapOwned ==
  heap = {e \in dropped \cup UNION {Held(q) : q \in Queues} : OwnsHeap(e)}

\* What makes the two above inductive: an event belongs to a submitted functor,
\* and a requeue closure that has not run knows its queue and has not yet been
\* answered by an inner closure.
Submitted ==
  \A e \in dropped \cup UNION {Held(q) : q \in Queues} : e.fn \in sub

Routed ==
  \A q, r \in Queues, f \in Fns :
    Ev(f, "outer") \in Waiting(q) =>
      dest[f] \in Queues /\ Ev(f, "inner") \notin dropped \cup Held(r)

OnceInv == OneHolder /\ HeapOwned /\ Submitted /\ Routed

\* No trampoline reads a functor that is gone, except the requeue closure of a
\* functor that was a temporary of the call.
ReadsIntact ==
  \A f \in Fns : read[f] = "garbage" => f \in Temps /\ dest[f] # None

\* What makes it inductive: the objects that a trampoline may still read through
\* a pointer are there.
ObjectsKept ==
  /\ \A f \in Fns \ sub : obj[f] = "alive"
  /\ \A q \in Queues, f \in Fns :
       /\ Ev(f, "borrowed") \in Held(q) => f \in Named /\ obj[f] = "alive"
       /\ Ev(f, "outer") \in Held(q) /\ f \in Named => obj[f] = "alive"

\* The same of every functor, which is what example/evheap.cpp relies on when
\* it passes temporaries to q1.once(q2, ...).
RequeueReadsIntact == \A f \in Fns : read[f] # "garbage"

RunBefore(q, d, e) ==
  \E i, j \in DOMAIN log[q] : i < j /\ log[q][i] = d /\ log[q][j] = e

\* Functors carried from one queue to the same other queue run there in the
\* order their events fired on the first, unless a post failed.
RequeueInOrder ==
  \A q, d \in Queues, f, g \in Fns :
    /\ dest[f] = d /\ dest[g] = d
    /\ RunBefore(q, Ev(f, "outer"), Ev(g, "outer"))
    /\ Ev(g, "inner") \in ToSet(log[d])
    /\ Ev(f, "inner") \notin dropped
    => RunBefore(d, Ev(f, "inner"), Ev(g, "inner"))

Settled(f) ==
  \/ \E s \in {"borrowed", "owned", "inner"} : Ran(Ev(f, s))
  \/ \E e \in dropped : e.fn = f

\* While the loops keep running, every functor handed to once() is called on
\* its queue, or the event was refused.
Delivered ==
  (\A q \in Queues : <>[](loop[q] # "out"))
    => \A f \in Fns : f \in sub ~> Settled(f)

\* A loop that is told to stop does: by loop_break(), called by a callback or by
\* another thread while it runs, or by the loopexit() that dispatch(timeout) posts
\* and that still waits when it runs.
StopsWhenTold ==
  \A q \in Queues :
    /\ loop[q] # "out"
    /\ brk[q] \/ \E x \in Exits : Ev(x, "exit") \in Waiting(q)
    ~> loop[q] = "out"
=============================================================================
