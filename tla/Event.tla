------------------------------- MODULE Event -------------------------------
(***************************************************************************)
(* The event objects of e4pp: evcore over heap_event or stack_event, whose  *)
(* callback argument points to a functor of the caller or to one moved to   *)
(* the heap, and ev, which keeps its handler in itself.                     *)
(*                                                                          *)
(* One thread owns the objects; it, or another one unless loopIsOwner, runs *)
(* the loop of their queue.  libevent's side (which events are armed, due,  *)
(* running) is modelled from the calls that evtype.hpp and evcore.hpp make. *)
(*                                                                          *)
(* Bounds: each libevent event is allocated once (Events), each ev object   *)
(* is constructed once (Evs), and calls[e] counts up to MaxCalls.           *)
(***************************************************************************)
EXTENDS Naturals

CONSTANTS
  Cores,        \* evcore<heap_event> objects
  Stacks,       \* evcore<stack_event> objects
  Evs,          \* ev<timer_fun, heap_event> objects
  Events,       \* libevent events
  Functors,     \* functors of the caller, passed by reference
  MaxCalls,
  None

Objs == Cores \cup Stacks \cup Evs

ASSUME KindsAssumption ==
  Cores \cap Stacks = {} /\ Cores \cap Evs = {} /\ Stacks \cap Evs = {}
ASSUME EventNoneAssumption == None \notin Events
\* The second call of a functor is the one that may find it deleted.
ASSUME MaxCallsAssumption == MaxCalls \in Nat \ {0, 1}

\* What the argument of a callback points to: a functor of the caller, one on
\* the heap (named after its event), or the handler_ of an ev.
Borrowed(h) == [kind |-> "functor", at |-> h]
Owned(e) == [kind |-> "cell", at |-> e]
Member(o) == [kind |-> "member", at |-> o]
NoArg == [kind |-> "none", at |-> None]

Arg == {NoArg} \cup {Borrowed(h) : h \in Functors}
         \cup {Owned(e) : e \in Events} \cup {Member(o) : o \in Evs}

VARIABLES
  loopIsOwner,  \* the thread that owns the objects is the one of the loop: chosen
                \* at the start, for both are how the program may use them
  owns,      \* owns[o]: the event of object o, or None when it is empty()
  handler,   \* handler[o]: the handler_ of an ev object
  moved,     \* history: the ev objects that were moved from
  alive,     \* the events allocated and not freed
  armed,     \* the events added to the queue
  due,       \* the events whose callback is due
  running,   \* the event whose callback the loop executes
  arg,       \* arg[e]: the callback argument of e
  persist,   \* persist[e]: EV_PERSIST
  functor,   \* functor[h]: the caller's functor object
  cells,     \* the events whose heap functor is allocated
  exposed,   \* history: the events that an ev armed in its constructor, or
             \* had not removed when its destructor began
  calls,     \* calls[e]: how often the callback of e was called
  saw        \* saw[e]: what its calls found where they read the functor

objects == <<owns, handler, moved>>
pending == <<armed, due>>
fixed == <<loopIsOwner, arg, persist>>
memory == <<functor, cells>>
reads == <<calls, saw>>
vars == <<loopIsOwner, owns, handler, moved, alive, armed, due, running, arg,
          persist, functor, cells, exposed, calls, saw>>

Init ==
  /\ loopIsOwner \in BOOLEAN
  /\ owns = [o \in Objs |-> None]
  /\ handler = [o \in Evs |-> "raw"] /\ moved = {}
  /\ alive = {} /\ armed = {} /\ due = {} /\ running = None
  /\ arg = [e \in Events |-> NoArg]
  /\ persist = [e \in Events |-> FALSE]
  /\ functor = [h \in Functors |-> "alive"]
  /\ cells = {} /\ exposed = {}
  /\ calls = [e \in Events |-> 0]
  /\ saw = [e \in Events |-> {}]

\* The thread of the owner is not inside the constructor or destructor of an
\* ev, so that it may do something else.
Between == \A o \in Evs : owns[o] = None \/ handler[o] \in {"set", "moved"}

-----------------------------------------------------------------------------
(* evcore: objects that are always there, empty or not.                     *)

\* event_new() or event_assign(); create() asserts that the object is empty.
NewEvent(o, e, a, p) ==
  /\ owns[o] = None /\ arg[e] = NoArg
  /\ owns' = [owns EXCEPT ![o] = e]
  /\ alive' = alive \cup {e}
  /\ arg' = [arg EXCEPT ![e] = a]
  /\ persist' = [persist EXCEPT ![e] = p]
  /\ UNCHANGED loopIsOwner

\* event_del() waits for a callback that runs in another thread.
NotRunning(e) == loopIsOwner \/ running # e

\* event_free(), or event_del() and a clear, of the events gone.
Free(gone) ==
  /\ \A e \in gone : NotRunning(e)
  /\ alive' = alive \ gone
  /\ armed' = armed \ gone
  /\ due' = due \ gone

\* create(queue, fd, ef, fn), or the constructor from the same arguments, with
\* an lvalue std::function or timer_fn.
CreateRef(o, e, h, p) ==
  /\ functor[h] = "alive"
  /\ NewEvent(o, e, Borrowed(h), p)
  /\ UNCHANGED <<handler, moved, pending, running, memory, exposed, reads>>

\* The same with a lambda: proxy_call() moves it to the heap, and its
\* trampoline deletes it once called.
CreateOwned(o, e, p) ==
  /\ NewEvent(o, e, Owned(e), p)
  /\ cells' = cells \cup {e}
  /\ UNCHANGED <<handler, moved, pending, running, functor, exposed, reads>>

\* event_new() fails after proxy_call() has allocated; check_pointer() throws,
\* and nothing will delete the functor any more.
CreateFails(e) ==
  /\ arg[e] = NoArg
  /\ arg' = [arg EXCEPT ![e] = Owned(e)]
  /\ cells' = cells \cup {e}
  /\ UNCHANGED <<objects, alive, pending, running, loopIsOwner, persist, functor,
                 exposed, reads>>

\* add() on an event that is due by its timeout may put the callback off.
Add(o) ==
  LET e == owns[o] IN
  /\ e # None
  /\ armed' = armed \cup {e}
  /\ due' \in {due, due \ {e}}
  /\ UNCHANGED <<objects, alive, running, fixed, memory, exposed, reads>>

Remove(o) ==
  LET e == owns[o] IN
  /\ e # None /\ NotRunning(e)
  /\ armed' = armed \ {e}
  /\ due' = due \ {e}
  /\ UNCHANGED <<objects, alive, running, fixed, memory, exposed, reads>>

\* Mutant: no assert_handle().
ActiveEmpty(o) ==
  /\ due' = due \cup {owns[o]}
  /\ UNCHANGED <<objects, alive, armed, running, fixed, memory, exposed, reads>>

\* active(); the handle of an empty object fails assert_handle().
Active(o) ==
  /\ owns[o] # None
  /\ due' = due \cup {owns[o]}
  /\ UNCHANGED <<objects, alive, armed, running, fixed, memory, exposed, reads>>

\* Mutant: the functor on the heap is deleted as well.
DestroyDeletes(o) ==
  /\ owns[o] # None
  /\ Free({owns[o]})
  /\ owns' = [owns EXCEPT ![o] = None]
  /\ cells' = cells \ {owns[o]}
  /\ UNCHANGED <<handler, moved, running, fixed, functor, exposed, reads>>

\* Mutant: nothing takes the event out of the loop.
DestroyArmed(o) ==
  /\ owns[o] # None
  /\ alive' = alive \ {owns[o]}
  /\ owns' = [owns EXCEPT ![o] = None]
  /\ UNCHANGED <<handler, moved, pending, running, fixed, memory, exposed, reads>>

\* destroy(), or the destructor of an evcore.
Destroy(o) ==
  /\ owns[o] # None
  /\ Free({owns[o]})
  /\ owns' = [owns EXCEPT ![o] = None]
  /\ UNCHANGED <<handler, moved, running, fixed, memory, exposed, reads>>

\* Mutant: the source keeps its handle.
MoveCoreCopies(o, p) ==
  /\ o # p /\ owns[o] # None
  /\ Free({owns[p]} \ {None})
  /\ owns' = [owns EXCEPT ![p] = owns[o]]
  /\ UNCHANGED <<handler, moved, running, fixed, memory, exposed, reads>>

\* heap_event& operator=(heap_event&&): frees what the target had.
MoveCore(o, p) ==
  /\ o # p /\ owns[o] # None
  /\ Free({owns[p]} \ {None})
  /\ owns' = [owns EXCEPT ![p] = owns[o], ![o] = None]
  /\ UNCHANGED <<handler, moved, running, fixed, memory, exposed, reads>>

\* The program keeps a functor while an event points to it, and does not end it
\* inside its own callback.
EndLife(h) ==
  /\ functor[h] = "alive"
  /\ \A e \in alive : arg[e] # Borrowed(h)
  /\ loopIsOwner /\ running # None => arg[running] # Borrowed(h)
  /\ functor' = [functor EXCEPT ![h] = "dead"]
  /\ saw' = [e \in Events |-> IF e = running /\ arg[e] = Borrowed(h)
                              THEN saw[e] \cup {"dead"} ELSE saw[e]]
  /\ UNCHANGED <<objects, alive, pending, running, fixed, cells, exposed, calls>>

-----------------------------------------------------------------------------
(* ev: its base class, which holds the event, is constructed before and     *)
(* destroyed after the handler that the event points to.                    *)

\* The constructor's first half.  Those that take a duration add the event, as
\* does the one for timers that takes a timeval; the one for sockets that takes
\* a timeval drops it.
ConstructBase(o, e, timed, p) ==
  /\ handler[o] = "raw"
  /\ NewEvent(o, e, Member(o), p)
  /\ armed' = armed \cup (IF timed THEN {e} ELSE {})
  /\ exposed' = exposed \cup (IF timed THEN {e} ELSE {})
  /\ UNCHANGED <<handler, moved, due, running, memory, reads>>

ConstructHandler(o) ==
  /\ handler[o] = "raw" /\ owns[o] # None
  /\ handler' = [handler EXCEPT ![o] = "set"]
  /\ UNCHANGED <<owns, moved, alive, pending, running, fixed, memory, exposed,
                 reads>>

\* ev(ev&&) and operator=(ev&&): the event goes over with its argument unchanged.
MoveEv(o, p) ==
  /\ o # p /\ handler[o] = "set" /\ handler[p] \in {"raw", "set", "moved"}
  /\ Free({owns[p]} \ {None})
  /\ owns' = [owns EXCEPT ![p] = owns[o], ![o] = None]
  /\ handler' = [handler EXCEPT ![p] = "set", ![o] = "moved"]
  /\ moved' = moved \cup {o}
  /\ UNCHANGED <<running, fixed, memory, exposed, reads>>

\* ~ev(), first half; no callback of the thread's own destroys its handler.
DestroyHandler(o) ==
  /\ handler[o] \in {"set", "moved"}
  /\ loopIsOwner /\ running # None => arg[running] # Member(o)
  /\ handler' = [handler EXCEPT ![o] = "dead"]
  /\ exposed' = exposed \cup
       (({owns[o]} \cap (armed \cup due \cup {running})) \ {None})
  /\ saw' = [e \in Events |-> IF e = running /\ arg[e] = Member(o)
                              THEN saw[e] \cup {"dead"} ELSE saw[e]]
  /\ UNCHANGED <<owns, moved, alive, pending, running, fixed, memory, calls>>

\* Mutant: nothing takes the event out of the loop.
DestroyBaseArmed(o) ==
  /\ handler[o] = "dead" /\ owns[o] # None
  /\ alive' = alive \ {owns[o]}
  /\ owns' = [owns EXCEPT ![o] = None]
  /\ UNCHANGED <<handler, moved, pending, running, fixed, memory, exposed, reads>>

\* ~ev(), second half.
DestroyBase(o) ==
  /\ handler[o] = "dead" /\ owns[o] # None
  /\ Free({owns[o]})
  /\ owns' = [owns EXCEPT ![o] = None]
  /\ UNCHANGED <<handler, moved, running, fixed, memory, exposed, reads>>

-----------------------------------------------------------------------------
(* Callbacks.                                                               *)

\* Memory that is gone may still look intact, and so may a moved-from handler.
Found(e) ==
  LET a == arg[e].at IN
  CASE arg[e].kind = "functor" -> {"intact"} \cup ({functor[a]} \ {"alive"})
    [] arg[e].kind = "cell" -> {"intact"} \cup (IF e \in cells THEN {} ELSE {"deleted"})
    [] arg[e].kind = "member" -> IF handler[a] = "set" THEN {"intact"}
                                 ELSE {"intact", handler[a]}

Invoke(e) ==
  /\ \E r \in Found(e) : saw' = [saw EXCEPT ![e] = @ \cup {r}]
  /\ calls' = [calls EXCEPT ![e] = IF @ < MaxCalls THEN @ + 1 ELSE @]

\* What an armed event waited for happens.
Fire(e) ==
  /\ e \in armed
  /\ due' = due \cup {e}
  /\ armed' = IF persist[e] THEN armed ELSE armed \ {e}
  /\ UNCHANGED <<objects, alive, running, fixed, memory, exposed, reads>>

\* The loop calls the trampoline of a due event.
Call(e) ==
  /\ loopIsOwner => Between
  /\ running = None /\ e \in due
  /\ due' = due \ {e}
  /\ armed' = IF persist[e] THEN armed ELSE armed \ {e}
  /\ running' = e
  /\ Invoke(e)
  /\ UNCHANGED <<objects, alive, fixed, memory, exposed>>

\* The trampoline returns; that of an owned functor deletes it, which exec()
\* may have done already.
EndCall ==
  /\ running # None
  /\ running' = None
  /\ IF arg[running].kind = "cell"
       THEN /\ cells' = cells \ {running}
            /\ saw' = [saw EXCEPT ![running] =
                         @ \cup (IF running \in cells THEN {} ELSE {"deleted"})]
       ELSE UNCHANGED <<cells, saw>>
  /\ UNCHANGED <<objects, alive, pending, fixed, functor, exposed, calls>>

\* exec(): the owner's thread calls the trampoline itself, from start to end.
Exec(o) ==
  LET e == owns[o] IN
  /\ e # None
  /\ Invoke(e)
  /\ cells' = IF arg[e].kind = "cell" THEN cells \ {e} ELSE cells
  /\ UNCHANGED <<objects, alive, pending, running, fixed, functor, exposed>>

-----------------------------------------------------------------------------
EvcoreNext ==
  /\ Between
  /\ \/ \E o \in Cores \cup Stacks, e \in Events, p \in BOOLEAN :
          (\E h \in Functors : CreateRef(o, e, h, p)) \/ CreateOwned(o, e, p)
     \/ \E e \in Events : CreateFails(e)
     \/ \E o \in Objs : Add(o) \/ Remove(o) \/ Active(o) \/ Destroy(o)
     \/ \E o \in Cores \cup Stacks : Exec(o)
     \/ \E o, p \in Cores : MoveCore(o, p)
     \/ \E h \in Functors : EndLife(h)

EvNext ==
  \/ \E o \in Evs : ConstructHandler(o) \/ DestroyBase(o)
  \/ /\ Between
     /\ \/ \E o \in Evs, e \in Events, timed, p \in BOOLEAN :
             ConstructBase(o, e, timed, p)
        \/ \E o, p \in Evs : MoveEv(o, p)
        \/ \E o \in Evs : DestroyHandler(o)

LoopNext == EndCall \/ \E e \in Events : Fire(e) \/ Call(e)

Next == EvcoreNext \/ EvNext \/ LoopNext

Spec == Init /\ [][Next]_vars

-----------------------------------------------------------------------------
(* Properties.                                                              *)

\* Every variable keeps its type; in particular only events become due.
TypeOK ==
  /\ loopIsOwner \in BOOLEAN
  /\ owns \in [Objs -> Events \cup {None}]
  /\ handler \in [Evs -> {"raw", "set", "moved", "dead"}]
  /\ moved \subseteq Evs
  /\ alive \subseteq Events /\ armed \subseteq Events /\ due \subseteq Events
  /\ running \in Events \cup {None}
  /\ arg \in [Events -> Arg]
  /\ persist \in [Events -> BOOLEAN]
  /\ functor \in [Functors -> {"alive", "dead"}]
  /\ cells \subseteq Events /\ exposed \subseteq Events
  /\ calls \in [Events -> 0 .. MaxCalls]
  /\ saw \in [Events -> SUBSET {"intact", "raw", "moved", "dead", "deleted"}]

\* Through any sequence of constructions, moves and destructions each event has
\* exactly one owner, and the loop holds no event that has none: nothing is
\* freed twice and nothing freed can be called.
SingleOwner ==
  /\ alive = {owns[o] : o \in Objs} \ {None}
  /\ \A o, p \in Objs : owns[o] = owns[p] => o = p \/ owns[o] = None
  /\ armed \cup due \subseteq alive

\* A callback always finds the caller's functor it was created with, even if
\* the owner destroys the event, and then the functor, while another thread is
\* about to call it or inside the call.
FunctorsIntact ==
  \A e \in Events : arg[e].kind = "functor" => saw[e] \subseteq {"intact"}

\* A functor that was moved to the heap is there for the first call, and is
\* deleted at most once for each call: destroying the event does not pull it
\* from under the trampoline.
CellsIntact ==
  \A e \in Events : arg[e].kind = "cell" =>
    /\ e \in alive /\ calls[e] = 0 => e \in cells
    /\ "deleted" \in saw[e] => calls[e] > 1

\* The callback of an ev finds its handler, with three exceptions: the ev was
\* moved (the event still points into the old object); or the loop runs in
\* another thread and the ev was constructed with a timeout, or destroyed
\* without remove().
MembersIntact ==
  \A e \in Events : arg[e].kind = "member" =>
    \/ saw[e] \subseteq {"intact"}
    \/ arg[e].at \in moved
    \/ ~loopIsOwner /\ e \in exposed
=============================================================================
