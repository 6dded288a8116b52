----------------------------- MODULE HttpClient -----------------------------
(***************************************************************************)
(* The http client of e4pp: request and connection objects that own an      *)
(* evhttp_request or an evhttp_connection, the hand-over of a request to a  *)
(* connection, and the functors that its callbacks reach through a pointer. *)
(*                                                                          *)
(* One thread.  What libevent does next on behalf of the step under way is  *)
(* the agenda, a stack of callbacks: its head is about to be called, or it  *)
(* is a callback of the program, inside which the program may do anything.  *)
(* A step that touches freed memory is recorded in faults and ends the      *)
(* program.                                                                 *)
(*                                                                          *)
(* Bounds: each request (Reqs), connection (Conns) and functor moved to the *)
(* heap (Cells) is allocated once.                                          *)
(***************************************************************************)
EXTENDS Naturals, Sequences, SequencesExt

CONSTANTS
  Requests,     \* e4pp::http::request objects
  Connections,  \* e4pp::http::connection objects
  Reqs,         \* evhttp_request structures
  Conns,        \* evhttp_connection structures
  Functors,     \* functors of the caller, passed by reference
  Cells,        \* functors that on_close() moves to the heap
  None

Objs == Requests \cup Connections

ASSUME ObjectsAssumption == Requests \cap Connections = {}
ASSUME StructuresAssumption == Reqs \cap Conns = {}
ASSUME FunctorsAssumption == Functors \cap Cells = {}
ASSUME NoneAssumption ==
  None \notin Objs \cup Reqs \cup Conns \cup Functors \cup Cells

VARIABLES
  handle,       \* handle[o]: what object o owns, or None
  fn,           \* fn[r]: the functor of request r, None before it is allocated
  errs,         \* the requests with an error callback
  own,          \* the requests on which own() was called
  freed,        \* the requests and connections that were freed
  made,         \* the connections that exist or existed
  up,           \* the connections that are connected, or whose close callback runs
  queue,        \* queue[c]: the requests on connection c
  closecb,      \* closecb[c]: the functor that on_close() set
  life,         \* life[f]: whether functor f is alive
  agenda,       \* the callbacks that are running or to be called, and what is
                \* left of a free after the close callback it makes
  outstanding,  \* the requests whose result the program still awaits
  told,         \* told[r]: history of what the functor of r was told
  dismissed,    \* history: the requests cancelled, or freed with their connection
  misuse,       \* history: what the program should not have done
  faults        \* what went wrong

reqs == <<fn, errs, own>>
conns == <<made, up, queue, closecb>>
outcome == <<outstanding, told, dismissed>>
vars == <<handle, fn, errs, own, freed, made, up, queue, closecb, life,
          agenda, outstanding, told, dismissed, misuse, faults>>

Init ==
  /\ handle = [o \in Objs |-> None]
  /\ fn = [r \in Reqs |-> None]
  /\ errs = {} /\ own = {} /\ freed = {} /\ made = {} /\ up = {}
  /\ queue = [c \in Conns |-> <<>>]
  /\ closecb = [c \in Conns |-> None]
  /\ life = [f \in Functors \cup Cells |-> IF f \in Cells THEN "raw" ELSE "alive"]
  /\ agenda = <<>>
  /\ outstanding = {} /\ told = [r \in Reqs |-> <<>>] /\ dismissed = {}
  /\ misuse = {} /\ faults = {}

-----------------------------------------------------------------------------
(* The agenda.                                                              *)

\* Callback cb of request or connection x, with functor f as its argument.
Item(cb, x, f) == [cb |-> cb, of |-> x, arg |-> f, runs |-> FALSE]
OnAgenda(cb, x) == \E i \in DOMAIN agenda : agenda[i].cb = cb /\ agenda[i].of = x
Inside(cb, x) ==
  \E i \in DOMAIN agenda : agenda[i].cb = cb /\ agenda[i].of = x /\ agenda[i].runs

\* The program's code executes: in a callback or outside of the loop's.
Program == agenda # <<>> => Head(agenda).runs

\* evhttp_connection_reset_() on a connection that is up calls the close callback,
\* and the connection counts as connected until that has returned.
ResetItems(c) ==
  IF c \in up /\ closecb[c] # None THEN <<Item("close", c, closecb[c])>> ELSE <<>>
Reset(c) == up' = IF closecb[c] = None THEN up \ {c} ELSE up

ErrorItems(r) == IF r \in errs THEN <<Item("error", r, fn[r])>> ELSE <<>>

\* s without the element at the place in at, if there is one.
Without(s, at) == IF at = {} THEN s ELSE RemoveAt(s, CHOOSE i \in at : TRUE)

\* Frees the structures xs.
Free(xs) ==
  /\ freed' = freed \cup xs
  /\ faults' = faults \cup (IF xs \cap freed # {} THEN {"double free"} ELSE {})

Held(r) == \E o \in Requests : handle[o] = r
Queued(r) == \E c \in Conns \ freed : r \in ToSet(queue[c])
Note(what, if) == misuse' = IF if THEN misuse \cup {what} ELSE misuse

-----------------------------------------------------------------------------
(* request objects.                                                         *)

\* evhttp_request_new().
Allocate(r, f) ==
  /\ fn[r] = None /\ life[f] = "alive"
  /\ fn' = [fn EXCEPT ![r] = f]

\* The constructors and create_request(), with an error callback or without.
ConstructRequest(o, r, f, err) ==
  /\ Program
  /\ handle[o] = None
  /\ Allocate(r, f)
  /\ handle' = [handle EXCEPT ![o] = r]
  /\ errs' = IF err THEN errs \cup {r} ELSE errs
  /\ UNCHANGED <<own, freed, conns, life, agenda, outcome, misuse, faults>>

\* create() frees what the object had.
CreateRequest(o, r, f) ==
  /\ Program
  /\ Allocate(r, f)
  /\ handle' = [handle EXCEPT ![o] = r]
  /\ Free({handle[o]} \ {None})
  /\ UNCHANGED <<errs, own, conns, life, agenda, outcome, misuse>>

\* close() and the destructor.
CloseRequest(o) ==
  /\ Program
  /\ handle[o] # None
  /\ handle' = [handle EXCEPT ![o] = None]
  /\ Free({handle[o]})
  /\ UNCHANGED <<reqs, conns, life, agenda, outcome, misuse>>

\* Mutant: the source keeps its handle.
MoveCopies(o, p) ==
  /\ Program
  /\ handle' = [handle EXCEPT ![p] = handle[o]]
  /\ UNCHANGED <<reqs, freed, conns, life, agenda, outcome, misuse, faults>>

\* Moving swaps the handles, of two requests or of two connections.
Move(o, p) ==
  /\ Program
  /\ handle' = [handle EXCEPT ![p] = handle[o], ![o] = handle[p]]
  /\ UNCHANGED <<reqs, freed, conns, life, agenda, outcome, misuse, faults>>

\* release(): the caller has the pointer.
Release(o) ==
  /\ Program
  /\ handle[o] # None
  /\ handle' = [handle EXCEPT ![o] = None]
  /\ UNCHANGED <<reqs, freed, conns, life, agenda, outcome, misuse, faults>>

\* own(), from the callback that is given the request.
Own(r) ==
  /\ Inside("done", r) /\ Head(agenda).of = r /\ r \notin freed
  /\ own' = own \cup {r}
  /\ UNCHANGED <<handle, fn, errs, freed, conns, life, agenda, outcome,
                 misuse, faults>>

\* Where the callback of r is to come, for a response or for a failed attempt to
\* connect, which calls those of the connection one after the other.
Due(r) == {i \in DOMAIN agenda :
             ~agenda[i].runs /\ agenda[i].cb = "done" /\ agenda[i].of = r}
Unconnected(r) == {i \in Due(r) : agenda[i - 1].cb = "done"}

\* cancel(), of a request the program has not seen the end of.  A request that
\* is on no connection is freed, whoever holds it or is about to be told of it.
\* One that waits to be told of a failed attempt to connect is taken out of the
\* list of that attempt as if it were in the list of its connection, which may
\* then end in memory that is gone.
Cancel(r) ==
  /\ Program
  /\ r \in outstanding \/ Held(r) \/ Inside("done", r)
  /\ misuse' = misuse
       \cup (IF Held(r) THEN {"cancel held"} ELSE {})
       \cup (IF Inside("done", r) THEN {"cancel told"} ELSE {})
       \cup (IF Due(r) # {} THEN {"cancel done"} ELSE {})
       \cup (IF r \in outstanding /\ r \in freed THEN {"cancel failed"} ELSE {})
  /\ outstanding' = outstanding \ {r}
  /\ dismissed' = IF r \in outstanding THEN dismissed \cup {r} ELSE dismissed
  /\ freed' = IF r \in own THEN freed ELSE freed \cup {r}
  /\ \/ faults' = faults \cup (IF r \in freed THEN {"use after free"} ELSE {})
     \/ Unconnected(r) # {} /\ faults' = faults \cup {"use after free"}
  /\ queue' = [c \in Conns |->
       Without(queue[c], {i \in DOMAIN queue[c] : queue[c][i] = r})]
  /\ LET first == {c \in Conns : queue[c] # <<>> /\ Head(queue[c]) = r}
         rest == Without(agenda, Unconnected(r))
     IN \/ /\ first = {}
           /\ agenda' = rest /\ UNCHANGED up
        \/ \E c \in first :
           /\ agenda' = ResetItems(c) \o ErrorItems(r) \o rest
           /\ Reset(c)
  /\ UNCHANGED <<handle, reqs, made, closecb, life, told>>

-----------------------------------------------------------------------------
(* connection objects.                                                      *)

\* evhttp_connection_free() calls the close callback, which finds the requests
\* still on the connection,
FreeConnection(c) ==
  /\ Note("close inside", OnAgenda("close", c))
  /\ agenda' = ResetItems(c) \o <<Item("free", c, None)>> \o agenda

\* and then frees those that are left, which nobody is told of, and itself.
FreeRest(c) ==
  LET on == ToSet(queue[c]) IN
  /\ agenda # <<>> /\ Head(agenda) = Item("free", c, None)
  /\ agenda' = Tail(agenda)
  /\ Free({c} \cup on)
  /\ queue' = [queue EXCEPT ![c] = <<>>]
  /\ up' = up \ {c}
  /\ outstanding' = outstanding \ on
  /\ dismissed' = dismissed \cup on
  /\ UNCHANGED <<handle, reqs, made, closecb, life, told, misuse>>

\* The constructors; the one from a buffer_event takes its bufferevent.
ConstructConnection(k, c) ==
  /\ Program
  /\ handle[k] = None /\ c \notin made
  /\ made' = made \cup {c}
  /\ handle' = [handle EXCEPT ![k] = c]
  /\ UNCHANGED <<reqs, freed, up, queue, closecb, life, agenda, outcome, misuse,
                 faults>>

\* create() closes the connection that the object had.
CreateConnection(k, c) ==
  /\ Program
  /\ handle[k] # None /\ c \notin made
  /\ made' = made \cup {c}
  /\ handle' = [handle EXCEPT ![k] = c]
  /\ FreeConnection(handle[k])
  /\ UNCHANGED <<reqs, freed, up, queue, closecb, life, outcome, faults>>

\* close() and the destructor.
CloseConnection(k) ==
  /\ Program
  /\ handle[k] # None
  /\ handle' = [handle EXCEPT ![k] = None]
  /\ FreeConnection(handle[k])
  /\ UNCHANGED <<reqs, freed, conns, life, outcome, faults>>

\* on_close() with a closecb_fn or a closecb_fun of the caller.
OnCloseRef(k, f) ==
  /\ Program
  /\ handle[k] # None /\ life[f] = "alive"
  /\ closecb' = [closecb EXCEPT ![handle[k]] = f]
  /\ UNCHANGED <<handle, reqs, freed, made, up, queue, life, agenda, outcome,
                 misuse, faults>>

\* on_close() with a lambda, which proxy_call() moves to the heap.
OnCloseMove(k, f) ==
  /\ Program
  /\ handle[k] # None /\ life[f] = "raw"
  /\ closecb' = [closecb EXCEPT ![handle[k]] = f]
  /\ life' = [life EXCEPT ![f] = "alive"]
  /\ UNCHANGED <<handle, reqs, freed, made, up, queue, agenda, outcome, misuse,
                 faults>>

\* Mutant: a refusal is not reported.
MakeSwallows(r, c) ==
  /\ outstanding' = outstanding \cup {r}
  /\ \/ /\ queue' = [queue EXCEPT ![c] = Append(@, r)]
        /\ faults' = faults \cup (IF r \in freed THEN {"use after free"} ELSE {})
        /\ UNCHANGED <<freed, told>>
     \/ Free({r}) /\ UNCHANGED <<queue, told>>

\* evhttp_make_request() takes the request, or frees it and check_result() throws.
Make(r, c) ==
  \/ /\ queue' = [queue EXCEPT ![c] = Append(@, r)]
     /\ outstanding' = outstanding \cup {r}
     /\ faults' = faults \cup (IF r \in freed THEN {"use after free"} ELSE {})
     /\ UNCHANGED <<freed, told>>
  \/ /\ Free({r})
     /\ told' = [told EXCEPT ![r] = Append(@, "refused")]
     /\ UNCHANGED <<queue, outstanding>>

\* make_request(request, ...).
MakeRequest(o, k) ==
  /\ Program
  /\ handle[o] # None /\ handle[k] # None
  /\ Make(handle[o], handle[k])
  /\ handle' = [handle EXCEPT ![o] = None]
  /\ UNCHANGED <<reqs, made, up, closecb, life, agenda, dismissed, misuse>>

\* make_request(evhttp_request*, ...), of a request that was released.
MakeReleased(r, k) ==
  /\ Program
  /\ fn[r] # None /\ r \notin freed /\ ~Held(r) /\ ~Queued(r)
  /\ ~OnAgenda("done", r) /\ told[r] = <<>>
  /\ handle[k] # None
  /\ Make(r, handle[k])
  /\ UNCHANGED <<handle, reqs, made, up, closecb, life, agenda, dismissed, misuse>>

-----------------------------------------------------------------------------
(* The caller's functors.                                                   *)

\* An object that still is to be called, or that executes.  After the error
\* callback, and once it has cancelled it, the program takes a request for finished.
Wanted(f) ==
  \/ \E r \in Reqs \ freed : fn[r] = f
  \/ \E r \in outstanding : fn[r] = f
  \/ \E c \in made \ freed : closecb[c] = f
  \/ \E i \in DOMAIN agenda :
       /\ agenda[i].arg = f
       /\ agenda[i].cb = "done" => agenda[i].runs \/ agenda[i].of \in outstanding
       /\ agenda[i].cb = "error" => ~agenda[i].runs
       /\ agenda[i].cb = "null" => agenda[i].runs

EndLife(f) ==
  /\ Program
  /\ life[f] = "alive" /\ ~Wanted(f)
  /\ life' = [life EXCEPT ![f] = "dead"]
  /\ Note("ended on error", \E r \in Reqs : OnAgenda("null", r) /\ fn[r] = f)
  /\ UNCHANGED <<handle, reqs, freed, conns, agenda, outcome, faults>>

-----------------------------------------------------------------------------
(* What happens to a connection.                                            *)

\* A connection with something to send connects,
Connect(c) ==
  /\ agenda = <<>>
  /\ c \in made \ freed /\ c \notin up /\ queue[c] # <<>>
  /\ up' = up \cup {c}
  /\ UNCHANGED <<handle, reqs, freed, made, queue, closecb, life, agenda, outcome,
                 misuse, faults>>

\* or fails to, and every request on it is called back with no response.
ConnectFails(c) ==
  /\ agenda = <<>>
  /\ c \in made \ freed /\ c \notin up /\ queue[c] # <<>>
  /\ agenda' = [i \in DOMAIN queue[c] |-> Item("done", queue[c][i], fn[queue[c][i]])]
  /\ queue' = [queue EXCEPT ![c] = <<>>]
  /\ UNCHANGED <<handle, reqs, freed, made, up, closecb, life, outcome, misuse,
                 faults>>

\* The response is complete; the connection closes unless it is kept alive.
Complete(c, keep) ==
  /\ agenda = <<>>
  /\ c \in up /\ queue[c] # <<>>
  /\ LET r == Head(queue[c]) IN
       agenda' = (IF keep THEN <<>> ELSE ResetItems(c)) \o <<Item("done", r, fn[r])>>
  /\ queue' = [queue EXCEPT ![c] = Tail(@)]
  /\ IF keep THEN UNCHANGED up ELSE Reset(c)
  /\ UNCHANGED <<handle, reqs, freed, made, closecb, life, outcome, misuse, faults>>

\* The first request fails (timeout, reset, bad response): it is freed, then the
\* close callback, its error callback and its callback, without it, are called.
Fail(c) ==
  /\ agenda = <<>>
  /\ c \in up /\ queue[c] # <<>>
  /\ LET r == Head(queue[c]) IN
     /\ Free({r} \ own)
     /\ agenda' = ResetItems(c) \o ErrorItems(r) \o <<Item("null", r, fn[r])>>
  /\ queue' = [queue EXCEPT ![c] = Tail(@)]
  /\ Reset(c)
  /\ UNCHANGED <<handle, reqs, made, closecb, life, outcome, misuse>>

\* The server closes an idle connection.
PeerCloses(c) ==
  /\ agenda = <<>>
  /\ c \in up /\ queue[c] = <<>>
  /\ agenda' = ResetItems(c)
  /\ Reset(c)
  /\ UNCHANGED <<handle, reqs, freed, made, queue, closecb, life, outcome, misuse,
                 faults>>

-----------------------------------------------------------------------------
(* The trampolines.                                                         *)

\* The fault of a trampoline that finds functor f gone.
Lacks(f) ==
  IF life[f] = "alive" THEN {} ELSE IF f \in Cells THEN {"dead cell"} ELSE {"dead functor"}

\* The one of the head of the agenda calls the functor it points to.
Call ==
  /\ agenda # <<>> /\ ~Head(agenda).runs /\ Head(agenda).cb # "free"
  /\ agenda' = [agenda EXCEPT ![1].runs = TRUE]
  /\ LET item == Head(agenda)  x == item.of IN
     /\ faults' = faults \cup Lacks(item.arg)
          \cup (IF item.cb = "done" /\ x \in freed THEN {"use after free"} ELSE {})
     /\ IF item.cb \in {"done", "error", "null"}
          THEN /\ told' = [told EXCEPT ![x] = Append(@, item.cb)]
               /\ outstanding' = outstanding \ {x}
          ELSE UNCHANGED <<told, outstanding>>
  /\ UNCHANGED <<handle, reqs, freed, conns, life, dismissed, misuse>>

\* What libevent does with request or connection x after its callback.
Resume(cb, x) ==
  /\ IF cb = "done" THEN Free({x} \ own)
       ELSE /\ faults' = faults \cup
                 (IF cb = "close" /\ x \in freed THEN {"use after free"} ELSE {})
            /\ UNCHANGED freed
  /\ up' = IF cb = "close" THEN up \ {x} ELSE up

\* Mutant: a functor passed by reference is deleted, too.
ReturnDeletesAll ==
  /\ agenda # <<>> /\ Head(agenda).runs
  /\ agenda' = Tail(agenda)
  /\ LET item == Head(agenda) IN
     /\ life' = [life EXCEPT ![item.arg] = "dead"]
     /\ Resume(item.cb, item.of)
  /\ UNCHANGED <<handle, reqs, made, queue, closecb, outcome, misuse>>

\* It returns: a functor that was moved to the heap is deleted.  libevent frees a
\* request that it has called back, unless the program owns it, and goes on with a
\* connection that closes.
Return ==
  /\ agenda # <<>> /\ Head(agenda).runs
  /\ agenda' = Tail(agenda)
  /\ LET item == Head(agenda) IN
     \/ /\ item.arg \in Functors
        /\ Resume(item.cb, item.of)
        /\ UNCHANGED life
     \/ /\ item.arg \in Cells /\ life[item.arg] = "alive"
        /\ life' = [life EXCEPT ![item.arg] = "dead"]
        /\ Resume(item.cb, item.of)
     \/ /\ item.arg \in Cells /\ life[item.arg] # "alive"
        /\ faults' = faults \cup {"dead cell"}
        /\ UNCHANGED <<life, freed, up>>
  /\ UNCHANGED <<handle, reqs, made, queue, closecb, outcome, misuse>>

-----------------------------------------------------------------------------
RequestNext ==
  \/ \E o \in Requests, r \in Reqs, f \in Functors :
       \/ \E err \in BOOLEAN : ConstructRequest(o, r, f, err)
       \/ CreateRequest(o, r, f)
  \/ \E o \in Requests : CloseRequest(o)
  \/ \E o, p \in Requests : o # p /\ Move(o, p)
  \/ \E o \in Requests : Release(o)
  \/ \E r \in Reqs : Own(r) \/ Cancel(r)

ConnectionNext ==
  \/ \E k \in Connections, c \in Conns :
       ConstructConnection(k, c) \/ CreateConnection(k, c)
  \/ \E k \in Connections : CloseConnection(k) \/ Release(k)
  \/ \E k, l \in Connections : k # l /\ Move(k, l)
  \/ \E k \in Connections, f \in Functors : OnCloseRef(k, f)
  \/ \E k \in Connections, f \in Cells : OnCloseMove(k, f)
  \/ \E o \in Requests, k \in Connections : MakeRequest(o, k)
  \/ \E r \in Reqs, k \in Connections : MakeReleased(r, k)

LoopNext ==
  \/ \E c \in Conns :
       \/ Connect(c) \/ ConnectFails(c) \/ Fail(c) \/ PeerCloses(c) \/ FreeRest(c)
       \/ \E keep \in BOOLEAN : Complete(c, keep)
  \/ Call \/ Return

Next ==
  /\ faults = {}
  /\ \/ RequestNext \/ ConnectionNext \/ LoopNext
     \/ \E f \in Functors : EndLife(f)

Spec == Init /\ [][Next]_vars

-----------------------------------------------------------------------------
(* Properties.                                                              *)

TypeOK ==
  /\ handle \in [Objs -> Reqs \cup Conns \cup {None}]
  /\ \A o \in Requests : handle[o] \in Reqs \cup {None}
  /\ \A k \in Connections : handle[k] \in Conns \cup {None}
  /\ fn \in [Reqs -> Functors \cup {None}]
  /\ errs \subseteq Reqs /\ own \subseteq Reqs /\ freed \subseteq Reqs \cup Conns
  /\ made \subseteq Conns /\ up \subseteq made
  /\ queue \in [Conns -> Seq(Reqs)]
  /\ closecb \in [Conns -> Functors \cup Cells \cup {None}]
  /\ life \in [Functors \cup Cells -> {"raw", "alive", "dead"}]
  /\ agenda \in Seq([cb : {"done", "error", "null", "close", "free"},
                      of : Reqs \cup Conns, arg : Functors \cup Cells \cup {None},
                      runs : BOOLEAN])
  /\ outstanding \subseteq Reqs /\ dismissed \subseteq Reqs
  /\ told \in [Reqs -> Seq({"done", "error", "null", "refused"})]
  /\ misuse \subseteq {"cancel held", "cancel told", "cancel done", "cancel failed",
                       "close inside", "ended on error"}
  /\ faults \subseteq {"double free", "use after free", "dead functor", "dead cell"}

\* Every variable has its type.  A request is freed once, and not used later,
\* through every path: refused, answered, failed, cancelled, closed with its
\* connection or with its object; unless the program cancels a request that an object
\* holds, or one whose callback has come or is next (in the close callback, or in that
\* of another request); closes a connection inside its own close callback; or cancels
\* there a request whose failure it has not been told of.  Until it does any such
\* thing, a request that exists is in one place: an object holds it, it is once on one
\* connection, or it is about to be told of; and what was freed is in none of them.
OnePlace ==
  /\ TypeOK
  /\ faults \cap {"double free", "use after free"} # {} =>
       misuse \cap {"cancel held", "cancel told", "cancel done", "cancel failed",
                    "close inside"} # {}
  /\ misuse = {} =>
       /\ \A o, p \in Requests : handle[o] = handle[p] => o = p \/ handle[o] = None
       /\ \A c, d \in Conns : ToSet(queue[c]) \cap ToSet(queue[d]) # {} => c = d
       /\ \A c \in Conns : IsInjective(queue[c])
       /\ \A r \in Reqs :
            /\ ~(Held(r) /\ Queued(r))
            /\ Held(r) \/ Queued(r) => r \notin freed /\ ~OnAgenda("done", r)
            /\ OnAgenda("done", r) => r \notin freed

\* Each request is settled once: told of its end, after at most one error;
\* refused; or, when the program dismissed it, told no more than the error.  And the
\* program is never left waiting for one that is gone: a request that it awaits is
\* on a living connection, or its callback is on the agenda.
SettledOnce ==
  misuse = {} =>
    \A r \in Reqs :
      /\ told[r] \in {<<>>, <<"done">>, <<"null">>, <<"error">>, <<"error", "null">>,
                      <<"refused">>}
      /\ r \in dismissed => told[r] \in {<<>>, <<"error">>}
      /\ told[r] = <<"error">> => r \in dismissed \/ OnAgenda("null", r)
      /\ r \in outstanding => Queued(r) \/ OnAgenda("done", r) \/ OnAgenda("null", r)

\* The callbacks find the functors of the caller, unless the program ended one in the
\* error callback, which is not the last one, or after it cancelled the request whose
\* callback was next.  Not so those that on_close() moved to the heap ("dead cell"):
\* a connection that closes twice, or in its close callback, calls and deletes them
\* twice.
FunctorsIntact ==
  "dead functor" \in faults => misuse \cap {"ended on error", "cancel done"} # {}

\* A request_ref is made of a request: the assertion of its constructor.
RequestRefAssert == \A r \in Reqs : "null" \notin ToSet(told[r])
=============================================================================
