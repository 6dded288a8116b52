-------------------------------- MODULE Conn --------------------------------
(***************************************************************************)
(* Connections: listener objects, which own an evconnlistener and accept    *)
(* sockets, and bev and buffer_event objects, which own a bufferevent and   *)
(* may own its socket.                                                      *)
(*                                                                          *)
(* The loop calls a functor of the program through the trampolines of       *)
(* functional.hpp.  Program code runs inside those calls, between them and, *)
(* unless oneThread, in another one at the same time.  Threads take turns   *)
(* with an object, and what they share is created with a lock               *)
(* (lev_threadsafe, bev_threadsafe): each call of libevent is one step.     *)
(*                                                                          *)
(* Bounds: each structure of libevent is allocated once (Levs, Bufs), and   *)
(* each socket is opened once (Socks).  A program that calls a dead functor *)
(* ends there, and one that exchanges a handle inside sync() with the sync. *)
(* What a callback does to its own bufferevent is only there in one thread. *)
(***************************************************************************)
EXTENDS Naturals

CONSTANTS
  Listeners,  \* listener objects
  Levs,       \* evconnlistener structures
  Bevs,       \* bev and buffer_event objects
  Bufs,       \* bufferevent structures
  Socks,
  Functors,
  OptSets,    \* the sets of flags that bufferevents are created with
  None

Flags == {"close_on_free", "unlock_callbacks"}

ASSUME OptSetsAssumption == OptSets \subseteq SUBSET Flags
ASSUME NoneAssumption ==
  None \notin Levs \cup Bevs \cup Bufs \cup Socks \cup Functors

VARIABLES
  oneThread, \* the program has one thread, the one of the loop
  lev,       \* lev[o]: what listener o owns, or None
  listening, \* the evconnlisteners that are not freed
  enabled,   \* those that are enabled
  buf,       \* buf[b]: what bev b owns, or None
  live,      \* the bufferevents that are not freed
  raw,       \* those that the program released from their object
  made,      \* every structure that exists or existed
  opts,      \* opts[h]: the flags bufferevent h was created with
  target,    \* target[x]: the functor that the callbacks of x call, or None
  fd,        \* fd[h]: the socket of a bufferevent, or None
  opened,    \* the sockets that were accepted or opened
  hand,      \* those that the program has to close
  closed,
  lost,      \* history: those that a functor threw over
  running,   \* the callback that the loop is in
  synced,    \* the bev in whose sync() a thread is, and the bufferevent it locked
  functor,   \* functor[f]: "alive" or "dead"
  dangling,  \* history: callbacks that ran with a functor that was dead
  misuse     \* history: what the program should not have done

listeners == <<lev, listening, enabled>>
bevs == <<buf, live, raw, opts>>
sockets == <<fd, opened, hand, closed, lost>>
loop == <<running, functor, dangling>>
locks == <<synced, misuse>>
vars == <<oneThread, lev, listening, enabled, buf, live, raw, made, opts, target,
          fd, opened, hand, closed, lost, running, synced, functor, dangling,
          misuse>>

Quiet == [of |-> None, fn |-> None, sock |-> None]
Unsynced == [bev |-> None, buf |-> None]

Init ==
  /\ oneThread \in BOOLEAN
  /\ lev = [o \in Listeners |-> None] /\ listening = {} /\ enabled = {}
  /\ buf = [b \in Bevs |-> None] /\ live = {} /\ raw = {} /\ made = {}
  /\ opts = [h \in Bufs |-> {}]
  /\ target = [x \in Levs \cup Bufs |-> None]
  /\ fd = [h \in Bufs |-> None]
  /\ opened = {} /\ hand = {} /\ closed = {} /\ lost = {}
  /\ running = Quiet /\ synced = Unsynced
  /\ functor = [f \in Functors |-> "alive"]
  /\ dangling = {} /\ misuse = {}

Alive(f) == functor[f] = "alive"
Allocate(x) == x \notin made /\ made' = made \cup {x}

-----------------------------------------------------------------------------
(* listener: an evconnlistener is freed when its object gets another one.   *)

\* evconnlistener_free() does not wait for a callback that runs elsewhere.
FreeLevs(gone, new) ==
  /\ listening' = (listening \ gone) \cup new
  /\ enabled' = (enabled \ gone) \cup new

\* Mutant: the old evconnlistener is not freed.
ListenKeeps(o, k, f) ==
  /\ Alive(f) /\ Allocate(k)
  /\ FreeLevs({}, {k})
  /\ lev' = [lev EXCEPT ![o] = k]
  /\ target' = [target EXCEPT ![k] = f]
  /\ UNCHANGED <<oneThread, bevs, sockets, loop, locks>>

\* listen(), or a constructor; the old one goes once the new one is there.
Listen(o, k, f) ==
  /\ Alive(f) /\ Allocate(k)
  /\ FreeLevs({lev[o]}, {k})
  /\ lev' = [lev EXCEPT ![o] = k]
  /\ target' = [target EXCEPT ![k] = f]
  /\ UNCHANGED <<oneThread, bevs, sockets, loop, locks>>

\* close(), or the destructor.
CloseListener(o) ==
  /\ lev[o] # None
  /\ FreeLevs({lev[o]}, {})
  /\ lev' = [lev EXCEPT ![o] = None]
  /\ UNCHANGED <<oneThread, bevs, made, target, sockets, loop, locks>>

MoveListener(o, p) ==
  /\ o # p /\ lev[o] # None
  /\ FreeLevs({lev[p]}, {})
  /\ lev' = [lev EXCEPT ![p] = lev[o], ![o] = None]
  /\ UNCHANGED <<oneThread, bevs, made, target, sockets, loop, locks>>

SwapListeners(o, p) ==
  /\ o # p
  /\ lev' = [lev EXCEPT ![p] = lev[o], ![o] = lev[p]]
  /\ UNCHANGED <<oneThread, listening, enabled, bevs, made, target, sockets, loop,
                 locks>>

\* set(cb, arg), and clear().
SetAcceptor(o, f) ==
  /\ lev[o] # None /\ (f # None => Alive(f))
  /\ target' = [target EXCEPT ![lev[o]] = f]
  /\ UNCHANGED <<oneThread, listeners, bevs, made, sockets, loop, locks>>

Enable(o) ==
  /\ lev[o] # None
  /\ enabled' = enabled \cup {lev[o]}
  /\ UNCHANGED <<oneThread, lev, listening, bevs, made, target, sockets, loop, locks>>
Disable(o) ==
  /\ lev[o] # None
  /\ enabled' = enabled \ {lev[o]}
  /\ UNCHANGED <<oneThread, lev, listening, bevs, made, target, sockets, loop, locks>>

-----------------------------------------------------------------------------
(* bev and buffer_event.                                                    *)

\* bufferevent_free(h) takes the lock that a callback has which runs in another
\* thread, unless it was created with bev_unlock_callbacks; the other calls wait for
\* it as well, which matters for those that exchange the functor.
Waits(h) == h # None => oneThread \/ "unlock_callbacks" \in opts[h] \/ running.of # h

ClosesOnFree(h) == "close_on_free" \in opts[h]

\* Mutant: nothing waits for a callback.
FreeBufsLocked(gone, h, s) ==
  /\ live' = (live \ gone) \cup ({h} \ {None})
  /\ closed' = closed \cup ({fd[x] : x \in {y \in gone : ClosesOnFree(y)}} \ {None})
  /\ fd' = [x \in Bufs |-> CASE x = h -> s [] x \in gone -> None [] OTHER -> fd[x]]

\* The bufferevents gone are freed, with their sockets if they own them (those of
\* the others are left to the program), and h is there with socket s.
FreeBufs(gone, h, s) ==
  /\ \A x \in gone : Waits(x)
  /\ live' = (live \ gone) \cup ({h} \ {None})
  /\ closed' = closed \cup ({fd[x] : x \in {y \in gone : ClosesOnFree(y)}} \ {None})
  /\ fd' = [x \in Bufs |-> CASE x = h -> s [] x \in gone -> None [] OTHER -> fd[x]]

Old(b) == {buf[b]} \ {None}

\* A thread inside sync() of b finds another handle when it unlocks.
NoteExchange(bs) ==
  misuse' = IF synced.bev \in bs THEN misuse \cup {"exchanged in sync"} ELSE misuse

\* Mutant: the program closes the socket as well.
CreateShares(b, h, s, o) ==
  /\ s # None => s \in hand /\ \A x \in live : fd[x] # s
  /\ Allocate(h)
  /\ opts' = [opts EXCEPT ![h] = o]
  /\ FreeBufs(Old(b), h, s)
  /\ buf' = [buf EXCEPT ![b] = h]
  /\ NoteExchange({b})
  /\ UNCHANGED <<oneThread, listeners, raw, target, opened, hand, lost, loop,
                 synced>>

\* The constructors and create(), with a socket of the program or none (-1); a
\* bufferevent that closes on free takes the socket over.
Create(b, h, s, o) ==
  /\ s # None => s \in hand /\ \A x \in live : fd[x] # s
  /\ Allocate(h)
  /\ opts' = [opts EXCEPT ![h] = o]
  /\ FreeBufs(Old(b), h, s)
  /\ hand' = IF "close_on_free" \in o THEN hand \ {s} ELSE hand
  /\ buf' = [buf EXCEPT ![b] = h]
  /\ NoteExchange({b})
  /\ UNCHANGED <<oneThread, listeners, raw, target, opened, lost, loop, synced>>

\* reset(), close() and destroy(), or the destructor.
Destroy(b) ==
  /\ buf[b] # None
  /\ FreeBufs(Old(b), None, None)
  /\ buf' = [buf EXCEPT ![b] = None]
  /\ NoteExchange({b})
  /\ UNCHANGED <<oneThread, listeners, raw, made, opts, target, opened, hand, lost,
                 loop, synced>>

\* Assignment, create(T&&); the constructors move to an object that is empty.
Move(b, c) ==
  /\ b # c /\ buf[b] # None
  /\ FreeBufs(Old(c), None, None)
  /\ buf' = [buf EXCEPT ![c] = buf[b], ![b] = None]
  /\ NoteExchange({b, c})
  /\ UNCHANGED <<oneThread, listeners, raw, made, opts, target, opened, hand, lost,
                 loop, synced>>

Swap(b, c) ==
  /\ b # c
  /\ buf' = [buf EXCEPT ![c] = buf[b], ![b] = buf[c]]
  /\ NoteExchange({b, c})
  /\ UNCHANGED <<oneThread, listeners, live, raw, made, opts, target, sockets, loop,
                 synced>>

\* release(), after which the bufferevent is the program's, and bev(ptr) or
\* reset(ptr), with which the program gives it to an object.
Release(b) ==
  /\ buf[b] # None
  /\ raw' = raw \cup {buf[b]}
  /\ buf' = [buf EXCEPT ![b] = None]
  /\ NoteExchange({b})
  /\ UNCHANGED <<oneThread, listeners, live, made, opts, target, sockets, loop,
                 synced>>
Adopt(b, h) ==
  /\ h \in raw
  /\ FreeBufs(Old(b), h, fd[h])
  /\ raw' = raw \ {h}
  /\ buf' = [buf EXCEPT ![b] = h]
  /\ NoteExchange({b})
  /\ UNCHANGED <<oneThread, listeners, made, opts, target, opened, hand, lost, loop,
                 synced>>

\* set_callbacks(), with the trampolines of proxy_call(event_fn&); it takes the lock.
SetCallbacks(b, f) ==
  /\ buf[b] # None /\ Alive(f) /\ Waits(buf[b])
  /\ target' = [target EXCEPT ![buf[b]] = f]
  /\ UNCHANGED <<oneThread, listeners, bevs, made, sockets, loop, locks>>

\* connect() opens a socket for a bufferevent that has none.
Connect(b, s) ==
  LET h == buf[b] IN
  /\ h # None /\ fd[h] = None /\ s \notin opened
  /\ opened' = opened \cup {s}
  /\ fd' = [fd EXCEPT ![h] = s]
  /\ hand' = IF ClosesOnFree(h) THEN hand ELSE hand \cup {s}
  /\ UNCHANGED <<oneThread, listeners, bevs, made, target, closed, lost, loop, locks>>

\* set_fd() closes nothing: the program has the socket that was there.
SetFd(b, s) ==
  LET h == buf[b] IN
  /\ h # None /\ s \in hand /\ \A x \in live : fd[x] # s
  /\ fd' = [fd EXCEPT ![h] = s]
  /\ hand' = IF ClosesOnFree(h) THEN (hand \ {s}) \cup ({fd[h]} \ {None}) ELSE hand
  /\ UNCHANGED <<oneThread, listeners, bevs, made, target, opened, closed, lost,
                 loop, locks>>

\* sync(fn) locks, calls fn, and unlocks the handle of that moment; here for a
\* thread other than that of the loop, as one thread may lock again.
Sync(b) ==
  LET h == buf[b] IN
  /\ ~oneThread /\ h # None /\ Waits(h) /\ synced = Unsynced
  /\ synced' = [bev |-> b, buf |-> h]
  /\ UNCHANGED <<oneThread, listeners, bevs, made, target, sockets, loop, misuse>>

\* Mutant: the lock_guard is forgotten.
EndSyncKeeps ==
  /\ synced.bev # None
  /\ synced' = [synced EXCEPT !.bev = None]
  /\ UNCHANGED <<oneThread, listeners, bevs, made, target, sockets, loop, misuse>>

EndSync ==
  /\ synced.bev # None
  /\ synced' = [bev |-> None,
                buf |-> IF buf[synced.bev] = synced.buf THEN None ELSE synced.buf]
  /\ UNCHANGED <<oneThread, listeners, bevs, made, target, sockets, loop, misuse>>

-----------------------------------------------------------------------------
(* The program's own.                                                       *)

CloseSock(s) ==
  /\ s \in hand /\ \A h \in live : fd[h] # s
  /\ hand' = hand \ {s}
  /\ closed' = closed \cup {s}
  /\ UNCHANGED <<oneThread, listeners, bevs, made, target, fd, opened, lost, loop,
                 locks>>

\* A functor is kept while a listener or a bufferevent may call it, and in one
\* thread to the end of its call.
EndLife(f) ==
  /\ Alive(f)
  /\ \A x \in listening \cup live : target[x] # f
  /\ oneThread /\ running # Quiet => running.fn # f
  /\ functor' = [functor EXCEPT ![f] = "dead"]
  /\ dangling' = IF running # Quiet /\ running.fn = f
                   THEN dangling \cup {running.of} ELSE dangling
  /\ UNCHANGED <<oneThread, listeners, bevs, made, target, sockets, running, locks>>

-----------------------------------------------------------------------------
(* The loop.                                                                *)

Call(x, s) ==
  /\ running' = [of |-> x, fn |-> target[x], sock |-> s]
  /\ dangling' = IF Alive(target[x]) THEN dangling ELSE dangling \cup {x}

\* An evconnlistener accepts a socket; one without a functor closes it.
Accept(k, s) ==
  /\ running = Quiet /\ k \in enabled /\ s \notin opened
  /\ opened' = opened \cup {s}
  /\ IF target[k] = None
       THEN closed' = closed \cup {s} /\ UNCHANGED <<hand, running, dangling>>
       ELSE hand' = hand \cup {s} /\ Call(k, s) /\ UNCHANGED closed
  /\ UNCHANGED <<oneThread, listeners, bevs, made, target, fd, lost, functor, locks>>

\* Data or an event on a bufferevent, whose lock the loop takes.
Event(h) ==
  /\ running = Quiet /\ h \in live /\ target[h] # None /\ synced.buf # h
  /\ Call(h, None)
  /\ UNCHANGED <<oneThread, listeners, bevs, made, target, sockets, functor, locks>>

\* The trampoline returns.  It swallows an exception, with which the socket goes
\* that only the functor knew of.
EndCall(throws) ==
  /\ running # Quiet
  /\ running' = Quiet
  /\ hand' = IF throws THEN hand \ {running.sock} ELSE hand
  /\ lost' = IF throws THEN lost \cup ({running.sock} \cap hand) ELSE lost
  /\ UNCHANGED <<oneThread, listeners, bevs, made, target, fd, opened, closed,
                 functor, dangling, locks>>

-----------------------------------------------------------------------------
ListenerNext ==
  \E o \in Listeners :
    \/ \E k \in Levs, f \in Functors : Listen(o, k, f)
    \/ \E p \in Listeners : MoveListener(o, p) \/ SwapListeners(o, p)
    \/ \E f \in Functors \cup {None} : SetAcceptor(o, f)
    \/ CloseListener(o) \/ Enable(o) \/ Disable(o)

BevNext ==
  \E b \in Bevs :
    \/ \E h \in Bufs, s \in Socks \cup {None}, o \in OptSets : Create(b, h, s, o)
    \/ \E c \in Bevs : Move(b, c) \/ Swap(b, c)
    \/ \E h \in Bufs : Adopt(b, h)
    \/ \E f \in Functors : SetCallbacks(b, f)
    \/ \E s \in Socks : Connect(b, s) \/ SetFd(b, s)
    \/ Destroy(b) \/ Release(b) \/ Sync(b)

ProgramNext ==
  \/ \E s \in Socks : CloseSock(s)
  \/ \E f \in Functors : EndLife(f)

LoopNext ==
  \/ \E k \in Levs, s \in Socks : Accept(k, s)
  \/ \E h \in Bufs : Event(h)
  \/ \E throws \in BOOLEAN : EndCall(throws)

Next ==
  /\ dangling = {}
  /\ \/ misuse = {} /\ (ListenerNext \/ BevNext \/ ProgramNext \/ LoopNext)
     \/ EndSync

Spec == Init /\ [][Next]_vars

-----------------------------------------------------------------------------
(* Properties.                                                              *)

TypeOK ==
  /\ oneThread \in BOOLEAN
  /\ lev \in [Listeners -> Levs \cup {None}]
  /\ enabled \subseteq listening /\ listening \subseteq made \cap Levs
  /\ buf \in [Bevs -> Bufs \cup {None}]
  /\ live \subseteq made \cap Bufs /\ raw \subseteq live
  /\ made \subseteq Levs \cup Bufs
  /\ opts \in [Bufs -> SUBSET Flags]
  /\ target \in [Levs \cup Bufs -> Functors \cup {None}]
  /\ fd \in [Bufs -> Socks \cup {None}]
  /\ opened \subseteq Socks
  /\ functor \in [Functors -> {"alive", "dead"}]
  /\ dangling \subseteq made /\ misuse \subseteq {"exchanged in sync"}

\* Every variable has its type; and through listen(), create(), moves, swaps,
\* release() and reset(), each structure of libevent that is not freed has exactly
\* one owner: an object or, for a released bufferevent, the program.
OwnedOnce ==
  /\ TypeOK
  /\ listening = {lev[o] : o \in Listeners} \ {None}
  /\ \A o, p \in Listeners : lev[o] = lev[p] => o = p \/ lev[o] = None
  /\ live \ raw = {buf[b] : b \in Bevs} \ {None}
  /\ \A b, c \in Bevs : buf[b] = buf[c] => b = c \/ buf[b] = None

\* From accept() to close(), and across every change of the bufferevent or of the
\* object, somebody has to close each socket, and nobody else will: the program,
\* or one bufferevent that closes on free; only a functor that throws loses one.
SocketsSettled ==
  LET taken(s) == {h \in live : ClosesOnFree(h) /\ fd[h] = s} IN
  \A s \in opened :
    \/ s \in closed /\ s \notin hand \cup lost /\ taken(s) = {}
    \/ s \in hand /\ s \notin closed \cup lost /\ taken(s) = {}
    \/ s \in lost /\ s \notin closed \cup hand /\ taken(s) = {}
    \/ /\ s \notin closed \cup hand \cup lost
       /\ \E h \in live : taken(s) = {h}

\* A callback finds its functor alive, from the start of the call to its end, even
\* if an object is closed, and then the functor ended, meanwhile; with two
\* exceptions when the loop has a thread of its own: evconnlistener_free() never
\* waits for a callback, and bufferevent_free() does not for an unlocked one.
FunctorsIntact ==
  \A x \in dangling :
    ~oneThread /\ (x \in Levs \/ "unlock_callbacks" \in opts[x])

\* sync() gives back the lock it took, so that the loop can go on with the
\* bufferevent, unless the object has had its handle changed meanwhile.
LockReturned ==
  "exchanged in sync" \notin misuse /\ synced.buf # None =>
    synced.bev # None /\ buf[synced.bev] = synced.buf
=============================================================================
