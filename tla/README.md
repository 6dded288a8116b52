# e4pp in TLA+

e4pp is a header-only C++20 layer over libevent: RAII owners for libevent's
handles, and trampolines that let a C++ functor be the callback of an event.
Almost every line is a thin call; what can go wrong is *who owns what, until
when, and which thread or callback gets there first*.  That is what these
modules model.  Paths below are relative to `src/include/` unless they start
with `src/`.

## Inventory

| component | state it keeps | operations | what makes it correct |
| --- | --- | --- | --- |
| `e4pp/queue.hpp` queue | an `event_base`, with the once events posted on it | `once` (own functor, other queue), `dispatch`, `loop`, `loopexit`, `loop_break`, `destroy` | each functor runs at most once, on its queue, in FIFO order when due at once; closures are freed once; the loop stops when told |
| `e4pp/functional.hpp` trampolines | nothing, or one heap functor per pending event | `proxy_call` by reference or by move, for timers, sockets, acceptors, bufferevents | call a functor that is still there, swallow what it throws, delete what they own |
| `e4pp/evtype.hpp`, `evcore.hpp`, `ev.hpp` events | an `event` on the heap or in place, and in `ev` its handler | construct, `create`, `add`, `remove`, `active`, `exec`, `destroy`, move | an armed event always points at a live handler |
| `e4pp/vhost.hpp`, `http.hpp` | an `evhttp` and a pointer to the parent vhost | construct, `create`, `add_virtual_host`, `remove_virtual_host`, `destroy`, move | each `evhttp` is freed once, by its owner or with its parent |
| `e4pp/http/*.hpp` http client | a request or connection handle, a callback argument | `create`, `make_request`, `cancel`, the callbacks | a request belongs either to the caller or to libevent |
| `e4pp/buffer.hpp` | an `evbuffer`, owned or borrowed | append, drain, move, pullup, write | content moves and is not lost or doubled |
| `e4pp/query.hpp` | a parsed list of headers | `parse`, `find`, `push` | each handler is called with the first value it accepts |
| `e4pp/bev.hpp`, `buffer_event.hpp`, `e4ppx/ssl/bev.hpp` | a bufferevent, its socket, its input and output, the SSL state | connect, enable, write, read, watermarks, shutdown, destroy | the socket is closed once; what is written arrives, in order, and an end of file is the truth |
| `e4pp/listener.hpp` | a listener handle | `listen`, enable, disable, destroy | never two listeners on one object |
| `e4ppx/http/ws` websocket adapter | the wslay context and the read/write interest | `handshake`, the io callbacks | not modelled: cannot be instantiated |
| `src/example/evhttpsrv.cpp` | a server whose replies wait in functors on a queue | the request callback, two functors per reply, two signal handlers | each request is answered once, and nothing is used after it is gone |
| `e4pp/uri.hpp`, `e4pp.hpp` | none | lookups, concatenation, time conversion | not modelled: no state |
| `e4pp/config.hpp`, `thread.hpp`, `dns.hpp`, `util.hpp`, `e4ppx/ssl/*` | handles of one call each | thin calls | not modelled: no behaviour of their own |

The components interact through calls and callbacks only.  A queue calls a
trampoline with the pointer it was given; the trampoline calls the functor; the
functor may post on any queue.  With `use_threads()` several threads do this at
once.  The hard behaviours are therefore: a callback that outlives what it
points to; an event that fires while another thread constructs, moves or
destroys its owner; a refusal half way; a loop that must stop and does not, or
that stops and drops what it held.  `PROJECT.json` lists them one by one under
`hazards`, at the line where each one bites.

## Modules

### Queue, the core

`Queue.tla` models `queue.hpp` with the trampolines of `functional.hpp`.

*Events.*  A once event is a record of the functor and of what its argument is:
`borrowed` (the caller's functor, `proxy_call(timer_fun&)`), `owned` (a functor
moved to the heap, `proxy_call(timer_fun&&)`), `outer` (the closure of
`timer_requeue` or `generic_requeue`, which holds the functor by reference),
`inner` (the closure that the outer one posts on the other queue) and `exit`
(libevent's own event for `loopexit()`).

*State.*  Per queue: the base, the armed events, the FIFO of due events, the
event whose callback executes, where `event_base_loop()` stands, the two stop
flags and the result of the last `dispatch()`.  Per functor: the caller's object
and the destination queue.  `heap` is the set of live closures.  `dropped`,
`read` and `log` are history: the events that were refused or freed uncalled,
what each trampoline found where it read its functor, and the callbacks in the
order they ran.

*Actions.*  `OnceRef`, `OnceMove`, `OnceRequeue` are the three ways into
`once()`; each may fail after the closure has been allocated, as
`check_result()` throws.  `LoopExit`, `LoopBreak`, `Destroy`, `Dispatch` are the
methods of the same names (`loop(flags)` is `Dispatch` with flags,
`dispatch(timeout)` is `LoopExit` then `Dispatch`).  `EndLife` is the end of a
functor of the caller.  `LoopCheck`, `Expire`, `StartBatch`, `Wake`, `EndBatch`
are libevent's loop.  `CallBorrowed`, `CallOwned`, `CallOuter`, `CallInner`,
`CallExit` are the callbacks, and `EndCall` their return, which deletes what the
trampoline owns.  Any thread may do any of the first group at any point of the
others.

*Environment.*  The program keeps a named functor while an event refers to it
and destroys a queue only while its loop does not run; it calls `use_threads()`
before it shares a queue.  A temporary dies at any moment after the call that
submitted it, which is what C++ gives.  `Destroy` is `destroy()`, after which the queue
object is there and empty.  The destructor frees the base in the same way, but
`timer_requeue` and `generic_requeue` also capture the *other* queue by reference: the
program keeps that object until the closures which refer to it have run or were dropped.
One that does not is outside of the model: the closure would read a queue that is gone.

`OnceContract.tla` is the promise of `once()` without events, closures or polls:
a functor is new, waiting, carried, ran or lost.  `QueueContract.tla` gives the
refinement mapping, under which a functor that ran twice, or was lost and ran, has a fate
the contract does not know; `MCQueue.tla` the instances.

`ret` shows a divergence that no run states: `dispatch()` returns true whenever
`loopexit()` or `loop_break()` ended the loop, events or not, although its comment
says "true - has events".

A queue whose base was destroyed refuses every post: `event_base_once()` returns -1
for a null base, and `check_result()` throws, which is what a requeue closure that
comes too late meets.  With assertions compiled in, `assert_handle()` stops the
program instead.

### Event

`Event.tla` models the event objects of `evtype.hpp`, `evcore.hpp` and `ev.hpp`
with the trampolines of `functional.hpp` that their events call.

*State.*  `owns[o]` is the event of an object; `Cores` are `evcore<heap_event>`,
`Stacks` `evcore<stack_event>`, `Evs` the `ev<timer_fun, heap_event>`, which
also have a `handler`.  Per event: its argument and whether it is persistent.
`alive`, `armed`, `due` and `running` are libevent's side.  `cells` are the heap
functors that exist.  `moved`, `exposed`, `calls` and `saw` are history: the
`ev` that were moved from, the events an `ev` armed in its constructor or had
not removed when it was destroyed, and what the trampolines found.

*Actions.*  One per operation (`CreateRef`, `CreateOwned`, `CreateFails`, `Add`,
`Remove`, `Active`, `Exec`, `Destroy`, `MoveCore`, `MoveEv`).  The constructor
and the destructor of `ev` are two steps each, `ConstructBase` then
`ConstructHandler`, and `DestroyHandler` then `DestroyBase`: the event is in the
base class and the handler it points to in the derived one, so a loop in another
thread may run in between.  `Fire`, `Call` and `EndCall` are the loop.

*Environment.*  One thread owns the objects, and is the loop's if `loopIsOwner`,
which is chosen at the start.
`event_del()` and `event_free()` wait for a callback that runs in another
thread.  The program keeps a functor as long as an event points to it, and does
not destroy a functor or an `ev` inside its own callback.  Memory that is gone
may still look intact: a read of it finds either.

The trampoline of an event made from a lambda deletes the lambda after the first
call, whatever the flags of the event.  `CellsIntact` therefore promises the first
call only; `Server` shows what `src/example/evhttpsrv.cpp`, whose signal events are
persistent, makes of it.

### VHost

`VHost.tla` models the ownership of `evhttp` handles in `vhost.hpp` and
`http.hpp`.  `handle` and `parent` are the members of an object; `listed[h]` is
the `evhttp` whose list of virtual hosts holds `h`, `freed` what
`evhttp_free()` freed, virtual hosts included.  One action per operation.  A
step that touches freed memory or fails an assertion is recorded in `faults`
and ends the program; `misuse` records that the program moved or created over
an object that is part of a tree, or destroyed one that still has virtual hosts.
The properties say that nothing else can go wrong.  Moving is misuse because the
defaulted move copies `parent_` and leaves it in the source, whose destructor then
fails the assertion of `assert_handle()`.

### HttpClient

`HttpClient.tla` models `http/request.hpp`, `http/connection.hpp` and
`http/functional.hpp`.

*State.*  `handle` is what request and connection objects own.  `queue[c]` are
the requests on a connection, `up` the connections that are connected,
`closecb` the functor of `on_close()`; `fn`, `errs` and `own` belong to
a request.  `agenda` is the stack of callbacks that libevent is about to make on
behalf of the step under way: its head is the next one, or the one inside which
the program's code executes and may do anything, nested callbacks included.  What is
left of an `evhttp_connection_free()` after the close callback it makes is on the
agenda too, as `free`.  A connection stays in `up` until its close callback has
returned, as libevent closes the socket after it.
`outstanding` is what the program still waits for; `told`, `dismissed` and
`misuse` are history, `faults` as in `VHost`.

*Actions.*  One per operation of the objects; `Make` is what the three forms of
`make_request()` share, with its failure.  `Connect`, `ConnectFails`,
`Complete`, `Fail` and `PeerCloses` are what happens to a connection, and put
the callbacks libevent makes on the agenda, in its order: a failure frees the
request, then calls the close callback, the error callback, and the callback of
the request with a null pointer.  `FreeConnection` calls the close callback, while the
requests are still on the connection, and `FreeRest` then frees those that are left.
`Call` and `Return` are the trampolines.  `Cancel` leaves on the agenda what libevent
will call all the same: a request that is complete, and is cancelled in the close
callback that comes before its own, is freed there, called back and freed again.

*Environment.*  One thread.  The program ends a functor once no request that is
alive or outstanding, no open connection and no running callback refers to it;
it takes a request for finished when it is told of an error, or has cancelled it.  A
close callback sends no request through the `connection_ref` that it is given while
that connection is being freed.  Five things are recorded as misuse because they free
twice: cancelling a request that an object holds, one whose callback runs, one whose
callback is next or one that has failed, and closing a connection inside its own close
callback.  Two leave a callback without its functor: to end it in the error callback,
which is not the last one, or after the request was cancelled whose callback is next.

### Buffer

`Buffer.tla` models `buffer.hpp`: what is in which `evbuffer`, which object owns
it, and what `enable_locking()` and `sync()` are meant for.

*State.*  `handle`, `made` and `freed` are ownership; `content[e]` is the sequence
of items in an `evbuffer`.  `locking` are the `evbuffer`s with a lock, `owner` who
holds it between `lock()` and `unlock()`, `insync` and `call` where each thread
stands.  `sent`, `taken`, `gone`, `raced` and `misuse` are history.

*Actions.*  Each call of libevent is one step, under the lock of its `evbuffer`.
`drain(text)`, `str()` and `vector()` make several such calls and are several
steps (`StartRead`, `Copyout`, then `DrainRead` or `EndRead`); `sync(fn)` is
`Sync` and `EndSync` with anything in between.  `Move`, `Release`, `Reset` and
`AppendMove` exchange the `evbuffer` of an object; `AppendMove` may be refused
after it has taken its argument.

*Environment.*  `Main` owns the objects and calls `enable_locking()` on those it
shares; other threads only add, take and `sync()`.  `Main` exchanges an
`evbuffer` while nobody is inside a read or a `sync()` of the object.  Two
threads that overlap in a read, and an exchange on a shared object or inside its
`sync()`, are recorded as misuse.  A program that used an unlocked `evbuffer`
from two threads ends there; one that disturbed a read ends with the reads that
are under way.

### KeyVal

`KeyVal.tla` models `query.hpp`: `keyval` objects own an `evkeyvalq`, `keyval_ref`
objects point to one, and `parse()` goes over it once, with a mask of the functors
that have accepted a value.

*State.*  `handle`, `made`, `freed` and `list` are the objects and their entries;
`pairs`, `at`, `source`, `entry` and `accepted` are the variables of a `parse()`
under way, and `shown` the calls it made.  `filled` are the lists that
`evhttp_parse_query_str()` has initialised.  `kv_allocator` gives a zeroed
`evkeyvalq` without `TAILQ_INIT`: such a list can be read, parsed and cleared as an
empty one, but `push()` writes through its null tail.

*Actions.*  One per operation of the objects, which the program may call between
two parses or inside a functor; `StartParse`, `ShowTo`, `Skip`, `Answer`, `Throw`
and `EndParse` are the loop.  `h->next` is read in `Answer`, after the functor:
an entry that is gone by then is a fault, and the functor that removed it misuse.
`Fill` is the constructor of `query` on its new list; `Push` needs a list that was
filled, and `PushFresh` is the fault, and the misuse, of a push to any other, such as
the one that `reset()` leaves in its source.
`ShownInOrder` and `ShownAll` say what a functor may expect without mentioning
the mask.

### Conn

`Conn.tla` models `listener.hpp`, `bev.hpp` and `buffer_event.hpp` with the
trampolines of acceptors and of `event_fn`.

*State.*  `lev` and `buf` are what the objects own; `raw` are the bufferevents that
`release()` gave to the program.  Each socket that was opened is in `hand` (the
program has to close it), in the `fd` of a bufferevent, `closed`, or `lost`.
`running` is the callback that the loop is in, `synced` the `sync()` that another
thread is in, with the bufferevent it locked.

*Actions.*  One per operation; `Create` stands for the constructors and for
`create()`, with `bev_close_on_free` and `bev_unlock_callbacks` or without.
`Accept`, `Event` and `EndCall` are the loop; `EndCall(TRUE)` is a functor that
throws.  What needs the lock of a bufferevent waits for its callback in another thread
(`Waits`): `bufferevent_free()`, `sync()`, and `bufferevent_setcb()` in
`set_callbacks()`.

*Environment.*  `oneThread` is chosen at the start.  The program ends a functor once
nothing that is not freed points to it, and in one thread not inside its own
call.  `bufferevent_free()` waits for a callback in another thread, as it takes the
lock the callback holds, unless `bev_unlock_callbacks`; `evconnlistener_free()` does
not, as the loop lets go of the lock while it calls an acceptor.

### Stream and Channel

`Stream.tla` models what goes through a bufferevent: a connection between two ends,
over TCP or, where `secure`, over TLS.  `Conn` has the objects, the sockets and the
threads; here each end has one bufferevent, which closes its socket when it is freed.

*State.*  Items written at end `e` go through `output[e]` (the output), `wire[e]` (the
kernel and TLS) and `input[Peer(e)]` (the input of the other end) to `got[Peer(e)]`.
`tail[e]` is what follows the items on the wire: nothing yet, the `close_notify` of
TLS (or one that did not fit), the end of the socket, or a reset.  `link`, `enabled`,
`stopped`, `mark` and `dirty` are the state of each bufferevent, `ended` what its event
callback said.  `stopped` is about TLS only: at the end of the other, or after an error
in either direction, libevent's `conn_closed()` stops reading and writing, and disables
none; `enable()`, output for an empty buffer, and an input below its high mark start
them again (`Ceases`, `Started`).  Over TCP the direction that ended is disabled.  `asked` is
whether the read callback has been made for what is in the input.  `sent`, `got`,
`hasty` and `misuse` are history: `hasty` are the ends that left something behind
(they were destroyed, or called `shutdown()`, with output pending; closed with data on
its way to them, which makes TCP send a reset; or wrote after that), `misuse` the watermarks
no reader survives.

*Actions.*  One per operation; `close()`, `destroy()`, `reset()` and the destructor are
one, `Destroy`, as `~bev()` calls the empty `shutdown()` of the base class: a TLS
connection then ends without `close_notify`.  `Shutdown` is the override in
`ssl/bev.hpp`, which goes around the output and does not check whether
`SSL_shutdown()` could send.  `Send`, `Arrive`, `ArriveEnd`, `Reset`,
`WriteError`, `Timeout`, `Connected` and `ConnectFails` are the loops of both ends and
the network between them.  A timeout disables a direction over TCP; over TLS it only
calls the event callback, and changes nothing here.

`Channel.tla` is the promise of one direction without buffers, marks or sockets: what
was written is taken in order, once, and the reader is told of an end of file only
when the writer has closed.  `ToServer` and `ToClient` are its two instances, and
`ImplementsChannel` says that `Stream` implements both.

### Server

`Server.tla` is `src/example/evhttpsrv.cpp`, composed with `Queue`: its functors are
the temporaries of an instance of `Queue` with one queue, whose actions its own steps
conjoin.  `request[r]` is the request of libevent that the functors captured a pointer
to: open, `cut` from its connection when the client went away before the reply was
complete, or freed.  libevent keeps a cut request for the reply, and frees it when
that ends.  The first functor of a reply may throw before it posts the second
(`FailChunk`: the buffer of the chunk); the trampoline swallows that, and the request is
`forgotten`: nobody will answer it.  `handler[s]` is the lambda of a signal event, `dangling` what was used
after it was gone.  `main()` is `Start` (`dispatch(seconds{80})`: `LoopExit`, then
`Dispatch`), `EndServer` and `EndQueue`, in the order in which its locals are
destroyed.  libevent's own sockets keep the loop from running out of events, which
`Queue` says with `noexit`.  `OnceKept` says that the composition still refines
`OnceContract`, whatever the steps of the server add to those of the queue.
`NoneAssumption` says that `None` is no event and no
queue, which `Queue` assumes of its own constants.

## Runs

| run | question | bounds |
| --- | --- | --- |
| `queue_once` | types, one holder per event, ownership of closures, live reads, order of requeued functors, refinement of `OnceContract` | 2 queues, 1 named functor that breaks its loop, 1 temporary |
| `queue_live` | every functor is run or refused while loops run; a loop that is told to stop does | 2 queues, 1 temporary that breaks its loop, 1 loopexit, the flag sets `EVLOOP_NO_EXIT_ON_EMPTY` and `EVLOOP_ONCE \| EVLOOP_NONBLOCK` |
| `queue_requeue_temp` | (violation) temporaries survive a requeue | 2 queues, 1 temporary |
| `event` | one owner per event, heap functors, functors of the caller, handlers, with the loop in the same thread or in another | 2 heap events, 2 `ev`, 2 events, 1 functor |
| `vhost` | faults, links and ownership in trees of vhosts | 3 objects, 4 `evhttp` |
| `http_client` | requests freed and settled once, none forgotten, functors alive | 2 request and 2 connection objects, 2 requests, 2 connections, 1 functor, 1 heap functor |
| `buffer` | evbuffers freed once, items neither lost nor doubled, whole reads, locks given back and in place | 2 buffers, 3 `evbuffer`s, 3 items, `Main` and 1 worker |
| `keyval` | lists freed once, no read of an entry that is gone, `parse()` shows each functor what it is for | 2 keyvals, 1 reference, 3 lists, 3 values under 2 keys, query strings of up to 2 entries, 1 or 2 functors |
| `conn` | listeners and bufferevents owned once, sockets closed once, functors alive, locks given back, in one thread or two | 2 listener and 2 bev objects, 2 structures of each, 2 sockets, 1 functor, a closing bufferevent and one with unlocked callbacks |
| `stream` | what is written arrives in order or was left behind, an end of file is the truth, refinement of `Channel`, nobody waits for ever | 2 items one way and 1 the other, 1 on the wire each way, 4 pairs of watermarks at the reader of 2 |
| `server` | nothing used after it was freed, each request in the hands of one functor unless it was forgotten, replies complete, `main()` ends, refinement of `OnceContract` | 2 requests, 2 signals |
| `http_request_ref` | (violation) a `request_ref` is made of a request | 1 request and 1 connection object, 2 requests |

Two queues suffice for every property of `Queue`: an event touches its own queue
and at most one other.  Two functors suffice because the properties relate at
most two.  Each functor and each loopexit is submitted once, which bounds the
histories; the loops may be entered and left any number of times.  In `Event`
the properties relate an event to its owner and its argument, and a move relates
two owners: two events and two objects of each kind reach every such case; an `evcore`
over a `stack_event` does nothing that one over a `heap_event` does not, and needs none
of its own.  A
call count up to `MaxCalls` = 2 tells the first call from later ones.  Three
vhosts give a chain and two siblings, and the fourth `evhttp` a `create()` over
a linked one.  Two requests on a connection tell the first from one that waits,
and let a callback of one act on the other; one heap functor is enough to be
called twice.  In `KeyVal` three entries under two keys give a functor one to
refuse, one to accept and one too many, and two functors share a key or not.  In
`Conn` the second structure of each kind is the one an object gets over the first,
and the second socket the one `set_fd()` brings; a functor that takes the place of
another is left to the theorem, which is about any number of them.
Two buffers exchange every way there is, a third `evbuffer` is the
one a release or a refused append leaves behind, and three items let a read be
shorter than what is there.  Objects, handles and events are allocated once each, which only
excludes the reuse of an address.  In `Stream` two items tell the first from the
next, and one place on the wire leaves one behind it in the output; the marks are a low
one, a high one, both, and both crossed.  In `Server` two requests let one be answered
while the other is cut or dropped, and the two signals of the program reach the loop
in either order.

In `Queue`, `Buffer`, `KeyVal`, `Conn`, `HttpClient`, `Stream` and `Server` the type
invariant is the first conjunct of the first property.

*Fairness.*  In `Queue`, `FairSpec` says that a thread inside a loop keeps taking
steps (callbacks return), and that a loop that polls again and again while timers are
armed sees one expire.  Nothing makes a program enter a loop, submit a functor or
destroy a queue.

In `Stream` the loops of both ends run: what can be sent, or has arrived and may be
read, is (weak fairness of `Send`, `Arrive` and `ArriveEnd`), since `epoll` reports a
ready socket on every turn.  And a program that was called back for input takes it.
Nothing makes it write, enable a direction, close or connect; `NobodyWaits` says
nothing of an end that disables reading and leaves it so, nor of a direction that TLS
has stopped and the program, which was told, does not enable again.

In `Server` the loop of the queue runs, `main()` goes on when it returns, the timers of
the functors expire as above, and a reply that is complete gets sent: a client that never reads is cut by
the timeout of the server, which `srv.set_timeout()` sets.  No client has to go away
and no signal has to come.  Nothing is said of the 80 seconds of `dispatch()`: if every
behaviour ended by them, `Replied` would hold of a server that answers nobody.  So
`Replied` speaks of behaviours in which the loop is never stopped, too, and `MainEnds`
states for itself the fairness it needs, that the 80 seconds pass.

*What the violations show.*

* `timer_requeue` and `generic_requeue` capture the functor by reference and
  read it when the event fires; `test_requeue` in `src/example/evheap.cpp` passes
  temporaries.
* libevent calls the callback of a failed request with a null pointer, which the
  trampolines hand to a constructor that asserts the opposite.

## Theorems

`QueueProofs.tla`, for any set of queues and functors, from the assumptions
named in `Queue.tla`:

* `TypeCorrect`: the type invariant `TypeOK`, which is a part of `SingleHolder`.
* `EventHeldOnce` and `ClosuresOwned`: `SingleHolder` and `HeapOwned`.  Neither
  is inductive alone.  `OnceInv` has the second part of `SingleHolder`, `OneHolder`, and adds that an event belongs to a submitted
  functor (so that a new event is really new) and that a requeue closure which
  has not run knows its queue and has no inner closure yet.  One lemma per group
  of actions shows that each keeps `OnceInv`.
* `NamedReadsIntact`: `ReadsIntact`, with `ObjectsKept` (what may still be read
  through a pointer is there) and with `ClosuresOwned` for what is read on the
  heap.
* `RequeuedInOrder`: `RequeueInOrder`.  The property speaks of two logs only when both
  functors have been called, so `Travels` follows them on the way.  `Trace(q)`, the log
  of a queue and then its FIFO of due events, only ever gets longer at its end, until the
  queue is destroyed, as a call moves an event from one part to the other (`TakeTrace`).
  An inner closure is in the trace of its queue, or dropped, once its outer one was
  called, and never before (`Posted`); it never waits for a timeout, where it could be
  overtaken; and the inner ones are in the trace in the order of the outer ones
  (`Follows`).  At the end an event that was called is not due any more, so the order
  is that of the log.
* `KeepsTheContract`: `ImplementsContract`.  `Journey` says that every functor is new,
  lost, carried, waiting or has run, and what that means: while it is carried or waiting
  it has exactly one event, on one queue, and none otherwise; and that a queue with a
  callback running is in its loop.  `Fates` says what the mapping makes of each of the
  five, so that no other proof opens its `CHOOSE`s.  One lemma per kind of action then
  shows at once that `Journey` stays and which step of the contract is taken
  (`AcceptStep`, `CarryStep`, `RunStep`, `EnterStep`, `LeaveStep`, `DiscardStep` or a
  stutter).


`EventProofs.tla`, for any sets of objects, events and functors, in one thread
or two:

* `TypeCorrect` and `EventsOwnedOnce`: `TypeOK` and `SingleOwner`.  The invariant
  is `Ownership`, which adds that an event that is alive has its argument set,
  so that no new event is one that exists.
* `CallerFunctorsIntact` and `HandlersIntact`: `FunctorsIntact` and
  `MembersIntact`.  `Reads` adds what they need of the state in between calls:
  the event whose callback runs in another thread is alive, a functor an event
  points to is alive, an event nobody created has no reads, an event whose
  argument is the handler of an `ev` belongs to that `ev` unless it was moved
  from, and while that handler is not there the loop holds the event only if it
  was exposed.
* `HeapFunctorsIntact`: `CellsIntact`.  `Deleting` adds that the functor stays until the
  first call has ended, since the trampoline deletes it at its end, and that an event
  that runs was called.  The count of calls is capped; the assumption that the cap is at
  least 2 is needed, as a second call must not look like the first.

`VHostProofs.tla`, for any number of objects and handles, misuse included where
the property does not exclude it: `TypeCorrect`, `FaultsNeedMisuse`,
`ParentsMirrorLists` and `HostsOwnedOnce`.  They are proved together, as one
inductive invariant: that a step faults only after a misuse needs the links to
match before it, and that links match needs single ownership.  `Real` adds that
handles are allocated and that lists hold only allocated ones.

`StreamProofs.tla`, for any two ends and any number of items, over TCP or TLS:
`ArrivesInOrder` (`InTransit`), `EofTold` (`EofIsTrue`) and `ActsAsChannels`
(`ImplementsChannel`).  The invariant is `Way(e)`, for the way out of each end: what
was taken, what is in the input of the peer, on the wire and in the output are runs of
consecutive numbers, each of which begins where the one before it ends (`Taken`,
`Arriving`, `Leaving`); an end that left things behind sends no more and one that
closed without has sent it all (`Closing`); and after an end of file nothing is on the
way (`Told`).  `Linked`, which relates the two ends, says that the server has no
connection before the client has one.  The lemmas say how runs are cut and joined.  The
refinement is shown for both instances at once: the initial state is one of `Channel`,
and each action, one lemma per kind, is a step of one direction and a stutter of the
other, or a stutter of both.

`ServerProofs.tla`, for any number of requests and signals: `NoUseAfterFree`
(`NothingDangles`) and `RequestsInHand` (`InHand`).  It takes `QueueProofs` as an
instance, and so proves nothing of the queue again: the steps of the server are steps
of the queue (the `Same...` lemmas), which keep `OnceInv` by the lemmas of
`QueueProofs`.  The server's own part is `Progress(r)`, where the two functors of a
reply stand, or that the first one threw, with `Control`, in which order `main()`, the loop and the signals end, and
`OnlyOwned`, that the queue holds only functors on the heap and the event of the time
limit.  `ServerKeepsTheContract` (`OnceKept`) is the refinement of `QueueProofs` carried
over to the composition: `ServerJourney` shows that each step of the server keeps
`Journey` and is a step of the contract or a stutter, and `SameContract` that the mapping
the run checks is the one of `QueueProofs`.

The same module holds the theorems about `KeyVal`, for any number of objects, lists, keys
and values: `ListsOwnedOnce` (`OwnedOnce`), `ParseSurvives` (`FaultNeedsMisuse`),
`ParseShowsInOrder` (`ShownInOrder`) and `ParseShowsAll` (the action property
`ShownAll`).  The properties compare what was shown with the list and say nothing of the
mask, so the inductive invariant, `ListInv`, has to tie the two together:

* `Distinct`: no list has an entry twice, so an entry has one place.
* `Raw`: a list that was not filled has no entries, and `Blame`: which misuse a fault
  comes from.
* `Reading`: as long as the program has taken no entry away from `parse()`, the current
  entry is in the list; and once it has, `parse()` faults when it reads on, or ends.
* `Told`: a functor that accepted is in the mask and is shown no more, and nobody in the
  mask has not accepted; before a functor is shown an entry, each earlier one for the same
  key has accepted.
* `Ahead`: the entries shown stand in the list in the order of the calls, what comes next
  stands behind them, and `parse()` is done with everything in front of the current
  entry: it showed it, or all whose key it has are in the mask.  At the end of the list
  this is `ShownAll`.

`ConnProofs.tla`, for any number of objects, structures, sockets and functors, in one
thread or two: `OneOwner` (`OwnedOnce`), `OneCloser` (`SocketsSettled`), `CallsAreSafe`
(`FunctorsIntact`) and `SyncUnlocks` (`LockReturned`).  The invariant is a conjunction
of parts that need each other little: `Owners` for the listeners and for the
bufferevents that were not released; `Sockets`, that a socket is closed, in hand, lost,
or in exactly one bufferevent that will close it; `Targets`, that whatever may be called
has a live functor; `Waited`, that a bufferevent whose callback another thread
waits for stays; `Locked`, that without an exchange `sync()` has the lock of what its
object owns.

`BufferProofs.tla`, for any number of objects, `evbuffer`s, items and threads:
`OneOwner` (`OwnedOnce`), `TakenOnce` (`ReadOnce`), `SyncUnlocks` (`LockReturned`) and
`WorkersHaveLocks` (`SharedLocked`).  `ReadOnce` speaks of a read that has ended; what
makes it inductive is `Reading(t)`, that what a read has sized is still at the front of
its `evbuffer`, and what it has copied is just that.  It holds because other threads
only append, unless two reads overlap.  `Spread` says where each item is: in one place of
one `evbuffer`, gone, or taken once.

`HttpClientProofs.tla`, for any number of objects, requests, connections and functors:
`Invariant`, and from it `RequestsInOnePlace` (`OnePlace`), `RequestsSettledOnce`
(`SettledOnce`) and `CallbacksFindFunctors` (`FunctorsIntact`).  The three properties need
each other's grounds, so there is one invariant, `Inv`.  It says that a structure is freed
twice or used after it was freed only after one of the five misuses that lead there
(`Wrong`), and until then:

* `Handles`: a structure has one object; a request that an object has was never sent.
* `Queues`: a request on a connection is at one place of one, is awaited and not freed.
* `Agenda`: the callbacks that are on their way agree with their request.  For a response
  it is on no connection; for an error or an end it is freed; what it was told so far is
  what comes before that callback.  `Ordered` says that there is one of each for a
  request, the error before the end, and that a connection is freed once, behind its
  close callbacks, unless the program closed it in one.  The properties say nothing of
  the order on the agenda, but a request could not be told once without it.
* `Lasting`: no object has a connection whose free has begun.
* `Settled(r)`: what was told of a request is one of six histories, and a request that
  is awaited is on a connection or a callback for it is on the agenda.
* `Targets`: every functor that a live request or connection, or a callback, refers to is
  there; only the end of a request whose error the program was told of may lack its own,
  and that of a request which was cancelled when it was next.

One lemma for the operations of a request, one for those of a connection and one for the
steps of the loop show that each part is kept.  The parts of a sequence that stay when a
request is cancelled are handled by `Within`, which maps each place of the new sequence to
one of the old.

Every invariant was found true by TLC on the instances above before it was proved.  The
assumptions are those of the modules, which say that the kinds of names are apart and
that `None` is none of them.

Every safety and action property and every refinement that a passing run checks is
stated by a theorem.  Model-checked only: liveness under fairness, which is out of the
prover's reach (`Delivered`, `StopsWhenTold`, `NobodyWaits`, `Replied`, `MainEnds`).

## What the models say to a program

* An end that wants what it wrote to arrive must not destroy its bufferevent, nor call
  `shutdown()`, before its output is empty, nor destroy it while it is sent to.
* Only an explicit `shutdown()` sends `close_notify`, and only if it fits the socket.  The peer of a TLS `bev` that is
  just destroyed gets an error, unless it calls `allow_dirty_shutdown()`, and then it
  cannot tell that end from a cut connection.
* `set_watermark()` does not check that the low mark is below the high one, and does
  not call back for data that is there: both leave a reader waiting for ever.
* A request may be answered long after its client has gone, as libevent keeps it for
  the reply, but one that is still cut off when the queue is destroyed is leaked.
* A functor that throws before it hands a request on leaves it with nobody: the
  trampoline swallows the exception, and the client waits for its own timeout.
* Over TLS the end of the other stops writing too: output that is left goes out only
  after `enable()`.
* A `keyval` can be pushed to only after `evhttp_parse_query_str()`.
* `cancel()` inside a close callback must not name a request whose callback is next.
* A signal handler made of a lambda has one call; `evhttpsrv.cpp` lives with that since
  the call breaks the loop.

## Not modelled

The components listed as such in the inventory have no state of their own, or
cannot be instantiated: `evwslay` passes a `unique_ptr` where wslay takes a
pointer, `buffer_event_fn` calls plain function pointers as members, `on_chunked()` and
`on_header()` of a request give setters of libevent that take none an argument for the
callback, and `basic_buffer_event<openssl::bev>::create()` assigns a `bev` of the base class.
`buffer::write(buffer)` calls itself without end and is used nowhere.  `uri` looks
things up in what its constructor parsed and joins them; `make_timeval()` is a
`duration_cast`.  What follows from a single call of libevent (priorities, headers,
the settings of servers and connections) is left out.  `Server` leaves out what `once()`
would throw through the frames of libevent inside the callback of a request, and what
the program prints.  Exhaustion of memory is modelled where the code throws
(`CreateFails`, `OnceMove`); where the throwing function is `noexcept` (the allocators,
default member initializers) the program terminates and nothing is left to state.  The
reuse of a freed address is not modelled, nor is the text behind a value: `push()` and
`query()` pass the `data()` of a `string_view` on, whose text ends where that of the whole
string does.

## Plan

Left for later: the priorities of `priority_init()` and `set_priority()`, which give a
queue one FIFO for each level; no event of `once()` is given one.
