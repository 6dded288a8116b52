------------------------------- MODULE Buffer -------------------------------
(***************************************************************************)
(* The buffers of e4pp: objects that own an evbuffer, with enable_locking() *)
(* and sync() for those that several threads use.                           *)
(*                                                                          *)
(* One call of libevent is one step, under the lock of its evbuffer.  The   *)
(* reads that make several calls (drain into a string, str, vector) are     *)
(* several steps, as others may come between.                               *)
(*                                                                          *)
(* Bounds: each evbuffer is allocated once (Evbufs), and each item of data  *)
(* is added once (Items).  A program that misses a lock ends, and one that  *)
(* disturbs a read ends with the reads that are under way.                  *)
(***************************************************************************)
EXTENDS Naturals, Sequences, SequencesExt, FiniteSets

CONSTANTS
  Buffers,   \* buffer objects
  Evbufs,    \* evbuffer structures of libevent
  Items,     \* pieces of data, all distinct
  Main,      \* the thread that owns the objects
  Workers,   \* the threads that use the objects which Main shares
  None

Threads == {Main} \cup Workers

ASSUME ThreadsAssumption == Main \notin Workers /\ None \notin Threads
ASSUME NoneAssumption == None \notin Buffers /\ None \notin Evbufs

VARIABLES
  handle,   \* handle[b]: the evbuffer of object b, None while it does not exist
  made,     \* the evbuffers that exist or existed
  freed,    \* those that were freed
  content,  \* content[e]: the data in evbuffer e
  locking,  \* the evbuffers with a lock
  owner,    \* owner[e]: the thread that lock() gave the lock of e to
  insync,   \* insync[t]: the object whose sync() thread t is in
  call,     \* call[t]: the read of several calls that t is in
  shared,   \* the objects that Main called enable_locking() on, to share them
  sent,     \* history: the items that were added
  taken,    \* taken[i]: history: how often item i was taken out, up to twice
  gone,     \* history: the items that were discarded
  raced,    \* history: a worker used an evbuffer that has no lock
  misuse    \* history: what the program should not have done

memory == <<handle, made, freed>>
locks == <<locking, owner, insync, shared>>
data == <<content, sent, taken, gone>>
vars == <<handle, made, freed, content, locking, owner, insync, call, shared,
          sent, taken, gone, raced, misuse>>

Idle == [at |-> "idle", b |-> None, n |-> 0, text |-> <<>>]

Init ==
  /\ handle = [b \in Buffers |-> None]
  /\ raced = FALSE
  /\ made = {} /\ freed = {} /\ locking = {} /\ shared = {}
  /\ content = [e \in Evbufs |-> <<>>]
  /\ owner = [e \in Evbufs |-> None]
  /\ insync = [t \in Threads |-> None]
  /\ call = [t \in Threads |-> Idle]
  /\ sent = {} /\ gone = {} /\ misuse = {}
  /\ taken = [i \in Items |-> 0]

-----------------------------------------------------------------------------
(* Threads and locks.                                                       *)

\* Thread t calls libevent on the evbuffers of objects bs, which it may do once
\* it has their locks.
Uses(t, bs) ==
  /\ \A b \in bs :
       /\ handle[b] # None
       /\ t \in Workers => b \in shared
       /\ owner[handle[b]] \in {None, t}
  /\ raced' = (raced \/ (t # Main /\ \E b \in bs : handle[b] \notin locking))

\* A call of its own, not a step of a read.
Calls(t, bs) == call[t].at = "idle" /\ Uses(t, bs)

\* The step takes from the front of e, or adds to it, in the middle of a read of
\* e by another thread.
Overlaps(t, e) ==
  \E u \in Threads \ {t} : call[u].at # "idle" /\ handle[call[u].b] = e
NoteOverlap(t, e) ==
  misuse' = IF Overlaps(t, e) THEN misuse \cup {"overlap"} ELSE misuse

\* Main is about to change the handle of b while nobody else is using it; others
\* may go on to use it later, or Main may itself be inside its sync().
Exchanges(b) ==
  /\ call[Main].at = "idle" /\ handle[b] # None
  /\ \A t \in Workers : insync[t] # b /\ call[t].b # b
NoteExchange(bs) ==
  misuse' = misuse
    \cup (IF bs \cap shared # {} THEN {"exchanged shared"} ELSE {})
    \cup (IF insync[Main] \in bs THEN {"exchanged in sync"} ELSE {})

\* Mutant: the result of evbuffer_enable_locking() is ignored.
EnableLockingFails(b) ==
  /\ Calls(Main, {b})
  /\ shared' = shared \cup {b}
  /\ UNCHANGED <<memory, data, locking, owner, insync, call, misuse>>

EnableLocking(b) ==
  /\ Calls(Main, {b})
  /\ locking' = locking \cup {handle[b]}
  /\ shared' = shared \cup {b}
  /\ UNCHANGED <<memory, data, owner, insync, call, misuse>>

\* sync(fn): lock(), then fn, then unlock(), each on the handle of that moment.
Sync(t, b) ==
  /\ Calls(t, {b})
  /\ insync[t] = None
  /\ insync' = [insync EXCEPT ![t] = b]
  /\ owner' = IF handle[b] \in locking THEN [owner EXCEPT ![handle[b]] = t] ELSE owner
  /\ UNCHANGED <<memory, data, locking, shared, call, misuse>>

\* Mutant: the lock_guard is forgotten.
EndSyncKeeps(t) ==
  /\ call[t].at = "idle" /\ insync[t] # None
  /\ insync' = [insync EXCEPT ![t] = None]
  /\ UNCHANGED <<memory, data, locking, shared, owner, call, raced, misuse>>

EndSync(t) ==
  /\ call[t].at = "idle" /\ insync[t] # None
  /\ insync' = [insync EXCEPT ![t] = None]
  /\ owner' = [owner EXCEPT ![handle[insync[t]]] = None]
  /\ UNCHANGED <<memory, data, locking, shared, call, raced, misuse>>

-----------------------------------------------------------------------------
(* Objects and their evbuffers.                                             *)

Allocate(e) == e \notin made /\ made' = made \cup {e}

Construct(b, e) ==
  /\ call[Main].at = "idle" /\ handle[b] = None
  /\ Allocate(e)
  /\ handle' = [handle EXCEPT ![b] = e]
  /\ UNCHANGED <<freed, data, locks, call, raced, misuse>>

\* evbuffer_free(e), with what is left in it.
FreeContent(e) ==
  /\ freed' = freed \cup {e}
  /\ gone' = gone \cup ToSet(content[e])
  /\ content' = [content EXCEPT ![e] = <<>>]

Destroy(b) ==
  /\ Exchanges(b) /\ insync[Main] # b
  /\ FreeContent(handle[b])
  /\ handle' = [handle EXCEPT ![b] = None]
  /\ shared' = shared \ {b}
  /\ UNCHANGED <<made, sent, taken, locking, owner, insync, call, raced, misuse>>

\* Mutant: the source keeps its handle.
MoveCopies(b, c) ==
  /\ b # c /\ Exchanges(b) /\ Exchanges(c)
  /\ handle' = [handle EXCEPT ![c] = handle[b]]
  /\ NoteExchange({b, c})
  /\ UNCHANGED <<made, freed, data, locks, call, raced>>

\* Both moves swap the handles.
Move(b, c) ==
  /\ b # c /\ Exchanges(b) /\ Exchanges(c)
  /\ handle' = [handle EXCEPT ![b] = handle[c], ![c] = handle[b]]
  /\ NoteExchange({b, c})
  /\ UNCHANGED <<made, freed, data, locks, call, raced>>

\* release(): the object goes on with a new evbuffer.
Release(b, e) ==
  /\ Exchanges(b)
  /\ Allocate(e)
  /\ handle' = [handle EXCEPT ![b] = e]
  /\ NoteExchange({b})
  /\ UNCHANGED <<freed, data, locks, call, raced>>

\* reset(std::move(c)): what b had is freed with the parameter, and c, from which
\* that was moved, goes on with the evbuffer it was constructed with.
Reset(b, c, e) ==
  /\ b # c /\ Exchanges(b) /\ Exchanges(c)
  /\ Allocate(e)
  /\ handle' = [handle EXCEPT ![b] = handle[c], ![c] = e]
  /\ FreeContent(handle[b])
  /\ NoteExchange({b, c})
  /\ UNCHANGED <<sent, taken, locks, call, raced>>

-----------------------------------------------------------------------------
(* Adding data.                                                             *)

Add(e, s, front) == [content EXCEPT ![e] = IF front THEN s \o @ ELSE @ \o s]

\* append() and prepend() of bytes.
AddItem(t, b, i, front) ==
  /\ Calls(t, {b})
  /\ i \notin sent
  /\ sent' = sent \cup {i}
  /\ content' = Add(handle[b], <<i>>, front)
  /\ IF front THEN NoteOverlap(t, handle[b]) ELSE UNCHANGED misuse
  /\ UNCHANGED <<memory, locks, call, taken, gone>>

\* append() and prepend() of a buffer_ref take its content.
AddBuffer(t, b, c, front) ==
  /\ b # c /\ Calls(t, {b, c})
  /\ content' = [Add(handle[b], content[handle[c]], front)
                   EXCEPT ![handle[c]] = <<>>]
  /\ misuse' = misuse \cup
       (IF Overlaps(t, handle[c]) \/ (front /\ Overlaps(t, handle[b]))
        THEN {"overlap"} ELSE {})
  /\ UNCHANGED <<memory, locks, call, sent, taken, gone>>

\* append(std::move(c)): c goes on with the evbuffer that the parameter was
\* constructed with, and its own is freed; if libevent refuses, so is the content.
AppendMove(b, c, e) ==
  /\ b # c /\ Exchanges(c) /\ Calls(Main, {b})
  /\ Allocate(e)
  /\ handle' = [handle EXCEPT ![c] = e]
  /\ freed' = freed \cup {handle[c]}
  /\ \/ /\ content' = [Add(handle[b], content[handle[c]], FALSE)
                         EXCEPT ![handle[c]] = <<>>]
        /\ UNCHANGED gone
     \/ /\ content' = [content EXCEPT ![handle[c]] = <<>>]
        /\ gone' = gone \cup ToSet(content[handle[c]])
  /\ NoteExchange({c})
  /\ UNCHANGED <<sent, taken, locks, call>>

-----------------------------------------------------------------------------
(* Taking data out.                                                         *)

First(s, n) == SubSeq(s, 1, IF n < Len(s) THEN n ELSE Len(s))
Without(s, n) == SubSeq(s, n + 1, Len(s))
Take(s) ==
  taken' = [i \in Items |-> IF i \in ToSet(s) /\ taken[i] < 2 THEN taken[i] + 1
                                                         ELSE taken[i]]

\* drain(len).
Discard(t, b, n) ==
  LET e == handle[b] IN
  /\ Calls(t, {b})
  /\ content[e] # <<>>
  /\ gone' = gone \cup ToSet(First(content[e], n))
  /\ content' = [content EXCEPT ![e] = Without(@, n)]
  /\ NoteOverlap(t, e)
  /\ UNCHANGED <<memory, locks, call, sent, taken>>

\* remove(out, len), into memory.
RemoveOut(t, b, n) ==
  LET e == handle[b] IN
  /\ Calls(t, {b})
  /\ content[e] # <<>>
  /\ Take(First(content[e], n))
  /\ content' = [content EXCEPT ![e] = Without(@, n)]
  /\ NoteOverlap(t, e)
  /\ UNCHANGED <<memory, locks, call, sent, gone>>

\* remove(out, len) and remove(out), into another buffer; the latter takes the
\* size first, and less or no more than that later.
RemoveTo(t, b, c, n) ==
  LET e == handle[b] IN
  /\ b # c /\ Calls(t, {b, c})
  /\ content[e] # <<>>
  /\ content' = [Add(handle[c], First(content[e], n), FALSE)
                   EXCEPT ![e] = Without(@, n)]
  /\ NoteOverlap(t, e)
  /\ UNCHANGED <<memory, locks, call, sent, taken, gone>>

\* drain(text, max), str() and vector() take the size,
StartRead(t, b, max) ==
  LET n == Len(First(content[handle[b]], max)) IN
  /\ Calls(t, {b})
  /\ n > 0
  /\ call' = [call EXCEPT ![t] = [at |-> "sized", b |-> b, n |-> n, text |-> <<>>]]
  /\ UNCHANGED <<memory, data, locks, misuse>>

\* copy as much out,
Copyout(t) ==
  LET c == call[t] IN
  /\ c.at = "sized" /\ Uses(t, {c.b})
  /\ call' = [call EXCEPT ![t] =
       [c EXCEPT !.at = "copied", !.text = First(content[handle[c.b]], c.n)]]
  /\ UNCHANGED <<memory, data, locks, misuse>>

\* Mutant: copyout() without drain().
DrainReadKeeps(t) ==
  /\ call[t].at = "copied" /\ Uses(t, {call[t].b})
  /\ Take(call[t].text)
  /\ call' = [call EXCEPT ![t] = Idle]
  /\ NoteOverlap(t, handle[call[t].b])
  /\ UNCHANGED <<memory, locks, content, sent, gone>>

\* and drain() then drains as much,
DrainRead(t) ==
  LET c == call[t]  e == handle[c.b] IN
  /\ c.at = "copied" /\ Uses(t, {c.b})
  /\ Take(c.text)
  /\ content' = [content EXCEPT ![e] = Without(@, c.n)]
  /\ call' = [call EXCEPT ![t] = Idle]
  /\ NoteOverlap(t, e)
  /\ UNCHANGED <<memory, locks, sent, gone>>

\* while str() and vector() are done.
EndRead(t) ==
  /\ call[t].at = "copied"
  /\ call' = [call EXCEPT ![t] = Idle]
  /\ UNCHANGED <<memory, data, locks, raced, misuse>>

-----------------------------------------------------------------------------
MainNext ==
  \/ \E b \in Buffers : EnableLocking(b) \/ Destroy(b)
  \/ \E b \in Buffers, e \in Evbufs : Construct(b, e) \/ Release(b, e)
  \/ \E b, c \in Buffers : Move(b, c)
  \/ \E b, c \in Buffers, e \in Evbufs : Reset(b, c, e) \/ AppendMove(b, c, e)

ReadNext(t) == Copyout(t) \/ DrainRead(t) \/ EndRead(t)

ThreadNext(t) ==
  \/ \E b \in Buffers : Sync(t, b)
  \/ \E b \in Buffers, i \in Items, front \in BOOLEAN : AddItem(t, b, i, front)
  \/ \E b, c \in Buffers, front \in BOOLEAN : AddBuffer(t, b, c, front)
  \/ \E b \in Buffers, n \in 1 .. Cardinality(Items) :
       \/ Discard(t, b, n) \/ RemoveOut(t, b, n)
       \/ StartRead(t, b, n)
       \/ \E c \in Buffers : RemoveTo(t, b, c, n)
  \/ EndSync(t)

Next ==
  /\ ~raced
  /\ \/ "overlap" \notin misuse /\ MainNext
     \/ "overlap" \notin misuse /\ \E t \in Threads : ThreadNext(t)
     \/ \E t \in Threads : ReadNext(t)

Spec == Init /\ [][Next]_vars

-----------------------------------------------------------------------------
(* Properties.                                                              *)

TypeOK ==
  /\ handle \in [Buffers -> Evbufs \cup {None}]
  /\ made \subseteq Evbufs /\ freed \subseteq made /\ locking \subseteq made
  /\ content \in [Evbufs -> Seq(Items)]
  /\ owner \in [Evbufs -> Threads \cup {None}]
  /\ insync \in [Threads -> Buffers \cup {None}]
  /\ call \in [Threads -> {Idle} \cup [at : {"sized", "copied"}, b : Buffers,
                                       n : Nat, text : Seq(Items)]]
  /\ shared \subseteq Buffers /\ sent \subseteq Items /\ gone \subseteq Items
  /\ taken \in [Items -> 0 .. 2]
  /\ raced \in BOOLEAN
  /\ misuse \subseteq {"overlap", "exchanged shared", "exchanged in sync"}

\* Every variable has its type; and through every move, release, reset and append
\* each object has an evbuffer of its own that is not freed.
OwnedOnce ==
  /\ TypeOK
  /\ \A b, c \in Buffers :
       handle[b] # None =>
         /\ handle[b] \in made \ freed
         /\ handle[b] = handle[c] => b = c

\* Whoever adds and takes data in whatever order, each item is in one buffer,
\* taken out once, or discarded, and a read returns as much as it took the size
\* of (copyout() leaves no end of the text unwritten); unless a thread takes from
\* a buffer in the middle of another one's read, which locks each of its calls
\* but not all of them together.
ReadOnce ==
  "overlap" \notin misuse =>
    LET inside == UNION {ToSet(content[e]) : e \in Evbufs} IN
    /\ \A e \in Evbufs : IsInjective(content[e])
    /\ \A e, f \in Evbufs : e # f => ToSet(content[e]) \cap ToSet(content[f]) = {}
    /\ \A i \in Items :
         taken[i] + (IF i \in inside THEN 1 ELSE 0) + (IF i \in gone THEN 1 ELSE 0)
           = IF i \in sent THEN 1 ELSE 0
    /\ \A t \in Threads : call[t].at = "copied" => Len(call[t].text) = call[t].n

\* sync() gives back the lock it took, so that no thread waits for it for ever,
\* unless the function it calls exchanges the evbuffer of the object.
LockReturned ==
  "exchanged in sync" \notin misuse =>
    \A e \in Evbufs, t \in Threads :
      owner[e] = t => insync[t] # None /\ handle[insync[t]] = e

\* A shared object is one that enable_locking() made safe: no worker uses an
\* evbuffer without a lock, unless the object has had its evbuffer exchanged by a
\* move, a reset or a release, which the lock does not follow.
SharedLocked == raced => "exchanged shared" \in misuse
=============================================================================
