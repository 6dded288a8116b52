----------------------------- MODULE ConnProofs -----------------------------
(***************************************************************************)
(* Theorems about Conn, for any number of objects, structures of libevent,  *)
(* sockets and functors and in one thread or two: who owns what, who closes *)
(* which socket, which functor a callback finds, and who has the lock.      *)
(***************************************************************************)
EXTENDS Conn, TLAPS

-----------------------------------------------------------------------------
(* The inductive invariant.                                                 *)

\* The objects O own the structures S, each exactly one of them.
Owners(own, O, S) ==
  /\ S = {own[o] : o \in O} \ {None}
  /\ \A o, p \in O : own[o] = own[p] => o = p \/ own[o] = None

\* A socket that was opened is somewhere, and in one place: closed, with the program,
\* lost, or with the one bufferevent that closes it; and no two bufferevents share one.
Keeps(h) == h \in live /\ ClosesOnFree(h) /\ fd[h] # None
Sockets ==
  /\ closed \cup hand \cup lost \subseteq opened
  /\ closed \cap hand = {} /\ closed \cap lost = {} /\ hand \cap lost = {}
  /\ \A h \in Bufs : fd[h] # None => h \in live /\ fd[h] \in opened
  /\ \A g, h \in Bufs : fd[g] = fd[h] => g = h \/ fd[g] = None
  /\ \A h \in Bufs : Keeps(h) => fd[h] \notin closed \cup hand \cup lost
  /\ \A s \in opened \ (closed \cup hand \cup lost) :
       \E h \in Bufs : Keeps(h) /\ fd[h] = s

\* Whatever may be called back calls a functor that is there.
Targets ==
  /\ \A x \in (Levs \cup Bufs) \ made : target[x] = None
  /\ \A x \in listening \cup live : target[x] # None => Alive(target[x])

\* A bufferevent whose callback another thread waits for stays, with its functor.
Waited ==
  running # Quiet =>
    /\ running.of \in made /\ running.fn \in Functors
    /\ \/ oneThread \/ running.of \in Levs
       \/ "unlock_callbacks" \in opts[running.of]
       \/ running.of \in live /\ target[running.of] = running.fn

\* Without an exchange the thread in sync() has the lock of what its object owns.
Locked ==
  misuse = {} =>
    \/ synced = Unsynced
    \/ synced.bev \in Bevs /\ buf[synced.bev] = synced.buf

Inv ==
  /\ TypeOK
  /\ Owners(lev, Listeners, listening) /\ Owners(buf, Bevs, live \ raw)
  /\ Sockets /\ Targets /\ Waited /\ Locked /\ FunctorsIntact

-----------------------------------------------------------------------------
(* Ownership.                                                               *)

\* Object o gets x, which nobody has, or nothing, and gives up what it had.
LEMMA PutOwner ==
  ASSUME NEW O, NEW T, NEW own \in [O -> T], NEW S, Owners(own, O, S),
         NEW o \in O, NEW x, x \notin S, NEW new, new = [own EXCEPT ![o] = x]
  PROVE  Owners(new, O, (S \ {own[o]}) \cup ({x} \ {None}))
<1>1. \A p \in O : new[p] = IF p = o THEN x ELSE own[p]  OBVIOUS
<1>2. \A p \in O : own[p] = None \/ own[p] \in S  BY DEF Owners
<1>3. \A p, q \in O : new[p] = new[q] => p = q \/ new[p] = None
  BY <1>1, <1>2 DEF Owners
<1>4. \A p \in O : p # o /\ own[p] # None => own[p] # own[o]
  BY DEF Owners
<1>5. {new[p] : p \in O} \ {None} \subseteq (S \ {own[o]}) \cup ({x} \ {None})
  BY <1>1, <1>2, <1>4
<1>6. (S \ {own[o]}) \cup ({x} \ {None}) \subseteq {new[p] : p \in O} \ {None}
  <2>1. ASSUME NEW y \in S \ {own[o]} PROVE y # None /\ \E p \in O : y = new[p]
    BY <2>1, <1>1 DEF Owners
  <2>2. x = new[o]  BY <1>1
  <2> QED  BY <2>1, <2>2
<1> QED  BY <1>3, <1>5, <1>6 DEF Owners

\* Object p gets what o had, which has nothing now.
LEMMA MoveOwner ==
  ASSUME NEW O, NEW T, NEW own \in [O -> T], NEW S, Owners(own, O, S),
         NEW o \in O, NEW p \in O, o # p, own[o] # None,
         NEW new, new = [own EXCEPT ![p] = own[o], ![o] = None]
  PROVE  Owners(new, O, S \ {own[p]})
<1>1. \A q \in O : new[q] = IF q = o THEN None ELSE IF q = p THEN own[o] ELSE own[q]
  OBVIOUS
<1>2. \A q \in O : own[q] = None \/ own[q] \in S  BY DEF Owners
<1>3. \A q, r \in O : own[q] = own[r] => q = r \/ own[q] = None  BY DEF Owners
<1>4. \A q, r \in O : new[q] = new[r] => q = r \/ new[q] = None
  BY <1>1, <1>3
<1>5. {new[q] : q \in O} \ {None} \subseteq S \ {own[p]}
  BY <1>1, <1>2, <1>3
<1>6. S \ {own[p]} \subseteq {new[q] : q \in O} \ {None}
  <2>1. ASSUME NEW y \in S \ {own[p]} PROVE y # None /\ \E q \in O : y = new[q]
    <3>1. PICK q \in O : y = own[q] /\ y # None  BY DEF Owners
    <3>2. CASE q = o  BY <3>1, <3>2, <1>1
    <3>3. CASE q # o  BY <2>1, <3>1, <3>3, <1>1
    <3> QED  BY <3>2, <3>3
  <2> QED  BY <2>1
<1> QED  BY <1>4, <1>5, <1>6 DEF Owners

LEMMA SwapOwner ==
  ASSUME NEW O, NEW T, NEW own \in [O -> T], NEW S, Owners(own, O, S),
         NEW o \in O, NEW p \in O, o # p,
         NEW new, new = [own EXCEPT ![p] = own[o], ![o] = own[p]]
  PROVE  Owners(new, O, S)
<1>1. \A q \in O : new[q] = IF q = o THEN own[p] ELSE IF q = p THEN own[o] ELSE own[q]
  OBVIOUS
<1>2. \A q \in O : own[q] = None \/ own[q] \in S  BY DEF Owners
<1>3. \A q, r \in O : own[q] = own[r] => q = r \/ own[q] = None  BY DEF Owners
<1>4. \A q, r \in O : new[q] = new[r] => q = r \/ new[q] = None
  BY <1>1, <1>3
<1>5. {new[q] : q \in O} \ {None} \subseteq S  BY <1>1, <1>2
<1>6. S \subseteq {new[q] : q \in O} \ {None}
  <2>1. ASSUME NEW y \in S PROVE y # None /\ \E q \in O : y = new[q]
    <3>1. PICK q \in O : y = own[q] /\ y # None  BY DEF Owners
    <3>2. CASE q = o  BY <3>1, <3>2, <1>1
    <3>3. CASE q = p  BY <3>1, <3>3, <1>1
    <3>4. CASE q # o /\ q # p  BY <3>1, <3>4, <1>1
    <3> QED  BY <3>2, <3>3, <3>4
  <2> QED  BY <2>1
<1> QED  BY <1>4, <1>5, <1>6 DEF Owners

-----------------------------------------------------------------------------
(* The steps of listeners.                                                  *)

LEMMA ListenerOwners ==
  ASSUME Inv, ListenerNext
  PROVE  TypeOK' /\ Owners(lev, Listeners, listening)'
<1> USE DEF listeners, bevs, sockets, loop, locks
<1>1. /\ TypeOK /\ lev \in [Listeners -> Levs \cup {None}]
      /\ Owners(lev, Listeners, listening) /\ None \notin Levs
      /\ listening \subseteq made /\ None \notin listening
  BY NoneAssumption DEF Inv, TypeOK, Owners
<1>2. ASSUME NEW o \in Listeners, NEW k \in Levs, NEW f \in Functors, Listen(o, k, f)
      PROVE  TypeOK' /\ Owners(lev, Listeners, listening)'
  <2>1. k \notin listening /\ k # None /\ lev' = [lev EXCEPT ![o] = k]
        /\ listening' = (listening \ {lev[o]}) \cup ({k} \ {None})
    BY <1>1, <1>2 DEF Listen, Allocate, FreeLevs
  <2>2. Owners(lev', Listeners, listening')  BY <1>1, <2>1, PutOwner
  <2>3. TypeOK'
    BY <1>1, <1>2 DEF Listen, Allocate, FreeLevs, TypeOK
  <2> QED  BY <2>2, <2>3
<1>3. ASSUME NEW o \in Listeners, CloseListener(o)
      PROVE  TypeOK' /\ Owners(lev, Listeners, listening)'
  <2>1. lev' = [lev EXCEPT ![o] = None]
        /\ listening' = (listening \ {lev[o]}) \cup ({None} \ {None})
    BY <1>3 DEF CloseListener, FreeLevs
  <2>2. Owners(lev', Listeners, listening')  BY <1>1, <2>1, PutOwner
  <2>3. TypeOK'  BY <1>1, <1>3 DEF CloseListener, FreeLevs, TypeOK
  <2> QED  BY <2>2, <2>3
<1>4. ASSUME NEW o \in Listeners, NEW p \in Listeners, MoveListener(o, p)
      PROVE  TypeOK' /\ Owners(lev, Listeners, listening)'
  <2>1. /\ o # p /\ lev[o] # None
        /\ lev' = [lev EXCEPT ![p] = lev[o], ![o] = None]
        /\ listening' = listening \ {lev[p]}
    BY <1>4 DEF MoveListener, FreeLevs
  <2>2. Owners(lev', Listeners, listening')  BY <1>1, <2>1, MoveOwner
  <2>3. TypeOK'  BY <1>1, <1>4 DEF MoveListener, FreeLevs, TypeOK
  <2> QED  BY <2>2, <2>3
<1>5. ASSUME NEW o \in Listeners, NEW p \in Listeners, SwapListeners(o, p)
      PROVE  TypeOK' /\ Owners(lev, Listeners, listening)'
  <2>1. /\ o # p /\ lev' = [lev EXCEPT ![p] = lev[o], ![o] = lev[p]]
        /\ listening' = listening
    BY <1>5 DEF SwapListeners
  <2>2. Owners(lev', Listeners, listening')  BY <1>1, <2>1, SwapOwner
  <2>3. TypeOK'  BY <1>1, <1>5 DEF SwapListeners, TypeOK
  <2> QED  BY <2>2, <2>3
<1>6. ASSUME NEW o \in Listeners, NEW f \in Functors \cup {None}, SetAcceptor(o, f)
      PROVE  TypeOK' /\ Owners(lev, Listeners, listening)'
  BY <1>1, <1>6 DEF SetAcceptor, TypeOK
<1>7. ASSUME NEW o \in Listeners, Enable(o) \/ Disable(o)
      PROVE  TypeOK' /\ Owners(lev, Listeners, listening)'
  <2>1. lev[o] # None => lev[o] \in listening  BY <1>1 DEF Owners
  <2> QED  BY <1>1, <1>7, <2>1 DEF Enable, Disable, TypeOK
<1> QED
  BY <1>2, <1>3, <1>4, <1>5, <1>6, <1>7 DEF ListenerNext, Inv

-----------------------------------------------------------------------------
(* The steps of bev and buffer_event.                                       *)

LEMMA FreeType ==
  ASSUME TypeOK, NEW gone, NEW h, NEW s \in Socks \cup {None}, FreeBufs(gone, h, s)
  PROVE  fd' \in [Bufs -> Socks \cup {None}]
BY DEF FreeBufs, TypeOK

LEMMA BevOwners ==
  ASSUME Inv, BevNext
  PROVE  TypeOK' /\ Owners(buf, Bevs, live \ raw)'
<1> USE DEF listeners, bevs, sockets, loop, locks, NoteExchange
<1> DEFINE Good == TypeOK' /\ Owners(buf', Bevs, live' \ raw')
<1>1. /\ TypeOK /\ buf \in [Bevs -> Bufs \cup {None}]
      /\ Owners(buf, Bevs, live \ raw) /\ None \notin Bufs
      /\ live \subseteq made \cap Bufs /\ raw \subseteq live
      /\ made \subseteq Levs \cup Bufs /\ None \notin live \ raw
  BY NoneAssumption DEF Inv, TypeOK
<1>2. ASSUME NEW b \in Bevs, NEW h \in Bufs, NEW s \in Socks \cup {None},
             NEW o \in OptSets, Create(b, h, s, o)
      PROVE  Good
  <2>1. h \notin made /\ made' = made \cup {h} /\ raw' = raw
        /\ buf' = [buf EXCEPT ![b] = h] /\ live' = (live \ {buf[b]}) \cup {h}
    BY <1>1, <1>2 DEF Create, Allocate, FreeBufs, Old
  <2>2. live' \ raw' = ((live \ raw) \ {buf[b]}) \cup ({h} \ {None})
    BY <1>1, <2>1
  <2>3. Owners(buf', Bevs, live' \ raw')
    <3>1. h \notin live \ raw  BY <1>1, <2>1
    <3>2. Owners(buf', Bevs, ((live \ raw) \ {buf[b]}) \cup ({h} \ {None}))
      BY <1>1, <2>1, <3>1, PutOwner
    <3> QED  BY <2>2, <3>2
  <2>4. fd' \in [Bufs -> Socks \cup {None}]
    BY <1>1, <1>2, FreeType DEF Create
  <2>5. opts' \in [Bufs -> SUBSET Flags]
    <3>1. o \in SUBSET Flags  BY OptSetsAssumption
    <3>2. opts' = [opts EXCEPT ![h] = o]  BY <1>2 DEF Create
    <3> QED  BY <1>1, <3>1, <3>2 DEF TypeOK
  <2>6. buf[b] \notin raw  BY <1>1 DEF Owners
  <2>7. live' \subseteq made' /\ raw' \subseteq live' /\ made' \subseteq Levs \cup Bufs
    BY <1>1, <2>1, <2>6
  <2>8. /\ UNCHANGED <<oneThread, lev, listening, enabled, target, opened, functor>>
        /\ dangling' = dangling /\ misuse' \subseteq misuse \cup {"exchanged in sync"}
    BY <1>2 DEF Create
  <2> QED  BY <1>1, <2>1, <2>3, <2>4, <2>5, <2>7, <2>8 DEF TypeOK
<1>3. ASSUME NEW b \in Bevs, Destroy(b) PROVE Good
  <2>1. /\ buf' = [buf EXCEPT ![b] = None] /\ raw' = raw
        /\ live' = live \ {buf[b]} /\ made' = made
    BY <1>1, <1>3 DEF Destroy, FreeBufs, Old
  <2>2. live' \ raw' = ((live \ raw) \ {buf[b]}) \cup ({None} \ {None})
    BY <2>1
  <2>3. Owners(buf', Bevs, live' \ raw')
    <3>1. None \notin live \ raw  BY <1>1, <2>1
    <3>2. Owners(buf', Bevs, ((live \ raw) \ {buf[b]}) \cup ({None} \ {None}))
      BY <1>1, <2>1, <3>1, PutOwner
    <3> QED  BY <2>2, <3>2
  <2>4. fd' \in [Bufs -> Socks \cup {None}]
    BY <1>1, <1>3, FreeType DEF Destroy
  <2>5. buf[b] \notin raw  BY <1>1 DEF Owners
  <2> QED  BY <1>1, <1>3, <2>1, <2>3, <2>4, <2>5 DEF Destroy, TypeOK
<1>4. ASSUME NEW b \in Bevs, NEW c \in Bevs, Move(b, c) PROVE Good
  <2>1. /\ b # c /\ buf[b] # None
        /\ buf' = [buf EXCEPT ![c] = buf[b], ![b] = None] /\ raw' = raw
        /\ live' = live \ {buf[c]} /\ made' = made
    BY <1>1, <1>4 DEF Move, FreeBufs, Old
  <2>2. live' \ raw' = (live \ raw) \ {buf[c]}  BY <2>1
  <2>3. Owners(buf', Bevs, live' \ raw')  BY <1>1, <2>1, <2>2, MoveOwner
  <2>4. fd' \in [Bufs -> Socks \cup {None}]
    BY <1>1, <1>4, FreeType DEF Move
  <2>5. buf[c] \notin raw  BY <1>1 DEF Owners
  <2> QED  BY <1>1, <1>4, <2>1, <2>3, <2>4, <2>5 DEF Move, TypeOK
<1>5. ASSUME NEW b \in Bevs, NEW c \in Bevs, Swap(b, c) PROVE Good
  <2>1. /\ b # c /\ buf' = [buf EXCEPT ![c] = buf[b], ![b] = buf[c]]
        /\ live' = live /\ raw' = raw
    BY <1>5 DEF Swap
  <2>2. Owners(buf', Bevs, live' \ raw')  BY <1>1, <2>1, SwapOwner
  <2> QED  BY <1>1, <1>5, <2>1, <2>2 DEF Swap, TypeOK
<1>6. ASSUME NEW b \in Bevs, Release(b) PROVE Good
  <2>1. /\ buf' = [buf EXCEPT ![b] = None] /\ raw' = raw \cup {buf[b]}
        /\ live' = live /\ buf[b] # None
    BY <1>6 DEF Release
  <2>2. live' \ raw' = ((live \ raw) \ {buf[b]}) \cup ({None} \ {None})
    BY <2>1
  <2>3. Owners(buf', Bevs, live' \ raw')
    <3>1. None \notin live \ raw  BY <1>1, <2>1
    <3>2. Owners(buf', Bevs, ((live \ raw) \ {buf[b]}) \cup ({None} \ {None}))
      BY <1>1, <2>1, <3>1, PutOwner
    <3> QED  BY <2>2, <3>2
  <2>4. buf[b] \in live  BY <1>1, <2>1 DEF Owners
  <2> QED  BY <1>1, <1>6, <2>1, <2>3, <2>4 DEF Release, TypeOK
<1>7. ASSUME NEW b \in Bevs, NEW h \in Bufs, Adopt(b, h) PROVE Good
  <2>1. /\ buf' = [buf EXCEPT ![b] = h] /\ raw' = raw \ {h} /\ h \in raw
        /\ live' = (live \ {buf[b]}) \cup {h} /\ made' = made
    BY <1>1, <1>7 DEF Adopt, FreeBufs, Old
  <2>2. live' \ raw' = ((live \ raw) \ {buf[b]}) \cup ({h} \ {None})
    BY <1>1, <2>1
  <2>3. Owners(buf', Bevs, live' \ raw')
    <3>1. h \notin live \ raw  BY <1>1, <2>1
    <3>2. Owners(buf', Bevs, ((live \ raw) \ {buf[b]}) \cup ({h} \ {None}))
      BY <1>1, <2>1, <3>1, PutOwner
    <3> QED  BY <2>2, <3>2
  <2>4. fd' \in [Bufs -> Socks \cup {None}]
    <3>1. fd[h] \in Socks \cup {None}  BY <1>1 DEF TypeOK
    <3> QED  BY <1>1, <1>7, <3>1, FreeType DEF Adopt
  <2>5. buf[b] \notin raw  BY <1>1 DEF Owners
  <2> QED  BY <1>1, <1>7, <2>1, <2>3, <2>4, <2>5 DEF Adopt, TypeOK
<1>8. ASSUME NEW b \in Bevs, NEW f \in Functors, SetCallbacks(b, f) PROVE Good
  BY <1>1, <1>8 DEF SetCallbacks, TypeOK
<1>9. ASSUME NEW b \in Bevs, NEW s \in Socks, Connect(b, s) \/ SetFd(b, s) PROVE Good
  <2>1. buf[b] \in Bufs  BY <1>1, <1>9 DEF Connect, SetFd
  <2>2. fd' = [fd EXCEPT ![buf[b]] = s] /\ opened' \subseteq opened \cup {s}
    BY <1>9 DEF Connect, SetFd
  <2>3. /\ UNCHANGED <<oneThread, lev, listening, enabled, buf, live, raw, opts, made>>
        /\ UNCHANGED <<target, functor, dangling, misuse>>
    BY <1>9 DEF Connect, SetFd
  <2> QED  BY <1>1, <2>1, <2>2, <2>3 DEF TypeOK
<1>10. ASSUME NEW b \in Bevs, Sync(b) PROVE Good
  BY <1>1, <1>10 DEF Sync, TypeOK
<1> QED
  BY <1>2, <1>3, <1>4, <1>5, <1>6, <1>7, <1>8, <1>9, <1>10 DEF BevNext

-----------------------------------------------------------------------------
(* Sockets.                                                                 *)

\* The bufferevents gone are freed, and perhaps h is there with socket s, which the
\* program hands over if h closes it.
LEMMA FreeSockets ==
  ASSUME Inv, NEW gone \in SUBSET live, NEW h \in Bufs \cup {None},
         NEW s \in Socks \cup {None}, FreeBufs(gone, h, s), h \notin gone,
         h = None => s = None,
         h \in live => s = fd[h] /\ hand' = hand,
         h \notin live =>
           /\ s # None => s \in hand /\ \A x \in live : fd[x] # s
           /\ hand' = IF h # None /\ "close_on_free" \in opts'[h] THEN hand \ {s} ELSE hand,
         \A x \in live : opts'[x] = opts[x], UNCHANGED <<opened, lost>>
  PROVE  Sockets'
<1>1. /\ Sockets /\ None \notin Bufs \cup Socks /\ live \subseteq Bufs
      /\ fd \in [Bufs -> Socks \cup {None}] /\ opened \subseteq Socks
  BY NoneAssumption DEF Inv, TypeOK
<1>2. /\ live' = (live \ gone) \cup ({h} \ {None})
      /\ \A x \in Bufs : fd'[x] = IF x = h THEN s ELSE IF x \in gone THEN None ELSE fd[x]
      /\ closed' = closed \cup ({fd[x] : x \in {y \in gone : ClosesOnFree(y)}} \ {None})
  BY DEF FreeBufs
<1>3. \A x \in live : Keeps(x) => ClosesOnFree(x)' /\ x \in Bufs
  BY <1>1 DEF Keeps, ClosesOnFree
<1>4. \A t : t \in closed' <=> t \in closed \/ \E x \in gone : Keeps(x) /\ fd[x] = t
  BY <1>2 DEF Keeps
<1>5. \A x \in Bufs : x # h => (Keeps(x)' <=> Keeps(x) /\ x \notin gone)
  BY <1>1, <1>2 DEF Keeps, ClosesOnFree
<1>6. s # None => s \in opened  BY <1>1 DEF Sockets
<1>7. \A x \in Bufs : x # h /\ fd'[x] # None => fd'[x] = fd[x] /\ x \in live \ gone
  BY <1>1, <1>2 DEF Sockets
<1>8. \A x \in Bufs : x # h /\ fd[x] = s => s = None
  BY <1>1 DEF Sockets
<1>9. h \in Bufs => fd'[h] = s /\ h \in live'  BY <1>1, <1>2
<1>10. (closed' \cup hand' \cup lost' \subseteq opened')
  BY <1>1, <1>4, <1>6 DEF Sockets, Keeps
<1>11. /\ closed' \cap hand' = {} /\ closed' \cap lost' = {} /\ hand' \cap lost' = {}
  <2>1. hand' \subseteq hand /\ lost' = lost  OBVIOUS
  <2>2. \A x \in gone : Keeps(x) => fd[x] \notin hand \cup lost
    BY <1>1 DEF Sockets
  <2> QED  BY <1>1, <1>4, <2>1, <2>2 DEF Sockets
<1>12. \A x \in Bufs : fd'[x] # None => x \in live' /\ fd'[x] \in opened'
  BY <1>1, <1>2, <1>6, <1>7, <1>9 DEF Sockets
<1>13. \A x, y \in Bufs : fd'[x] = fd'[y] => x = y \/ fd'[x] = None
  BY <1>1, <1>7, <1>8, <1>9 DEF Sockets
<1>14. \A x \in Bufs : Keeps(x)' => fd'[x] \notin closed' \cup hand' \cup lost'
  <2>1. SUFFICES ASSUME NEW x \in Bufs, Keeps(x)'
                 PROVE  fd'[x] \notin closed' \cup hand' \cup lost'
    OBVIOUS
  <2>2. hand' \subseteq hand /\ lost' = lost  OBVIOUS
  <2>3. CASE x # h
    <3>1. fd'[x] = fd[x] /\ x \in live \ gone /\ Keeps(x)
      BY <2>1, <2>3, <1>5, <1>7 DEF Keeps
    <3>2. fd[x] \notin closed \cup hand \cup lost /\ fd[x] # None
      BY <3>1, <1>1 DEF Sockets, Keeps
    <3>3. \A y \in gone : fd[y] # fd[x]  BY <3>1, <3>2, <1>1 DEF Sockets
    <3> QED  BY <3>1, <3>2, <3>3, <2>2, <1>4
  <2>4. CASE x = h /\ h \in live
    <3>1. fd'[x] = fd[x] /\ Keeps(x)
      BY <2>1, <2>4, <1>9 DEF Keeps, ClosesOnFree
    <3>2. fd[x] \notin closed \cup hand \cup lost /\ fd[x] # None
      BY <3>1, <1>1 DEF Sockets, Keeps
    <3>3. \A y \in gone : fd[y] # fd[x]  BY <2>4, <3>1, <3>2, <1>1 DEF Sockets
    <3> QED  BY <3>1, <3>2, <3>3, <2>2, <1>4
  <2>5. CASE x = h /\ h \notin live
    <3>1. fd'[x] = s /\ s # None /\ "close_on_free" \in opts'[h]
      BY <2>1, <2>5, <1>9 DEF Keeps, ClosesOnFree
    <3>2. s \in hand /\ hand' = hand \ {s}  BY <3>1, <2>5, <1>1
    <3>3. \A y \in gone : fd[y] # s  BY <3>1, <2>5
    <3> QED  BY <3>1, <3>2, <3>3, <2>2, <1>1, <1>4 DEF Sockets
  <2> QED  BY <2>3, <2>4, <2>5
<1>15. ASSUME NEW t \in opened \ (closed' \cup hand' \cup lost')
       PROVE  \E x \in Bufs : Keeps(x)' /\ fd'[x] = t
  <2>1. t \notin closed /\ t \notin lost  BY <1>4, <1>15
  <2>2. CASE t \in hand
    <3>1. h \notin live /\ h # None /\ t = s /\ "close_on_free" \in opts'[h]
      BY <1>15, <2>2
    <3>2. Keeps(h)' /\ h \in Bufs
      BY <3>1, <2>2, <1>1, <1>9 DEF Keeps, ClosesOnFree
    <3> QED  BY <3>1, <3>2, <1>9
  <2>3. CASE t \notin hand
    <3>1. PICK x \in Bufs : Keeps(x) /\ fd[x] = t
      BY <2>1, <2>3, <1>1 DEF Sockets
    <3>2. x \notin gone  BY <3>1, <1>4, <1>15
    <3>3. fd'[x] = t /\ Keeps(x)'
      <4>1. CASE x = h
        BY <3>1, <4>1, <1>9 DEF Keeps, ClosesOnFree
      <4>2. CASE x # h
        BY <3>1, <3>2, <4>2, <1>2, <1>5
      <4> QED  BY <4>1, <4>2
    <3> QED  BY <3>3
  <2> QED  BY <2>2, <2>3
<1>16. opened' = opened  OBVIOUS
<1> QED  BY <1>10, <1>11, <1>12, <1>13, <1>14, <1>15, <1>16 DEF Sockets

LEMMA SameSockets ==
  ASSUME Sockets, UNCHANGED <<live, opts, fd, opened, hand, closed, lost>>
  PROVE  Sockets'
<1>1. \A h \in Bufs : Keeps(h)' <=> Keeps(h)  BY DEF Keeps, ClosesOnFree
<1> QED  BY <1>1 DEF Sockets

\* Bufferevent h, which is not freed, gets socket s, which it had not.
LEMMA FdSockets ==
  ASSUME Inv, NEW h \in live, NEW s \in Socks, fd' = [fd EXCEPT ![h] = s],
         UNCHANGED <<live, opts, closed, lost>>,
         \/ s \notin opened /\ fd[h] = None /\ opened' = opened \cup {s}
            /\ hand' = IF ClosesOnFree(h) THEN hand ELSE hand \cup {s}
         \/ s \in hand /\ (\A x \in live : fd[x] # s) /\ opened' = opened
            /\ hand' = IF ClosesOnFree(h) THEN (hand \ {s}) \cup ({fd[h]} \ {None})
                                          ELSE hand
  PROVE  Sockets'
<1>1. /\ Sockets /\ None \notin Bufs \cup Socks /\ live \subseteq Bufs
      /\ fd \in [Bufs -> Socks \cup {None}] /\ opened \subseteq Socks
  BY NoneAssumption DEF Inv, TypeOK
<1>2. /\ h \in Bufs /\ s # None
      /\ \A x \in Bufs : fd'[x] = IF x = h THEN s ELSE fd[x]
  BY <1>1
<1>3. \A x \in Bufs : x # h => (Keeps(x)' <=> Keeps(x))
  BY <1>2 DEF Keeps, ClosesOnFree
<1>4. Keeps(h)' <=> ClosesOnFree(h)  BY <1>2 DEF Keeps, ClosesOnFree
<1>5. \A x \in Bufs : fd[x] # s  BY <1>1, <1>2 DEF Sockets
<1>6. s \notin closed \cup lost  BY <1>1 DEF Sockets
<1>7. fd[h] # None /\ ClosesOnFree(h) => fd[h] \notin closed \cup hand \cup lost
  BY <1>1, <1>2 DEF Sockets, Keeps
<1>8. fd[h] # None => fd[h] \in opened  BY <1>1, <1>2 DEF Sockets
<1>9. s \in opened' /\ opened \subseteq opened'  BY <1>1 DEF Sockets
<1>10. hand' \subseteq hand \cup {s} \cup ({fd[h]} \ {None})  OBVIOUS
<1>11. closed' \cup hand' \cup lost' \subseteq opened'
  BY <1>1, <1>8, <1>9, <1>10 DEF Sockets
<1>12. closed' \cap hand' = {} /\ closed' \cap lost' = {} /\ hand' \cap lost' = {}
  <2>1. \A t \in hand' : t \notin closed \cup lost
    <3>1. CASE ClosesOnFree(h)  BY <3>1, <1>1, <1>6, <1>7, <1>10 DEF Sockets
    <3>2. CASE ~ClosesOnFree(h)  BY <3>2, <1>1, <1>6 DEF Sockets
    <3> QED  BY <3>1, <3>2
  <2> QED  BY <2>1, <1>1 DEF Sockets
<1>13. \A x \in Bufs : fd'[x] # None => x \in live' /\ fd'[x] \in opened'
  BY <1>1, <1>2, <1>9 DEF Sockets
<1>14. \A x, y \in Bufs : fd'[x] = fd'[y] => x = y \/ fd'[x] = None
  BY <1>1, <1>2, <1>5 DEF Sockets
<1>15. \A x \in Bufs : Keeps(x)' => fd'[x] \notin closed' \cup hand' \cup lost'
  <2>1. SUFFICES ASSUME NEW x \in Bufs, Keeps(x)'
                 PROVE  fd'[x] \notin closed' \cup hand' \cup lost'
    OBVIOUS
  <2>2. CASE x = h
    <3>1. fd'[x] = s /\ ClosesOnFree(h)  BY <2>1, <2>2, <1>2, <1>4
    <3>2. s \notin hand'
      BY <3>1, <1>1, <1>2, <1>5 DEF Sockets
    <3> QED  BY <3>1, <3>2, <1>6
  <2>3. CASE x # h
    <3>1. fd'[x] = fd[x] /\ Keeps(x) /\ fd[x] # None
      BY <2>1, <2>3, <1>2, <1>3 DEF Keeps
    <3>2. fd[x] \notin closed \cup hand \cup lost /\ fd[x] # fd[h] /\ fd[x] # s
      BY <3>1, <2>3, <1>1, <1>2, <1>5 DEF Sockets
    <3> QED  BY <3>1, <3>2, <1>10
  <2> QED  BY <2>2, <2>3
<1>16. ASSUME NEW t \in opened' \ (closed' \cup hand' \cup lost')
       PROVE  \E x \in Bufs : Keeps(x)' /\ fd'[x] = t
  <2>1. CASE t = s
    <3>1. ClosesOnFree(h)  BY <1>16, <2>1
    <3> QED  BY <2>1, <3>1, <1>2, <1>4
  <2>2. CASE t # s
    <3>1. t \in opened \ (closed \cup hand \cup lost)  BY <1>16, <2>2
    <3>2. PICK x \in Bufs : Keeps(x) /\ fd[x] = t  BY <3>1, <1>1 DEF Sockets
    <3>3. x # h
      <4>1. SUFFICES ASSUME x = h PROVE FALSE  OBVIOUS
      <4>2. ClosesOnFree(h) /\ fd[h] = t /\ t # None
        BY <3>2, <4>1 DEF Keeps
      <4>3. hand' = (hand \ {s}) \cup ({fd[h]} \ {None})  BY <4>2
      <4> QED  BY <4>2, <4>3, <1>16
    <3> QED  BY <3>2, <3>3, <1>2, <1>3
  <2> QED  BY <2>1, <2>2
<1> QED  BY <1>11, <1>12, <1>13, <1>14, <1>15, <1>16 DEF Sockets

LEMMA BevSockets ==
  ASSUME Inv, BevNext
  PROVE  Sockets'
<1> USE DEF bevs, sockets, loop, locks
<1>1. /\ TypeOK /\ Sockets /\ None \notin Bufs \cup Socks
      /\ live \subseteq made \cap Bufs /\ raw \subseteq live
      /\ opts \in [Bufs -> SUBSET Flags] /\ fd \in [Bufs -> Socks \cup {None}]
      /\ Owners(buf, Bevs, live \ raw)
  BY NoneAssumption DEF Inv, TypeOK
<1>2. \A b \in Bevs : Old(b) \in SUBSET live /\ Old(b) \cap raw = {}
  BY <1>1 DEF Old, Owners
<1>3. ASSUME NEW b \in Bevs, NEW h \in Bufs, NEW s \in Socks \cup {None},
             NEW o \in OptSets, Create(b, h, s, o)
      PROVE  Sockets'
  <2>1. /\ h \notin live /\ h # None
        /\ s # None => s \in hand /\ \A x \in live : fd[x] # s
        /\ FreeBufs(Old(b), h, s) /\ opts' = [opts EXCEPT ![h] = o]
        /\ hand' = IF "close_on_free" \in o THEN hand \ {s} ELSE hand
        /\ UNCHANGED <<opened, lost>>
    BY <1>1, <1>3 DEF Create, Allocate
  <2>2. opts'[h] = o /\ \A x \in live : opts'[x] = opts[x]  BY <1>1, <2>1
  <2>3. /\ Old(b) \in SUBSET live /\ h \notin Old(b) /\ h \in Bufs \cup {None}
        /\ hand' = IF h # None /\ "close_on_free" \in opts'[h] THEN hand \ {s} ELSE hand
    BY <1>2, <2>1, <2>2
  <2> QED  BY <2>1, <2>2, <2>3, FreeSockets
<1>4. ASSUME NEW b \in Bevs, FreeBufs(Old(b), None, None),
             UNCHANGED <<opts, hand, opened, lost>>
      PROVE  Sockets'
  <2>1. /\ Old(b) \in SUBSET live /\ None \notin Old(b) /\ None \notin live
        /\ None \in Bufs \cup {None} /\ None \in Socks \cup {None}
    BY <1>1, <1>2
  <2>2. /\ None # None => None \in hand /\ \A x \in live : fd[x] # None
        /\ hand' = IF None # None /\ "close_on_free" \in opts'[None]
                     THEN hand \ {None} ELSE hand
        /\ \A x \in live : opts'[x] = opts[x]
    BY <1>4
  <2> QED  BY <1>4, <2>1, <2>2, FreeSockets
<1>5. ASSUME NEW b \in Bevs, Destroy(b) PROVE Sockets'
  BY <1>4, <1>5 DEF Destroy
<1>6. ASSUME NEW b \in Bevs, NEW c \in Bevs, Move(b, c) PROVE Sockets'
  BY <1>4, <1>6 DEF Move
<1>7. ASSUME NEW b \in Bevs, NEW h \in Bufs, Adopt(b, h) PROVE Sockets'
  <2>1. /\ h \in live /\ FreeBufs(Old(b), h, fd[h])
        /\ UNCHANGED <<opts, hand, opened, lost>>
    BY <1>1, <1>7 DEF Adopt
  <2>2. /\ Old(b) \in SUBSET live /\ h \notin Old(b) /\ h \in Bufs \cup {None}
        /\ h # None /\ fd[h] \in Socks \cup {None}
        /\ \A x \in live : opts'[x] = opts[x]
    BY <1>1, <1>2, <1>7, <2>1 DEF Adopt
  <2> QED  BY <2>1, <2>2, FreeSockets
<1>8. ASSUME NEW b \in Bevs, NEW s \in Socks, Connect(b, s) \/ SetFd(b, s)
      PROVE  Sockets'
  <2> DEFINE h == buf[b]
  <2>1. h \in live  BY <1>1, <1>8 DEF Connect, SetFd, Owners
  <2>2. fd' = [fd EXCEPT ![h] = s] /\ UNCHANGED <<live, opts, closed, lost>>
    BY <1>8 DEF Connect, SetFd
  <2>3. \/ s \notin opened /\ fd[h] = None /\ opened' = opened \cup {s}
           /\ hand' = IF ClosesOnFree(h) THEN hand ELSE hand \cup {s}
        \/ s \in hand /\ (\A x \in live : fd[x] # s) /\ opened' = opened
           /\ hand' = IF ClosesOnFree(h) THEN (hand \ {s}) \cup ({fd[h]} \ {None})
                                         ELSE hand
    BY <1>8 DEF Connect, SetFd
  <2> HIDE DEF h
  <2> QED  BY <2>1, <2>2, <2>3, FdSockets
<1>9. ASSUME NEW b \in Bevs,
             \/ Release(b) \/ Sync(b) \/ \E c \in Bevs : Swap(b, c)
             \/ \E f \in Functors : SetCallbacks(b, f)
      PROVE  Sockets'
  BY <1>1, <1>9, SameSockets DEF Release, Sync, Swap, SetCallbacks
<1> QED  BY <1>3, <1>5, <1>6, <1>7, <1>8, <1>9 DEF BevNext

LEMMA OtherSockets ==
  ASSUME Inv, ListenerNext \/ ProgramNext \/ LoopNext \/ EndSync
  PROVE  Sockets'
<1> USE DEF bevs, sockets, loop, locks
<1>1. /\ Sockets /\ None \notin Bufs \cup Socks /\ live \subseteq Bufs
      /\ fd \in [Bufs -> Socks \cup {None}] /\ opened \subseteq Socks
  BY NoneAssumption DEF Inv, TypeOK
<1>2. CASE ListenerNext
  <2>1. UNCHANGED <<live, opts, fd, opened, hand, closed, lost>>
    BY <1>2 DEF ListenerNext, Listen, CloseListener, MoveListener, SwapListeners,
                SetAcceptor, Enable, Disable
  <2> QED  BY <1>1, <2>1, SameSockets
<1>3. ASSUME UNCHANGED <<live, opts, fd>>
      PROVE  \A h \in Bufs : Keeps(h)' <=> Keeps(h)
  BY <1>3 DEF Keeps, ClosesOnFree
<1>4. ASSUME NEW s \in Socks, CloseSock(s) PROVE Sockets'
  <2>1. /\ UNCHANGED <<live, opts, fd, opened, lost>> /\ s \in hand
        /\ hand' = hand \ {s} /\ closed' = closed \cup {s}
        /\ \A h \in live : fd[h] # s
    BY <1>4 DEF CloseSock
  <2>2. \A h \in Bufs : Keeps(h)' <=> Keeps(h)  BY <2>1, <1>3
  <2>3. \A h \in Bufs : Keeps(h) => fd[h] # s  BY <2>1 DEF Keeps
  <2> QED  BY <1>1, <2>1, <2>2, <2>3 DEF Sockets
<1>5. ASSUME NEW k \in Levs, NEW s \in Socks, Accept(k, s) PROVE Sockets'
  <2>1. /\ UNCHANGED <<live, opts, fd, lost>> /\ s \notin opened
        /\ opened' = opened \cup {s}
        /\ \/ hand' = hand /\ closed' = closed \cup {s}
           \/ hand' = hand \cup {s} /\ closed' = closed
    BY <1>5 DEF Accept
  <2>2. \A h \in Bufs : Keeps(h)' <=> Keeps(h)  BY <2>1, <1>3
  <2>3. \A h \in Bufs : fd[h] # s
    BY <2>1, <1>1 DEF Sockets
  <2> QED  BY <1>1, <2>1, <2>2, <2>3 DEF Sockets
<1>6. ASSUME NEW throws \in BOOLEAN, EndCall(throws) PROVE Sockets'
  <2>1. /\ UNCHANGED <<live, opts, fd, opened, closed>>
        /\ \/ hand' = hand /\ lost' = lost
           \/ /\ hand' = hand \ {running.sock}
              /\ lost' = lost \cup ({running.sock} \cap hand)
    BY <1>6 DEF EndCall
  <2>2. \A h \in Bufs : Keeps(h)' <=> Keeps(h)  BY <2>1, <1>3
  <2> QED  BY <1>1, <2>1, <2>2 DEF Sockets
<1>7. ASSUME EndSync \/ (\E f \in Functors : EndLife(f)) \/ (\E h \in Bufs : Event(h))
      PROVE  Sockets'
  BY <1>1, <1>7, SameSockets DEF EndSync, EndLife, Event
<1> QED  BY <1>2, <1>4, <1>5, <1>6, <1>7 DEF ProgramNext, LoopNext

-----------------------------------------------------------------------------
(* The rest of the types and of the owners.                                 *)

LEMMA OtherOwners ==
  ASSUME Inv, ProgramNext \/ LoopNext \/ EndSync
  PROVE  TypeOK' /\ UNCHANGED <<lev, listening, buf, live, raw>>
<1> USE DEF listeners, bevs, sockets, loop, locks
<1>1. /\ TypeOK /\ Waited /\ enabled \subseteq made /\ live \subseteq made
  BY DEF Inv, TypeOK
<1>2. ASSUME NEW s \in Socks, CloseSock(s)
      PROVE  TypeOK' /\ UNCHANGED <<lev, listening, buf, live, raw>>
  BY <1>1, <1>2 DEF CloseSock, TypeOK
<1>3. ASSUME NEW f \in Functors, EndLife(f)
      PROVE  TypeOK' /\ UNCHANGED <<lev, listening, buf, live, raw>>
  <2>1. running # Quiet => running.of \in made  BY <1>1 DEF Waited
  <2> QED  BY <1>1, <1>3, <2>1 DEF EndLife, TypeOK
<1>4. ASSUME NEW k \in Levs, NEW s \in Socks, Accept(k, s)
      PROVE  TypeOK' /\ UNCHANGED <<lev, listening, buf, live, raw>>
  <2>1. dangling' \subseteq dangling \cup {k} /\ k \in made
    BY <1>1, <1>4 DEF Accept, Call
  <2>2. /\ UNCHANGED <<oneThread, lev, listening, enabled, buf, live, raw, made, opts>>
        /\ UNCHANGED <<target, fd, functor, misuse>>
        /\ opened' = opened \cup {s}
    BY <1>4 DEF Accept
  <2> QED  BY <1>1, <2>1, <2>2 DEF TypeOK
<1>5. ASSUME NEW h \in Bufs, Event(h)
      PROVE  TypeOK' /\ UNCHANGED <<lev, listening, buf, live, raw>>
  BY <1>1, <1>5 DEF Event, Call, TypeOK
<1>6. ASSUME EndSync \/ \E throws \in BOOLEAN : EndCall(throws)
      PROVE  TypeOK' /\ UNCHANGED <<lev, listening, buf, live, raw>>
  BY <1>1, <1>6 DEF EndSync, EndCall, TypeOK
<1> QED  BY <1>2, <1>3, <1>4, <1>5, <1>6 DEF ProgramNext, LoopNext

LEMMA OwnersKept ==
  ASSUME Inv, ListenerNext \/ BevNext \/ ProgramNext \/ LoopNext \/ EndSync
  PROVE  /\ TypeOK'
         /\ Owners(lev, Listeners, listening)' /\ Owners(buf, Bevs, live \ raw)'
<1>1. Owners(lev, Listeners, listening) /\ Owners(buf, Bevs, live \ raw)  BY DEF Inv
<1>2. ListenerNext => UNCHANGED <<buf, live, raw>>
  BY DEF ListenerNext, Listen, CloseListener, MoveListener, SwapListeners,
         SetAcceptor, Enable, Disable, bevs
<1>3. BevNext => UNCHANGED <<lev, listening>>
  BY DEF BevNext, Create, Destroy, Move, Swap, Release, Adopt, SetCallbacks,
         Connect, SetFd, Sync, listeners
<1>4. CASE ListenerNext  BY <1>1, <1>2, <1>4, ListenerOwners DEF Owners
<1>5. CASE BevNext  BY <1>1, <1>3, <1>5, BevOwners DEF Owners
<1>6. CASE ProgramNext \/ LoopNext \/ EndSync
  BY <1>1, <1>6, OtherOwners DEF Owners
<1> QED  BY <1>4, <1>5, <1>6

-----------------------------------------------------------------------------
(* Functors.                                                                *)

\* Nothing is there that was not, or it has no functor yet.
LEMMA SameTargets ==
  ASSUME Targets, UNCHANGED <<target, functor>>, made \subseteq made',
         made' \subseteq Levs \cup Bufs,
         (listening \cup live)' \subseteq (listening \cup live) \cup (made' \ made)
  PROVE  Targets'
BY DEF Targets, Alive

LEMMA NewTarget ==
  ASSUME TypeOK, Targets, UNCHANGED functor, made \subseteq made', NEW x \in made',
         x \in Levs \cup Bufs, NEW f \in Functors \cup {None}, f # None => Alive(f),
         target' = [target EXCEPT ![x] = f],
         (listening \cup live)' \subseteq (listening \cup live) \cup {x}
  PROVE  Targets'
<1>1. \A y \in Levs \cup Bufs : target'[y] = IF y = x THEN f ELSE target[y]
  BY DEF TypeOK
<1>2. listening \cup live \subseteq Levs \cup Bufs  BY DEF TypeOK
<1> QED  BY <1>1, <1>2 DEF Targets, Alive

LEMMA TargetsKept ==
  ASSUME Inv, ListenerNext \/ BevNext \/ ProgramNext \/ LoopNext \/ EndSync
  PROVE  Targets'
<1> USE DEF listeners, bevs, sockets, loop, locks
<1>1. /\ TypeOK /\ Targets /\ None \notin Levs \cup Bufs
      /\ lev \in [Listeners -> Levs \cup {None}] /\ buf \in [Bevs -> Bufs \cup {None}]
      /\ listening \subseteq made \cap Levs /\ live \subseteq made \cap Bufs
      /\ raw \subseteq live /\ made \subseteq Levs \cup Bufs
      /\ Owners(lev, Listeners, listening) /\ Owners(buf, Bevs, live \ raw)
  BY NoneAssumption DEF Inv, TypeOK
<1>2. CASE ListenerNext
  <2>1. ASSUME NEW o \in Listeners, NEW k \in Levs, NEW f \in Functors, Listen(o, k, f)
        PROVE  Targets'
    <3>1. /\ UNCHANGED functor /\ made \subseteq made' /\ k \in made' /\ Alive(f)
          /\ target' = [target EXCEPT ![k] = f]
          /\ (listening \cup live)' \subseteq (listening \cup live) \cup {k}
      BY <2>1 DEF Listen, Allocate, FreeLevs
    <3> QED  BY <1>1, <3>1, NewTarget
  <2>2. ASSUME NEW o \in Listeners, NEW f \in Functors \cup {None}, SetAcceptor(o, f)
        PROVE  Targets'
    <3>1. /\ UNCHANGED <<functor, made, listening, live>> /\ lev[o] \in made
          /\ lev[o] \in Levs /\ (f # None => Alive(f))
          /\ target' = [target EXCEPT ![lev[o]] = f]
      BY <1>1, <2>2 DEF SetAcceptor, Owners
    <3>2. /\ made \subseteq made' /\ lev[o] \in made'
          /\ (listening \cup live)' \subseteq (listening \cup live) \cup {lev[o]}
      BY <3>1
    <3> QED  BY <1>1, <3>1, <3>2, NewTarget
  <2>3. ASSUME NEW o \in Listeners,
               \/ CloseListener(o) \/ Enable(o) \/ Disable(o)
               \/ \E p \in Listeners : MoveListener(o, p) \/ SwapListeners(o, p)
        PROVE  Targets'
    <3>1. /\ UNCHANGED <<target, functor, made>>
          /\ (listening \cup live)' \subseteq listening \cup live
      BY <2>3 DEF CloseListener, MoveListener, SwapListeners, Enable, Disable, FreeLevs
    <3> QED  BY <1>1, <3>1, SameTargets
  <2> QED  BY <1>2, <2>1, <2>2, <2>3 DEF ListenerNext
<1>3. CASE BevNext
  <2>1. ASSUME NEW b \in Bevs, NEW f \in Functors, SetCallbacks(b, f) PROVE Targets'
    <3>1. /\ UNCHANGED <<functor, made, listening, live>> /\ buf[b] \in made
          /\ buf[b] \in Bufs /\ Alive(f) /\ target' = [target EXCEPT ![buf[b]] = f]
      BY <1>1, <2>1 DEF SetCallbacks, Owners
    <3>2. /\ made \subseteq made' /\ buf[b] \in made'
          /\ (listening \cup live)' \subseteq (listening \cup live) \cup {buf[b]}
      BY <3>1
    <3> QED  BY <1>1, <3>1, <3>2, NewTarget
  <2>2. ASSUME NEW b \in Bevs, NEW h \in Bufs, NEW s \in Socks \cup {None},
               NEW o \in OptSets, Create(b, h, s, o)
        PROVE  Targets'
    <3>1. /\ UNCHANGED <<target, functor, listening>> /\ h \notin made
          /\ made' = made \cup {h} /\ live' \subseteq live \cup {h}
      BY <2>2 DEF Create, Allocate, FreeBufs
    <3> QED  BY <1>1, <3>1, SameTargets
  <2>3. ASSUME NEW b \in Bevs,
               \/ Destroy(b) \/ Release(b) \/ Sync(b)
               \/ \E c \in Bevs : Move(b, c) \/ Swap(b, c)
               \/ \E h \in Bufs : Adopt(b, h)
               \/ \E s \in Socks : Connect(b, s) \/ SetFd(b, s)
        PROVE  Targets'
    <3>1. UNCHANGED <<target, functor, made, listening>> /\ live' \subseteq live
      BY <1>1, <2>3 DEF Destroy, Release, Sync, Move, Swap, Adopt, Connect, SetFd, FreeBufs
    <3> QED  BY <1>1, <3>1, SameTargets
  <2> QED  BY <1>3, <2>1, <2>2, <2>3 DEF BevNext
<1>4. ASSUME NEW f \in Functors, EndLife(f) PROVE Targets'
  <2>1. /\ UNCHANGED <<target, made, listening, live>>
        /\ \A x \in listening \cup live : target[x] # f
        /\ functor' = [functor EXCEPT ![f] = "dead"]
    BY <1>4 DEF EndLife
  <2>2. \A x \in listening \cup live : target[x] \in Functors \cup {None}
    BY <1>1 DEF TypeOK
  <2>3. \A g \in Functors : g # f => functor'[g] = functor[g]
    BY <1>1, <2>1 DEF TypeOK
  <2> QED  BY <1>1, <2>1, <2>2, <2>3 DEF Targets, Alive
<1>5. CASE (\E s \in Socks : CloseSock(s)) \/ LoopNext \/ EndSync
  <2>1. UNCHANGED <<target, functor, made, listening, live>>
    BY <1>5 DEF CloseSock, LoopNext, Accept, Event, EndCall, EndSync
  <2> QED  BY <1>1, <2>1, SameTargets
<1> QED  BY <1>2, <1>3, <1>4, <1>5 DEF ProgramNext

-----------------------------------------------------------------------------
(* Callbacks.                                                               *)

\* What a call needs stays: while another thread waits for it, nobody frees its
\* bufferevent or gives it another functor.
LEMMA SameCall ==
  ASSUME Waited, UNCHANGED <<oneThread, running>>, made \subseteq made',
         None \notin live,
         \A x \in made \ Levs : opts'[x] = opts[x],
         \A x \in live \ Levs :
           ~Waits(x) => x \in live' /\ target'[x] = target[x]
  PROVE  Waited'
<1>1. SUFFICES ASSUME running # Quiet PROVE Waited'  BY DEF Waited, Quiet
<1> DEFINE h == running.of
<1>2. h \in made /\ running.fn \in Functors  BY <1>1 DEF Waited
<1>3. CASE oneThread \/ h \in Levs \/ "unlock_callbacks" \in opts[h]
  BY <1>2, <1>3 DEF Waited
<1>4. CASE ~oneThread /\ h \notin Levs /\ "unlock_callbacks" \notin opts[h]
  <2>1. h \in live /\ target[h] = running.fn  BY <1>1, <1>4 DEF Waited
  <2>2. ~Waits(h)  BY <1>4, <2>1 DEF Waits
  <2>3. h \in live' /\ target'[h] = running.fn  BY <1>4, <2>1, <2>2
  <2> QED  BY <1>2, <2>3 DEF Waited
<1> QED  BY <1>3, <1>4

LEMMA WaitedKept ==
  ASSUME Inv, ListenerNext \/ BevNext \/ ProgramNext \/ LoopNext \/ EndSync
  PROVE  Waited'
<1> USE DEF listeners, bevs, sockets, loop, locks
<1>1. /\ TypeOK /\ Waited /\ None \notin Levs \cup Bufs /\ None \notin live
      /\ lev \in [Listeners -> Levs \cup {None}] /\ buf \in [Bevs -> Bufs \cup {None}]
      /\ live \subseteq made \cap Bufs /\ raw \subseteq live
      /\ made \subseteq Levs \cup Bufs /\ opts \in [Bufs -> SUBSET Flags]
      /\ target \in [Levs \cup Bufs -> Functors \cup {None}]
      /\ listening \subseteq made \cap Levs /\ enabled \subseteq listening
  BY NoneAssumption DEF Inv, TypeOK
<1>2. CASE ListenerNext
  <2>1. UNCHANGED <<oneThread, running, live, opts>> /\ made \subseteq made'
    BY <1>2 DEF ListenerNext, Listen, CloseListener, MoveListener, SwapListeners,
                SetAcceptor, Enable, Disable, Allocate
  <2>2. \A x \in live \ Levs : target'[x] = target[x]
    <3>1. \/ target' = target
          \/ \E k \in Levs, f \in Functors \cup {None} :
               target' = [target EXCEPT ![k] = f]
      BY <1>1, <1>2 DEF ListenerNext, Listen, CloseListener, MoveListener,
                        SwapListeners, SetAcceptor, Enable, Disable
    <3> QED  BY <1>1, <3>1
  <2> QED  BY <1>1, <2>1, <2>2, SameCall
<1>3. CASE BevNext
  <2>1. UNCHANGED <<oneThread, running>> /\ made \subseteq made'
    BY <1>3 DEF BevNext, Create, Destroy, Move, Swap, Release, Adopt, SetCallbacks,
                Connect, SetFd, Sync, Allocate
  <2>2. \A x \in made \ Levs : opts'[x] = opts[x]
    <3>1. \/ opts' = opts
          \/ \E h \in Bufs, o \in OptSets : h \notin made /\ opts' = [opts EXCEPT ![h] = o]
      BY <1>3 DEF BevNext, Create, Destroy, Move, Swap, Release, Adopt, SetCallbacks,
                  Connect, SetFd, Sync, Allocate
    <3> QED  BY <1>1, <3>1
  <2>3. ASSUME NEW x \in live, ~Waits(x) PROVE x \in live'
    <3>1. \/ live' = live
          \/ \E gone \in SUBSET live, h \in Bufs \cup {None}, s \in Socks \cup {None} :
               FreeBufs(gone, h, s)
      <4>1. \A b \in Bevs : Old(b) \in SUBSET live
        BY DEF Inv, Owners, Old
      <4>2. \A h \in Bufs : fd[h] \in Socks \cup {None}  BY <1>1 DEF TypeOK
      <4> QED
        BY <1>3, <4>1, <4>2 DEF BevNext, Create, Destroy, Move, Swap, Release, Adopt,
                                SetCallbacks, Connect, SetFd, Sync
    <3> QED  BY <2>3, <3>1 DEF FreeBufs
  <2>4. ASSUME NEW x \in live, ~Waits(x) PROVE target'[x] = target[x]
    <3>1. \/ target' = target
          \/ \E y \in Bufs, f \in Functors :
               Waits(y) /\ target' = [target EXCEPT ![y] = f]
      BY <1>1, <1>3 DEF BevNext, Create, Destroy, Move, Swap, Release, Adopt,
                        SetCallbacks, Connect, SetFd, Sync
    <3> QED  BY <1>1, <2>4, <3>1
  <2> QED  BY <1>1, <2>1, <2>2, <2>3, <2>4, SameCall
<1>4. CASE ProgramNext \/ EndSync
  <2>1. UNCHANGED <<oneThread, running, live, opts, made, target>>
    BY <1>4 DEF ProgramNext, CloseSock, EndLife, EndSync
  <2> QED  BY <1>1, <2>1, SameCall
<1>5. ASSUME NEW x \in made, target[x] # None,
             running' = [of |-> x, fn |-> target[x], sock |-> running'.sock],
             x \in Levs \/ x \in live, UNCHANGED <<oneThread, live, opts, made, target>>
      PROVE  Waited'
  <2>1. target[x] \in Functors  BY <1>1, <1>5
  <2>2. running'.of = x /\ running'.fn = target[x]  BY <1>5
  <2> QED  BY <1>5, <2>1, <2>2 DEF Waited
<1>6. ASSUME NEW k \in Levs, NEW s \in Socks, Accept(k, s) PROVE Waited'
  <2>1. UNCHANGED <<oneThread, live, opts, made, target>> /\ k \in made
    BY <1>1, <1>6 DEF Accept
  <2>2. CASE target[k] = None
    <3>1. running' = running  BY <1>6, <2>2 DEF Accept
    <3> QED  BY <1>1, <2>1, <3>1, SameCall
  <2>3. CASE target[k] # None
    <3>1. running' = [of |-> k, fn |-> target[k], sock |-> running'.sock]
      BY <1>6, <2>3 DEF Accept, Call
    <3> QED  BY <2>1, <2>3, <3>1, <1>5
  <2> QED  BY <2>2, <2>3
<1>7. ASSUME NEW h \in Bufs, Event(h) PROVE Waited'
  <2>1. /\ UNCHANGED <<oneThread, live, opts, made, target>> /\ h \in made /\ h \in live
        /\ target[h] # None
    BY <1>1, <1>7 DEF Event
  <2>2. running' = [of |-> h, fn |-> target[h], sock |-> running'.sock]
    BY <1>7 DEF Event, Call
  <2> QED  BY <2>1, <2>2, <1>5
<1>8. ASSUME NEW throws \in BOOLEAN, EndCall(throws) PROVE Waited'
  BY <1>8 DEF EndCall, Waited, Quiet
<1> QED  BY <1>2, <1>3, <1>4, <1>6, <1>7, <1>8 DEF LoopNext

\* A call only starts with a functor that is there, so that one dies under it only
\* where the program may end it while the call goes on.
LEMMA FunctorsKept ==
  ASSUME Inv, dangling = {}, ListenerNext \/ BevNext \/ ProgramNext \/ LoopNext \/ EndSync
  PROVE  FunctorsIntact'
<1> USE DEF listeners, bevs, sockets, loop, locks
<1>1. /\ TypeOK /\ Targets /\ Waited /\ None \notin Levs \cup Bufs
      /\ live \subseteq made \cap Bufs /\ enabled \subseteq listening
  BY NoneAssumption DEF Inv, TypeOK
<1>2. ASSUME NEW f \in Functors, EndLife(f) PROVE FunctorsIntact'
  <2>1. /\ UNCHANGED <<oneThread, opts>> /\ \A x \in listening \cup live : target[x] # f
        /\ oneThread /\ running # Quiet => running.fn # f
        /\ \/ dangling' = dangling
           \/ running # Quiet /\ running.fn = f /\ dangling' = dangling \cup {running.of}
    BY <1>2 DEF EndLife
  <2>2. ASSUME running # Quiet, running.fn = f
        PROVE  ~oneThread /\ (running.of \in Levs \/ "unlock_callbacks" \in opts[running.of])
    BY <2>1, <2>2, <1>1 DEF Waited
  <2>3. \A x \in dangling' :
          x = running.of /\ running # Quiet /\ running.fn = f
    BY <2>1
  <2> QED  BY <2>1, <2>2, <2>3 DEF FunctorsIntact
<1>3. ASSUME NEW k \in Levs, NEW s \in Socks, Accept(k, s) PROVE FunctorsIntact'
  <2>1. k \in listening  BY <1>1, <1>3 DEF Accept
  <2>2. dangling' = dangling  BY <1>1, <1>3, <2>1 DEF Accept, Call, Targets
  <2> QED  BY <2>2 DEF FunctorsIntact
<1>4. ASSUME NEW h \in Bufs, Event(h) PROVE FunctorsIntact'
  <2>1. dangling' = dangling  BY <1>1, <1>4 DEF Event, Call, Targets
  <2> QED  BY <2>1 DEF FunctorsIntact
<1>5. CASE \/ ListenerNext \/ BevNext \/ (\E s \in Socks : CloseSock(s))
           \/ (\E throws \in BOOLEAN : EndCall(throws)) \/ EndSync
  <2>1. dangling' = {}
    BY <1>5 DEF ListenerNext, Listen, CloseListener, MoveListener, SwapListeners,
                SetAcceptor, Enable, Disable, BevNext, Create, Destroy, Move, Swap,
                Release, Adopt, SetCallbacks, Connect, SetFd, Sync, CloseSock, EndCall,
                EndSync
  <2> QED  BY <2>1 DEF FunctorsIntact
<1> QED  BY <1>2, <1>3, <1>4, <1>5 DEF ProgramNext, LoopNext

-----------------------------------------------------------------------------
(* The lock of sync().                                                      *)

LEMMA LockedKept ==
  ASSUME Inv, ListenerNext \/ BevNext \/ ProgramNext \/ LoopNext \/ EndSync
  PROVE  Locked'
<1> USE DEF listeners, bevs, sockets, loop, locks
<1>1. /\ TypeOK /\ Locked /\ None \notin Bevs /\ buf \in [Bevs -> Bufs \cup {None}]
  BY NoneAssumption DEF Inv, TypeOK
<1>2. ASSUME UNCHANGED synced, NEW bs \in SUBSET Bevs, NoteExchange(bs),
             \A b \in Bevs \ bs : buf'[b] = buf[b]
      PROVE  Locked'
  <2>1. SUFFICES ASSUME misuse' = {} PROVE Locked'  BY DEF Locked
  <2>2. misuse = {} /\ synced.bev \notin bs  BY <1>2, <2>1 DEF NoteExchange
  <2> QED  BY <1>1, <1>2, <2>2 DEF Locked, Unsynced
<1>3. ASSUME UNCHANGED <<synced, misuse, buf>> PROVE Locked'
  BY <1>1, <1>3 DEF Locked, Unsynced
<1>4. CASE ListenerNext \/ ProgramNext \/ LoopNext
  <2>1. UNCHANGED <<synced, misuse, buf>>
    BY <1>4 DEF ListenerNext, Listen, CloseListener, MoveListener, SwapListeners,
                SetAcceptor, Enable, Disable, ProgramNext, CloseSock, EndLife, LoopNext,
                Accept, Event, EndCall
  <2> QED  BY <2>1, <1>3
<1>5. CASE BevNext
  <2>1. ASSUME NEW b \in Bevs,
               \/ Destroy(b) \/ Release(b)
               \/ \E h \in Bufs, s \in Socks \cup {None}, o \in OptSets : Create(b, h, s, o)
               \/ \E h \in Bufs : Adopt(b, h)
        PROVE  Locked'
    <3>1. UNCHANGED synced /\ NoteExchange({b}) /\ {b} \in SUBSET Bevs
      BY <2>1 DEF Create, Destroy, Release, Adopt
    <3>2. \E x \in Bufs \cup {None} : buf' = [buf EXCEPT ![b] = x]
      BY <2>1 DEF Create, Destroy, Release, Adopt
    <3>3. \A c \in Bevs \ {b} : buf'[c] = buf[c]  BY <1>1, <3>2
    <3> QED  BY <3>1, <3>3, <1>2
  <2>2. ASSUME NEW b \in Bevs, NEW c \in Bevs, Move(b, c) \/ Swap(b, c) PROVE Locked'
    <3>1. UNCHANGED synced /\ NoteExchange({b, c}) /\ {b, c} \in SUBSET Bevs
      BY <2>2 DEF Move, Swap
    <3>2. \A d \in Bevs \ {b, c} : buf'[d] = buf[d]  BY <1>1, <2>2 DEF Move, Swap
    <3> QED  BY <3>1, <3>2, <1>2
  <2>3. ASSUME NEW b \in Bevs,
               \/ \E f \in Functors : SetCallbacks(b, f)
               \/ \E s \in Socks : Connect(b, s) \/ SetFd(b, s)
        PROVE  Locked'
    <3>1. UNCHANGED <<synced, misuse, buf>>  BY <2>3 DEF SetCallbacks, Connect, SetFd
    <3> QED  BY <3>1, <1>3
  <2>4. ASSUME NEW b \in Bevs, Sync(b) PROVE Locked'
    BY <2>4 DEF Sync, Locked
  <2> QED  BY <1>5, <2>1, <2>2, <2>3, <2>4 DEF BevNext
<1>6. CASE EndSync
  <2>1. SUFFICES ASSUME misuse' = {} PROVE Locked'  BY DEF Locked
  <2>2. misuse = {} /\ synced.bev # None  BY <1>6, <2>1 DEF EndSync
  <2>3. buf[synced.bev] = synced.buf  BY <1>1, <2>2 DEF Locked, Unsynced
  <2>4. synced' = Unsynced  BY <1>6, <2>3 DEF EndSync, Unsynced
  <2> QED  BY <2>4 DEF Locked, Unsynced
<1> QED  BY <1>4, <1>5, <1>6

-----------------------------------------------------------------------------
(* The theorems.                                                            *)

LEMMA InitInv == Init => Inv
<1>1. SUFFICES ASSUME Init PROVE Inv  OBVIOUS
<1>2. TypeOK /\ Targets /\ Waited /\ Locked /\ FunctorsIntact
  BY <1>1 DEF Init, TypeOK, Targets, Waited, Locked, FunctorsIntact
<1>3. Owners(lev, Listeners, listening) /\ Owners(buf, Bevs, live \ raw)
  BY <1>1 DEF Init, Owners
<1>4. Sockets  BY <1>1 DEF Init, Sockets, Keeps
<1> QED  BY <1>2, <1>3, <1>4 DEF Inv

LEMMA NextInv == Inv /\ [Next]_vars => Inv'
<1>1. SUFFICES ASSUME Inv, [Next]_vars PROVE Inv'  OBVIOUS
<1>2. CASE Next
  <2>1. dangling = {} /\ (ListenerNext \/ BevNext \/ ProgramNext \/ LoopNext \/ EndSync)
    BY <1>2 DEF Next
  <2>2. Sockets'  BY <1>1, <2>1, BevSockets, OtherSockets
  <2> QED
    BY <1>1, <2>1, <2>2, OwnersKept, TargetsKept, WaitedKept, FunctorsKept, LockedKept
       DEF Inv
<1>3. CASE UNCHANGED vars
  <2> USE <1>3 DEF vars
  <2>1. TypeOK'  BY <1>1 DEF Inv, TypeOK
  <2>2. Owners(lev, Listeners, listening)' /\ Owners(buf, Bevs, live \ raw)'
    BY <1>1 DEF Inv, Owners
  <2>3. Sockets'  BY <1>1, SameSockets DEF Inv
  <2>4. Targets'  BY <1>1 DEF Inv, Targets, Alive
  <2>5. Waited' /\ Locked' /\ FunctorsIntact'
    BY <1>1 DEF Inv, Waited, Locked, FunctorsIntact, Quiet, Unsynced
  <2> QED  BY <2>1, <2>2, <2>3, <2>4, <2>5 DEF Inv
<1> QED  BY <1>1, <1>2, <1>3

\* The inductive invariant holds in every state of every program: owners, sockets,
\* functors and the lock, together, across all that the listeners, the bufferevents,
\* the program and the loop do.
THEOREM Invariant == Spec => []Inv
<1> QED  BY InitInv, NextInv, PTL DEF Spec

\* However many objects change hands, each structure of libevent that is not freed
\* has exactly one owner (listener.hpp, bev.hpp, buffer_event.hpp).
THEOREM OneOwner == Spec => []OwnedOnce
<1>1. Inv => OwnedOnce  BY DEF Inv, Owners, OwnedOnce
<1> QED  BY <1>1, Invariant, PTL

\* Each socket that was accepted or opened has exactly one that closes it, unless it
\* is closed or was lost with an exception (close_on_free in bev.hpp, accept in
\* listener.hpp).
THEOREM OneCloser == Spec => []SocketsSettled
<1>1. Inv => SocketsSettled
  <2>1. SUFFICES ASSUME Inv PROVE SocketsSettled  OBVIOUS
  <2>2. /\ Sockets /\ None \notin Socks /\ opened \subseteq Socks /\ live \subseteq Bufs
    BY <2>1, NoneAssumption DEF Inv, TypeOK
  <2> DEFINE taken(s) == {h \in live : ClosesOnFree(h) /\ fd[h] = s}
  <2>3. \A s \in opened, h \in live : h \in taken(s) => Keeps(h) /\ fd[h] = s
    BY <2>2 DEF Keeps
  <2>4. \A s \in opened : s \in closed \cup hand \cup lost => taken(s) = {}
    BY <2>2, <2>3 DEF Sockets
  <2>5. ASSUME NEW s \in opened, s \notin closed \cup hand \cup lost
        PROVE  \E h \in live : taken(s) = {h}
    <3>1. PICK h \in Bufs : Keeps(h) /\ fd[h] = s  BY <2>2, <2>5 DEF Sockets
    <3>2. \A g \in taken(s) : g = h  BY <2>2, <2>3, <3>1 DEF Sockets
    <3>3. h \in taken(s) /\ h \in live  BY <3>1 DEF Keeps
    <3> QED  BY <3>2, <3>3
  <2>6. ASSUME NEW s \in opened
        PROVE  \/ s \in closed /\ s \notin hand \cup lost /\ taken(s) = {}
               \/ s \in hand /\ s \notin closed \cup lost /\ taken(s) = {}
               \/ s \in lost /\ s \notin closed \cup hand /\ taken(s) = {}
               \/ s \notin closed \cup hand \cup lost /\ \E h \in live : taken(s) = {h}
    BY <2>2, <2>4, <2>5 DEF Sockets
  <2> QED  BY <2>6 DEF SocketsSettled
<1> QED  BY <1>1, Invariant, PTL

\* A callback has its functor from start to end, in one thread always, and in two
\* with the exceptions of evconnlistener_free() and of bev_unlock_callbacks.
THEOREM CallsAreSafe == Spec => []FunctorsIntact
<1>1. Inv => FunctorsIntact  BY DEF Inv
<1> QED  BY <1>1, Invariant, PTL

\* The lock_guard of sync() unlocks what it locked, unless the program exchanged the
\* handle meanwhile.
THEOREM SyncUnlocks == Spec => []LockReturned
<1>1. Inv => LockReturned
  <2>1. SUFFICES ASSUME Inv, "exchanged in sync" \notin misuse, synced.buf # None
                 PROVE  synced.bev # None /\ buf[synced.bev] = synced.buf
    BY DEF LockReturned
  <2>2. misuse = {}  BY <2>1 DEF Inv, TypeOK
  <2>3. synced # Unsynced
    <3>1. Unsynced.buf = None  BY DEF Unsynced
    <3> QED  BY <2>1, <3>1
  <2> QED  BY <2>1, <2>2, <2>3, NoneAssumption DEF Inv, Locked
<1> QED  BY <1>1, Invariant, PTL
=============================================================================
