---------------------------- MODULE EventProofs ----------------------------
(***************************************************************************)
(* Ownership of events, and the reads of their functors and handlers, for   *)
(* every set of objects and events and for a loop in either thread.         *)
(***************************************************************************)
EXTENDS Event, TLAPS

\* An event that exists was given an argument, so that a new one is new.
Known == \A e \in alive : arg[e] # NoArg

Ownership == TypeOK /\ SingleOwner /\ Known

LEMMA NewEventOwnership ==
  ASSUME Ownership, NEW o \in Objs, NEW e \in Events, NEW p \in BOOLEAN,
         NEW a \in Arg \ {NoArg}, NewEvent(o, e, a, p)
  PROVE  /\ owns' \in [Objs -> Events \cup {None}]
         /\ alive' \subseteq Events
         /\ arg' \in [Events -> Arg]
         /\ persist' \in [Events -> BOOLEAN]
         /\ UNCHANGED loopIsOwner
         /\ e \notin alive /\ alive' = alive \cup {e}
         /\ alive' = {owns'[x] : x \in Objs} \ {None}
         /\ \A x, y \in Objs : owns'[x] = owns'[y] => x = y \/ owns'[x] = None
         /\ \A x \in alive' : arg'[x] # NoArg
<1>1. e \notin alive /\ e # None /\ owns[o] = None
  BY EventNoneAssumption DEF Ownership, Known, NewEvent
<1>2. \A x \in Objs : owns'[x] = IF x = o THEN e ELSE owns[x]
  BY DEF Ownership, TypeOK, NewEvent
<1>3. alive' = alive \cup {e} /\ alive = {owns[x] : x \in Objs} \ {None}
  BY DEF Ownership, SingleOwner, NewEvent
<1>4. alive' = {owns'[x] : x \in Objs} \ {None}
  <2>1. ASSUME NEW y \in alive' PROVE y # None /\ \E x \in Objs : y = owns'[x]
    <3>1. CASE y = e  BY <3>1, <1>1, <1>2
    <3>2. CASE y \in alive  BY <3>2, <1>1, <1>2, <1>3
    <3> QED  BY <3>1, <3>2, <1>3, <2>1
  <2>2. ASSUME NEW x \in Objs, owns'[x] # None PROVE owns'[x] \in alive'
    BY <2>2, <1>2, <1>3
  <2> QED  BY <2>1, <2>2
<1>5. \A x, y \in Objs : owns'[x] = owns'[y] => x = y \/ owns'[x] = None
  BY <1>1, <1>2, <1>3 DEF Ownership, SingleOwner
<1> QED
  BY <1>1, <1>3, <1>4, <1>5 DEF Ownership, TypeOK, Known, NewEvent

\* Destroying, or moving out of, an object whose event is freed or goes over.
LEMMA EmptiedOwnership ==
  ASSUME Ownership, NEW o \in Objs, owns[o] # None, Free({owns[o]}),
         owns' = [owns EXCEPT ![o] = None], UNCHANGED fixed
  PROVE  /\ owns' \in [Objs -> Events \cup {None}]
         /\ alive' \subseteq Events /\ armed' \subseteq Events /\ due' \subseteq Events
         /\ SingleOwner' /\ Known'
<1>1. \A x \in Objs : owns'[x] = IF x = o THEN None ELSE owns[x]
  BY DEF Ownership, TypeOK
<1>2. alive' = alive \ {owns[o]} /\ alive = {owns[x] : x \in Objs} \ {None}
  BY DEF Ownership, SingleOwner, Free
<1>3. \A x \in Objs : x # o /\ owns[x] # None => owns[x] # owns[o]
  BY DEF Ownership, SingleOwner
<1>4. alive' = {owns'[x] : x \in Objs} \ {None}
  <2>1. ASSUME NEW y \in alive' PROVE y # None /\ \E x \in Objs : y = owns'[x]
    BY <2>1, <1>1, <1>2
  <2>2. ASSUME NEW x \in Objs, owns'[x] # None PROVE owns'[x] \in alive'
    BY <2>2, <1>1, <1>2, <1>3
  <2> QED  BY <2>1, <2>2
<1>5. \A x, y \in Objs : owns'[x] = owns'[y] => x = y \/ owns'[x] = None
  BY <1>1 DEF Ownership, SingleOwner
<1>6. armed' \cup due' \subseteq alive'
  BY DEF Free, Ownership, SingleOwner
<1>7. SingleOwner'  BY <1>4, <1>5, <1>6 DEF SingleOwner
<1>8. Known'  BY <1>2 DEF Known, Ownership, fixed
<1> QED  BY <1>7, <1>8 DEF Ownership, TypeOK, Free

LEMMA GoneOverOwnership ==
  ASSUME Ownership, NEW o \in Objs, NEW p \in Objs, o # p, owns[o] # None,
         Free({owns[p]} \ {None}),
         owns' = [owns EXCEPT ![p] = owns[o], ![o] = None], UNCHANGED fixed
  PROVE  /\ owns' \in [Objs -> Events \cup {None}]
         /\ alive' \subseteq Events /\ armed' \subseteq Events /\ due' \subseteq Events
         /\ SingleOwner' /\ Known'
<1>1. \A x \in Objs : owns'[x] = IF x = o THEN None
                                 ELSE IF x = p THEN owns[o] ELSE owns[x]
  BY DEF Ownership, TypeOK
<1>2. alive' = alive \ {owns[p]} /\ alive = {owns[x] : x \in Objs} \ {None}
  BY DEF Ownership, SingleOwner, Free
<1>3. \A x, y \in Objs : x # y /\ owns[x] # None => owns[x] # owns[y]
  BY DEF Ownership, SingleOwner
<1>4. alive' = {owns'[x] : x \in Objs} \ {None}
  <2>1. ASSUME NEW y \in alive' PROVE y # None /\ \E x \in Objs : y = owns'[x]
    <3>1. PICK x \in Objs : y = owns[x]  BY <2>1, <1>2
    <3>2. y # None /\ x # p  BY <2>1, <3>1, <1>2
    <3>3. CASE x = o  BY <3>1, <3>2, <3>3, <1>1
    <3>4. CASE x # o  BY <3>1, <3>2, <3>4, <1>1
    <3> QED  BY <3>3, <3>4
  <2>2. ASSUME NEW x \in Objs, owns'[x] # None PROVE owns'[x] \in alive'
    <3>1. CASE x = p
      <4>1. owns'[x] = owns[o]  BY <3>1, <1>1
      <4>2. owns[o] \in alive /\ owns[o] # owns[p]  BY <1>2, <1>3
      <4> QED  BY <4>1, <4>2, <1>2
    <3>2. CASE x # p
      <4>1. x # o /\ owns'[x] = owns[x]  BY <3>2, <2>2, <1>1
      <4> QED  BY <4>1, <3>2, <2>2, <1>2, <1>3
    <3> QED  BY <3>1, <3>2
  <2> QED  BY <2>1, <2>2
<1>5. ASSUME NEW x \in Objs, NEW y \in Objs, owns'[x] = owns'[y], x # y
      PROVE  owns'[x] = None
  <2>1. CASE x = o \/ y = o  BY <2>1, <1>5, <1>1
  <2>2. CASE x # o /\ y # o /\ x # p /\ y # p  BY <2>2, <1>5, <1>1, <1>3
  <2>3. CASE x = p /\ y # o
    <3>1. owns'[x] = owns[o] /\ owns'[y] = owns[y]  BY <2>3, <1>5, <1>1
    <3> QED  BY <3>1, <2>3, <1>3, <1>5
  <2>4. CASE y = p /\ x # o
    <3>1. owns'[y] = owns[o] /\ owns'[x] = owns[x]  BY <2>4, <1>5, <1>1
    <3> QED  BY <3>1, <2>4, <1>3, <1>5
  <2> QED  BY <2>1, <2>2, <2>3, <2>4
<1>6. armed' \cup due' \subseteq alive'
  BY DEF Free, Ownership, SingleOwner
<1>7. SingleOwner'  BY <1>4, <1>5, <1>6 DEF SingleOwner
<1>8. Known'  BY <1>2 DEF Known, Ownership, fixed
<1>9. owns' \in [Objs -> Events \cup {None}]
  BY DEF Ownership, TypeOK
<1> QED  BY <1>7, <1>8, <1>9 DEF Ownership, TypeOK, Free

LEMMA InvokeTyped ==
  ASSUME Ownership, NEW e \in alive, Invoke(e)
  PROVE  /\ saw' \in [Events -> SUBSET {"intact", "raw", "moved", "dead", "deleted"}]
         /\ calls' \in [Events -> 0 .. MaxCalls]
<1>1. e \in Events /\ arg[e] \in Arg \ {NoArg}
  BY DEF Ownership, TypeOK, Known
<1>2. Found(e) \subseteq {"intact", "raw", "moved", "dead", "deleted"}
  <2>1. CASE \E h \in Functors : arg[e] = Borrowed(h)
    BY <2>1 DEF Found, Borrowed, Ownership, TypeOK
  <2>2. CASE \E x \in Events : arg[e] = Owned(x)
    BY <2>2 DEF Found, Owned
  <2>3. CASE \E o \in Evs : arg[e] = Member(o)
    BY <2>3 DEF Found, Member, Ownership, TypeOK
  <2> QED  BY <1>1, <2>1, <2>2, <2>3 DEF Arg
<1>3. saw' \in [Events -> SUBSET {"intact", "raw", "moved", "dead", "deleted"}]
  BY <1>1, <1>2 DEF Invoke, Ownership, TypeOK
<1>4. calls' \in [Events -> 0 .. MaxCalls]
  BY <1>1, MaxCallsAssumption DEF Invoke, Ownership, TypeOK
<1> QED  BY <1>3, <1>4

\* No step but those above changes who owns what.
LEMMA SameOwners ==
  ASSUME Ownership, UNCHANGED <<owns, alive, arg>>, armed' \cup due' \subseteq alive
  PROVE  SingleOwner' /\ Known'
BY DEF Ownership, SingleOwner, Known

LEMMA OwnershipStep ==
  ASSUME Ownership, [Next]_vars
  PROVE  Ownership'
<1> USE DEF Ownership
<1>1. ASSUME NEW o \in Cores \cup Stacks, NEW e \in Events, NEW p \in BOOLEAN,
             NEW h \in Functors, CreateRef(o, e, h, p)
      PROVE  Ownership'
  <2>1. Borrowed(h) \in Arg \ {NoArg} /\ o \in Objs
    BY DEF Arg, Borrowed, NoArg, Objs
  <2>2. NewEvent(o, e, Borrowed(h), p)  BY <1>1 DEF CreateRef
  <2> QED
    BY <1>1, <2>1, <2>2, NewEventOwnership
    DEF CreateRef, TypeOK, SingleOwner, Known, pending, memory, reads
<1>2. ASSUME NEW o \in Cores \cup Stacks, NEW e \in Events, NEW p \in BOOLEAN,
             CreateOwned(o, e, p)
      PROVE  Ownership'
  <2>1. Owned(e) \in Arg \ {NoArg} /\ o \in Objs
    BY DEF Arg, Owned, NoArg, Objs
  <2>2. NewEvent(o, e, Owned(e), p)  BY <1>2 DEF CreateOwned
  <2> QED
    BY <1>2, <2>1, <2>2, NewEventOwnership
    DEF CreateOwned, TypeOK, SingleOwner, Known, pending, memory, reads
<1>3. ASSUME NEW e \in Events, CreateFails(e) PROVE Ownership'
  <2>1. e \notin alive /\ Owned(e) \in Arg \ {NoArg}
    BY <1>3 DEF CreateFails, Known, Arg, Owned, NoArg
  <2>2. TypeOK'
    BY <1>3, <2>1 DEF CreateFails, TypeOK, objects, pending, reads
  <2>3. SingleOwner'
    BY <1>3 DEF CreateFails, SingleOwner, objects, pending
  <2>4. Known'
    BY <1>3, <2>1 DEF CreateFails, Known, TypeOK
  <2> QED  BY <2>2, <2>3, <2>4
<1>4. ASSUME NEW o \in Objs, Add(o) \/ Remove(o) \/ Active(o) PROVE Ownership'
  <2>1. owns[o] \in alive
    BY <1>4 DEF Add, Remove, Active, SingleOwner
  <2>2. armed' \cup due' \subseteq alive /\ UNCHANGED <<objects, alive, arg>>
    BY <1>4, <2>1 DEF Add, Remove, Active, SingleOwner, fixed
  <2>3. SingleOwner' /\ Known'  BY <2>2, SameOwners DEF objects
  <2>4. TypeOK'
    BY <1>4, <2>2 DEF Add, Remove, Active, TypeOK, objects, fixed, memory, reads
  <2> QED  BY <2>3, <2>4
<1>5. ASSUME NEW o \in Objs, Destroy(o) PROVE Ownership'
  BY <1>5, EmptiedOwnership DEF Destroy, TypeOK, fixed, memory, reads
<1>6. ASSUME NEW o \in Cores \cup Stacks, Exec(o) PROVE Ownership'
  <2>1. o \in Objs /\ owns[o] \in alive
    BY <1>6 DEF Exec, SingleOwner, Objs
  <2>2. SingleOwner' /\ Known'
    BY <1>6, SameOwners DEF Exec, SingleOwner, objects, pending, fixed
  <2>3. TypeOK'
    BY <1>6, <2>1, InvokeTyped DEF Exec, TypeOK, objects, pending, fixed
  <2> QED  BY <2>2, <2>3
<1>7. ASSUME NEW o \in Cores, NEW p \in Cores, MoveCore(o, p) PROVE Ownership'
  BY <1>7, GoneOverOwnership DEF MoveCore, TypeOK, fixed, memory, reads, Objs
<1>8. ASSUME NEW h \in Functors, EndLife(h) PROVE Ownership'
  <2>1. SingleOwner' /\ Known'
    BY <1>8, SameOwners DEF EndLife, SingleOwner, objects, pending, fixed
  <2>2. saw' \in [Events -> SUBSET {"intact", "raw", "moved", "dead", "deleted"}]
    BY <1>8 DEF EndLife, TypeOK
  <2>3. TypeOK'
    BY <1>8, <2>2 DEF EndLife, TypeOK, objects, pending, fixed
  <2> QED  BY <2>1, <2>3
<1>9. ASSUME NEW o \in Evs, NEW e \in Events, NEW timed \in BOOLEAN,
             NEW p \in BOOLEAN, ConstructBase(o, e, timed, p)
      PROVE  Ownership'
  <2>1. Member(o) \in Arg \ {NoArg} /\ o \in Objs
    BY DEF Arg, Member, NoArg, Objs
  <2>2. NewEvent(o, e, Member(o), p)  BY <1>9 DEF ConstructBase
  <2> QED
    BY <1>9, <2>1, <2>2, NewEventOwnership
    DEF ConstructBase, TypeOK, SingleOwner, Known, memory, reads
<1>10. ASSUME NEW o \in Evs, ConstructHandler(o) PROVE Ownership'
  BY <1>10, SameOwners
  DEF ConstructHandler, TypeOK, SingleOwner, pending, fixed, memory, reads
<1>11. ASSUME NEW o \in Evs, NEW p \in Evs, MoveEv(o, p) PROVE Ownership'
  <2>1. owns[o] # None => Ownership'
    BY <1>11, GoneOverOwnership DEF MoveEv, TypeOK, fixed, memory, reads, Objs
  <2>2. CASE owns[o] = None /\ owns[p] # None
    <3>1. o \in Objs /\ p \in Objs  BY DEF Objs
    <3>2. owns' = [owns EXCEPT ![p] = None] /\ Free({owns[p]})
      BY <1>11, <2>2, <3>1 DEF MoveEv, TypeOK
    <3> QED
      BY <1>11, <2>2, <3>1, <3>2, EmptiedOwnership
      DEF MoveEv, TypeOK, fixed, memory, reads
  <2>3. CASE owns[o] = None /\ owns[p] = None
    <3>1. UNCHANGED <<owns, alive, armed, due>>
      BY <1>11, <2>3 DEF MoveEv, Free, TypeOK, Objs
    <3> QED
      BY <1>11, <3>1, SameOwners DEF MoveEv, TypeOK, SingleOwner, fixed, memory, reads
  <2> QED  BY <2>1, <2>2, <2>3
<1>12. ASSUME NEW o \in Evs, DestroyHandler(o) PROVE Ownership'
  <2>1. SingleOwner' /\ Known'
    BY <1>12, SameOwners DEF DestroyHandler, SingleOwner, pending, fixed
  <2>2. saw' \in [Events -> SUBSET {"intact", "raw", "moved", "dead", "deleted"}]
    BY <1>12 DEF DestroyHandler, TypeOK
  <2>3. exposed' \subseteq Events
    BY <1>12 DEF DestroyHandler, TypeOK
  <2>4. TypeOK'
    BY <1>12, <2>2, <2>3 DEF DestroyHandler, TypeOK, pending, fixed, memory
  <2> QED  BY <2>1, <2>4
<1>13. ASSUME NEW o \in Evs, DestroyBase(o) PROVE Ownership'
  BY <1>13, EmptiedOwnership DEF DestroyBase, TypeOK, fixed, memory, reads, Objs
<1>14. ASSUME NEW e \in Events, Fire(e) PROVE Ownership'
  BY <1>14, SameOwners DEF Fire, TypeOK, SingleOwner, objects, fixed, memory, reads
<1>15. ASSUME NEW e \in Events, Call(e) PROVE Ownership'
  <2>1. e \in alive  BY <1>15 DEF Call, SingleOwner
  <2>2. SingleOwner' /\ Known'
    BY <1>15, SameOwners DEF Call, SingleOwner, objects, fixed
  <2>3. TypeOK'
    BY <1>15, <2>1, InvokeTyped DEF Call, TypeOK, objects, fixed, memory
  <2> QED  BY <2>2, <2>3
<1>16. ASSUME EndCall PROVE Ownership'
  <2>1. SingleOwner' /\ Known'
    BY <1>16, SameOwners DEF EndCall, SingleOwner, objects, pending, fixed
  <2>2. TypeOK'
    BY <1>16 DEF EndCall, TypeOK, objects, pending, fixed
  <2> QED  BY <2>1, <2>2
<1>17. ASSUME UNCHANGED vars PROVE Ownership'
  BY <1>17 DEF vars, TypeOK, SingleOwner, Known
<1> QED
  BY <1>1, <1>2, <1>3, <1>4, <1>5, <1>6, <1>7, <1>8, <1>9, <1>10, <1>11, <1>12,
     <1>13, <1>14, <1>15, <1>16, <1>17
  DEF Next, EvcoreNext, EvNext, LoopNext

LEMMA OwnershipInit == Init => Ownership
<1> SUFFICES ASSUME Init PROVE Ownership
  OBVIOUS
<1>1. {owns[o] : o \in Objs} \ {None} = {}
  BY DEF Init
<1>2. TypeOK
  BY MaxCallsAssumption DEF Init, TypeOK, Arg
<1> QED  BY <1>1, <1>2 DEF Init, Ownership, SingleOwner, Known

\* Every variable of Event keeps its type.
THEOREM TypeCorrect == Spec => []TypeOK
<1>1. Spec => []Ownership
  BY OwnershipInit, OwnershipStep, PTL DEF Spec
<1> QED  BY <1>1, PTL DEF Ownership

\* evcore and ev objects share no event, and the loop holds only events that
\* have an owner, through any sequence of creations, moves and destructions.
THEOREM EventsOwnedOnce == Spec => []SingleOwner
<1>1. Spec => []Ownership
  BY OwnershipInit, OwnershipStep, PTL DEF Spec
<1> QED  BY <1>1, PTL DEF Ownership

-----------------------------------------------------------------------------
(* What callbacks find.                                                     *)

\* The callback that another thread runs keeps its event from being freed.
RunningAlive == ~loopIsOwner /\ running # None => running \in alive

FunctorKept ==
  \A e \in alive, h \in Functors : arg[e] = Borrowed(h) => functor[h] = "alive"

\* An event that does not exist yet was never read.
Unread == \A e \in Events : arg[e] = NoArg => saw[e] = {}

MovedMarked == \A o \in Evs : handler[o] = "moved" => o \in moved

\* An event points into its own ev unless that was moved from, and while the
\* handler is not there the loop can only hold it if it was exposed.
MemberOwned ==
  \A e \in alive, o \in Evs : arg[e] = Member(o) =>
    \/ o \in moved
    \/ /\ owns[o] = e
       /\ handler[o] # "set" /\ e \in armed \cup due => e \in exposed

LEMMA ArgKinds ==
  /\ \A h, g : Borrowed(h) = Borrowed(g) => h = g
  /\ \A o, p : Member(o) = Member(p) => o = p
  /\ \A h, o, e : Borrowed(h) # Member(o) /\ Borrowed(h) # Owned(e)
                    /\ Member(o) # Owned(e)
  /\ \A o : Member(o).kind = "member" /\ Member(o).at = o
  /\ \A h : Borrowed(h).kind = "functor" /\ Borrowed(h).at = h
  /\ \A e : Owned(e).kind = "cell" /\ NoArg.kind = "none"
BY DEF Borrowed, Member, Owned, NoArg

LEMMA ArgCases ==
  ASSUME NEW a \in Arg
  PROVE  /\ a.kind = "functor" => \E h \in Functors : a = Borrowed(h)
         /\ a.kind = "member" => \E o \in Evs : a = Member(o)
BY ArgKinds DEF Arg

\* A call of an event that has an owner finds its functor, and its handler
\* unless one of the exceptions of MembersIntact holds.
LEMMA InvokeIntact ==
  ASSUME Ownership, FunctorKept, MovedMarked, MemberOwned, FunctorsIntact,
         MembersIntact, NEW e \in alive, Invoke(e),
         UNCHANGED <<loopIsOwner, arg, moved, exposed>>,
         \A o \in Evs : arg[e] = Member(o) /\ owns[o] = e =>
           handler[o] = "set" \/ o \in moved \/ (~loopIsOwner /\ e \in exposed)
  PROVE  FunctorsIntact' /\ MembersIntact'
<1>1. e \in Events /\ arg[e] \in Arg
  BY DEF Ownership, TypeOK
<1>2. PICK f \in Found(e) : saw' = [saw EXCEPT ![e] = @ \cup {f}]
  BY DEF Invoke
<1>3. \A x \in Events : saw'[x] = IF x = e THEN saw[e] \cup {f} ELSE saw[x]
  BY <1>1, <1>2 DEF Ownership, TypeOK
<1>4. arg[e].kind = "functor" => f = "intact"
  <2>1. SUFFICES ASSUME arg[e].kind = "functor" PROVE f = "intact"
    OBVIOUS
  <2>2. PICK h \in Functors : arg[e] = Borrowed(h)
    BY <2>1, <1>1, ArgCases
  <2>3. functor[h] = "alive" /\ arg[e].at = h
    BY <2>2, ArgKinds DEF FunctorKept
  <2>4. Found(e) = {"intact"} \cup ({functor[h]} \ {"alive"})
    BY <2>1, <2>3 DEF Found
  <2> QED  BY <2>3, <2>4
<1>5. arg[e].kind = "member" =>
        f = "intact" \/ arg[e].at \in moved \/ (~loopIsOwner /\ e \in exposed)
  <2>1. SUFFICES ASSUME arg[e].kind = "member", arg[e].at \notin moved,
                        ~(~loopIsOwner /\ e \in exposed)
                 PROVE  f = "intact"
    OBVIOUS
  <2>2. PICK o \in Evs : arg[e] = Member(o)
    BY <2>1, <1>1, ArgCases
  <2>3. arg[e].at = o /\ owns[o] = e
    BY <2>1, <2>2, ArgKinds DEF MemberOwned
  <2>4. handler[o] = "set"
    BY <2>1, <2>2, <2>3
  <2>5. Found(e) = {"intact"}
    BY <2>1, <2>3, <2>4 DEF Found
  <2> QED  BY <2>5
<1>6. FunctorsIntact'
  BY <1>3, <1>4 DEF FunctorsIntact
<1>7. MembersIntact'
  BY <1>3, <1>5 DEF MembersIntact
<1> QED  BY <1>6, <1>7

Reads == /\ RunningAlive /\ FunctorKept /\ Unread /\ MovedMarked /\ MemberOwned
         /\ FunctorsIntact /\ MembersIntact

\* A new event, whose argument points to what is there.
LEMMA NewEventReads ==
  ASSUME Ownership, Reads, NEW o \in Objs, NEW e \in Events, NEW p \in BOOLEAN,
         NEW a \in Arg \ {NoArg}, NewEvent(o, e, a, p),
         \A h \in Functors : a = Borrowed(h) => functor[h] = "alive",
         \A x \in Evs : a = Member(x) => x = o,
         o \in Evs => \E x \in Evs : a = Member(x),
         \/ UNCHANGED <<armed, exposed>>
         \/ armed' = armed \cup {e} /\ exposed' = exposed \cup {e},
         UNCHANGED <<handler, moved, due, running, functor, saw>>
  PROVE  Reads'
<1>1. e \notin alive /\ alive' = alive \cup {e} /\ UNCHANGED loopIsOwner
  BY NewEventOwnership
<1>2. \A x \in Events : arg'[x] = IF x = e THEN a ELSE arg[x]
  BY DEF NewEvent, Ownership, TypeOK
<1>3. \A x \in Objs : owns'[x] = IF x = o THEN e ELSE owns[x]
  BY DEF NewEvent, Ownership, TypeOK
<1>4. armed \cup due \subseteq alive /\ alive \subseteq Events
  BY DEF Ownership, SingleOwner, TypeOK
<1>5. RunningAlive'
  BY <1>1 DEF Reads, RunningAlive
<1>6. FunctorKept'
  BY <1>1, <1>2, <1>4 DEF Reads, FunctorKept
<1>7. MovedMarked'
  BY DEF Reads, MovedMarked
<1>8. ASSUME NEW x \in alive', NEW v \in Evs, arg'[x] = Member(v), v \notin moved
      PROVE  /\ owns'[v] = x
             /\ handler[v] # "set" /\ x \in armed' \cup due' => x \in exposed'
  <2>1. CASE x = e
    <3>1. a = Member(v) /\ v = o /\ a.kind = "member"
      BY <2>1, <1>8, <1>2, <1>1, ArgKinds
    <3>2. e \notin armed \cup due
      BY <1>1, <1>4
    <3> QED  BY <2>1, <3>1, <3>2, <1>3
  <2>2. CASE x # e
    <3>1. x \in alive /\ arg[x] = Member(v)
      BY <2>2, <1>8, <1>1, <1>2, <1>4
    <3>2. owns[v] = x /\ (handler[v] # "set" /\ x \in armed \cup due => x \in exposed)
      BY <3>1, <1>8 DEF Reads, MemberOwned
    <3>3. v # o /\ v \in Objs
      BY <3>1, <3>2, EventNoneAssumption, <1>4 DEF NewEvent, Objs
    <3>4. owns'[v] = x
      BY <3>2, <3>3, <1>3
    <3>5. x \in armed' => x \in armed
      BY <2>2
    <3>6. x \in exposed => x \in exposed'
      OBVIOUS
    <3> QED  BY <3>2, <3>4, <3>5, <3>6
  <2> QED  BY <2>1, <2>2
<1>9. MemberOwned'
  BY <1>8 DEF MemberOwned
<1>10. saw[e] = {} /\ a # NoArg
  BY DEF Reads, Unread, NewEvent
<1>11. FunctorsIntact'
  BY <1>2, <1>10 DEF Reads, FunctorsIntact
<1>12. MembersIntact'
  <2>1. exposed \subseteq exposed'
    OBVIOUS
  <2> QED  BY <1>1, <1>2, <1>10, <2>1 DEF Reads, MembersIntact
<1>13. Unread'
  BY <1>2, <1>10 DEF Reads, Unread
<1> QED  BY <1>5, <1>6, <1>7, <1>9, <1>11, <1>12, <1>13 DEF Reads

\* Freeing events, when the objects that owned them no longer do.
LEMMA FreedReads ==
  ASSUME Ownership, Reads, NEW gone, Free(gone),
         UNCHANGED <<loopIsOwner, handler, moved, running, arg, functor, exposed, saw>>,
         \A e \in alive \ gone, o \in Evs : owns[o] = e => owns'[o] = e
  PROVE  Reads'
<1>1. RunningAlive'
  BY DEF Reads, RunningAlive, Free, NotRunning
<1>2. FunctorKept'
  BY DEF Reads, FunctorKept, Free
<1>3. Unread'
  BY DEF Reads, Unread
<1>4. MovedMarked'
  BY DEF Reads, MovedMarked
<1>5. MemberOwned'
  BY DEF Reads, MemberOwned, Free
<1>6. FunctorsIntact' /\ MembersIntact'
  BY DEF Reads, FunctorsIntact, MembersIntact
<1> QED  BY <1>1, <1>2, <1>3, <1>4, <1>5, <1>6 DEF Reads

\* A step that leaves objects, arguments and reads alone, and that adds to the
\* events the loop holds none of a half-built ev.
LEMMA SameReads ==
  ASSUME Ownership, Reads,
         UNCHANGED <<loopIsOwner, owns, handler, moved, alive, arg, functor, exposed,
                     saw>>,
         running' \in {running, None},
         \A e \in (armed' \cup due') \ (armed \cup due), o \in Evs :
           owns[o] = e => handler[o] = "set" \/ o \in moved
  PROVE  Reads'
<1>1. RunningAlive'
  BY DEF Reads, RunningAlive
<1>2. MemberOwned'
  BY DEF Reads, MemberOwned
<1>3. FunctorKept' /\ Unread' /\ MovedMarked'
  BY DEF Reads, FunctorKept, Unread, MovedMarked
<1>4. FunctorsIntact' /\ MembersIntact'
  BY DEF Reads, FunctorsIntact, MembersIntact
<1> QED  BY <1>1, <1>2, <1>3, <1>4 DEF Reads

LEMMA CallReads ==
  ASSUME Ownership, Reads, NEW e \in Events, Call(e)
  PROVE  Reads'
<1>1. e \in alive
  BY DEF Call, Ownership, SingleOwner
<1>2. ASSUME NEW o \in Evs, arg[e] = Member(o), owns[o] = e
      PROVE  handler[o] = "set" \/ o \in moved \/ (~loopIsOwner /\ e \in exposed)
  <2>1. owns[o] # None
    BY <1>1, <1>2, EventNoneAssumption
  <2>2. CASE loopIsOwner
    <3>1. handler[o] \in {"set", "moved"}
      BY <2>1, <2>2 DEF Call, Between
    <3> QED  BY <3>1 DEF Reads, MovedMarked
  <2>3. CASE ~loopIsOwner
    <3>1. e \in due  BY DEF Call
    <3> QED  BY <1>1, <1>2, <2>3, <3>1 DEF Reads, MemberOwned
  <2> QED  BY <2>2, <2>3
<1>3. FunctorsIntact' /\ MembersIntact'
  BY <1>1, <1>2, InvokeIntact DEF Call, Reads, fixed, objects
<1>4. RunningAlive'
  BY <1>1 DEF Call, RunningAlive
<1>5. FunctorKept' /\ MovedMarked'
  BY DEF Call, Reads, FunctorKept, MovedMarked, fixed, memory, objects
<1>6. MemberOwned'
  BY DEF Call, Reads, MemberOwned, fixed, objects
<1>7. Unread'
  BY <1>1 DEF Call, Invoke, Reads, Unread, Ownership, Known, TypeOK, fixed
<1> QED  BY <1>3, <1>4, <1>5, <1>6, <1>7 DEF Reads

LEMMA ExecReads ==
  ASSUME Ownership, Reads, NEW o \in Cores \cup Stacks, Exec(o)
  PROVE  Reads'
<1>1. o \in Objs /\ owns[o] \in alive /\ owns[o] # None
  BY DEF Exec, Ownership, SingleOwner, Objs
<1>2. \A v \in Evs : owns[v] # owns[o]
  BY <1>1, KindsAssumption DEF Ownership, SingleOwner, Objs
<1>3. FunctorsIntact' /\ MembersIntact'
  BY <1>1, <1>2, InvokeIntact DEF Exec, Reads, fixed, objects
<1>4. RunningAlive' /\ FunctorKept' /\ MovedMarked' /\ MemberOwned'
  BY DEF Exec, Reads, RunningAlive, FunctorKept, MovedMarked, MemberOwned, fixed,
         objects, pending
<1>5. Unread'
  BY <1>1 DEF Exec, Invoke, Reads, Unread, Ownership, Known, TypeOK, fixed
<1> QED  BY <1>3, <1>4, <1>5 DEF Reads

LEMMA EndLifeReads ==
  ASSUME Ownership, Reads, NEW h \in Functors, EndLife(h)
  PROVE  Reads'
<1>1. \A e \in Events : arg[e] = Borrowed(h) => e # running
  BY EventNoneAssumption
  DEF EndLife, Reads, RunningAlive, Ownership, TypeOK
<1>2. saw' = saw
  BY <1>1 DEF EndLife, Ownership, TypeOK
<1>3. FunctorKept'
  BY DEF EndLife, Reads, FunctorKept, fixed, Ownership, TypeOK
<1>4. RunningAlive' /\ MovedMarked' /\ MemberOwned'
  BY DEF EndLife, Reads, RunningAlive, MovedMarked, MemberOwned, fixed, objects,
         pending
<1>5. FunctorsIntact' /\ MembersIntact' /\ Unread'
  BY <1>2 DEF EndLife, Reads, FunctorsIntact, MembersIntact, Unread, fixed, objects
<1> QED  BY <1>3, <1>4, <1>5 DEF Reads

LEMMA EndCallReads ==
  ASSUME Ownership, Reads, EndCall
  PROVE  Reads'
<1>1. running \in Events
  BY DEF EndCall, Ownership, TypeOK
<1>2. \A e \in Events : saw'[e] # saw[e] => arg[e].kind = "cell"
  BY <1>1 DEF EndCall, Ownership, TypeOK
<1>3. RunningAlive' /\ FunctorKept' /\ MovedMarked' /\ MemberOwned'
  BY DEF EndCall, Reads, RunningAlive, FunctorKept, MovedMarked, MemberOwned,
         fixed, objects, pending
<1>4. FunctorsIntact' /\ MembersIntact'
  BY <1>2 DEF EndCall, Reads, FunctorsIntact, MembersIntact, fixed, objects
<1>5. Unread'
  BY <1>2, ArgKinds DEF EndCall, Reads, Unread, fixed
<1> QED  BY <1>3, <1>4, <1>5 DEF Reads

LEMMA MoveEvReads ==
  ASSUME Ownership, Reads, NEW o \in Evs, NEW p \in Evs, MoveEv(o, p)
  PROVE  Reads'
<1>1. alive' \subseteq alive /\ owns[p] \notin alive'
      /\ armed' \subseteq armed /\ due' \subseteq due
  BY EventNoneAssumption DEF MoveEv, Free, Ownership, TypeOK
<1>2. \A v \in Evs : v # o /\ v # p => owns'[v] = owns[v] /\ handler'[v] = handler[v]
  BY DEF MoveEv, Ownership, TypeOK, Objs
<1>3. RunningAlive'
  BY DEF MoveEv, Free, NotRunning, Reads, RunningAlive, fixed
<1>4. MemberOwned'
  <2>1. ASSUME NEW e \in alive', NEW v \in Evs, arg[e] = Member(v), v \notin moved'
        PROVE  /\ owns'[v] = e
               /\ handler'[v] # "set" /\ e \in armed' \cup due' => e \in exposed
    <3>1. v \notin moved /\ v # o
      BY <2>1 DEF MoveEv
    <3>2. owns[v] = e /\ (handler[v] # "set" /\ e \in armed \cup due => e \in exposed)
      BY <2>1, <3>1, <1>1 DEF Reads, MemberOwned
    <3>3. v # p
      BY <2>1, <3>2, <1>1
    <3> QED  BY <3>1, <3>2, <3>3, <1>1, <1>2
  <2> QED  BY <2>1 DEF MoveEv, MemberOwned, fixed
<1>5. MovedMarked'
  BY DEF MoveEv, Reads, MovedMarked, Ownership, TypeOK
<1>6. FunctorKept' /\ FunctorsIntact' /\ MembersIntact' /\ Unread'
  BY <1>1 DEF MoveEv, Reads, FunctorKept, FunctorsIntact, MembersIntact, Unread,
              fixed, memory, reads
<1> QED  BY <1>3, <1>4, <1>5, <1>6 DEF Reads

LEMMA DestroyHandlerReads ==
  ASSUME Ownership, Reads, NEW o \in Evs, DestroyHandler(o)
  PROVE  Reads'
<1>1. handler' = [handler EXCEPT ![o] = "dead"] /\ exposed \subseteq exposed'
  BY DEF DestroyHandler
<1>2. ASSUME NEW e \in Events, e = running, arg[e] = Member(o)
      PROVE  o \in moved \/ (~loopIsOwner /\ e \in exposed')
  <2>1. ~loopIsOwner /\ e \in alive /\ e # None
    BY <1>2, EventNoneAssumption DEF DestroyHandler, Reads, RunningAlive
  <2>2. o \in moved \/ owns[o] = e
    BY <1>2, <2>1 DEF Reads, MemberOwned
  <2> QED  BY <1>2, <2>1, <2>2 DEF DestroyHandler
<1>3. MembersIntact'
  BY <1>1, <1>2, ArgKinds
  DEF DestroyHandler, Reads, MembersIntact, fixed, Ownership, TypeOK
<1>4. FunctorsIntact' /\ Unread'
  BY ArgKinds DEF DestroyHandler, Reads, FunctorsIntact, Unread, fixed
<1>5. MemberOwned'
  <2>1. ASSUME NEW e \in alive, NEW v \in Evs, arg[e] = Member(v), v \notin moved
        PROVE  /\ owns[v] = e
               /\ handler'[v] # "set" /\ e \in armed \cup due => e \in exposed'
    <3>1. owns[v] = e /\ (handler[v] # "set" /\ e \in armed \cup due => e \in exposed)
      BY <2>1 DEF Reads, MemberOwned
    <3>2. e # None
      BY EventNoneAssumption DEF Ownership, TypeOK
    <3>3. CASE v = o  BY <3>1, <3>2, <3>3 DEF DestroyHandler
    <3>4. CASE v # o  BY <3>1, <3>4, <1>1 DEF Ownership, TypeOK
    <3> QED  BY <3>3, <3>4
  <2> QED  BY <2>1 DEF DestroyHandler, MemberOwned, fixed, pending
<1>6. MovedMarked'
  BY <1>1 DEF DestroyHandler, Reads, MovedMarked, Ownership, TypeOK
<1>7. RunningAlive' /\ FunctorKept'
  BY DEF DestroyHandler, Reads, RunningAlive, FunctorKept, fixed, memory
<1> QED  BY <1>3, <1>4, <1>5, <1>6, <1>7 DEF Reads

LEMMA ConstructHandlerReads ==
  ASSUME Ownership, Reads, NEW o \in Evs, ConstructHandler(o)
  PROVE  Reads'
<1>1. \A v \in Evs : handler'[v] = IF v = o THEN "set" ELSE handler[v]
  BY DEF ConstructHandler, Ownership, TypeOK
<1>2. MovedMarked' /\ MemberOwned'
  BY <1>1 DEF ConstructHandler, Reads, MovedMarked, MemberOwned, fixed, pending
<1>3. RunningAlive' /\ FunctorKept' /\ Unread' /\ FunctorsIntact' /\ MembersIntact'
  BY DEF ConstructHandler, Reads, RunningAlive, FunctorKept, Unread, FunctorsIntact,
         MembersIntact, fixed, memory, reads
<1> QED  BY <1>2, <1>3 DEF Reads

LEMMA ReadsStep ==
  ASSUME Ownership, Reads, [Next]_vars
  PROVE  Reads'
<1>1. ASSUME NEW o \in Cores \cup Stacks, NEW e \in Events, NEW p \in BOOLEAN,
             NEW h \in Functors, CreateRef(o, e, h, p)
      PROVE  Reads'
  <2>1. Borrowed(h) \in Arg \ {NoArg} /\ o \in Objs /\ o \notin Evs
    BY KindsAssumption DEF Arg, Borrowed, NoArg, Objs
  <2>2. NewEvent(o, e, Borrowed(h), p)  BY <1>1 DEF CreateRef
  <2>3. UNCHANGED <<armed, exposed, handler, moved, due, running, functor, saw>>
    BY <1>1 DEF CreateRef, pending, memory, reads
  <2>4. \A g \in Functors : Borrowed(h) = Borrowed(g) => functor[g] = "alive"
    BY <1>1, ArgKinds DEF CreateRef
  <2> QED  BY <2>1, <2>2, <2>3, <2>4, ArgKinds, NewEventReads
<1>2. ASSUME NEW o \in Cores \cup Stacks, NEW e \in Events, NEW p \in BOOLEAN,
             CreateOwned(o, e, p)
      PROVE  Reads'
  <2>1. Owned(e) \in Arg \ {NoArg} /\ o \in Objs /\ o \notin Evs
    BY KindsAssumption DEF Arg, Owned, NoArg, Objs
  <2>2. NewEvent(o, e, Owned(e), p)  BY <1>2 DEF CreateOwned
  <2>3. UNCHANGED <<armed, exposed, handler, moved, due, running, functor, saw>>
    BY <1>2 DEF CreateOwned, pending, reads
  <2> QED  BY <2>1, <2>2, <2>3, ArgKinds, NewEventReads
<1>3. ASSUME NEW e \in Events, CreateFails(e) PROVE Reads'
  <2>1. \A x \in Events : arg'[x] = IF x = e THEN Owned(e) ELSE arg[x]
    BY <1>3 DEF CreateFails, Ownership, TypeOK
  <2>2. e \notin alive /\ alive \subseteq Events /\ saw[e] = {}
    BY <1>3 DEF CreateFails, Ownership, TypeOK, Known, Reads, Unread
  <2>3. FunctorKept' /\ MemberOwned'
    BY <1>3, <2>1, <2>2 DEF CreateFails, Reads, FunctorKept, MemberOwned, objects, pending
  <2>4. FunctorsIntact' /\ MembersIntact' /\ Unread'
    BY <1>3, <2>1, <2>2, ArgKinds
    DEF CreateFails, Reads, FunctorsIntact, MembersIntact, Unread, objects, reads
  <2>5. RunningAlive' /\ MovedMarked'
    BY <1>3 DEF CreateFails, Reads, RunningAlive, MovedMarked, objects
  <2> QED  BY <2>3, <2>4, <2>5 DEF Reads
<1>4. ASSUME NEW o \in Objs, Between, Add(o) \/ Remove(o) \/ Active(o) PROVE Reads'
  <2>1. ASSUME NEW e \in (armed' \cup due') \ (armed \cup due), NEW v \in Evs,
               owns[v] = e
        PROVE  handler[v] = "set" \/ v \in moved
    <3>1. e = owns[o] /\ e # None
      BY <1>4, <2>1 DEF Add, Remove, Active
    <3>2. handler[v] \in {"set", "moved"}
      BY <1>4, <2>1, <3>1 DEF Between
    <3> QED  BY <3>2 DEF Reads, MovedMarked
  <2> QED
    BY <1>4, <2>1, SameReads
    DEF Add, Remove, Active, objects, fixed, memory, reads
<1>5. ASSUME NEW o \in Objs, Destroy(o) PROVE Reads'
  <2>1. \A e \in alive \ {owns[o]}, v \in Evs : owns[v] = e => owns'[v] = e
    BY <1>5 DEF Destroy, Ownership, TypeOK, Objs
  <2> QED
    BY <1>5, <2>1, FreedReads DEF Destroy, fixed, memory, reads
<1>6. ASSUME NEW o \in Cores, NEW p \in Cores, MoveCore(o, p) PROVE Reads'
  <2>1. \A v \in Evs : owns'[v] = owns[v]
    BY <1>6, KindsAssumption DEF MoveCore, Ownership, TypeOK, Objs
  <2> QED
    BY <1>6, <2>1, FreedReads DEF MoveCore, fixed, memory, reads
<1>7. ASSUME NEW o \in Evs, NEW e \in Events, NEW timed \in BOOLEAN,
             NEW p \in BOOLEAN, ConstructBase(o, e, timed, p)
      PROVE  Reads'
  <2>1. Member(o) \in Arg \ {NoArg} /\ o \in Objs
    BY DEF Arg, Member, NoArg, Objs
  <2>2. NewEvent(o, e, Member(o), p)  BY <1>7 DEF ConstructBase
  <2>3. UNCHANGED <<handler, moved, due, running, functor, saw>>
    BY <1>7 DEF ConstructBase, memory, reads
  <2>4. \/ UNCHANGED <<armed, exposed>>
        \/ armed' = armed \cup {e} /\ exposed' = exposed \cup {e}
    BY <1>7 DEF ConstructBase
  <2> QED  BY <2>1, <2>2, <2>3, <2>4, ArgKinds, NewEventReads
<1>8. ASSUME NEW o \in Evs, DestroyBase(o) PROVE Reads'
  <2>1. \A e \in alive \ {owns[o]}, v \in Evs : owns[v] = e => owns'[v] = e
    BY <1>8 DEF DestroyBase, Ownership, TypeOK, Objs
  <2> QED
    BY <1>8, <2>1, FreedReads DEF DestroyBase, fixed, memory, reads
<1>9. ASSUME NEW e \in Events, Fire(e) PROVE Reads'
  BY <1>9, SameReads DEF Fire, objects, fixed, memory, reads
<1>10. ASSUME UNCHANGED vars PROVE Reads'
  BY <1>10, SameReads DEF vars
<1> QED
  BY <1>1, <1>2, <1>3, <1>4, <1>5, <1>6, <1>7, <1>8, <1>9, <1>10, ExecReads,
     EndLifeReads, ConstructHandlerReads, MoveEvReads, DestroyHandlerReads,
     CallReads, EndCallReads
  DEF Next, EvcoreNext, EvNext, LoopNext

LEMMA ReadsInit == Init => Reads
BY DEF Init, Reads, RunningAlive, FunctorKept, Unread, MovedMarked, MemberOwned,
       FunctorsIntact, MembersIntact

LEMMA ReadsAlways == Spec => []Reads
<1>1. Init => Ownership /\ Reads
  BY OwnershipInit, ReadsInit
<1>2. Ownership /\ Reads /\ [Next]_vars => Ownership' /\ Reads'
  BY OwnershipStep, ReadsStep
<1> QED  BY <1>1, <1>2, PTL DEF Spec

\* The functor that the caller passed by reference is there at every call and
\* until its return, in whichever thread the loop runs.
THEOREM CallerFunctorsIntact == Spec => []FunctorsIntact
<1>1. Reads => FunctorsIntact  BY DEF Reads
<1> QED  BY <1>1, ReadsAlways, PTL

\* The handler of an ev is there too, unless it was moved, or another thread
\* runs the loop and the ev was exposed to it.
THEOREM HandlersIntact == Spec => []MembersIntact
<1>1. Reads => MembersIntact  BY DEF Reads
<1> QED  BY <1>1, ReadsAlways, PTL

-----------------------------------------------------------------------------
(* Functors on the heap.                                                    *)

\* The functor of a trampoline is there until a call of it has ended, so that the
\* first call finds it; an event whose callback runs was called.
Deleting ==
  \A e \in Events :
    /\ arg[e] = NoArg => calls[e] = 0 /\ "deleted" \notin saw[e]
    /\ e = running => calls[e] > 0
    /\ arg[e].kind = "cell" =>
         /\ calls[e] = 0 \/ (calls[e] = 1 /\ e = running) => e \in cells
         /\ "deleted" \in saw[e] => calls[e] > 1

\* The next call of e.
LEMMA InvokeDeleting ==
  ASSUME Ownership, Deleting, NEW e \in alive, Invoke(e)
  PROVE  /\ calls'[e] > 0 /\ (e = running \/ e \notin cells => calls'[e] > 1 \/ arg[e].kind # "cell")
         /\ \A x \in Events \ {e} : calls'[x] = calls[x] /\ saw'[x] = saw[x]
         /\ arg[e].kind = "cell" /\ "deleted" \in saw'[e] => calls'[e] > 1
         /\ arg[e] # NoArg
<1>1. e \in Events /\ arg[e] # NoArg  BY DEF Ownership, TypeOK, Known
<1>2. calls[e] \in Nat /\ calls'[e] = IF calls[e] < MaxCalls THEN calls[e] + 1 ELSE calls[e]
  BY <1>1, MaxCallsAssumption DEF Invoke, Ownership, TypeOK
<1>3. calls'[e] > 0 /\ (calls[e] > 0 => calls'[e] > 1)
  BY <1>2, MaxCallsAssumption
<1>4. calls[e] > 1 => calls'[e] > 1  BY <1>2, MaxCallsAssumption
<1>5. arg[e].kind = "cell" /\ (e = running \/ e \notin cells) => calls[e] > 0
  BY <1>1, <1>2 DEF Deleting
<1>6. \A x \in Events \ {e} : calls'[x] = calls[x] /\ saw'[x] = saw[x]
  BY <1>1 DEF Invoke, Ownership, TypeOK
<1>7. ASSUME arg[e].kind = "cell", "deleted" \in saw'[e] PROVE calls'[e] > 1
  <2>1. PICK r \in Found(e) : saw' = [saw EXCEPT ![e] = @ \cup {r}]  BY DEF Invoke
  <2>2. saw'[e] = saw[e] \cup {r}  BY <2>1, <1>1 DEF Ownership, TypeOK
  <2>3. CASE "deleted" \in saw[e]  BY <2>3, <1>1, <1>4, <1>7 DEF Deleting
  <2>4. CASE r = "deleted"
    <3>1. e \notin cells  BY <2>1, <2>4, <1>7 DEF Found
    <3> QED  BY <3>1, <1>3, <1>5, <1>7
  <2> QED  BY <2>2, <2>3, <2>4, <1>7
<1> QED  BY <1>1, <1>3, <1>5, <1>6, <1>7

\* What nothing calls, creates or deletes.
LEMMA SameDeleting ==
  ASSUME Deleting, UNCHANGED <<arg, running, cells, calls, saw>>
  PROVE  Deleting'
BY DEF Deleting

\* A new argument, with its functor if it is one on the heap.
LEMMA NewDeleting ==
  ASSUME Ownership, Deleting, NEW e \in Events, NEW a, arg[e] = NoArg,
         arg' = [arg EXCEPT ![e] = a], a # NoArg,
         UNCHANGED <<running, calls, saw>>,
         cells' = cells \/ cells' = cells \cup {e},
         a.kind = "cell" => e \in cells'
  PROVE  Deleting'
<1>1. \A x \in Events : arg'[x] = IF x = e THEN a ELSE arg[x]
  BY DEF Ownership, TypeOK
<1> QED  BY <1>1 DEF Deleting

\* A call is on its way, or ends at once; the functor of a call that ended is deleted.
LEMMA CallDeleting ==
  ASSUME Ownership, Deleting, NEW e \in alive, Invoke(e), UNCHANGED arg,
         \/ running = None /\ running' = e /\ cells' = cells
         \/ running' = running /\ cells' \in {cells, cells \ {e}}
  PROVE  Deleting'
<1>1. e \in Events /\ e # None /\ None \notin Events
  BY EventNoneAssumption DEF Ownership, TypeOK
<1>2. \A x \in Events \ {e} :
        /\ calls'[x] = calls[x] /\ saw'[x] = saw[x]
        /\ x = running' => x = running
        /\ x \in cells => x \in cells'
  BY <1>1, InvokeDeleting
<1>3. ASSUME arg[e].kind = "cell"
      PROVE  calls'[e] = 1 /\ e = running' => e \in cells'
  <2>1. calls'[e] = 1 => e # running /\ e \in cells
    BY <1>3, InvokeDeleting
  <2> QED  BY <2>1, <1>1
<1>4. \A x \in Events \ {e} :
        /\ arg'[x] = NoArg => calls'[x] = 0 /\ "deleted" \notin saw'[x]
        /\ x = running' => calls'[x] > 0
        /\ arg'[x].kind = "cell" =>
             /\ calls'[x] = 0 \/ (calls'[x] = 1 /\ x = running') => x \in cells'
             /\ "deleted" \in saw'[x] => calls'[x] > 1
  BY <1>2 DEF Deleting
<1>5. /\ arg'[e] # NoArg /\ calls'[e] > 0
      /\ arg[e].kind = "cell" /\ "deleted" \in saw'[e] => calls'[e] > 1
  BY InvokeDeleting
<1>6. /\ arg'[e] = NoArg => calls'[e] = 0 /\ "deleted" \notin saw'[e]
      /\ e = running' => calls'[e] > 0
      /\ arg'[e].kind = "cell" =>
           /\ calls'[e] = 0 \/ (calls'[e] = 1 /\ e = running') => e \in cells'
           /\ "deleted" \in saw'[e] => calls'[e] > 1
  BY <1>3, <1>5
<1> QED  BY <1>4, <1>6 DEF Deleting

LEMMA EndCallDeleting ==
  ASSUME Ownership, Deleting, EndCall
  PROVE  Deleting'
<1>1. running \in Events /\ running' = None /\ None \notin Events
  BY EventNoneAssumption DEF EndCall, Ownership, TypeOK
<1>2. UNCHANGED <<arg, calls>>  BY DEF EndCall, fixed
<1>3. calls[running] \in Nat /\ calls[running] > 0
  BY <1>1, MaxCallsAssumption DEF Ownership, TypeOK, Deleting
<1>4. \A x \in Events \ {running} : saw'[x] = saw[x] /\ (x \in cells' <=> x \in cells)
  BY <1>1 DEF EndCall, Ownership, TypeOK
<1>5. "deleted" \in saw'[running] =>
        \/ "deleted" \in saw[running]
        \/ arg[running].kind = "cell" /\ running \notin cells
  BY <1>1 DEF EndCall, Ownership, TypeOK
<1>6. ASSUME arg[running].kind = "cell", "deleted" \in saw'[running]
      PROVE  calls[running] > 1
  <2>1. CASE "deleted" \in saw[running]  BY <2>1, <1>1, <1>6 DEF Deleting
  <2>2. CASE running \notin cells
    <3>1. calls[running] # 1  BY <2>2, <1>1, <1>6 DEF Deleting
    <3> QED  BY <3>1, <1>3
  <2> QED  BY <2>1, <2>2, <1>5, <1>6
<1>7. arg[running] # NoArg  BY <1>1, <1>3 DEF Deleting
<1>8. \A x \in Events : x # running'  BY <1>1
<1>9. \A x \in Events \ {running} :
        /\ arg'[x] = NoArg => calls'[x] = 0 /\ "deleted" \notin saw'[x]
        /\ arg'[x].kind = "cell" =>
             /\ calls'[x] = 0 => x \in cells'
             /\ "deleted" \in saw'[x] => calls'[x] > 1
  BY <1>2, <1>4 DEF Deleting
<1>10. /\ arg'[running] # NoArg /\ calls'[running] # 0
       /\ arg'[running].kind = "cell" /\ "deleted" \in saw'[running] => calls'[running] > 1
  BY <1>2, <1>3, <1>6, <1>7
<1> QED  BY <1>8, <1>9, <1>10 DEF Deleting

\* A functor of the caller, or a handler, that ends inside its callback.
LEMMA DeadDeleting ==
  ASSUME Deleting, UNCHANGED <<arg, running, cells, calls>>,
         \A e \in Events : "deleted" \in saw'[e] => "deleted" \in saw[e]
  PROVE  Deleting'
BY DEF Deleting

LEMMA DeletingStep ==
  ASSUME Ownership, Deleting, [Next]_vars
  PROVE  Deleting'
<1>1. ASSUME NEW o \in Cores \cup Stacks, NEW e \in Events, NEW p \in BOOLEAN,
             NEW h \in Functors, CreateRef(o, e, h, p)
      PROVE  Deleting'
  BY <1>1, NewDeleting, ArgKinds
  DEF CreateRef, NewEvent, Borrowed, NoArg, memory, reads
<1>2. ASSUME NEW o \in Cores \cup Stacks, NEW e \in Events, NEW p \in BOOLEAN,
             CreateOwned(o, e, p)
      PROVE  Deleting'
  BY <1>2, NewDeleting DEF CreateOwned, NewEvent, Owned, NoArg, reads
<1>3. ASSUME NEW e \in Events, CreateFails(e) PROVE Deleting'
  BY <1>3, NewDeleting DEF CreateFails, Owned, NoArg, reads
<1>4. ASSUME NEW o \in Evs, NEW e \in Events, NEW timed \in BOOLEAN,
             NEW p \in BOOLEAN, ConstructBase(o, e, timed, p)
      PROVE  Deleting'
  BY <1>4, NewDeleting DEF ConstructBase, NewEvent, Member, NoArg, memory, reads
<1>5. ASSUME NEW o \in Objs,
             Add(o) \/ Remove(o) \/ Active(o) \/ Destroy(o) \/ ConstructHandler(o)
               \/ DestroyBase(o)
      PROVE  Deleting'
  BY <1>5, SameDeleting
  DEF Add, Remove, Active, Destroy, ConstructHandler, DestroyBase, fixed, memory, reads
<1>6. ASSUME NEW o, NEW p, MoveCore(o, p) \/ MoveEv(o, p) PROVE Deleting'
  BY <1>6, SameDeleting DEF MoveCore, MoveEv, fixed, memory, reads
<1>7. ASSUME NEW o \in Cores \cup Stacks, Exec(o) PROVE Deleting'
  <2>1. owns[o] \in alive  BY <1>7 DEF Exec, Ownership, SingleOwner, Objs
  <2> QED  BY <1>7, <2>1, CallDeleting DEF Exec, fixed
<1>8. ASSUME NEW h \in Functors, EndLife(h) PROVE Deleting'
  BY <1>8, DeadDeleting DEF EndLife, fixed
<1>9. ASSUME NEW o \in Evs, DestroyHandler(o) PROVE Deleting'
  BY <1>9, DeadDeleting DEF DestroyHandler, fixed, memory
<1>10. ASSUME NEW e \in Events, Fire(e) \/ UNCHANGED vars PROVE Deleting'
  BY <1>10, SameDeleting DEF Fire, vars, fixed, memory, reads
<1>11. ASSUME NEW e \in Events, Call(e) PROVE Deleting'
  <2>1. e \in alive  BY <1>11 DEF Call, Ownership, SingleOwner
  <2> QED  BY <1>11, <2>1, CallDeleting DEF Call, fixed, memory
<1>12. ASSUME UNCHANGED vars PROVE Deleting'
  BY <1>12, SameDeleting DEF vars
<1> QED
  BY <1>1, <1>2, <1>3, <1>4, <1>5, <1>6, <1>7, <1>8, <1>9, <1>10, <1>11, <1>12,
     EndCallDeleting
  DEF Next, EvcoreNext, EvNext, LoopNext, Objs

LEMMA DeletingInit == Init => Deleting
BY EventNoneAssumption DEF Init, Deleting, NoArg

\* A functor moved to the heap is there for its first call, and only a second call may
\* find that its trampoline deleted it.
THEOREM HeapFunctorsIntact == Spec => []CellsIntact
<1>1. Init => Ownership /\ Deleting  BY OwnershipInit, DeletingInit
<1>2. Ownership /\ Deleting /\ [Next]_vars => Ownership' /\ Deleting'
  BY OwnershipStep, DeletingStep
<1>3. Deleting => CellsIntact  BY DEF Deleting, CellsIntact
<1> QED  BY <1>1, <1>2, <1>3, PTL DEF Spec
=============================================================================
