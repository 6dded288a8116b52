---------------------------- MODULE VHostProofs ----------------------------
(***************************************************************************)
(* No fault without misuse, for every set of vhost objects.                 *)
(***************************************************************************)
EXTENDS VHost, TLAPS

\* What is owned or listed was allocated.
Real ==
  /\ \A o \in Objs : handle[o] # None => handle[o] \in allocated
  /\ \A h \in Hosts : listed[h] # None => h \in allocated

Inv == TypeOK /\ Real /\ FaultNeedsMisuse /\ LinksMatch /\ OwnedOnce

LEMMA BelowHosts ==
  ASSUME NEW h \in Hosts, NEW list
  PROVE  Below(h, list) \subseteq Hosts /\ h \in Below(h, list)
BY DEF Below

\* libevent frees nothing but what was allocated.
LEMMA BelowAllocated ==
  ASSUME TypeOK, NEW h \in allocated, NEW list,
         \A y \in Hosts : list[y] \in Hosts => y \in allocated
  PROVE  Below(h, list) \subseteq allocated
<1>1. allocated \in SUBSET Hosts
  BY DEF TypeOK
<1>2. \A y \in Hosts : list[y] \in allocated => y \in allocated
  BY <1>1
<1> QED  BY <1>1, <1>2 DEF Below

\* An evhttp that holds no virtual host is freed alone.
LEMMA BelowAlone ==
  ASSUME NEW h \in Hosts, NEW list, \A y \in Hosts : list[y] # h
  PROVE  Below(h, list) = {h}
<1>1. {h} \in SUBSET Hosts /\ (\A y \in Hosts : list[y] \in {h} => y \in {h})
  OBVIOUS
<1>2. Below(h, list) \subseteq {h}
  BY <1>1 DEF Below
<1> QED  BY <1>2, BelowHosts

-----------------------------------------------------------------------------
(* Types and reality hold whatever the program does.                        *)

LEMMA FreeTyped ==
  ASSUME TypeOK, Real, NEW h \in allocated \cup {None},
         NEW list \in [Hosts -> Hosts \cup {None}],
         \A y \in Hosts : list[y] \in {listed[y], None}, Free(h, list)
  PROVE  /\ freed' \subseteq allocated /\ bound' \subseteq Hosts
         /\ listed' \in [Hosts -> Hosts \cup {None}]
         /\ \A x \in Hosts : listed'[x] # None => x \in allocated
<1>1. \A y \in Hosts : list[y] \in Hosts => y \in allocated
  BY NoneAssumption DEF Real
<1>2. h # None => Below(h, list) \subseteq allocated
  BY <1>1, BelowAllocated
<1>3. freed' \subseteq allocated /\ bound' \subseteq Hosts
  BY <1>2 DEF Free, TypeOK
<1>4. listed' \in [Hosts -> Hosts \cup {None}]
  BY DEF Free
<1>5. \A x \in Hosts : listed'[x] # None => listed[x] # None
  BY DEF Free
<1> QED  BY <1>3, <1>4, <1>5 DEF Real

LEMMA ListedWithoutTyped ==
  ASSUME TypeOK, NEW o \in Objs
  PROVE  /\ ListedWithout(o) \in [Hosts -> Hosts \cup {None}]
         /\ \A y \in Hosts : ListedWithout(o)[y] \in {listed[y], None}
BY DEF ListedWithout, TypeOK

LEMMA FaultsTyped ==
  ASSUME NEW o, NEW h, NEW list
  PROVE  /\ RemoveFaults(o) \subseteq {"assert", "use after free", "double free"}
         /\ FreeFaults(h, list) \subseteq {"assert", "use after free", "double free"}
<1>1. FreeFaults(h, list) \subseteq {"assert", "use after free", "double free"}
  BY DEF FreeFaults
<1>2. RemoveFaults(o) \subseteq {"assert", "use after free", "double free"}
  BY DEF RemoveFaults
<1> QED  BY <1>1, <1>2

LEMMA TypeStep ==
  ASSUME TypeOK, Real, [Next]_vars
  PROVE  TypeOK' /\ Real'
<1>1. ASSUME NEW o \in Objs, ConstructEmpty(o) PROVE TypeOK' /\ Real'
  BY <1>1 DEF ConstructEmpty, TypeOK, Real, hosts
<1>2. ASSUME NEW o \in Objs, NEW h \in Hosts, Construct(o, h) PROVE TypeOK' /\ Real'
  <2>1. TypeOK'  BY <1>2 DEF Construct, Allocate, TypeOK
  <2>2. Real'  BY <1>2 DEF Construct, Allocate, TypeOK, Real
  <2> QED  BY <2>1, <2>2
<1>3. ASSUME NEW o \in Objs, NEW p \in Objs, NEW h \in Hosts, ConstructIn(o, h, p)
      PROVE  TypeOK' /\ Real'
  <2>1. TypeOK'  BY <1>3 DEF ConstructIn, Allocate, TypeOK
  <2>2. Real'  BY <1>3 DEF ConstructIn, Allocate, TypeOK, Real
  <2> QED  BY <2>1, <2>2
<1>4. ASSUME NEW o \in Objs, NEW h \in Hosts, Create(o, h) PROVE TypeOK' /\ Real'
  <2>1. /\ freed' \subseteq allocated /\ bound' \subseteq Hosts
        /\ listed' \in [Hosts -> Hosts \cup {None}]
        /\ \A x \in Hosts : listed'[x] # None => x \in allocated
    <3>1. handle[o] \in allocated \cup {None}
      BY DEF TypeOK, Real
    <3>2. listed \in [Hosts -> Hosts \cup {None}]
      BY DEF TypeOK
    <3> QED  BY <1>4, <3>1, <3>2, FreeTyped DEF Create
  <2>2. faults' \subseteq {"assert", "use after free", "double free"}
    BY <1>4, FaultsTyped DEF Create, TypeOK
  <2>3. TypeOK'  BY <1>4, <2>1, <2>2 DEF Create, Allocate, Note, TypeOK
  <2>4. Real'  BY <1>4, <2>1 DEF Create, Allocate, TypeOK, Real
  <2> QED  BY <2>3, <2>4
<1>5. ASSUME NEW p \in Objs, NEW o \in Objs, AddVirtualHost(p, o)
      PROVE  TypeOK' /\ Real'
  <2>1. TypeOK'  BY <1>5 DEF AddVirtualHost, TypeOK
  <2>2. Real'  BY <1>5 DEF AddVirtualHost, TypeOK, Real
  <2> QED  BY <2>1, <2>2
<1>6. ASSUME NEW o \in Objs, RemoveVirtualHost(o) PROVE TypeOK' /\ Real'
  <2>1. faults' \subseteq {"assert", "use after free", "double free"}
    BY <1>6, FaultsTyped DEF RemoveVirtualHost, TypeOK
  <2>2. TypeOK'
    BY <1>6, <2>1, ListedWithoutTyped DEF RemoveVirtualHost, TypeOK
  <2>3. Real'
    BY <1>6, ListedWithoutTyped DEF RemoveVirtualHost, Real
  <2> QED  BY <2>2, <2>3
<1>7. ASSUME NEW o \in Objs, Destroy(o) PROVE TypeOK' /\ Real'
  <2>1. /\ freed' \subseteq allocated /\ bound' \subseteq Hosts
        /\ listed' \in [Hosts -> Hosts \cup {None}]
        /\ \A x \in Hosts : listed'[x] # None => x \in allocated
    <3>1. handle[o] \in allocated \cup {None}
      BY DEF TypeOK, Real
    <3> QED  BY <1>7, <3>1, ListedWithoutTyped, FreeTyped DEF Destroy
  <2>2. faults' \subseteq {"assert", "use after free", "double free"}
    BY <1>7, FaultsTyped DEF Destroy, TypeOK
  <2>3. TypeOK'  BY <1>7, <2>1, <2>2 DEF Destroy, Note, TypeOK
  <2>4. Real'  BY <1>7, <2>1 DEF Destroy, TypeOK, Real
  <2> QED  BY <2>3, <2>4
<1>8. ASSUME NEW o \in Objs, NEW p \in Objs, Move(o, p) PROVE TypeOK' /\ Real'
  <2>1. /\ freed' \subseteq allocated /\ bound' \subseteq Hosts
        /\ listed' \in [Hosts -> Hosts \cup {None}]
        /\ \A x \in Hosts : listed'[x] # None => x \in allocated
    <3>1. handle[p] \in allocated \cup {None}
      BY DEF TypeOK, Real
    <3>2. listed \in [Hosts -> Hosts \cup {None}]
      BY DEF TypeOK
    <3> QED  BY <1>8, <3>1, <3>2, FreeTyped DEF Move
  <2>2. faults' \subseteq {"assert", "use after free", "double free"}
    BY <1>8, FaultsTyped DEF Move, TypeOK
  <2>3. TypeOK'  BY <1>8, <2>1, <2>2 DEF Move, Note, TypeOK
  <2>4. Real'  BY <1>8, <2>1 DEF Move, TypeOK, Real
  <2> QED  BY <2>3, <2>4
<1>9. ASSUME NEW o \in Objs, BindSocket(o) PROVE TypeOK' /\ Real'
  BY <1>9 DEF BindSocket, TypeOK, Real
<1>10. ASSUME UNCHANGED vars PROVE TypeOK' /\ Real'
  BY <1>10 DEF vars, TypeOK, Real
<1> QED
  BY <1>1, <1>2, <1>3, <1>4, <1>5, <1>6, <1>7, <1>8, <1>9, <1>10 DEF Next

-----------------------------------------------------------------------------
(* Links, owners and faults, as long as there is no misuse.                 *)

\* The three properties without their condition.
Links ==
  /\ \A o \in Objs : parent[o] # None =>
       /\ life[o] = "alive" /\ life[parent[o]] = "alive"
       /\ handle[o] # None /\ handle[parent[o]] # None
       /\ listed[handle[o]] = handle[parent[o]]
  /\ \A h \in Hosts : listed[h] # None =>
       \E o \in Objs : handle[o] = h /\ parent[o] # None

Owners ==
  /\ allocated \ freed = {handle[o] : o \in Objs} \ {None}
  /\ \A o, p \in Objs : handle[o] = handle[p] => o = p \/ handle[o] = None
  /\ \A o \in Objs : handle[o] # None => life[o] = "alive"

Good == Links /\ Owners /\ faults = {}

LEMMA GoodIs ==
  /\ LinksMatch <=> (misuse = {} => Links)
  /\ OwnedOnce <=> (misuse = {} => Owners)
BY DEF LinksMatch, OwnedOnce, Links, Owners

\* An object that is not constructed has nothing.
LEMMA RawEmpty ==
  ASSUME TypeOK, Good, NEW o \in Objs, life[o] # "alive"
  PROVE  handle[o] = None /\ parent[o] = None /\ \A q \in Objs : parent[q] # o
BY NoneAssumption DEF Good, Links, Owners, TypeOK

\* remove_virtual_host() finds what it needs.
LEMMA NoRemoveFault ==
  ASSUME TypeOK, Good, NEW o \in Objs
  PROVE  RemoveFaults(o) = {}
<1>1. CASE parent[o] = None
  BY <1>1 DEF RemoveFaults
<1>2. CASE parent[o] # None
  <2>1. handle[o] # None /\ life[parent[o]] = "alive" /\ handle[parent[o]] # None
    BY <1>2 DEF Good, Links
  <2>2. handle[o] \notin freed
    BY <2>1 DEF Good, Owners
  <2> QED  BY <1>2, <2>1, <2>2 DEF RemoveFaults
<1> QED  BY <1>1, <1>2

\* An object without children holds no virtual host.
LEMMA NoChildren ==
  ASSUME TypeOK, Good, NEW o \in Objs, handle[o] # None, Children(o) = {},
         NEW y \in Hosts
  PROVE  listed[y] # handle[o]
<1>1. SUFFICES ASSUME listed[y] = handle[o] PROVE FALSE
  OBVIOUS
<1>2. PICK q \in Objs : handle[q] = y /\ parent[q] # None
  BY <1>1 DEF Good, Links
<1>3. parent[q] \in Objs /\ life[q] = "alive" /\ listed[y] = handle[parent[q]]
  BY <1>2 DEF Good, Links, TypeOK
<1>4. parent[q] = o
  BY <1>1, <1>3 DEF Good, Owners
<1> QED  BY <1>3, <1>4 DEF Children

\* Freeing the evhttp of such an object.
LEMMA FreeAlone ==
  ASSUME TypeOK, Good, NEW o \in Objs, Children(o) = {}, NEW list,
         \A y \in Hosts : list[y] \in {listed[y], None},
         Free(handle[o], list)
  PROVE  /\ freed' = freed \cup ({handle[o]} \ {None})
         /\ \A x \in Hosts : listed'[x] = list[x]
         /\ FreeFaults(handle[o], list) = {}
         /\ handle[o] \notin freed
<1>1. CASE handle[o] = None
  <2>1. handle[o] \notin freed
    BY <1>1, NoneAssumption DEF TypeOK
  <2> QED  BY <1>1, <2>1 DEF Free, FreeFaults
<1>2. CASE handle[o] # None
  <2>1. handle[o] \in Hosts /\ handle[o] \notin freed
    BY <1>2 DEF TypeOK, Good, Owners
  <2>2. \A y \in Hosts : list[y] # handle[o]
    BY <1>2, NoChildren
  <2>3. Below(handle[o], list) = {handle[o]}
    BY <2>1, <2>2, BelowAlone
  <2> QED  BY <1>2, <2>1, <2>3 DEF Free, FreeFaults
<1> QED  BY <1>1, <1>2

\* A new evhttp in object o, which frees the one it had.
LEMMA NewOwner ==
  ASSUME TypeOK, Real, Owners, NEW o \in Objs, NEW h \in Hosts, Allocate(h),
         handle' = [handle EXCEPT ![o] = h],
         freed' = freed \cup ({handle[o]} \ {None}),
         life' \in [Objs -> {"raw", "alive", "dead"}], life'[o] = "alive",
         \A q \in Objs : q # o => life'[q] = life[q]
  PROVE  Owners' /\ h # None /\ \A q \in Objs : handle[q] # h
<1>1. h # None /\ (\A q \in Objs : handle[q] # h) /\ h \notin freed
  BY NoneAssumption DEF Allocate, Real, TypeOK
<1>2. \A q \in Objs : handle'[q] = IF q = o THEN h ELSE handle[q]
  BY DEF TypeOK
<1>3. allocated' \ freed' = ((allocated \ freed) \ {handle[o]}) \cup {h}
  BY <1>1 DEF Allocate, Owners
<1>4. allocated' \ freed' = {handle'[q] : q \in Objs} \ {None}
  <2>1. ASSUME NEW y \in allocated' \ freed'
        PROVE  y # None /\ \E q \in Objs : y = handle'[q]
    <3>1. CASE y = h  BY <3>1, <1>1, <1>2
    <3>2. CASE y # h
      <4>1. PICK q \in Objs : y = handle[q] /\ y # None
        BY <3>2, <2>1, <1>3 DEF Owners
      <4>2. q # o  BY <4>1, <3>2, <2>1, <1>3
      <4> QED  BY <4>1, <4>2, <1>2
    <3> QED  BY <3>1, <3>2
  <2>2. ASSUME NEW q \in Objs, handle'[q] # None
        PROVE  handle'[q] \in allocated' \ freed'
    BY <2>2, <1>1, <1>2, <1>3 DEF Owners
  <2> QED  BY <2>1, <2>2
<1>5. \A q, r \in Objs : handle'[q] = handle'[r] => q = r \/ handle'[q] = None
  BY <1>1, <1>2 DEF Owners
<1>6. \A q \in Objs : handle'[q] # None => life'[q] = "alive"
  BY <1>2 DEF Owners
<1> QED  BY <1>1, <1>4, <1>5, <1>6 DEF Owners

\* Object o gives up its evhttp, which is freed.
LEMMA OwnerGone ==
  ASSUME TypeOK, Owners, NEW o \in Objs, handle' = [handle EXCEPT ![o] = None],
         freed' = freed \cup ({handle[o]} \ {None}), allocated' = allocated,
         \A q \in Objs : q # o => life'[q] = life[q]
  PROVE  Owners'
<1>1. \A q \in Objs : handle'[q] = IF q = o THEN None ELSE handle[q]
  BY DEF TypeOK
<1>2. allocated' \ freed' = (allocated \ freed) \ {handle[o]}
  BY DEF Owners
<1>3. \A q \in Objs : q # o /\ handle[q] # None => handle[q] # handle[o]
  BY DEF Owners
<1>4. allocated' \ freed' = {handle'[q] : q \in Objs} \ {None}
  <2>1. ASSUME NEW y \in allocated' \ freed'
        PROVE  y # None /\ \E q \in Objs : y = handle'[q]
    <3>1. PICK q \in Objs : y = handle[q] /\ y # None
      BY <2>1, <1>2 DEF Owners
    <3> QED  BY <3>1, <2>1, <1>1, <1>2
  <2>2. ASSUME NEW q \in Objs, handle'[q] # None
        PROVE  handle'[q] \in allocated' \ freed'
    BY <2>2, <1>1, <1>2, <1>3 DEF Owners
  <2> QED  BY <2>1, <2>2
<1>5. \A q, r \in Objs : handle'[q] = handle'[r] => q = r \/ handle'[q] = None
  BY <1>1 DEF Owners
<1>6. \A q \in Objs : handle'[q] # None => life'[q] = "alive"
  BY <1>1 DEF Owners
<1> QED  BY <1>4, <1>5, <1>6 DEF Owners

\* Object p takes the evhttp of o, and frees the one it had.
LEMMA OwnerMoved ==
  ASSUME TypeOK, Owners, NEW o \in Objs, NEW p \in Objs, o # p,
         handle' = [handle EXCEPT ![p] = handle[o], ![o] = None],
         freed' = freed \cup ({handle[p]} \ {None}), allocated' = allocated,
         life' = [life EXCEPT ![p] = "alive"]
  PROVE  Owners'
<1>1. \A q \in Objs : handle'[q] = IF q = o THEN None
                                   ELSE IF q = p THEN handle[o] ELSE handle[q]
  BY DEF TypeOK
<1>2. allocated' \ freed' = (allocated \ freed) \ {handle[p]}
  BY DEF Owners
<1>3. \A q, r \in Objs : q # r /\ handle[q] # None => handle[q] # handle[r]
  BY DEF Owners
<1>4. allocated' \ freed' = {handle'[q] : q \in Objs} \ {None}
  <2>1. ASSUME NEW y \in allocated' \ freed'
        PROVE  y # None /\ \E q \in Objs : y = handle'[q]
    <3>1. PICK q \in Objs : y = handle[q] /\ y # None
      BY <2>1, <1>2 DEF Owners
    <3>2. q # p  BY <3>1, <2>1, <1>2
    <3>3. CASE q = o  BY <3>1, <3>3, <1>1
    <3>4. CASE q # o  BY <3>1, <3>2, <3>4, <1>1
    <3> QED  BY <3>3, <3>4
  <2>2. ASSUME NEW q \in Objs, handle'[q] # None
        PROVE  handle'[q] \in allocated' \ freed'
    <3>1. PICK r \in Objs : r # p /\ handle'[q] = handle[r]
      BY <2>2, <1>1
    <3>2. handle[r] \in allocated \ freed /\ handle[r] # handle[p]
      BY <3>1, <2>2, <1>3 DEF Owners
    <3> QED  BY <3>1, <3>2, <1>2
  <2> QED  BY <2>1, <2>2
<1>5. ASSUME NEW q \in Objs, NEW r \in Objs, handle'[q] = handle'[r], q # r
      PROVE  handle'[q] = None
  <2>1. CASE q = o \/ r = o  BY <2>1, <1>5, <1>1
  <2>2. CASE q = p /\ r # o
    <3>1. handle'[q] = handle[o] /\ handle'[r] = handle[r]  BY <2>2, <1>5, <1>1
    <3> QED  BY <3>1, <2>2, <1>3, <1>5
  <2>3. CASE r = p /\ q # o
    <3>1. handle'[r] = handle[o] /\ handle'[q] = handle[q]  BY <2>3, <1>5, <1>1
    <3> QED  BY <3>1, <2>3, <1>3, <1>5
  <2>4. CASE q \notin {o, p} /\ r \notin {o, p}
    BY <2>4, <1>5, <1>1, <1>3
  <2> QED  BY <2>1, <2>2, <2>3, <2>4
<1>6. \A q \in Objs : handle'[q] # None => life'[q] = "alive"
  BY <1>1 DEF Owners, TypeOK
<1> QED  BY <1>4, <1>5, <1>6 DEF Owners

\* Objects that are not linked may change as they like.
LEMMA LinksElsewhere ==
  ASSUME TypeOK, Good, NEW U \in SUBSET Objs,
         \A o \in U : parent[o] = None /\ parent'[o] = None,
         \A o \in U, q \in Objs : parent[q] # o,
         \A q \in Objs \ U : handle'[q] = handle[q] /\ life'[q] = life[q]
                              /\ parent'[q] = parent[q],
         \A x \in Hosts : listed'[x] = listed[x]
  PROVE  Links'
<1>1. ASSUME NEW o \in Objs, parent'[o] # None
      PROVE  /\ life'[o] = "alive" /\ life'[parent'[o]] = "alive"
             /\ handle'[o] # None /\ handle'[parent'[o]] # None
             /\ listed'[handle'[o]] = handle'[parent'[o]]
  <2>1. o \notin U /\ parent[o] \in Objs \ U /\ parent'[o] = parent[o]
    BY <1>1 DEF TypeOK
  <2>2. handle[o] \in Hosts
    BY <1>1, <2>1 DEF Good, Links, TypeOK
  <2> QED  BY <2>1, <2>2, <1>1 DEF Good, Links
<1>2. ASSUME NEW h \in Hosts, listed'[h] # None
      PROVE  \E o \in Objs : handle'[o] = h /\ parent'[o] # None
  <2>1. PICK o \in Objs : handle[o] = h /\ parent[o] # None
    BY <1>2 DEF Good, Links
  <2>2. o \notin U  BY <2>1
  <2> QED  BY <2>1, <2>2
<1> QED  BY <1>1, <1>2 DEF Links

\* An object that leaves the list of its parent, if it is on one.
LEMMA LinksWithout ==
  ASSUME TypeOK, Good, NEW o \in Objs,
         parent' = [parent EXCEPT ![o] = None],
         \A x \in Hosts : listed'[x] = ListedWithout(o)[x],
         \A q \in Objs : q # o => handle'[q] = handle[q] /\ life'[q] = life[q],
         (handle'[o] = handle[o] /\ life'[o] = life[o]) \/ Children(o) = {}
  PROVE  Links'
<1>1. \A q \in Objs : parent'[q] = IF q = o THEN None ELSE parent[q]
  BY DEF TypeOK
<1>2. ASSUME NEW q \in Objs, parent'[q] # None
      PROVE  /\ life'[q] = "alive" /\ life'[parent'[q]] = "alive"
             /\ handle'[q] # None /\ handle'[parent'[q]] # None
             /\ listed'[handle'[q]] = handle'[parent'[q]]
  <2>1. q # o /\ parent'[q] = parent[q] /\ parent[q] \in Objs
    BY <1>1, <1>2 DEF TypeOK
  <2>2. /\ life[q] = "alive" /\ life[parent[q]] = "alive"
        /\ handle[q] # None /\ handle[parent[q]] # None
        /\ listed[handle[q]] = handle[parent[q]]
    BY <2>1, <1>2 DEF Good, Links
  <2>3. handle[q] \in Hosts /\ handle[q] # handle[o]
    BY <2>1, <2>2 DEF TypeOK, Good, Owners
  <2>4. listed'[handle[q]] = listed[handle[q]]
    BY <2>3 DEF ListedWithout
  <2>5. parent[q] = o => Children(o) # {}
    BY <2>2 DEF Children
  <2>6. handle'[parent[q]] = handle[parent[q]] /\ life'[parent[q]] = life[parent[q]]
    BY <2>1, <2>5
  <2> QED  BY <2>1, <2>2, <2>4, <2>6
<1>3. ASSUME NEW h \in Hosts, listed'[h] # None
      PROVE  \E q \in Objs : handle'[q] = h /\ parent'[q] # None
  <2>1. listed[h] # None /\ ~(h = handle[o] /\ parent[o] # None)
    BY <1>3 DEF ListedWithout
  <2>2. PICK q \in Objs : handle[q] = h /\ parent[q] # None
    BY <2>1 DEF Good, Links
  <2>3. q # o  BY <2>1, <2>2
  <2> QED  BY <2>2, <2>3, <1>1
<1> QED  BY <1>2, <1>3 DEF Links

\* An object that is part of no tree.
LEMMA NotLinked ==
  ASSUME TypeOK, Good, NEW o \in Objs, ~Linked(o)
  PROVE  parent[o] = None /\ Children(o) = {} /\ \A q \in Objs : parent[q] # o
BY NoneAssumption DEF Linked, Children, Good, Links

LEMMA RawChildren ==
  ASSUME TypeOK, Good, NEW o \in Objs, life[o] # "alive"
  PROVE  Children(o) = {}
BY RawEmpty DEF Children

LEMMA ConstructGood ==
  ASSUME TypeOK, Real, Good, NEW o \in Objs, NEW h \in Hosts, Construct(o, h)
  PROVE  Good'
<1>1. handle[o] = None /\ parent[o] = None /\ \A q \in Objs : parent[q] # o
  BY RawEmpty DEF Construct
<1>2. Owners'
  <2>1. life' \in [Objs -> {"raw", "alive", "dead"}] /\ life'[o] = "alive"
        /\ \A q \in Objs : q # o => life'[q] = life[q]
    BY DEF Construct, TypeOK
  <2>2. freed' = freed \cup ({handle[o]} \ {None})
    BY <1>1 DEF Construct
  <2> QED  BY <2>1, <2>2, NewOwner DEF Construct, Good
<1>3. Links'
  <2>1. /\ parent' = parent /\ listed' = listed
        /\ \A q \in Objs \ {o} : handle'[q] = handle[q] /\ life'[q] = life[q]
    BY DEF Construct, TypeOK
  <2>2. {o} \in SUBSET Objs
    OBVIOUS
  <2> QED  BY <2>1, <2>2, <1>1, LinksElsewhere
<1> QED  BY <1>2, <1>3 DEF Good, Construct

LEMMA ConstructInGood ==
  ASSUME TypeOK, Real, Good, NEW o \in Objs, NEW p \in Objs, NEW h \in Hosts,
         ConstructIn(o, h, p)
  PROVE  Good'
<1>1. handle[o] = None /\ parent[o] = None /\ \A q \in Objs : parent[q] # o
  BY RawEmpty DEF ConstructIn
<1>2. Owners' /\ h # None /\ \A q \in Objs : handle[q] # h
  <2>1. life' \in [Objs -> {"raw", "alive", "dead"}] /\ life'[o] = "alive"
        /\ \A q \in Objs : q # o => life'[q] = life[q]
    BY DEF ConstructIn, TypeOK
  <2>2. freed' = freed \cup ({handle[o]} \ {None})
    BY <1>1 DEF ConstructIn
  <2> QED  BY <2>1, <2>2, NewOwner DEF ConstructIn, Good
<1>3. p # o /\ handle[p] # None /\ life[p] = "alive"
  BY <1>1 DEF ConstructIn
<1>4. /\ \A q \in Objs : handle'[q] = IF q = o THEN h ELSE handle[q]
      /\ \A q \in Objs : parent'[q] = IF q = o THEN p ELSE parent[q]
      /\ \A q \in Objs : life'[q] = IF q = o THEN "alive" ELSE life[q]
      /\ \A x \in Hosts : listed'[x] = IF x = h THEN handle[p] ELSE listed[x]
  BY DEF ConstructIn, TypeOK
<1>5. ASSUME NEW q \in Objs, parent'[q] # None
      PROVE  /\ life'[q] = "alive" /\ life'[parent'[q]] = "alive"
             /\ handle'[q] # None /\ handle'[parent'[q]] # None
             /\ listed'[handle'[q]] = handle'[parent'[q]]
  <2>1. CASE q = o  BY <2>1, <1>2, <1>3, <1>4
  <2>2. CASE q # o
    <3>1. parent'[q] = parent[q] /\ parent[q] \in Objs /\ parent[q] # o
      BY <2>2, <1>5, <1>1, <1>4 DEF TypeOK
    <3>2. /\ life[q] = "alive" /\ life[parent[q]] = "alive"
          /\ handle[q] # None /\ handle[parent[q]] # None
          /\ listed[handle[q]] = handle[parent[q]]
      BY <3>1, <1>5 DEF Good, Links
    <3>3. handle[q] \in Hosts /\ handle[q] # h
      BY <3>2, <1>2 DEF TypeOK
    <3> QED  BY <2>2, <3>1, <3>2, <3>3, <1>4
  <2> QED  BY <2>1, <2>2
<1>6. ASSUME NEW x \in Hosts, listed'[x] # None
      PROVE  \E q \in Objs : handle'[q] = x /\ parent'[q] # None
  <2>1. CASE x = h  BY <2>1, <1>4, NoneAssumption
  <2>2. CASE x # h
    <3>1. PICK q \in Objs : handle[q] = x /\ parent[q] # None
      BY <2>2, <1>4, <1>6 DEF Good, Links
    <3> QED  BY <3>1, <1>1, <1>4
  <2> QED  BY <2>1, <2>2
<1> QED  BY <1>2, <1>5, <1>6 DEF Good, Links, ConstructIn

LEMMA CreateGood ==
  ASSUME TypeOK, Real, Good, NEW o \in Objs, NEW h \in Hosts, Create(o, h), ~Linked(o)
  PROVE  Good'
<1>1. parent[o] = None /\ Children(o) = {} /\ \A q \in Objs : parent[q] # o
  BY NotLinked
<1>2. /\ freed' = freed \cup ({handle[o]} \ {None})
      /\ \A x \in Hosts : listed'[x] = listed[x]
      /\ FreeFaults(handle[o], listed) = {}
  BY <1>1, FreeAlone DEF Create
<1>3. Owners'
  <2>1. life' \in [Objs -> {"raw", "alive", "dead"}] /\ life'[o] = "alive"
        /\ \A q \in Objs : q # o => life'[q] = life[q]
    BY DEF Create, TypeOK
  <2> QED  BY <2>1, <1>2, NewOwner DEF Create, Good
<1>4. Links'
  <2>1. /\ parent' = parent
        /\ \A q \in Objs \ {o} : handle'[q] = handle[q] /\ life'[q] = life[q]
    BY DEF Create, TypeOK
  <2>2. {o} \in SUBSET Objs
    OBVIOUS
  <2> QED  BY <2>1, <2>2, <1>1, <1>2, LinksElsewhere
<1> QED  BY <1>2, <1>3, <1>4 DEF Good, Create

LEMMA AddGood ==
  ASSUME TypeOK, Real, Good, NEW p \in Objs, NEW o \in Objs, AddVirtualHost(p, o)
  PROVE  Good'
<1>1. parent[o] = None /\ p # o /\ handle[p] # None /\ handle[o] \in Hosts
  BY DEF AddVirtualHost, Good, Links, TypeOK
<1>2. /\ \A q \in Objs : parent'[q] = IF q = o THEN p ELSE parent[q]
      /\ \A x \in Hosts : listed'[x] = IF x = handle[o] THEN handle[p] ELSE listed[x]
      /\ UNCHANGED <<life, handle, allocated, freed, faults>>
  BY DEF AddVirtualHost, TypeOK
<1>3. ASSUME NEW q \in Objs, parent'[q] # None
      PROVE  /\ life[q] = "alive" /\ life[parent'[q]] = "alive"
             /\ handle[q] # None /\ handle[parent'[q]] # None
             /\ listed'[handle[q]] = handle[parent'[q]]
  <2>1. CASE q = o  BY <2>1, <1>1, <1>2 DEF AddVirtualHost
  <2>2. CASE q # o
    <3>1. /\ life[q] = "alive" /\ life[parent[q]] = "alive"
          /\ handle[q] # None /\ handle[parent[q]] # None
          /\ listed[handle[q]] = handle[parent[q]]
      BY <2>2, <1>2, <1>3 DEF Good, Links
    <3>2. handle[q] \in Hosts /\ handle[q] # handle[o]
      BY <2>2, <3>1 DEF Good, Owners, TypeOK
    <3> QED  BY <2>2, <3>1, <3>2, <1>2
  <2> QED  BY <2>1, <2>2
<1>4. ASSUME NEW x \in Hosts, listed'[x] # None
      PROVE  \E q \in Objs : handle[q] = x /\ parent'[q] # None
  <2>1. CASE x = handle[o]  BY <2>1, <1>2, NoneAssumption
  <2>2. CASE x # handle[o]
    <3>1. PICK q \in Objs : handle[q] = x /\ parent[q] # None
      BY <2>2, <1>2, <1>4 DEF Good, Links
    <3> QED  BY <3>1, <1>1, <1>2
  <2> QED  BY <2>1, <2>2
<1>5. Links'  BY <1>2, <1>3, <1>4 DEF Links
<1>6. Owners'  BY <1>2 DEF Good, Owners
<1> QED  BY <1>2, <1>5, <1>6 DEF Good

LEMMA RemoveGood ==
  ASSUME TypeOK, Real, Good, NEW o \in Objs, RemoveVirtualHost(o)
  PROVE  Good'
<1>1. Links'
  BY LinksWithout DEF RemoveVirtualHost
<1>2. Owners'
  BY DEF RemoveVirtualHost, Good, Owners
<1> QED  BY <1>1, <1>2, NoRemoveFault DEF RemoveVirtualHost, Good

LEMMA DestroyGood ==
  ASSUME TypeOK, Real, Good, NEW o \in Objs, Destroy(o), Children(o) = {}
  PROVE  Good'
<1>1. /\ freed' = freed \cup ({handle[o]} \ {None})
      /\ \A x \in Hosts : listed'[x] = ListedWithout(o)[x]
      /\ FreeFaults(handle[o], ListedWithout(o)) = {}
  BY FreeAlone, ListedWithoutTyped DEF Destroy
<1>2. \A q \in Objs : q # o => handle'[q] = handle[q] /\ life'[q] = life[q]
  BY DEF Destroy, TypeOK
<1>3. Links'
  BY <1>1, <1>2, LinksWithout DEF Destroy
<1>4. Owners'
  BY <1>1, <1>2, OwnerGone DEF Destroy, Good
<1> QED  BY <1>1, <1>3, <1>4, NoRemoveFault DEF Destroy, Good

LEMMA MoveGood ==
  ASSUME TypeOK, Real, Good, NEW o \in Objs, NEW p \in Objs, Move(o, p),
         ~Linked(o), ~Linked(p)
  PROVE  Good'
<1>1. /\ parent[o] = None /\ \A q \in Objs : parent[q] # o
      /\ parent[p] = None /\ \A q \in Objs : parent[q] # p
      /\ Children(p) = {}
  BY NotLinked
<1>2. /\ freed' = freed \cup ({handle[p]} \ {None})
      /\ \A x \in Hosts : listed'[x] = listed[x]
      /\ FreeFaults(handle[p], listed) = {}
  BY <1>1, FreeAlone DEF Move
<1>3. Owners'
  BY <1>2, OwnerMoved DEF Move, Good
<1>4. Links'
  <2>1. /\ parent'[o] = None /\ parent'[p] = None
        /\ \A q \in Objs \ {o, p} : handle'[q] = handle[q] /\ life'[q] = life[q]
                                    /\ parent'[q] = parent[q]
    BY <1>1 DEF Move, TypeOK
  <2>2. {o, p} \in SUBSET Objs
    OBVIOUS
  <2> QED  BY <2>1, <2>2, <1>1, <1>2, LinksElsewhere
<1> QED  BY <1>2, <1>3, <1>4 DEF Good, Move

LEMMA SafeStep ==
  ASSUME Inv, [Next]_vars
  PROVE  FaultNeedsMisuse' /\ LinksMatch' /\ OwnedOnce'
<1>1. SUFFICES ASSUME misuse' = {} PROVE Good'
  BY DEF FaultNeedsMisuse, LinksMatch, OwnedOnce, Good, Links, Owners
<1>2. misuse = {}
  BY <1>1
  DEF Next, vars, ConstructEmpty, Construct, ConstructIn, Create, AddVirtualHost,
      RemoveVirtualHost, Destroy, Move, BindSocket, Note
<1>3. TypeOK /\ Real /\ Good
  BY <1>2, GoodIs DEF Inv, Good, FaultNeedsMisuse
<1>4. ASSUME NEW o \in Objs, ConstructEmpty(o) PROVE Good'
  <2>1. \A q \in Objs : life[q] = "alive" => life'[q] = "alive"
    BY <1>3, <1>4 DEF ConstructEmpty, TypeOK
  <2>2. UNCHANGED <<handle, parent, allocated, freed, listed, faults>>
    BY <1>4 DEF ConstructEmpty, hosts
  <2>3. Links'  BY <1>3, <2>1, <2>2 DEF Good, Links, TypeOK
  <2>4. Owners'  BY <1>3, <2>1, <2>2 DEF Good, Owners
  <2> QED  BY <1>3, <2>2, <2>3, <2>4 DEF Good
<1>5. ASSUME NEW o \in Objs, NEW h \in Hosts, Create(o, h) PROVE Good'
  <2>1. ~Linked(o)  BY <1>1, <1>5 DEF Create, Note
  <2> QED  BY <1>3, <1>5, <2>1, CreateGood
<1>6. ASSUME NEW o \in Objs, Destroy(o) PROVE Good'
  <2>1. Children(o) = {}  BY <1>1, <1>6 DEF Destroy, Note
  <2> QED  BY <1>3, <1>6, <2>1, DestroyGood
<1>7. ASSUME NEW o \in Objs, NEW p \in Objs, Move(o, p) PROVE Good'
  <2>1. ~Linked(o) /\ ~Linked(p)  BY <1>1, <1>7 DEF Move, Note
  <2> QED  BY <1>3, <1>7, <2>1, MoveGood
<1>8. ASSUME NEW o \in Objs, BindSocket(o) PROVE Good'
  BY <1>3, <1>8 DEF BindSocket, Good, Links, Owners
<1>9. ASSUME UNCHANGED vars PROVE Good'
  BY <1>3, <1>9 DEF vars, Good, Links, Owners
<1> QED
  BY <1>3, <1>4, <1>5, <1>6, <1>7, <1>8, <1>9, ConstructGood, ConstructInGood,
     AddGood, RemoveGood
  DEF Inv, Next

LEMMA InvInit == Init => Inv
<1> SUFFICES ASSUME Init PROVE Inv
  OBVIOUS
<1>1. {handle[o] : o \in Objs} \ {None} = {}
  BY DEF Init
<1>2. TypeOK /\ Real /\ FaultNeedsMisuse
  BY DEF Init, TypeOK, Real, FaultNeedsMisuse
<1>3. LinksMatch /\ OwnedOnce
  BY <1>1 DEF Init, LinksMatch, OwnedOnce
<1> QED  BY <1>2, <1>3 DEF Inv

LEMMA InvAlways == Spec => []Inv
<1>1. Inv /\ [Next]_vars => Inv'
  BY TypeStep, SafeStep DEF Inv
<1> QED  BY <1>1, InvInit, PTL DEF Spec

\* Every variable of VHost keeps its type, even after a misuse; nothing is freed
\* that was not allocated.
THEOREM TypeCorrect == Spec => []TypeOK
<1>1. Inv => TypeOK  BY DEF Inv
<1> QED  BY <1>1, InvAlways, PTL

\* No sequence of calls fails an assertion, touches freed memory or frees an
\* evhttp twice, unless one of three misuses comes first.
THEOREM FaultsNeedMisuse == Spec => []FaultNeedsMisuse
<1>1. Inv => FaultNeedsMisuse  BY DEF Inv
<1> QED  BY <1>1, InvAlways, PTL

\* The parent_ pointers mirror libevent's lists until then.
THEOREM ParentsMirrorLists == Spec => []LinksMatch
<1>1. Inv => LinksMatch  BY DEF Inv
<1> QED  BY <1>1, InvAlways, PTL

\* And every evhttp has one living owner.
THEOREM HostsOwnedOnce == Spec => []OwnedOnce
<1>1. Inv => OwnedOnce  BY DEF Inv
<1> QED  BY <1>1, InvAlways, PTL
=============================================================================
