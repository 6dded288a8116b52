------------------------------- MODULE VHost -------------------------------
(***************************************************************************)
(* The http servers and virtual hosts of e4pp: vhost objects that own an    *)
(* evhttp, and that remember the vhost object whose evhttp holds theirs.    *)
(* libevent frees the virtual hosts of an evhttp along with it, so the two  *)
(* ideas of who owns what have to agree.                                    *)
(*                                                                          *)
(* A step that touches freed memory, or fails an assertion, is recorded in  *)
(* faults and ends the program.                                             *)
(*                                                                          *)
(* Bounds: each evhttp is allocated once (Hosts), and each object is        *)
(* constructed once (Objs).                                                 *)
(***************************************************************************)

CONSTANTS
  Objs,    \* vhost and server objects
  Hosts,   \* evhttp structures of libevent
  None

ASSUME NoneAssumption == None \notin Objs /\ None \notin Hosts

VARIABLES
  life,       \* life[o]: whether object o is constructed, or destroyed
  handle,     \* handle[o]: handle_, None when it is empty()
  parent,     \* parent[o]: parent_, a pointer to another object
  allocated,  \* the evhttp that exist or existed
  freed,      \* those that were freed
  listed,     \* listed[h]: the evhttp whose virtualhosts list holds h
  bound,      \* the evhttp with a bound socket
  misuse,     \* history: the calls made on objects that were still linked
  faults      \* what went wrong

hosts == <<allocated, freed, listed, bound>>
vars == <<life, handle, parent, allocated, freed, listed, bound, misuse, faults>>

Init ==
  /\ life = [o \in Objs |-> "raw"]
  /\ handle = [o \in Objs |-> None]
  /\ parent = [o \in Objs |-> None]
  /\ allocated = {} /\ freed = {} /\ bound = {}
  /\ listed = [h \in Hosts |-> None]
  /\ misuse = {} /\ faults = {}

\* The objects whose parent_ is o, and whether o is part of a tree.
Children(o) == {q \in Objs : life[q] = "alive" /\ parent[q] = o}
Linked(o) == parent[o] # None \/ Children(o) # {}

\* The step is a misuse if its object is linked, one way or the other.
Note(what, linked) == misuse' = IF linked THEN misuse \cup {what} ELSE misuse

-----------------------------------------------------------------------------
(* libevent's side.                                                         *)

\* What evhttp_free(h) frees: h, its virtual hosts, and theirs.
Below(h, list) ==
  {x \in Hosts :
     \A S \in SUBSET Hosts :
       h \in S /\ (\A y \in Hosts : list[y] \in S => y \in S) => x \in S}

\* Mutant: no test for an empty object.
FreeNull(h, list) ==
  LET gone == Below(h, list) IN
  /\ freed' = freed \cup gone
  /\ bound' = bound \ gone
  /\ listed' = [x \in Hosts |-> IF x \in gone \ {h} THEN None ELSE list[x]]

\* evhttp_free(h), on the lists as list has them; each virtual host is taken off
\* its list first, and h itself is not.
Free(h, list) ==
  LET gone == IF h = None THEN {} ELSE Below(h, list) IN
  /\ freed' = freed \cup gone
  /\ bound' = bound \ gone
  /\ listed' = [x \in Hosts |-> IF x \in gone \ {h} THEN None ELSE list[x]]

FreeFaults(h, list) ==
  IF h # None /\ Below(h, list) \cap freed # {} THEN {"double free"} ELSE {}

Allocate(h) == h \notin allocated /\ allocated' = allocated \cup {h}

-----------------------------------------------------------------------------
(* remove_virtual_host(), which every end of an object begins with.         *)

RemoveFaults(o) ==
  LET p == parent[o] IN
  IF p = None THEN {} ELSE
    (IF handle[o] = None THEN {"assert"} ELSE {})
      \cup (IF life[p] # "alive" \/ handle[p] = None \/ handle[o] \in freed
            THEN {"use after free"} ELSE {})

\* The lists without the evhttp of o, if o knows that it is on one.
ListedWithout(o) ==
  [h \in Hosts |-> IF h = handle[o] /\ parent[o] # None THEN None ELSE listed[h]]

-----------------------------------------------------------------------------
(* The operations of a vhost.                                               *)

ConstructEmpty(o) ==
  /\ life[o] = "raw"
  /\ life' = [life EXCEPT ![o] = "alive"]
  /\ UNCHANGED <<handle, parent, hosts, misuse, faults>>

Construct(o, h) ==
  /\ life[o] = "raw"
  /\ Allocate(h)
  /\ life' = [life EXCEPT ![o] = "alive"]
  /\ handle' = [handle EXCEPT ![o] = h]
  /\ UNCHANGED <<parent, freed, listed, bound, misuse, faults>>

\* vhost(queue, parent, pattern): a new evhttp is on no list yet.
ConstructIn(o, h, p) ==
  /\ life[o] = "raw" /\ life[p] = "alive" /\ handle[p] # None
  /\ Allocate(h)
  /\ life' = [life EXCEPT ![o] = "alive"]
  /\ handle' = [handle EXCEPT ![o] = h]
  /\ parent' = [parent EXCEPT ![o] = p]
  /\ listed' = [listed EXCEPT ![h] = handle[p]]
  /\ UNCHANGED <<freed, bound, misuse, faults>>

\* create(): reset() frees what the object had.
Create(o, h) ==
  /\ life[o] = "alive"
  /\ Allocate(h)
  /\ Note("create", Linked(o))
  /\ Free(handle[o], listed)
  /\ faults' = faults \cup FreeFaults(handle[o], listed)
  /\ handle' = [handle EXCEPT ![o] = h]
  /\ UNCHANGED <<life, parent>>

\* Mutant: parent_ is set before libevent refuses.
AddThrows(p, o) ==
  /\ life[p] = "alive" /\ life[o] = "alive" /\ p # o
  /\ handle[p] # None /\ handle[o] # None
  /\ listed[handle[o]] # None \/ handle[o] \in bound
  /\ parent' = [parent EXCEPT ![o] = p]
  /\ UNCHANGED <<life, handle, hosts, misuse, faults>>

\* add_virtual_host(other): libevent refuses one that is on a list or is bound,
\* and check_result() throws.
AddVirtualHost(p, o) ==
  /\ life[p] = "alive" /\ life[o] = "alive" /\ p # o
  /\ handle[p] # None /\ handle[o] # None
  /\ listed[handle[o]] = None /\ handle[o] \notin bound
  /\ listed' = [listed EXCEPT ![handle[o]] = handle[p]]
  /\ parent' = [parent EXCEPT ![o] = p]
  /\ UNCHANGED <<life, handle, allocated, freed, bound, misuse, faults>>

RemoveVirtualHost(o) ==
  /\ life[o] = "alive"
  /\ faults' = faults \cup RemoveFaults(o)
  /\ listed' = ListedWithout(o)
  /\ parent' = [parent EXCEPT ![o] = None]
  /\ UNCHANGED <<life, handle, allocated, freed, bound, misuse>>

\* Mutant: without remove_virtual_host().
DestroyListed(o) ==
  /\ life[o] = "alive"
  /\ Note("destroy", Children(o) # {})
  /\ Free(handle[o], listed)
  /\ faults' = faults \cup FreeFaults(handle[o], listed)
  /\ parent' = [parent EXCEPT ![o] = None]
  /\ handle' = [handle EXCEPT ![o] = None]
  /\ life' \in {life, [life EXCEPT ![o] = "dead"]}
  /\ UNCHANGED allocated

\* destroy() and ~vhost(); libevent frees the virtual hosts that are left.
Destroy(o) ==
  /\ life[o] = "alive"
  /\ Note("destroy", Children(o) # {})
  /\ Free(handle[o], ListedWithout(o))
  /\ faults' = faults \cup RemoveFaults(o)
                      \cup FreeFaults(handle[o], ListedWithout(o))
  /\ parent' = [parent EXCEPT ![o] = None]
  /\ handle' = [handle EXCEPT ![o] = None]
  /\ life' \in {life, [life EXCEPT ![o] = "dead"]}
  /\ UNCHANGED allocated

\* Mutant: the handle is copied, too.
MoveCopies(o, p) ==
  /\ o # p /\ life[o] = "alive" /\ life[p] \in {"raw", "alive"}
  /\ Note("move", Linked(o) \/ Linked(p))
  /\ Free(handle[p], listed)
  /\ faults' = faults \cup FreeFaults(handle[p], listed)
  /\ life' = [life EXCEPT ![p] = "alive"]
  /\ handle' = [handle EXCEPT ![p] = handle[o]]
  /\ parent' = [parent EXCEPT ![p] = parent[o]]
  /\ UNCHANGED allocated

\* vhost(vhost&&) and operator=(vhost&&): the handle goes over, parent_ is copied.
Move(o, p) ==
  /\ o # p /\ life[o] = "alive" /\ life[p] \in {"raw", "alive"}
  /\ Note("move", Linked(o) \/ Linked(p))
  /\ Free(handle[p], listed)
  /\ faults' = faults \cup FreeFaults(handle[p], listed)
  /\ life' = [life EXCEPT ![p] = "alive"]
  /\ handle' = [handle EXCEPT ![p] = handle[o], ![o] = None]
  /\ parent' = [parent EXCEPT ![p] = parent[o]]
  /\ UNCHANGED allocated

\* bind_socket() of a server.
BindSocket(o) ==
  /\ life[o] = "alive" /\ handle[o] # None
  /\ bound' = bound \cup {handle[o]}
  /\ UNCHANGED <<life, handle, parent, allocated, freed, listed, misuse, faults>>

Next ==
  /\ faults = {}
  /\ \/ \E o \in Objs :
          ConstructEmpty(o) \/ RemoveVirtualHost(o) \/ Destroy(o) \/ BindSocket(o)
     \/ \E o \in Objs, h \in Hosts : Construct(o, h) \/ Create(o, h)
     \/ \E o, p \in Objs, h \in Hosts : ConstructIn(o, h, p)
     \/ \E o, p \in Objs : AddVirtualHost(o, p) \/ Move(o, p)

Spec == Init /\ [][Next]_vars

-----------------------------------------------------------------------------
(* Properties.                                                              *)

\* Every variable keeps its type.
TypeOK ==
  /\ life \in [Objs -> {"raw", "alive", "dead"}]
  /\ handle \in [Objs -> Hosts \cup {None}]
  /\ parent \in [Objs -> Objs \cup {None}]
  /\ allocated \subseteq Hosts /\ freed \subseteq allocated /\ bound \subseteq Hosts
  /\ listed \in [Hosts -> Hosts \cup {None}]
  /\ misuse \subseteq {"create", "destroy", "move"}
  /\ faults \subseteq {"assert", "use after free", "double free"}

\* Unless a linked object was created over or moved, or one with virtual hosts
\* destroyed, no sequence of calls fails an assertion, touches freed memory or
\* frees an evhttp twice.
FaultNeedsMisuse == faults # {} => misuse # {}

\* And until then the parent_ pointers mirror libevent's lists, so that what an
\* object believes when it ends is true.
LinksMatch ==
  misuse = {} =>
    /\ \A o \in Objs : parent[o] # None =>
         /\ life[o] = "alive" /\ life[parent[o]] = "alive"
         /\ handle[o] # None /\ handle[parent[o]] # None
         /\ listed[handle[o]] = handle[parent[o]]
    /\ \A h \in Hosts : listed[h] # None =>
         \E o \in Objs : handle[o] = h /\ parent[o] # None

\* Each evhttp that exists is owned by exactly one living object, which frees it.
OwnedOnce ==
  misuse = {} =>
    /\ allocated \ freed = {handle[o] : o \in Objs} \ {None}
    /\ \A o, p \in Objs : handle[o] = handle[p] => o = p \/ handle[o] = None
    /\ \A o \in Objs : handle[o] # None => life[o] = "alive"
=============================================================================
