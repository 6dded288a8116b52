---------------------------- MODULE BufferProofs ----------------------------
(***************************************************************************)
(* Theorems about Buffer, for any number of objects, evbuffers, items and   *)
(* threads: who owns which evbuffer, who has which lock, and where the data *)
(* is while several threads add it and take it.                             *)
(***************************************************************************)
EXTENDS Buffer, SequenceTheorems, TLAPS

-----------------------------------------------------------------------------
(* The inductive invariant.                                                 *)

\* Each object has an evbuffer of its own that is not freed.
Owned ==
  \A b, c \in Buffers :
    handle[b] # None =>
      /\ handle[b] \in made \ freed
      /\ handle[b] = handle[c] => b = c

\* Unless its evbuffer was exchanged a shared object has one with a lock.
SharedHaveLocks ==
  "exchanged shared" \notin misuse => \A b \in shared : handle[b] \in locking

\* Where the data is.
Within(i) == \E e \in Evbufs : i \in ToSet(content[e])
Once(i) ==
  taken[i] + (IF Within(i) THEN 1 ELSE 0) + (IF i \in gone THEN 1 ELSE 0)
    = IF i \in sent THEN 1 ELSE 0
Spread ==
  /\ \A e \in Evbufs : IsInjective(content[e])
  /\ \A e, f \in Evbufs : e # f => ToSet(content[e]) \cap ToSet(content[f]) = {}
  /\ \A i \in Items : Once(i)

\* What a read has sized is still at the front of the evbuffer, and what it has
\* copied is just that.
Reading(t) ==
  LET c == call[t] IN
  c.at # "idle" =>
    /\ handle[c.b] # None /\ c.n <= Len(content[handle[c.b]])
    /\ c.at = "copied" => c.text = First(content[handle[c.b]], c.n)

Undisturbed == "overlap" \notin misuse => Spread /\ \A t \in Threads : Reading(t)

Inv ==
  /\ TypeOK /\ Owned /\ LockReturned /\ SharedHaveLocks /\ SharedLocked /\ Undisturbed

-----------------------------------------------------------------------------
(* Sequences of data.                                                       *)

LEMMA FirstType ==
  ASSUME NEW s \in Seq(Items), NEW n \in Nat
  PROVE  /\ First(s, n) \in Seq(Items) /\ Without(s, n) \in Seq(Items)
         /\ Len(First(s, n)) = IF n < Len(s) THEN n ELSE Len(s)
         /\ \A j \in 1 .. Len(First(s, n)) : j \in 1 .. Len(s) /\ First(s, n)[j] = s[j]
         /\ Len(Without(s, n)) = IF n < Len(s) THEN Len(s) - n ELSE 0
         /\ \A j \in 1 .. Len(Without(s, n)) :
              j + n \in 1 .. Len(s) /\ Without(s, n)[j] = s[j + n]
<1>1. Len(s) \in Nat  OBVIOUS
<1>2. /\ First(s, n) \in Seq(Items)
      /\ Len(First(s, n)) = IF n < Len(s) THEN n ELSE Len(s)
      /\ \A j \in 1 .. Len(First(s, n)) : j \in 1 .. Len(s) /\ First(s, n)[j] = s[j]
  BY <1>1 DEF First
<1>3. /\ Without(s, n) \in Seq(Items)
      /\ Len(Without(s, n)) = IF n < Len(s) THEN Len(s) - n ELSE 0
      /\ \A j \in 1 .. Len(Without(s, n)) :
           j + n \in 1 .. Len(s) /\ Without(s, n)[j] = s[j + n]
  BY <1>1 DEF Without
<1> QED  BY <1>2, <1>3

\* What is taken from the front and what is left are the whole, apart.
LEMMA SplitData ==
  ASSUME NEW s \in Seq(Items), NEW n \in Nat, IsInjective(s)
  PROVE  /\ IsInjective(First(s, n)) /\ IsInjective(Without(s, n))
         /\ ToSet(First(s, n)) \cup ToSet(Without(s, n)) = ToSet(s)
         /\ ToSet(First(s, n)) \cap ToSet(Without(s, n)) = {}
<1> DEFINE p == First(s, n)
           r == Without(s, n)
<1>1. /\ p \in Seq(Items) /\ r \in Seq(Items) /\ Len(s) \in Nat
      /\ Len(p) = IF n < Len(s) THEN n ELSE Len(s)
      /\ \A j \in 1 .. Len(p) : j \in 1 .. Len(s) /\ p[j] = s[j]
      /\ Len(r) = IF n < Len(s) THEN Len(s) - n ELSE 0
      /\ \A j \in 1 .. Len(r) : j + n \in 1 .. Len(s) /\ r[j] = s[j + n]
  BY FirstType
<1>2. DOMAIN s = 1 .. Len(s) /\ DOMAIN p = 1 .. Len(p) /\ DOMAIN r = 1 .. Len(r)
  BY <1>1
<1>3. \A j, k \in 1 .. Len(s) : s[j] = s[k] => j = k  BY <1>2 DEF IsInjective
<1> HIDE DEF p, r
<1>4. IsInjective(p)  BY <1>1, <1>2, <1>3 DEF IsInjective
<1>5. IsInjective(r)
  <2>1. SUFFICES ASSUME NEW j \in 1 .. Len(r), NEW k \in 1 .. Len(r), r[j] = r[k]
                 PROVE  j = k
    BY <1>2 DEF IsInjective
  <2>2. j + n = k + n  BY <2>1, <1>1, <1>3
  <2> QED  BY <2>2
<1>6. ToSet(s) \subseteq ToSet(p) \cup ToSet(r)
  <2>1. SUFFICES ASSUME NEW j \in 1 .. Len(s) PROVE s[j] \in ToSet(p) \cup ToSet(r)
    BY <1>2 DEF ToSet
  <2>2. CASE j <= n
    <3>1. j \in 1 .. Len(p)  BY <2>2, <1>1
    <3> QED  BY <3>1, <1>1, <1>2 DEF ToSet
  <2>3. CASE ~(j <= n)
    <3>1. j - n \in 1 .. Len(r) /\ (j - n) + n = j  BY <2>3, <1>1
    <3>2. r[j - n] = s[j]  BY <3>1, <1>1
    <3> QED  BY <3>1, <3>2, <1>2 DEF ToSet
  <2> QED  BY <2>2, <2>3
<1>7. ToSet(p) \subseteq ToSet(s) /\ ToSet(r) \subseteq ToSet(s)
  BY <1>1, <1>2 DEF ToSet
<1>8. ToSet(p) \cap ToSet(r) = {}
  <2>1. SUFFICES ASSUME NEW j \in 1 .. Len(p), NEW k \in 1 .. Len(r), p[j] = r[k]
                 PROVE  FALSE
    BY <1>2 DEF ToSet
  <2>2. j = k + n  BY <2>1, <1>1, <1>3
  <2> QED  BY <2>2, <1>1
<1> QED  BY <1>4, <1>5, <1>6, <1>7, <1>8 DEF p, r

LEMMA JoinData ==
  ASSUME NEW s \in Seq(Items), NEW t \in Seq(Items)
  PROVE  /\ s \o t \in Seq(Items) /\ ToSet(s \o t) = ToSet(s) \cup ToSet(t)
         /\ IsInjective(s) /\ IsInjective(t) /\ ToSet(s) \cap ToSet(t) = {} =>
              IsInjective(s \o t)
<1> DEFINE u == s \o t
<1>1. /\ u \in Seq(Items) /\ Len(u) = Len(s) + Len(t)
      /\ \A j \in 1 .. Len(s) : u[j] = s[j]
      /\ \A j \in 1 .. Len(u) : ~(j <= Len(s)) => u[j] = t[j - Len(s)]
  OBVIOUS
<1>2. /\ DOMAIN s = 1 .. Len(s) /\ DOMAIN t = 1 .. Len(t) /\ DOMAIN u = 1 .. Len(u)
      /\ Len(s) \in Nat /\ Len(t) \in Nat
  BY <1>1
<1> HIDE DEF u
<1>3. \A j \in 1 .. Len(t) : j + Len(s) \in 1 .. Len(u) /\ u[j + Len(s)] = t[j]
  BY <1>1, <1>2
<1>4. ToSet(u) = ToSet(s) \cup ToSet(t)
  <2>1. ASSUME NEW j \in 1 .. Len(u) PROVE u[j] \in ToSet(s) \cup ToSet(t)
    <3>1. CASE j <= Len(s)
      <4>1. j \in 1 .. Len(s)  BY <3>1, <1>2
      <4> QED  BY <4>1, <1>1, <1>2 DEF ToSet
    <3>2. CASE ~(j <= Len(s))
      <4>1. j - Len(s) \in 1 .. Len(t)  BY <3>2, <1>1, <1>2
      <4> QED  BY <4>1, <3>2, <1>1, <1>2 DEF ToSet
    <3> QED  BY <3>1, <3>2
  <2>2. ASSUME NEW j \in 1 .. Len(s) PROVE s[j] \in ToSet(u)
    <3>1. j \in 1 .. Len(u)  BY <1>1, <1>2
    <3> QED  BY <3>1, <1>1, <1>2 DEF ToSet
  <2>3. ASSUME NEW j \in 1 .. Len(t) PROVE t[j] \in ToSet(u)
    BY <1>2, <1>3 DEF ToSet
  <2>4. \A x : x \in ToSet(u) => x \in ToSet(s) \cup ToSet(t)
    BY <2>1, <1>2 DEF ToSet
  <2>5. \A x : x \in ToSet(s) \cup ToSet(t) => x \in ToSet(u)
    <3>1. \A x : x \in ToSet(s) => x \in ToSet(u)
      <4> HIDE DEF ToSet
      <4>1. ASSUME NEW x \in ToSet(s) PROVE x \in ToSet(u)
        <5>1. PICK j \in 1 .. Len(s) : x = s[j]  BY <1>2 DEF ToSet
        <5> QED  BY <5>1, <2>2
      <4> QED  BY <4>1
    <3>2. ASSUME NEW x \in ToSet(t) PROVE x \in ToSet(u)
      <4>1. PICK j \in 1 .. Len(t) : x = t[j]  BY <1>2 DEF ToSet
      <4> QED  BY <4>1, <2>3
    <3> QED  BY <3>1, <3>2
  <2> QED  BY <2>4, <2>5
<1>5. ASSUME IsInjective(s), IsInjective(t), ToSet(s) \cap ToSet(t) = {}
      PROVE  IsInjective(u)
  <2>1. SUFFICES ASSUME NEW j \in 1 .. Len(u), NEW k \in 1 .. Len(u), u[j] = u[k]
                 PROVE  j = k
    BY <1>2 DEF IsInjective
  <2>2. CASE j <= Len(s) /\ k <= Len(s)
    <3>1. j \in 1 .. Len(s) /\ k \in 1 .. Len(s)  BY <2>2, <1>2
    <3> QED  BY <3>1, <2>1, <1>1, <1>2, <1>5 DEF IsInjective
  <2>3. CASE ~(j <= Len(s)) /\ ~(k <= Len(s))
    <3>1. j - Len(s) \in 1 .. Len(t) /\ k - Len(s) \in 1 .. Len(t)
      BY <2>3, <1>1, <1>2
    <3>2. t[j - Len(s)] = t[k - Len(s)]  BY <2>1, <2>3, <1>1
    <3>3. \A a, b \in 1 .. Len(t) : t[a] = t[b] => a = b
      BY <1>2, <1>5 DEF IsInjective
    <3>4. j - Len(s) = k - Len(s)  BY <3>1, <3>2, <3>3
    <3> QED  BY <3>4, <1>2
  <2>4. \A a \in 1 .. Len(s), b \in 1 .. Len(t) : s[a] # t[b]
    BY <1>2, <1>5 DEF ToSet
  <2>5. CASE j <= Len(s) /\ ~(k <= Len(s))
    <3>1. j \in 1 .. Len(s) /\ k - Len(s) \in 1 .. Len(t)  BY <2>5, <1>1, <1>2
    <3> QED  BY <3>1, <2>1, <2>4, <2>5, <1>1
  <2>6. CASE ~(j <= Len(s)) /\ k <= Len(s)
    <3>1. k \in 1 .. Len(s) /\ j - Len(s) \in 1 .. Len(t)  BY <2>6, <1>1, <1>2
    <3> QED  BY <3>1, <2>1, <2>4, <2>6, <1>1
  <2> QED  BY <2>2, <2>3, <2>5, <2>6, <1>2
<1> QED  BY <1>1, <1>4, <1>5 DEF u

\* Data added at the end leaves the front as it is.
LEMMA FrontStays ==
  ASSUME NEW s \in Seq(Items), NEW t \in Seq(Items), NEW n \in Nat, n <= Len(s)
  PROVE  n <= Len(s \o t) /\ First(s \o t, n) = First(s, n)
<1> DEFINE u == s \o t
<1>1. /\ u \in Seq(Items) /\ Len(u) = Len(s) + Len(t) /\ Len(s) \in Nat /\ Len(t) \in Nat
      /\ \A j \in 1 .. Len(s) : u[j] = s[j]
  OBVIOUS
<1> HIDE DEF u
<1>2. n <= Len(u)  BY <1>1
<1>3. /\ First(u, n) \in Seq(Items) /\ Len(First(u, n)) = n
      /\ \A j \in 1 .. n : First(u, n)[j] = u[j]
  <2>1. \A j \in 1 .. Len(First(u, n)) : First(u, n)[j] = u[j]
    BY <1>1, FirstType
  <2>2. /\ First(u, n) \in Seq(Items)
        /\ Len(First(u, n)) = IF n < Len(u) THEN n ELSE Len(u)
    BY <1>1, FirstType
  <2>3. Len(First(u, n)) = n  BY <2>2, <1>1, <1>2
  <2> QED  BY <2>1, <2>2, <2>3
<1>4. /\ First(s, n) \in Seq(Items) /\ Len(First(s, n)) = n
      /\ \A j \in 1 .. n : j \in 1 .. Len(s) /\ First(s, n)[j] = s[j]
  BY <1>1, FirstType
<1>5. First(u, n) = First(s, n)
  <2>1. \A j \in 1 .. n : First(u, n)[j] = First(s, n)[j]  BY <1>1, <1>3, <1>4
  <2> HIDE DEF First
  <2> QED  BY <2>1, <1>3, <1>4, SeqEqual
<1> QED  BY <1>2, <1>5 DEF u

-----------------------------------------------------------------------------
(* Types.                                                                   *)

LEMMA AddType ==
  ASSUME TypeOK, NEW e \in Evbufs, NEW s \in Seq(Items), NEW front \in BOOLEAN
  PROVE  /\ Add(e, s, front) \in [Evbufs -> Seq(Items)]
         /\ Add(e, s, front)[e] = IF front THEN s \o content[e] ELSE content[e] \o s
         /\ \A f \in Evbufs : f # e => Add(e, s, front)[f] = content[f]
<1>1. content \in [Evbufs -> Seq(Items)] /\ content[e] \in Seq(Items)  BY DEF TypeOK
<1>2. s \o content[e] \in Seq(Items) /\ content[e] \o s \in Seq(Items)
  BY <1>1, ConcatProperties
<1> DEFINE both == IF front THEN s \o content[e] ELSE content[e] \o s
<1>3. both \in Seq(Items)  BY <1>2
<1>4. Add(e, s, front) = [content EXCEPT ![e] = both]  BY <1>1 DEF Add
<1> HIDE DEF both
<1>5. /\ Add(e, s, front) \in [Evbufs -> Seq(Items)] /\ Add(e, s, front)[e] = both
      /\ \A f \in Evbufs : f # e => Add(e, s, front)[f] = content[f]
  BY <1>1, <1>3, <1>4
<1> QED  BY <1>5 DEF both

LEMMA TakeType ==
  ASSUME TypeOK, NEW s, Take(s)
  PROVE  taken' \in [Items -> 0 .. 2]
<1>1. \A i \in Items : taken[i] \in 0 .. 2  BY DEF TypeOK
<1>2. \A i \in Items : (IF i \in ToSet(s) /\ taken[i] < 2 THEN taken[i] + 1
                                                     ELSE taken[i]) \in 0 .. 2
  BY <1>1
<1> QED  BY <1>2 DEF Take

LEMMA DataType ==
  ASSUME NEW s \in Seq(Items) PROVE ToSet(s) \subseteq Items
BY DEF ToSet

LEMMA CallType ==
  ASSUME TypeOK, NEW t \in Threads, call[t].at # "idle"
  PROVE  /\ call[t].at \in {"sized", "copied"} /\ call[t].b \in Buffers
         /\ call[t].n \in Nat /\ call[t].text \in Seq(Items)
<1>1. call[t] \in {Idle} \cup [at : {"sized", "copied"}, b : Buffers,
                              n : Nat, text : Seq(Items)]
  BY DEF TypeOK
<1>2. Idle.at = "idle"  BY DEF Idle
<1> QED  BY <1>1, <1>2

\* The types of what a step may change, by the groups of variables.
MemoryType ==
  /\ handle \in [Buffers -> Evbufs \cup {None}]
  /\ made \subseteq Evbufs /\ freed \subseteq made
LocksType ==
  /\ locking \subseteq made /\ owner \in [Evbufs -> Threads \cup {None}]
  /\ insync \in [Threads -> Buffers \cup {None}] /\ shared \subseteq Buffers
CallsType ==
  call \in [Threads -> {Idle} \cup [at : {"sized", "copied"}, b : Buffers,
                                    n : Nat, text : Seq(Items)]]
ContentType ==
  /\ content \in [Evbufs -> Seq(Items)]
  /\ sent \subseteq Items /\ gone \subseteq Items /\ taken \in [Items -> 0 .. 2]
NotesType ==
  /\ raced \in BOOLEAN
  /\ misuse \subseteq {"overlap", "exchanged shared", "exchanged in sync"}

LEMMA TypeGroups ==
  TypeOK <=> MemoryType /\ LocksType /\ CallsType /\ ContentType /\ NotesType
BY DEF TypeOK, MemoryType, LocksType, CallsType, ContentType, NotesType

\* Which groups a step changes, and how.
LEMMA NotesStep ==
  ASSUME NotesType, MainNext \/ \E t \in Threads : ThreadNext(t) \/ ReadNext(t)
  PROVE  NotesType'
<1>1. raced' = raced \/ raced' \in BOOLEAN
  <2>1. \A t, bs : Uses(t, bs) => raced' \in BOOLEAN  BY DEF Uses
  <2>2. CASE MainNext
    <3>1. UNCHANGED raced \/ \E t, bs : Uses(t, bs)
      BY <2>2 DEF MainNext, EnableLocking, Destroy, Construct, Release, Move, Reset,
                  AppendMove, Calls
    <3> QED  BY <2>1, <3>1
  <2>3. ASSUME NEW t \in Threads, ThreadNext(t) \/ ReadNext(t)
        PROVE  UNCHANGED raced \/ \E bs : Uses(t, bs)
    <3>1. CASE ReadNext(t)  BY <3>1 DEF ReadNext, Copyout, DrainRead, EndRead
    <3>2. CASE ThreadNext(t)
      BY <3>2 DEF ThreadNext, Sync, EndSync, AddItem, AddBuffer, Discard, RemoveOut,
                  RemoveTo, StartRead, Calls
    <3> QED  BY <2>3, <3>1, <3>2
  <2> QED  BY <2>1, <2>2, <2>3
<1>2. misuse' \subseteq misuse \cup {"overlap", "exchanged shared", "exchanged in sync"}
  <2>1. CASE MainNext
    BY <2>1 DEF MainNext, EnableLocking, Destroy, Construct, Release, Move, Reset,
                AppendMove, NoteExchange
  <2>2. ASSUME NEW t \in Threads, ThreadNext(t) \/ ReadNext(t)
        PROVE  misuse' \subseteq misuse \cup {"overlap", "exchanged shared", "exchanged in sync"}
    BY <2>2 DEF ThreadNext, ReadNext, Sync, EndSync, AddItem, AddBuffer, Discard,
                RemoveOut, RemoveTo, StartRead, Copyout, DrainRead, EndRead, NoteOverlap
  <2> QED  BY <2>1, <2>2
<1> QED  BY <1>1, <1>2 DEF NotesType

-----------------------------------------------------------------------------
(* Objects and their evbuffers.                                             *)

LEMMA SameMemory ==
  ASSUME NEW b, EnableLocking(b) \/ \E t \in Threads : ThreadNext(t) \/ ReadNext(t)
  PROVE  UNCHANGED memory
<1>1. CASE EnableLocking(b)  BY <1>1 DEF EnableLocking
<1>2. ASSUME NEW t \in Threads, ThreadNext(t) PROVE UNCHANGED memory
  BY <1>2 DEF ThreadNext, Sync, EndSync, AddItem, AddBuffer, Discard, RemoveOut, RemoveTo,
              StartRead
<1>3. ASSUME NEW t \in Threads, ReadNext(t) PROVE UNCHANGED memory
  BY <1>3 DEF ReadNext, Copyout, DrainRead, EndRead
<1> QED  BY <1>1, <1>2, <1>3

LEMMA MemoryStep ==
  ASSUME Inv, MainNext \/ \E t \in Threads : ThreadNext(t) \/ ReadNext(t)
  PROVE  MemoryType' /\ Owned'
<1>1. MemoryType /\ Owned /\ None \notin Evbufs
  BY TypeGroups, NoneAssumption DEF Inv
<1>2. handle \in [Buffers -> Evbufs \cup {None}]  BY <1>1 DEF MemoryType
<1>3. ASSUME UNCHANGED memory PROVE MemoryType' /\ Owned'
  BY <1>1, <1>3 DEF memory, MemoryType, Owned
<1>4. ASSUME NEW b \in Buffers, NEW e \in Evbufs, Construct(b, e) \/ Release(b, e)
      PROVE  MemoryType' /\ Owned'
  <2>1. /\ handle' = [handle EXCEPT ![b] = e] /\ made' = made \cup {e}
        /\ freed' = freed /\ e \notin made
    BY <1>4 DEF Construct, Release, Allocate
  <2> QED  BY <1>1, <2>1 DEF MemoryType, Owned
<1>5. ASSUME NEW b \in Buffers, Destroy(b) PROVE MemoryType' /\ Owned'
  <2>1. /\ handle' = [handle EXCEPT ![b] = None] /\ made' = made /\ handle[b] # None
        /\ freed' = freed \cup {handle[b]}
    BY <1>5 DEF Destroy, Exchanges, FreeContent
  <2> QED  BY <1>1, <2>1 DEF MemoryType, Owned
<1>6. ASSUME NEW b \in Buffers, NEW c \in Buffers, Move(b, c) PROVE MemoryType' /\ Owned'
  <2>1. /\ handle' = [handle EXCEPT ![b] = handle[c], ![c] = handle[b]]
        /\ made' = made /\ freed' = freed
    BY <1>6 DEF Move
  <2>2. MemoryType'  BY <1>1, <2>1 DEF MemoryType
  <2>3. \A d \in Buffers :
          handle'[d] = IF d = c THEN handle[b] ELSE IF d = b THEN handle[c] ELSE handle[d]
    BY <1>2, <2>1
  <2>4. SUFFICES ASSUME NEW d \in Buffers, NEW e \in Buffers, handle'[d] # None
                 PROVE  handle'[d] \in made \ freed /\ (handle'[d] = handle'[e] => d = e)
    BY <2>1, <2>2 DEF Owned
  <2>5. \A x, y \in Buffers : handle[x] # None /\ handle[x] = handle[y] => x = y
    BY <1>1 DEF Owned
  <2>6. handle'[d] \in made \ freed  BY <1>1, <2>3, <2>4 DEF Owned
  <2>7. handle'[d] = handle'[e] => d = e  BY <2>3, <2>4, <2>5
  <2> QED  BY <2>6, <2>7
<1>7. ASSUME NEW b \in Buffers, NEW c \in Buffers, NEW e \in Evbufs, Reset(b, c, e)
      PROVE  MemoryType' /\ Owned'
  <2>1. /\ handle' = [handle EXCEPT ![b] = handle[c], ![c] = e] /\ b # c
        /\ e \notin made /\ made' = made \cup {e} /\ freed' = freed \cup {handle[b]}
        /\ handle[b] # None /\ handle[c] # None
    BY <1>7 DEF Reset, Allocate, FreeContent, Exchanges
  <2>2. /\ handle[b] \in made /\ handle[c] \in made \ freed /\ handle[b] # handle[c]
    BY <1>1, <2>1 DEF Owned
  <2>3. MemoryType'  BY <1>1, <2>1, <2>2 DEF MemoryType
  <2>4. \A d \in Buffers :
          handle'[d] = IF d = c THEN e ELSE IF d = b THEN handle[c] ELSE handle[d]
    BY <1>2, <2>1
  <2>5. \A d \in Buffers \ {b} : handle[d] # handle[b]  BY <1>1, <2>1 DEF Owned
  <2> QED  BY <1>1, <2>1, <2>2, <2>3, <2>4, <2>5 DEF Owned, MemoryType
<1>8. ASSUME NEW b \in Buffers, NEW c \in Buffers, NEW e \in Evbufs, AppendMove(b, c, e)
      PROVE  MemoryType' /\ Owned'
  <2>1. /\ handle' = [handle EXCEPT ![c] = e] /\ e \notin made
        /\ made' = made \cup {e} /\ freed' = freed \cup {handle[c]}
        /\ handle[c] # None
    BY <1>8 DEF AppendMove, Allocate, Exchanges
  <2>2. handle[c] \in made  BY <1>1, <2>1 DEF Owned
  <2>3. MemoryType'  BY <1>1, <2>1, <2>2 DEF MemoryType
  <2>4. \A d \in Buffers : handle'[d] = IF d = c THEN e ELSE handle[d]
    BY <1>2, <2>1
  <2>5. \A d \in Buffers \ {c} : handle[d] # handle[c]  BY <1>1, <2>1 DEF Owned
  <2> QED  BY <1>1, <2>1, <2>2, <2>3, <2>4, <2>5 DEF Owned, MemoryType
<1>9. ASSUME NEW b, EnableLocking(b) PROVE MemoryType' /\ Owned'
  BY <1>3, <1>9, SameMemory
<1>10. ASSUME NEW t \in Threads, ThreadNext(t) \/ ReadNext(t) PROVE MemoryType' /\ Owned'
  BY <1>3, <1>10, SameMemory
<1> QED
  BY <1>4, <1>5, <1>6, <1>7, <1>8, <1>9, <1>10 DEF MainNext

-----------------------------------------------------------------------------
(* Locks.                                                                   *)

\* A worker only uses shared objects, so that it misses a lock only if a shared
\* object had its evbuffer exchanged.
LEMMA UsesLocked ==
  ASSUME SharedHaveLocks, SharedLocked, NEW t \in Threads, NEW bs, Uses(t, bs),
         misuse \subseteq misuse'
  PROVE  SharedLocked'
<1>1. SUFFICES ASSUME raced', "exchanged shared" \notin misuse PROVE FALSE
  BY DEF SharedLocked
<1>2. ~raced  BY <1>1 DEF SharedLocked
<1>3. t # Main /\ \E b \in bs : handle[b] \notin locking  BY <1>1, <1>2 DEF Uses
<1>4. t \in Workers  BY <1>3 DEF Threads
<1> QED  BY <1>1, <1>3, <1>4 DEF Uses, SharedHaveLocks

LEMMA LocksStep ==
  ASSUME Inv, MainNext \/ \E t \in Threads : ThreadNext(t) \/ ReadNext(t)
  PROVE  LocksType' /\ LockReturned' /\ SharedHaveLocks' /\ SharedLocked'
<1> DEFINE Good == LocksType' /\ LockReturned' /\ SharedHaveLocks' /\ SharedLocked'
<1>1. /\ MemoryType /\ LocksType /\ LockReturned /\ SharedHaveLocks /\ SharedLocked
      /\ Owned /\ None \notin Evbufs /\ None \notin Buffers
      /\ None \notin Threads /\ Main \in Threads
  BY TypeGroups, NoneAssumption, ThreadsAssumption DEF Inv, Threads
<1>2. /\ handle \in [Buffers -> Evbufs \cup {None}] /\ locking \subseteq made
      /\ owner \in [Evbufs -> Threads \cup {None}] /\ shared \subseteq Buffers
      /\ insync \in [Threads -> Buffers \cup {None}] /\ made \subseteq Evbufs
  BY <1>1 DEF MemoryType, LocksType
<1>3. ASSUME UNCHANGED <<memory, locks>>, misuse \subseteq misuse',
             UNCHANGED raced \/ \E t \in Threads : \E bs : Uses(t, bs),
             misuse' \subseteq misuse \cup {"overlap"}
      PROVE  Good
  <2>1. LocksType' /\ LockReturned' /\ SharedHaveLocks'
    BY <1>1, <1>3 DEF memory, locks, LocksType, LockReturned, SharedHaveLocks
  <2>2. SharedLocked'  BY <1>1, <1>3, UsesLocked DEF SharedLocked
  <2> QED  BY <2>1, <2>2
\* Main changes the handles of bs only, which no worker uses.
<1>4. ASSUME NEW bs \in SUBSET Buffers, \A b \in Buffers \ bs : handle'[b] = handle[b],
             \A b \in bs, t \in Workers : insync[t] # b, NoteExchange(bs),
             UNCHANGED locks, made \subseteq made',
             UNCHANGED raced \/ \E b : Uses(Main, b)
      PROVE  Good
  <2>1. LocksType'  BY <1>1, <1>4 DEF LocksType, locks
  <2>2. SharedHaveLocks'
    BY <1>1, <1>2, <1>4 DEF SharedHaveLocks, NoteExchange, locks
  <2>3. LockReturned'
    <3>1. SUFFICES ASSUME "exchanged in sync" \notin misuse',
                          NEW e \in Evbufs, NEW t \in Threads, owner[e] = t
                   PROVE  insync[t] # None /\ handle'[insync[t]] = e
      BY <1>4 DEF LockReturned, locks
    <3>2. "exchanged in sync" \notin misuse /\ insync[Main] \notin bs
      BY <1>4, <3>1 DEF NoteExchange
    <3>3. insync[t] # None /\ handle[insync[t]] = e
      BY <1>1, <3>1, <3>2 DEF LockReturned
    <3>4. insync[t] \in Buffers \ bs  BY <1>2, <1>4, <3>2, <3>3 DEF Threads
    <3> QED  BY <1>4, <3>3, <3>4
  <2>4. SharedLocked'
    <3>1. misuse \subseteq misuse'  BY <1>4 DEF NoteExchange
    <3> QED  BY <1>1, <1>4, <3>1, UsesLocked DEF SharedLocked
  <2> QED  BY <2>1, <2>2, <2>3, <2>4
<1>5. ASSUME NEW b \in Buffers, EnableLocking(b) PROVE Good
  <2>1. /\ Uses(Main, {b}) /\ handle[b] # None /\ UNCHANGED <<memory, owner, insync, misuse>>
        /\ locking' = locking \cup {handle[b]} /\ shared' = shared \cup {b}
    BY <1>5 DEF EnableLocking, Calls, Uses
  <2>2. handle[b] \in made  BY <1>1, <2>1 DEF Owned
  <2>3. LocksType'  BY <1>1, <2>1, <2>2 DEF LocksType, memory
  <2>4. SharedHaveLocks'  BY <1>1, <1>2, <2>1 DEF SharedHaveLocks, memory
  <2>5. LockReturned'  BY <1>1, <2>1 DEF LockReturned, memory
  <2>6. SharedLocked'  BY <1>1, <2>1, UsesLocked
  <2> QED  BY <2>3, <2>4, <2>5, <2>6
<1>6. ASSUME NEW b \in Buffers, NEW e \in Evbufs, Construct(b, e) PROVE Good
  <2>1. /\ UNCHANGED <<locks, raced, misuse>> /\ handle[b] = None
        /\ handle' = [handle EXCEPT ![b] = e] /\ made' = made \cup {e}
    BY <1>6 DEF Construct, Allocate
  <2>2. \A c \in Buffers : c # b => handle'[c] = handle[c]  BY <1>2, <2>1
  <2>3. LocksType'  BY <1>1, <2>1 DEF LocksType, locks
  <2>4. SharedHaveLocks'
    <3>1. b \in shared => "exchanged shared" \in misuse
      BY <1>1, <1>2, <2>1 DEF SharedHaveLocks
    <3> QED  BY <1>1, <1>2, <2>1, <2>2, <3>1 DEF SharedHaveLocks, locks
  <2>5. LockReturned'
    <3>1. SUFFICES ASSUME "exchanged in sync" \notin misuse,
                          NEW f \in Evbufs, NEW t \in Threads, owner[f] = t
                   PROVE  insync[t] # None /\ handle'[insync[t]] = f
      BY <2>1 DEF LockReturned, locks
    <3>2. insync[t] # None /\ handle[insync[t]] = f  BY <1>1, <3>1 DEF LockReturned
    <3>3. insync[t] # b /\ insync[t] \in Buffers  BY <1>1, <1>2, <2>1, <3>2
    <3> QED  BY <2>2, <3>2, <3>3
  <2>6. SharedLocked'  BY <1>1, <2>1 DEF SharedLocked
  <2> QED  BY <2>3, <2>4, <2>5, <2>6
<1>7. ASSUME NEW b \in Buffers, Destroy(b) PROVE Good
  <2>1. /\ UNCHANGED <<made, locking, owner, insync, raced, misuse>>
        /\ handle' = [handle EXCEPT ![b] = None] /\ shared' = shared \ {b}
        /\ \A t \in Workers : insync[t] # b
        /\ insync[Main] # b
    BY <1>7 DEF Destroy, Exchanges
  <2>2. \A c \in Buffers : c # b => handle'[c] = handle[c]  BY <1>2, <2>1
  <2>3. LocksType'  BY <1>1, <2>1 DEF LocksType
  <2>4. SharedHaveLocks'  BY <1>1, <1>2, <2>1, <2>2 DEF SharedHaveLocks
  <2>5. LockReturned'
    <3>1. SUFFICES ASSUME "exchanged in sync" \notin misuse,
                          NEW f \in Evbufs, NEW t \in Threads, owner[f] = t
                   PROVE  insync[t] # None /\ handle'[insync[t]] = f
      BY <2>1 DEF LockReturned
    <3>2. insync[t] # None /\ handle[insync[t]] = f  BY <1>1, <3>1 DEF LockReturned
    <3>3. insync[t] # b /\ insync[t] \in Buffers  BY <1>2, <2>1, <3>2 DEF Threads
    <3> QED  BY <2>2, <3>2, <3>3
  <2>6. SharedLocked'  BY <1>1, <2>1 DEF SharedLocked
  <2> QED  BY <2>3, <2>4, <2>5, <2>6
<1>8. ASSUME NEW b \in Buffers, NEW c \in Buffers, Move(b, c) PROVE Good
  <2>1. \A d \in Buffers \ {b, c} : handle'[d] = handle[d]  BY <1>2, <1>8 DEF Move
  <2>2. /\ \A d \in {b, c}, t \in Workers : insync[t] # d
        /\ NoteExchange({b, c}) /\ UNCHANGED <<locks, raced, made>>
    BY <1>8 DEF Move, Exchanges
  <2> QED  BY <2>1, <2>2, <1>4
<1>9. ASSUME NEW b \in Buffers, NEW c \in Buffers, NEW e \in Evbufs, Reset(b, c, e)
      PROVE  Good
  <2>1. \A d \in Buffers \ {b, c} : handle'[d] = handle[d]  BY <1>2, <1>9 DEF Reset
  <2>2. /\ \A d \in {b, c}, t \in Workers : insync[t] # d
        /\ NoteExchange({b, c}) /\ UNCHANGED <<locks, raced>> /\ made \subseteq made'
    BY <1>9 DEF Reset, Exchanges, Allocate
  <2> QED  BY <2>1, <2>2, <1>4
<1>10. ASSUME NEW b \in Buffers, NEW e \in Evbufs, Release(b, e) PROVE Good
  <2>1. \A d \in Buffers \ {b} : handle'[d] = handle[d]  BY <1>2, <1>10 DEF Release
  <2>2. /\ \A d \in {b}, t \in Workers : insync[t] # d
        /\ NoteExchange({b}) /\ UNCHANGED <<locks, raced>> /\ made \subseteq made'
    BY <1>10 DEF Release, Exchanges, Allocate
  <2> QED  BY <2>1, <2>2, <1>4
<1>11. ASSUME NEW b \in Buffers, NEW c \in Buffers, NEW e \in Evbufs, AppendMove(b, c, e)
       PROVE  Good
  <2>1. \A d \in Buffers \ {c} : handle'[d] = handle[d]  BY <1>2, <1>11 DEF AppendMove
  <2>2. /\ \A d \in {c}, t \in Workers : insync[t] # d
        /\ NoteExchange({c}) /\ UNCHANGED locks /\ made \subseteq made'
        /\ \E d : Uses(Main, d)
    BY <1>11 DEF AppendMove, Exchanges, Allocate, Calls
  <2> QED  BY <2>1, <2>2, <1>4
<1>12. ASSUME NEW t \in Threads, NEW b \in Buffers, Sync(t, b) PROVE Good
  <2>1. /\ Uses(t, {b}) /\ handle[b] # None /\ owner[handle[b]] \in {None, t}
        /\ UNCHANGED <<memory, locking, shared, misuse>> /\ insync[t] = None
        /\ insync' = [insync EXCEPT ![t] = b]
        /\ \/ owner' = owner
           \/ owner' = [owner EXCEPT ![handle[b]] = t]
    BY <1>12 DEF Sync, Calls, Uses
  <2>2. handle[b] \in Evbufs  BY <1>2, <2>1
  <2>3. LocksType'
    BY <1>1, <2>1, <2>2 DEF LocksType, memory
  <2>4. SharedHaveLocks' /\ SharedLocked'
    BY <1>1, <2>1, UsesLocked DEF SharedHaveLocks, memory
  <2>5. LockReturned'
    <3>1. SUFFICES ASSUME "exchanged in sync" \notin misuse,
                          NEW e \in Evbufs, NEW u \in Threads, owner'[e] = u
                   PROVE  insync'[u] # None /\ handle[insync'[u]] = e
      BY <2>1 DEF LockReturned, memory
    <3>2. owner[e] # t
      BY <1>1, <2>1, <3>1 DEF LockReturned
    <3>3. CASE u = t
      <4>1. e = handle[b]  BY <1>2, <2>1, <3>1, <3>2, <3>3
      <4>2. insync'[u] = b  BY <1>2, <2>1, <3>3
      <4> QED  BY <1>1, <4>1, <4>2
    <3>4. CASE u # t
      <4>1. owner[e] = u  BY <1>2, <2>1, <2>2, <3>1, <3>4
      <4>2. insync'[u] = insync[u]  BY <1>2, <2>1, <3>4
      <4> QED  BY <1>1, <3>1, <4>1, <4>2 DEF LockReturned
    <3> QED  BY <3>3, <3>4
  <2> QED  BY <2>3, <2>4, <2>5
<1>13. ASSUME NEW t \in Threads, EndSync(t) PROVE Good
  <2>1. /\ UNCHANGED <<memory, locking, shared, raced, misuse>> /\ insync[t] # None
        /\ insync' = [insync EXCEPT ![t] = None]
        /\ owner' = [owner EXCEPT ![handle[insync[t]]] = None]
    BY <1>13 DEF EndSync
  <2>2. LocksType'  BY <1>1, <2>1 DEF LocksType, memory
  <2>3. SharedHaveLocks' /\ SharedLocked'
    BY <1>1, <2>1 DEF SharedHaveLocks, SharedLocked, memory
  <2>4. LockReturned'
    <3>1. SUFFICES ASSUME "exchanged in sync" \notin misuse,
                          NEW e \in Evbufs, NEW u \in Threads, owner'[e] = u
                   PROVE  insync'[u] # None /\ handle[insync'[u]] = e
      BY <2>1 DEF LockReturned, memory
    <3>2. owner[e] = u /\ handle[insync[t]] # e
      BY <1>1, <1>2, <2>1, <3>1
    <3>3. insync[u] # None /\ handle[insync[u]] = e  BY <1>1, <3>1, <3>2 DEF LockReturned
    <3>4. u # t  BY <3>2, <3>3
    <3> QED  BY <1>2, <2>1, <3>3, <3>4
  <2> QED  BY <2>2, <2>3, <2>4
<1>14. ASSUME NEW t \in Threads, ThreadNext(t) \/ ReadNext(t),
              ~EndSync(t), \A b \in Buffers : ~Sync(t, b)
       PROVE  Good
  <2>1. CASE ThreadNext(t)
    <3>1. /\ UNCHANGED <<memory, locks>> /\ \E bs : Uses(t, bs)
      BY <2>1, <1>14 DEF ThreadNext, AddItem, AddBuffer, Discard, RemoveOut, RemoveTo,
                         StartRead, Calls
    <3>2. misuse \subseteq misuse' /\ misuse' \subseteq misuse \cup {"overlap"}
      BY <2>1, <1>14 DEF ThreadNext, AddItem, AddBuffer, Discard, RemoveOut, RemoveTo,
                         StartRead, NoteOverlap
    <3> QED  BY <3>1, <3>2, <1>3
  <2>2. CASE ReadNext(t)
    <3>1. /\ UNCHANGED <<memory, locks>>
          /\ UNCHANGED raced \/ \E bs : Uses(t, bs)
      BY <2>2 DEF ReadNext, Copyout, DrainRead, EndRead, data, locks
    <3>2. misuse \subseteq misuse' /\ misuse' \subseteq misuse \cup {"overlap"}
      BY <2>2 DEF ReadNext, Copyout, DrainRead, EndRead, NoteOverlap
    <3> QED  BY <3>1, <3>2, <1>3
  <2> QED  BY <1>14, <2>1, <2>2
<1> QED
  BY <1>5, <1>6, <1>7, <1>8, <1>9, <1>10, <1>11, <1>12, <1>13, <1>14 DEF MainNext

-----------------------------------------------------------------------------
(* Data.  A step adds an item, or splits the data of an evbuffer in what it *)
(* takes from the front and the rest, or leaves the data alone.             *)

Split(e, p, r) ==
  /\ p \in Seq(Items) /\ r \in Seq(Items)
  /\ IsInjective(content[e]) =>
       /\ IsInjective(p) /\ IsInjective(r)
       /\ ToSet(p) \cup ToSet(r) = ToSet(content[e]) /\ ToSet(p) \cap ToSet(r) = {}

LEMMA SplitFirst ==
  ASSUME TypeOK, NEW e \in Evbufs, NEW n \in Nat
  PROVE  Split(e, First(content[e], n), Without(content[e], n))
<1>1. content[e] \in Seq(Items)  BY DEF TypeOK
<1> QED  BY <1>1, FirstType, SplitData DEF Split

LEMMA SplitAll ==
  ASSUME TypeOK, NEW e \in Evbufs
  PROVE  Split(e, content[e], <<>>)
<1>1. content[e] \in Seq(Items) /\ <<>> \in Seq(Items)  BY EmptySeq DEF TypeOK
<1>2. ToSet(<<>>) = {} /\ IsInjective(<<>>)  BY DEF ToSet, IsInjective
<1> QED  BY <1>1, <1>2 DEF Split

\* Either way of adding data.
LEMMA JoinEither ==
  ASSUME NEW s \in Seq(Items), NEW t \in Seq(Items), NEW front \in BOOLEAN,
         NEW u, u = IF front THEN s \o t ELSE t \o s
  PROVE  /\ ToSet(u) = ToSet(s) \cup ToSet(t)
         /\ IsInjective(s) /\ IsInjective(t) /\ ToSet(s) \cap ToSet(t) = {} =>
              IsInjective(u)
<1>1. /\ ToSet(s \o t) = ToSet(s) \cup ToSet(t)
      /\ IsInjective(s) /\ IsInjective(t) /\ ToSet(s) \cap ToSet(t) = {} =>
           IsInjective(s \o t)
  BY JoinData
<1>2. /\ ToSet(t \o s) = ToSet(t) \cup ToSet(s)
      /\ IsInjective(s) /\ IsInjective(t) /\ ToSet(t) \cap ToSet(s) = {} =>
           IsInjective(t \o s)
  BY JoinData
<1>3. CASE front
  <2>1. u = s \o t  BY <1>3
  <2> QED  BY <2>1, <1>1
<1>4. CASE ~front
  <2>1. u = t \o s  BY <1>4
  <2>2. ToSet(t) \cup ToSet(s) = ToSet(s) \cup ToSet(t)  OBVIOUS
  <2>3. ToSet(t) \cap ToSet(s) = ToSet(s) \cap ToSet(t)  OBVIOUS
  <2> QED  BY <2>1, <2>2, <2>3, <1>2
<1> QED  BY <1>3, <1>4

LEMMA AddData ==
  ASSUME TypeOK, NEW e \in Evbufs, NEW s \in Seq(Items), NEW front \in BOOLEAN
  PROVE  /\ Add(e, s, front) \in [Evbufs -> Seq(Items)]
         /\ \A f \in Evbufs : f # e => Add(e, s, front)[f] = content[f]
         /\ ToSet(Add(e, s, front)[e]) = ToSet(s) \cup ToSet(content[e])
         /\ IsInjective(s) /\ IsInjective(content[e]) /\ ToSet(s) \cap ToSet(content[e]) = {} =>
              IsInjective(Add(e, s, front)[e])
<1> DEFINE t == content[e]
           u == Add(e, s, front)[e]
<1>1. t \in Seq(Items)  BY DEF TypeOK
<1>2. u = IF front THEN s \o t ELSE t \o s  BY AddType
<1> HIDE DEF t, u
<1>3. /\ ToSet(u) = ToSet(s) \cup ToSet(t)
      /\ IsInjective(s) /\ IsInjective(t) /\ ToSet(s) \cap ToSet(t) = {} =>
           IsInjective(u)
  BY <1>1, <1>2, JoinEither
<1> QED  BY <1>3, AddType DEF t, u

LEMMA Counts ==
  ASSUME TypeOK, NEW i \in Items, Once(i)
  PROVE  /\ Within(i) => taken[i] = 0 /\ i \notin gone /\ i \in sent
         /\ i \notin sent => taken[i] = 0 /\ i \notin gone /\ ~Within(i)
<1>1. taken[i] \in 0 .. 2  BY DEF TypeOK
<1>2. CASE Within(i)  BY <1>1, <1>2 DEF Once
<1>3. CASE ~Within(i)  BY <1>1, <1>3 DEF Once
<1> QED  BY <1>2, <1>3

LEMMA SameSpread ==
  ASSUME Spread, UNCHANGED data PROVE Spread'
BY DEF Spread, data, Once, Within

\* Item i is added to e.
LEMMA FillSpread ==
  ASSUME TypeOK, Spread, NEW e \in Evbufs, NEW i \in Items, i \notin sent,
         NEW front \in BOOLEAN, content' = Add(e, <<i>>, front), sent' = sent \cup {i},
         UNCHANGED <<taken, gone>>
  PROVE  Spread'
<1> DEFINE s == <<i>>
<1>1. /\ s \in Seq(Items) /\ ToSet(s) = {i} /\ IsInjective(s)
  <2>1. s \in Seq(Items)  OBVIOUS
  <2>2. ToSet(s) = {i} /\ IsInjective(s)  BY DEF ToSet, IsInjective
  <2> QED  BY <2>1, <2>2
<1> HIDE DEF s
<1>2. content' = Add(e, s, front)  BY DEF s
<1>3. /\ content' \in [Evbufs -> Seq(Items)]
      /\ \A f \in Evbufs : f # e => content'[f] = content[f]
      /\ ToSet(content'[e]) = ToSet(s) \cup ToSet(content[e])
      /\ IsInjective(s) /\ IsInjective(content[e]) /\ ToSet(s) \cap ToSet(content[e]) = {} =>
           IsInjective(content'[e])
  <2> DEFINE new == Add(e, s, front)
  <2>1. /\ new \in [Evbufs -> Seq(Items)]
        /\ \A f \in Evbufs : f # e => new[f] = content[f]
        /\ ToSet(new[e]) = ToSet(s) \cup ToSet(content[e])
        /\ IsInjective(s) /\ IsInjective(content[e]) /\ ToSet(s) \cap ToSet(content[e]) = {} =>
             IsInjective(new[e])
    BY <1>1, AddData
  <2>2. content' = new  BY <1>2
  <2> HIDE DEF new
  <2> QED  BY <2>1, <2>2
<1>4. ~Within(i)  BY Counts DEF Spread
<1>5. ToSet(content'[e]) = ToSet(content[e]) \cup {i}  BY <1>1, <1>3
<1>6. IsInjective(content'[e])
  <2>1. i \notin ToSet(content[e])  BY <1>4 DEF Within
  <2> QED  BY <2>1, <1>1, <1>3 DEF Spread
<1>7. \A f \in Evbufs \ {e} : ToSet(content'[f]) = ToSet(content[f]) /\ IsInjective(content'[f])
  BY <1>3 DEF Spread
<1>8. \A f \in Evbufs \ {e} : ToSet(content'[f]) \cap ToSet(content'[e]) = {}
  BY <1>4, <1>5, <1>7 DEF Spread, Within
<1>9. ASSUME NEW j \in Items PROVE Once(j)'
  <2>1. CASE j = i
    <3>1. Within(j)'  BY <2>1, <1>5 DEF Within
    <3>2. taken[i] = 0 /\ i \notin gone  BY Counts DEF Spread
    <3> QED  BY <2>1, <3>1, <3>2 DEF Once
  <2>2. CASE j # i
    <3>1. Within(j)' <=> Within(j)  BY <2>2, <1>5, <1>7 DEF Within
    <3>2. Once(j)  BY DEF Spread
    <3> QED  BY <2>2, <3>1, <3>2 DEF Once
  <2> QED  BY <2>1, <2>2
<1>10. \A f, g \in Evbufs : f # g => ToSet(content'[f]) \cap ToSet(content'[g]) = {}
  BY <1>7, <1>8 DEF Spread
<1> QED  BY <1>6, <1>7, <1>9, <1>10 DEF Spread

\* The front of e goes to another one.
LEMMA ShiftSpread ==
  ASSUME TypeOK, Spread, NEW e \in Evbufs, NEW f \in Evbufs, e # f, NEW p, NEW r,
         Split(e, p, r), NEW front \in BOOLEAN,
         content' = [Add(f, p, front) EXCEPT ![e] = r], UNCHANGED <<sent, taken, gone>>
  PROVE  Spread'
<1>1. /\ content[f] \in Seq(Items) /\ content[e] \in Seq(Items)
      /\ p \in Seq(Items) /\ r \in Seq(Items)
  BY DEF TypeOK, Split
<1>2. /\ Add(f, p, front) \in [Evbufs -> Seq(Items)]
      /\ \A g \in Evbufs : g # f => Add(f, p, front)[g] = content[g]
      /\ ToSet(Add(f, p, front)[f]) = ToSet(p) \cup ToSet(content[f])
      /\ IsInjective(p) /\ IsInjective(content[f]) /\ ToSet(p) \cap ToSet(content[f]) = {} =>
           IsInjective(Add(f, p, front)[f])
  BY <1>1, AddData
<1>3. /\ content'[f] = Add(f, p, front)[f] /\ content'[e] = r
      /\ \A g \in Evbufs \ {e, f} : content'[g] = content[g]
  BY <1>2
<1>4. /\ IsInjective(p) /\ IsInjective(r) /\ IsInjective(content[f])
      /\ ToSet(p) \cup ToSet(r) = ToSet(content[e]) /\ ToSet(p) \cap ToSet(r) = {}
      /\ ToSet(content[e]) \cap ToSet(content[f]) = {}
  BY DEF Spread, Split
<1>5. ToSet(p) \cap ToSet(content[f]) = {}  BY <1>4
<1>6. ToSet(content'[f]) = ToSet(content[f]) \cup ToSet(p) /\ IsInjective(content'[f])
  BY <1>2, <1>3, <1>4, <1>5
<1>7. ToSet(content'[e]) = ToSet(content[e]) \ ToSet(p) /\ IsInjective(content'[e])
  BY <1>3, <1>4
<1>8. ToSet(p) \subseteq ToSet(content[e])  BY <1>4
<1>9. \A g \in Evbufs \ {e, f} :
        ToSet(content'[g]) = ToSet(content[g]) /\ IsInjective(content'[g])
  BY <1>3 DEF Spread
<1>10. \A g, h \in Evbufs : g # h => ToSet(content'[g]) \cap ToSet(content'[h]) = {}
  <2>1. \A g, h \in Evbufs : g # h => ToSet(content[g]) \cap ToSet(content[h]) = {}
    BY DEF Spread
  <2>2. SUFFICES ASSUME NEW g \in Evbufs, NEW h \in Evbufs, g # h,
                        NEW x \in ToSet(content'[g]), x \in ToSet(content'[h])
                 PROVE  FALSE
    OBVIOUS
  <2>3. \A k \in Evbufs : x \in ToSet(content'[k]) =>
          x \in ToSet(content[k]) \/ (k = f /\ x \in ToSet(p))
    BY <1>6, <1>7, <1>9
  <2>4. x \in ToSet(p) => x \notin ToSet(content'[e])  BY <1>7
  <2>5. \A k \in Evbufs : x \in ToSet(p) /\ k # e => x \notin ToSet(content[k])
    BY <1>8, <2>1
  <2> QED  BY <2>1, <2>2, <2>3, <2>4, <2>5
<1>11. \A i \in Items : Within(i)' <=> Within(i)
  BY <1>6, <1>7, <1>8, <1>9 DEF Within
<1>12. \A i \in Items : Once(i)'
  <2>1. SUFFICES ASSUME NEW i \in Items PROVE Once(i)'  OBVIOUS
  <2>2. Once(i)  BY DEF Spread
  <2>3. Within(i)' <=> Within(i)  BY <1>11
  <2> QED  BY <2>2, <2>3 DEF Once
<1>13. \A g \in Evbufs : IsInjective(content'[g])  BY <1>6, <1>7, <1>9
<1> QED  BY <1>10, <1>12, <1>13 DEF Spread

\* The front of e goes to the program or nowhere.
LEMMA LeaveSpread ==
  ASSUME TypeOK, Spread, NEW e \in Evbufs, NEW p, NEW r, Split(e, p, r),
         content' = [content EXCEPT ![e] = r], UNCHANGED sent,
         \/ gone' = gone \cup ToSet(p) /\ UNCHANGED taken
         \/ Take(p) /\ UNCHANGED gone
  PROVE  Spread'
<1>1. /\ IsInjective(r) /\ content \in [Evbufs -> Seq(Items)]
      /\ ToSet(p) \cup ToSet(r) = ToSet(content[e]) /\ ToSet(p) \cap ToSet(r) = {}
  BY DEF Spread, Split, TypeOK
<1>2. content'[e] = r /\ \A g \in Evbufs \ {e} : content'[g] = content[g]
  BY <1>1
<1>3. \A g \in Evbufs : ToSet(content'[g]) \subseteq ToSet(content[g])
  BY <1>1, <1>2
<1>4. \A g \in Evbufs : IsInjective(content'[g])  BY <1>1, <1>2 DEF Spread
<1>5. \A g, h \in Evbufs : g # h => ToSet(content'[g]) \cap ToSet(content'[h]) = {}
  BY <1>3 DEF Spread
<1>6. ASSUME NEW i \in Items PROVE Once(i)'
  <2>1. Once(i) /\ taken[i] \in 0 .. 2  BY DEF Spread, TypeOK
  <2>2. CASE i \in ToSet(p)
    <3>1. Within(i)  BY <2>2, <1>1 DEF Within
    <3>2. taken[i] = 0 /\ i \notin gone /\ i \in sent  BY <3>1, <2>1, Counts
    <3>3. ~Within(i)'
      BY <2>2, <1>1, <1>2 DEF Within, Spread
    <3>4. \/ taken'[i] = 0 /\ i \in gone'
          \/ taken'[i] = 1 /\ i \notin gone'
      BY <2>2, <3>2 DEF Take
    <3>5. i \in sent'  BY <3>2
    <3> QED  BY <3>3, <3>4, <3>5 DEF Once
  <2>3. CASE i \notin ToSet(p)
    <3>1. Within(i)' <=> Within(i)  BY <2>3, <1>1, <1>2 DEF Within
    <3>2. taken'[i] = taken[i] /\ (i \in gone' <=> i \in gone)
      BY <2>3 DEF Take
    <3> QED  BY <2>1, <3>1, <3>2 DEF Once
  <2> QED  BY <2>2, <2>3
<1> QED  BY <1>4, <1>5, <1>6 DEF Spread

-----------------------------------------------------------------------------
(* Reads.                                                                   *)

\* A read goes on as it was where its evbuffer has at most more data at its end.
LEMMA ReadingKept ==
  ASSUME TypeOK, NEW t \in Threads, Reading(t), call'[t] = call[t],
         call[t].at # "idle" =>
           /\ handle'[call[t].b] = handle[call[t].b]
           /\ \/ content'[handle[call[t].b]] = content[handle[call[t].b]]
              \/ \E s \in Seq(Items) :
                   content'[handle[call[t].b]] = content[handle[call[t].b]] \o s
  PROVE  Reading(t)'
<1>1. SUFFICES ASSUME call[t].at # "idle" PROVE Reading(t)'  BY DEF Reading
<1> DEFINE n == call[t].n
           e == handle[call[t].b]
<1>2. /\ n \in Nat /\ e # None /\ n <= Len(content[e]) /\ e \in Evbufs
      /\ call[t].at = "copied" => call[t].text = First(content[e], n)
  BY <1>1, CallType DEF Reading, TypeOK
<1>3. content[e] \in Seq(Items)  BY <1>2 DEF TypeOK
<1>4. handle'[call[t].b] = e  BY <1>1
<1>5. content'[e] = content[e] \/ \E s \in Seq(Items) : content'[e] = content[e] \o s
  BY <1>1
<1>6. n <= Len(content'[e]) /\ First(content'[e], n) = First(content[e], n)
  BY <1>2, <1>3, <1>5, FrontStays
<1> HIDE DEF n, e
<1> QED  BY <1>2, <1>4, <1>6 DEF Reading, n, e

\* Thread t takes from the evbuffers E, or adds to their front.
LEMMA ReadsKept ==
  ASSUME TypeOK, \A u \in Threads : Reading(u), NEW t \in Threads,
         call'[t].at = "idle", \A u \in Threads \ {t} : call'[u] = call[u],
         UNCHANGED handle, NEW E, \A e \in E : ~Overlaps(t, e),
         \A e \in Evbufs \ E :
           content'[e] = content[e] \/ \E s \in Seq(Items) : content'[e] = content[e] \o s
  PROVE  \A u \in Threads : Reading(u)'
<1>1. SUFFICES ASSUME NEW u \in Threads PROVE Reading(u)'  OBVIOUS
<1>2. CASE u = t  BY <1>2 DEF Reading
<1>3. CASE u # t
  <2>1. ASSUME call[u].at # "idle"
        PROVE  handle[call[u].b] \in Evbufs /\ handle[call[u].b] \notin E
    <3>1. call[u].b \in Buffers  BY <2>1, CallType
    <3>2. handle[call[u].b] # None  BY <2>1 DEF Reading
    <3>3. \A b \in Buffers : handle[b] # None => handle[b] \in Evbufs  BY DEF TypeOK
    <3>4. handle[call[u].b] \in Evbufs  BY <3>1, <3>2, <3>3
    <3> QED  BY <1>3, <2>1, <3>4 DEF Overlaps
  <2> QED  BY <1>3, <2>1, ReadingKept
<1> QED  BY <1>2, <1>3

\* Main changes the handles of bs, and what is in their evbuffers, between reads.
LEMMA ReadsKeptMain ==
  ASSUME TypeOK, Owned, \A u \in Threads : Reading(u), NEW bs \in SUBSET Buffers,
         \A b \in bs : Exchanges(b), UNCHANGED call,
         \A b \in Buffers \ bs : handle'[b] = handle[b],
         \A e \in Evbufs : (\A b \in bs : handle[b] # e) =>
           content'[e] = content[e] \/ \E s \in Seq(Items) : content'[e] = content[e] \o s
  PROVE  \A u \in Threads : Reading(u)'
<1>1. SUFFICES ASSUME NEW u \in Threads PROVE Reading(u)'  OBVIOUS
<1>2. ASSUME call[u].at # "idle"
      PROVE  /\ call[u].b \in Buffers \ bs /\ handle[call[u].b] \in Evbufs
             /\ \A b \in bs : handle[b] # handle[call[u].b]
  <2>1. call[u].b \in Buffers /\ handle[call[u].b] # None
    BY <1>2, CallType DEF Reading
  <2>2. \A b \in bs : call[u].b # b
    BY <1>2 DEF Exchanges, Threads
  <2> QED  BY <2>1, <2>2 DEF Owned, TypeOK
<1> QED  BY <1>2, ReadingKept

-----------------------------------------------------------------------------
(* The steps that add data and take it.                                     *)

LEMMA ShiftType ==
  ASSUME TypeOK, NEW e \in Evbufs, NEW f \in Evbufs, e # f, NEW p, NEW r, Split(e, p, r),
         NEW front \in BOOLEAN, content' = [Add(f, p, front) EXCEPT ![e] = r]
  PROVE  /\ content' \in [Evbufs -> Seq(Items)]
         /\ content'[f] = IF front THEN p \o content[f] ELSE content[f] \o p
         /\ \A g \in Evbufs \ {e, f} : content'[g] = content[g]
<1>1. p \in Seq(Items) /\ r \in Seq(Items)  BY DEF Split
<1> DEFINE new == Add(f, p, front)
<1>2. /\ new \in [Evbufs -> Seq(Items)]
      /\ new[f] = IF front THEN p \o content[f] ELSE content[f] \o p
      /\ \A g \in Evbufs : g # f => new[g] = content[g]
  BY <1>1, AddType
<1>3. content' = [new EXCEPT ![e] = r]  OBVIOUS
<1> HIDE DEF new
<1> QED  BY <1>1, <1>2, <1>3

LEMMA LeaveType ==
  ASSUME TypeOK, NEW e \in Evbufs, NEW p, NEW r, Split(e, p, r),
         content' = [content EXCEPT ![e] = r]
  PROVE  /\ content' \in [Evbufs -> Seq(Items)] /\ ToSet(p) \subseteq Items
         /\ \A g \in Evbufs \ {e} : content'[g] = content[g]
<1>1. p \in Seq(Items) /\ r \in Seq(Items)  BY DEF Split
<1> QED  BY <1>1, DataType DEF TypeOK

\* What Thread t uses it has; and what a step does to the reads of others it notes.
LEMMA Have ==
  ASSUME TypeOK, NEW t \in Threads, NEW b \in Buffers, NEW bs, b \in bs, Calls(t, bs)
  PROVE  handle[b] \in Evbufs /\ call[t].at = "idle"
BY DEF Calls, Uses, TypeOK

LEMMA AddItemStep ==
  ASSUME Inv, NEW t \in Threads, NEW b \in Buffers, NEW i \in Items,
         NEW front \in BOOLEAN, AddItem(t, b, i, front)
  PROVE  ContentType' /\ CallsType' /\ Undisturbed'
<1> DEFINE e == handle[b]
           s == <<i>>
<1>1. /\ TypeOK /\ i \notin sent /\ sent' = sent \cup {i} /\ content' = Add(e, s, front)
      /\ UNCHANGED <<handle, call, taken, gone>> /\ e \in Evbufs /\ call[t].at = "idle"
      /\ IF front THEN NoteOverlap(t, e) ELSE UNCHANGED misuse
  BY Have DEF Inv, AddItem, memory
<1>2. s \in Seq(Items)  OBVIOUS
<1>3. /\ content' \in [Evbufs -> Seq(Items)]
      /\ content'[e] = IF front THEN s \o content[e] ELSE content[e] \o s
      /\ \A f \in Evbufs : f # e => content'[f] = content[f]
  <2> DEFINE new == Add(e, s, front)
  <2> HIDE DEF s
  <2>1. /\ new \in [Evbufs -> Seq(Items)]
        /\ new[e] = IF front THEN s \o content[e] ELSE content[e] \o s
        /\ \A f \in Evbufs : f # e => new[f] = content[f]
    BY <1>1, <1>2, AddType
  <2>2. content' = new  BY <1>1
  <2> HIDE DEF new
  <2> QED  BY <2>1, <2>2
<1>4. ContentType' /\ CallsType'
  BY <1>1, <1>3 DEF ContentType, CallsType, TypeOK
<1>5. ASSUME "overlap" \notin misuse' PROVE Spread' /\ \A u \in Threads : Reading(u)'
  <2>1. "overlap" \notin misuse /\ (front => ~Overlaps(t, e))
    BY <1>1, <1>5 DEF NoteOverlap
  <2>2. Spread /\ \A u \in Threads : Reading(u)  BY <2>1 DEF Inv, Undisturbed
  <2>3. Spread'  BY <1>1, <2>2, FillSpread
  <2> DEFINE E == IF front THEN {e} ELSE {}
  <2>4. \A f \in E : ~Overlaps(t, f)  BY <2>1
  <2>5. \A f \in Evbufs \ E :
          content'[f] = content[f] \/ \E x \in Seq(Items) : content'[f] = content[f] \o x
    BY <1>2, <1>3
  <2> HIDE DEF E
  <2>6. \A u \in Threads : Reading(u)'  BY <1>1, <2>2, <2>4, <2>5, ReadsKept
  <2> QED  BY <2>3, <2>6
<1> QED  BY <1>4, <1>5 DEF Undisturbed

LEMMA ShiftStep ==
  ASSUME Inv, NEW t \in Threads, NEW e \in Evbufs, NEW f \in Evbufs, e # f, NEW p, NEW r,
         Split(e, p, r), NEW front \in BOOLEAN, call[t].at = "idle",
         content' = [Add(f, p, front) EXCEPT ![e] = r],
         UNCHANGED <<handle, call, sent, taken, gone>>, misuse \subseteq misuse',
         Overlaps(t, e) \/ (front /\ Overlaps(t, f)) => "overlap" \in misuse'
  PROVE  ContentType' /\ CallsType' /\ Undisturbed'
<1>1. /\ content' \in [Evbufs -> Seq(Items)]
      /\ content'[f] = IF front THEN p \o content[f] ELSE content[f] \o p
      /\ \A g \in Evbufs \ {e, f} : content'[g] = content[g]
      /\ TypeOK /\ p \in Seq(Items)
  BY ShiftType DEF Inv, Split
<1>2. ContentType' /\ CallsType'  BY <1>1 DEF ContentType, CallsType, TypeOK
<1>3. ASSUME "overlap" \notin misuse' PROVE Spread' /\ \A u \in Threads : Reading(u)'
  <2>1. "overlap" \notin misuse /\ ~Overlaps(t, e) /\ (front => ~Overlaps(t, f))
    BY <1>3
  <2>2. Spread /\ \A u \in Threads : Reading(u)  BY <2>1 DEF Inv, Undisturbed
  <2>3. Spread'  BY <1>1, <2>2, ShiftSpread
  <2> DEFINE E == IF front THEN {e, f} ELSE {e}
  <2>4. \A g \in E : ~Overlaps(t, g)  BY <2>1
  <2>5. \A g \in Evbufs \ E :
          content'[g] = content[g] \/ \E x \in Seq(Items) : content'[g] = content[g] \o x
    BY <1>1
  <2> HIDE DEF E
  <2>6. \A u \in Threads : Reading(u)'  BY <1>1, <2>2, <2>4, <2>5, ReadsKept
  <2> QED  BY <2>3, <2>6
<1> QED  BY <1>2, <1>3 DEF Undisturbed

LEMMA LeaveStep ==
  ASSUME Inv, NEW t \in Threads, NEW e \in Evbufs, NEW p, NEW r, Split(e, p, r),
         content' = [content EXCEPT ![e] = r], UNCHANGED <<handle, sent>>, NoteOverlap(t, e),
         \/ gone' = gone \cup ToSet(p) /\ UNCHANGED taken
         \/ Take(p) /\ UNCHANGED gone,
         \/ call' = call /\ call[t].at = "idle"
         \/ call' = [call EXCEPT ![t] = Idle]
  PROVE  ContentType' /\ CallsType' /\ Undisturbed'
<1>1. /\ content' \in [Evbufs -> Seq(Items)] /\ ToSet(p) \subseteq Items
      /\ \A g \in Evbufs \ {e} : content'[g] = content[g]
      /\ TypeOK /\ call \in [Threads -> {Idle} \cup [at : {"sized", "copied"}, b : Buffers,
                                                     n : Nat, text : Seq(Items)]]
  BY LeaveType DEF Inv, TypeOK
<1>2. CallsType'
  BY <1>1 DEF CallsType
<1>3. taken' \in [Items -> 0 .. 2]  BY <1>1, TakeType DEF TypeOK
<1>4. ContentType'  BY <1>1, <1>3 DEF ContentType, TypeOK
<1>5. call'[t].at = "idle" /\ \A u \in Threads \ {t} : call'[u] = call[u]
  BY <1>1 DEF Idle
<1>6. ASSUME "overlap" \notin misuse' PROVE Spread' /\ \A u \in Threads : Reading(u)'
  <2>1. "overlap" \notin misuse /\ ~Overlaps(t, e)  BY <1>6 DEF NoteOverlap
  <2>2. Spread /\ \A u \in Threads : Reading(u)  BY <2>1 DEF Inv, Undisturbed
  <2>3. Spread'  BY <1>1, <2>2, LeaveSpread
  <2>4. \A g \in {e} : ~Overlaps(t, g)  BY <2>1
  <2>5. \A g \in Evbufs \ {e} :
          content'[g] = content[g] \/ \E x \in Seq(Items) : content'[g] = content[g] \o x
    BY <1>1
  <2> DEFINE E == {e}
  <2> HIDE DEF E
  <2>6. /\ \A g \in E : ~Overlaps(t, g)
        /\ \A g \in Evbufs \ E :
             content'[g] = content[g] \/ \E x \in Seq(Items) : content'[g] = content[g] \o x
    BY <2>4, <2>5 DEF E
  <2>7. \A u \in Threads : Reading(u)'  BY <1>1, <1>5, <2>2, <2>6, ReadsKept
  <2> QED  BY <2>3, <2>7
<1> QED  BY <1>2, <1>4, <1>6 DEF Undisturbed

\* Two objects have two evbuffers.
LEMMA Apart ==
  ASSUME Owned, NEW b \in Buffers, NEW c \in Buffers, b # c, handle[b] # None
  PROVE  handle[b] # handle[c]
BY DEF Owned

LEMMA TakingSteps ==
  ASSUME Inv, NEW t \in Threads, NEW b \in Buffers, NEW n \in Nat,
         Discard(t, b, n) \/ RemoveOut(t, b, n)
  PROVE  ContentType' /\ CallsType' /\ Undisturbed'
<1> DEFINE e == handle[b]
           p == First(content[e], n)
           r == Without(content[e], n)
<1>1. /\ e \in Evbufs /\ call[t].at = "idle" /\ TypeOK
      /\ UNCHANGED <<handle, call, sent>> /\ NoteOverlap(t, e)
  BY Have DEF Inv, Discard, RemoveOut, memory
<1>2. content' = [content EXCEPT ![e] = r]
  BY <1>1 DEF Discard, RemoveOut
<1>3. \/ gone' = gone \cup ToSet(p) /\ UNCHANGED taken
      \/ Take(p) /\ UNCHANGED gone
  BY DEF Discard, RemoveOut
<1>4. Split(e, p, r)  BY <1>1, SplitFirst
<1> HIDE DEF e, p, r
<1> QED  BY <1>1, <1>2, <1>3, <1>4, LeaveStep

LEMMA MovingSteps ==
  ASSUME Inv, NEW t \in Threads, NEW b \in Buffers, NEW c \in Buffers,
         \/ \E front \in BOOLEAN : AddBuffer(t, b, c, front)
         \/ \E n \in Nat : RemoveTo(t, b, c, n)
  PROVE  ContentType' /\ CallsType' /\ Undisturbed'
<1>1. ASSUME NEW front \in BOOLEAN, AddBuffer(t, b, c, front)
      PROVE  ContentType' /\ CallsType' /\ Undisturbed'
  <2> DEFINE e == handle[c]
             f == handle[b]
             p == content[e]
             r == <<>>
  <2>1. /\ e \in Evbufs /\ f \in Evbufs /\ call[t].at = "idle" /\ b # c /\ TypeOK /\ Owned
        /\ UNCHANGED <<handle, call, sent, taken, gone>>
    BY <1>1, Have DEF Inv, AddBuffer, memory
  <2>2. e # f  BY <2>1, Apart, NoneAssumption
  <2>3. Split(e, p, r)  BY <2>1, SplitAll
  <2>4. content' = [Add(f, p, front) EXCEPT ![e] = r]  BY <1>1 DEF AddBuffer
  <2>5. /\ misuse \subseteq misuse'
        /\ Overlaps(t, e) \/ (front /\ Overlaps(t, f)) => "overlap" \in misuse'
    BY <1>1 DEF AddBuffer
  <2> HIDE DEF e, f, p, r
  <2> QED  BY <2>1, <2>2, <2>3, <2>4, <2>5, ShiftStep
<1>2. ASSUME NEW n \in Nat, RemoveTo(t, b, c, n)
      PROVE  ContentType' /\ CallsType' /\ Undisturbed'
  <2> DEFINE e == handle[b]
             f == handle[c]
             p == First(content[e], n)
             r == Without(content[e], n)
  <2>1. /\ e \in Evbufs /\ f \in Evbufs /\ call[t].at = "idle" /\ b # c /\ TypeOK /\ Owned
        /\ UNCHANGED <<handle, call, sent, taken, gone>> /\ NoteOverlap(t, e)
    BY <1>2, Have DEF Inv, RemoveTo, memory
  <2>2. e # f  BY <2>1, Apart, NoneAssumption
  <2>3. Split(e, p, r)  BY <2>1, SplitFirst
  <2>4. content' = [Add(f, p, FALSE) EXCEPT ![e] = r]
    <3> DEFINE new == Add(f, p, FALSE)
    <3>1. new \in [Evbufs -> Seq(Items)] /\ new[e] = content[e]
      <4>1. p \in Seq(Items)  BY <2>3 DEF Split
      <4> HIDE DEF e, f, p, r
      <4> QED  BY <2>1, <2>2, <4>1, AddType
    <3>2. content' = [new EXCEPT ![e] = Without(new[e], n)]
      BY <1>2 DEF RemoveTo
    <3> QED  BY <3>1, <3>2
  <2>5. /\ misuse \subseteq misuse'
        /\ Overlaps(t, e) \/ (FALSE /\ Overlaps(t, f)) => "overlap" \in misuse'
    BY <2>1 DEF NoteOverlap
  <2>6. FALSE \in BOOLEAN  OBVIOUS
  <2> HIDE DEF e, f, p, r
  <2> QED  BY <2>1, <2>2, <2>3, <2>4, <2>5, <2>6, ShiftStep
<1> QED  BY <1>1, <1>2

\* What a read drains is what it copied, unless it was disturbed.
LEMMA DrainStep ==
  ASSUME Inv, NEW t \in Threads, DrainRead(t)
  PROVE  ContentType' /\ CallsType' /\ Undisturbed'
<1> DEFINE c == call[t]
           e == handle[c.b]
           r == Without(content[e], c.n)
<1>1. /\ TypeOK /\ c.at = "copied" /\ Take(c.text) /\ content' = [content EXCEPT ![e] = r]
      /\ call' = [call EXCEPT ![t] = Idle] /\ NoteOverlap(t, e)
      /\ UNCHANGED <<handle, sent, gone>> /\ e # None
  BY DEF DrainRead, Uses, Inv, memory
<1>2. c.b \in Buffers /\ c.n \in Nat /\ c.text \in Seq(Items)  BY <1>1, CallType
<1>3. e \in Evbufs  BY <1>1, <1>2 DEF TypeOK
<1>4. content[e] \in Seq(Items) /\ r \in Seq(Items)
  <2>1. content[e] \in Seq(Items)  BY <1>1, <1>3 DEF TypeOK
  <2> QED  BY <2>1, <1>2, FirstType
<1>5. ContentType' /\ CallsType'
  <2>1. taken' \in [Items -> 0 .. 2]  BY <1>1, TakeType
  <2>2. content' \in [Evbufs -> Seq(Items)]  BY <1>1, <1>4 DEF TypeOK
  <2> QED  BY <1>1, <2>1, <2>2 DEF ContentType, CallsType, TypeOK
<1>6. CASE "overlap" \in misuse  BY <1>1, <1>5, <1>6 DEF NoteOverlap, Undisturbed
<1>7. CASE "overlap" \notin misuse
  <2>1. c.text = First(content[e], c.n)
    BY <1>1, <1>7 DEF Inv, Undisturbed, Reading
  <2>2. Split(e, c.text, r)  BY <1>1, <1>2, <1>3, <2>1, SplitFirst
  <2> DEFINE p == c.text
  <2>3. Take(p) /\ Split(e, p, r)  BY <1>1, <2>2
  <2> HIDE DEF c, e, r, p
  <2> QED  BY <1>1, <1>3, <2>3, LeaveStep
<1> QED  BY <1>5, <1>6, <1>7

\* The steps that leave the data alone.
LEMMA QuietSteps ==
  ASSUME Inv, NEW t \in Threads, UNCHANGED <<handle, data>>, misuse' = misuse,
         \/ call' = call
         \/ \E b \in Buffers, max \in Nat : StartRead(t, b, max)
         \/ Copyout(t) \/ EndRead(t)
  PROVE  ContentType' /\ CallsType' /\ Undisturbed'
<1>1. TypeOK /\ UNCHANGED <<content, sent, gone, taken>>  BY DEF Inv, data
<1>2. ContentType'  BY <1>1 DEF ContentType, TypeOK
<1>3. ASSUME CallsType', \A u \in Threads \ {t} : call'[u] = call[u],
             "overlap" \notin misuse /\ Reading(t) => Reading(t)'
      PROVE  ContentType' /\ CallsType' /\ Undisturbed'
  <2>1. ASSUME "overlap" \notin misuse' PROVE Spread' /\ \A u \in Threads : Reading(u)'
    <3>1. Spread /\ \A u \in Threads : Reading(u)  BY <2>1 DEF Inv, Undisturbed
    <3>2. Spread'  BY <3>1, SameSpread
    <3>3. ASSUME NEW u \in Threads \ {t} PROVE Reading(u)'
      BY <1>1, <1>3, <3>1, ReadingKept
    <3> QED  BY <1>3, <2>1, <3>1, <3>2, <3>3
  <2> QED  BY <1>2, <1>3, <2>1 DEF Undisturbed
<1>4. CASE call' = call
  <2>1. CallsType' /\ \A u \in Threads \ {t} : call'[u] = call[u]
    BY <1>1, <1>4 DEF CallsType, TypeOK
  <2>2. Reading(t) => Reading(t)'  BY <1>1, <1>4, ReadingKept
  <2> QED  BY <1>3, <2>1, <2>2
<1>5. ASSUME NEW b \in Buffers, NEW max \in Nat, StartRead(t, b, max)
      PROVE  ContentType' /\ CallsType' /\ Undisturbed'
  <2> DEFINE e == handle[b]
             n == Len(First(content[e], max))
             c == [at |-> "sized", b |-> b, n |-> n, text |-> <<>>]
  <2>1. call' = [call EXCEPT ![t] = c] /\ e \in Evbufs
    BY <1>1, <1>5, Have DEF StartRead
  <2>2. content[e] \in Seq(Items)  BY <1>1, <2>1 DEF TypeOK
  <2>3. n \in Nat /\ n <= Len(content[e])
    <3>1. n = IF max < Len(content[e]) THEN max ELSE Len(content[e])
      BY <2>2, FirstType
    <3>2. Len(content[e]) \in Nat  BY <2>2
    <3> QED  BY <3>1, <3>2
  <2> HIDE DEF n
  <2>4. c \in [at : {"sized", "copied"}, b : Buffers, n : Nat, text : Seq(Items)]
    BY <2>3, EmptySeq
  <2>5. c.at = "sized" /\ c.b = b /\ c.n = n  OBVIOUS
  <2> HIDE DEF c
  <2>6. call'[t] = c /\ \A u \in Threads \ {t} : call'[u] = call[u]
    BY <1>1, <2>1 DEF TypeOK
  <2>7. CallsType'  BY <1>1, <2>1, <2>4 DEF CallsType, TypeOK
  <2>8. Reading(t)'
    BY <1>1, <2>1, <2>3, <2>5, <2>6, NoneAssumption DEF Reading
  <2> QED  BY <1>3, <2>6, <2>7, <2>8
<1>6. CASE Copyout(t)
  <2> DEFINE old == call[t]
             e == handle[old.b]
             s == First(content[e], old.n)
             c == [old EXCEPT !.at = "copied", !.text = s]
  <2>1. call' = [call EXCEPT ![t] = c] /\ old.at = "sized" /\ e # None
    BY <1>6 DEF Copyout, Uses
  <2>2. old.b \in Buffers /\ old.n \in Nat  BY <1>1, <2>1, CallType
  <2>3. old \in [at : {"sized", "copied"}, b : Buffers, n : Nat, text : Seq(Items)]
    <3>1. old \in {Idle} \cup [at : {"sized", "copied"}, b : Buffers,
                               n : Nat, text : Seq(Items)]
      BY <1>1 DEF TypeOK
    <3>2. old # Idle  BY <2>1 DEF Idle
    <3> QED  BY <3>1, <3>2
  <2>4. e \in Evbufs  BY <1>1, <2>1, <2>2 DEF TypeOK
  <2>5. content[e] \in Seq(Items)  BY <1>1, <2>4 DEF TypeOK
  <2>6. s \in Seq(Items)  BY <2>2, <2>5, FirstType
  <2> HIDE DEF s
  <2>7. /\ c \in [at : {"sized", "copied"}, b : Buffers, n : Nat, text : Seq(Items)]
        /\ c.at = "copied" /\ c.b = old.b /\ c.n = old.n /\ c.text = s
    BY <2>3, <2>6
  <2> HIDE DEF c, old
  <2>8. call'[t] = c /\ \A u \in Threads \ {t} : call'[u] = call[u]
    BY <1>1, <2>1 DEF TypeOK
  <2>9. CallsType'  BY <1>1, <2>1, <2>7 DEF CallsType, TypeOK
  <2>10. Reading(t) => old.n <= Len(content[e])  BY <2>1 DEF Reading, old
  <2>11. Reading(t) => Reading(t)'
    BY <1>1, <2>1, <2>7, <2>8, <2>10 DEF Reading, s
  <2> QED  BY <1>3, <2>8, <2>9, <2>11
<1>7. CASE EndRead(t)
  <2>1. call' = [call EXCEPT ![t] = Idle]  BY <1>7 DEF EndRead
  <2>2. CallsType' /\ call'[t] = Idle /\ \A u \in Threads \ {t} : call'[u] = call[u]
    BY <1>1, <2>1 DEF CallsType, TypeOK
  <2>3. Reading(t)'  BY <2>2 DEF Reading, Idle
  <2> QED  BY <1>3, <2>2, <2>3
<1> QED  BY <1>4, <1>5, <1>6, <1>7

-----------------------------------------------------------------------------
(* The steps that exchange evbuffers.                                       *)

\* Main changes the handles of bs only, and what is in their evbuffers.
LEMMA ExchangeStep ==
  ASSUME Inv, NEW bs \in SUBSET Buffers, \A b \in bs : Exchanges(b), UNCHANGED call,
         \A b \in Buffers \ bs : handle'[b] = handle[b],
         ContentType', Spread => Spread', misuse \subseteq misuse',
         \A e \in Evbufs : (\A b \in bs : handle[b] # e) =>
           content'[e] = content[e] \/ \E s \in Seq(Items) : content'[e] = content[e] \o s
  PROVE  ContentType' /\ CallsType' /\ Undisturbed'
<1>1. TypeOK /\ Owned  BY DEF Inv
<1>2. CallsType'  BY <1>1 DEF CallsType, TypeOK
<1>3. ASSUME "overlap" \notin misuse' PROVE Spread' /\ \A u \in Threads : Reading(u)'
  <2>1. Spread /\ \A u \in Threads : Reading(u)  BY <1>3 DEF Inv, Undisturbed
  <2>2. \A u \in Threads : Reading(u)'  BY <1>1, <2>1, ReadsKeptMain
  <2> QED  BY <2>1, <2>2
<1> QED  BY <1>2, <1>3 DEF Undisturbed

\* evbuffer_free(e), with the content.
LEMMA FreeData ==
  ASSUME Inv, NEW e \in Evbufs, gone' = gone \cup ToSet(content[e]),
         content' = [content EXCEPT ![e] = <<>>], UNCHANGED <<sent, taken>>
  PROVE  /\ ContentType' /\ (Spread => Spread')
         /\ \A f \in Evbufs \ {e} : content'[f] = content[f]
<1> DEFINE p == content[e]
           r == <<>>
<1>1. TypeOK /\ Split(e, p, r)  BY SplitAll DEF Inv
<1>2. gone' = gone \cup ToSet(p) /\ content' = [content EXCEPT ![e] = r]  OBVIOUS
<1> HIDE DEF p, r
<1>3. /\ content' \in [Evbufs -> Seq(Items)] /\ ToSet(p) \subseteq Items
      /\ \A f \in Evbufs \ {e} : content'[f] = content[f]
  BY <1>1, <1>2, LeaveType
<1>4. ContentType'  BY <1>1, <1>2, <1>3 DEF ContentType, TypeOK
<1>5. Spread => Spread'  BY <1>1, <1>2, LeaveSpread
<1> QED  BY <1>3, <1>4, <1>5

LEMMA ExchangeSteps ==
  ASSUME Inv, NEW b \in Buffers, NEW c \in Buffers, NEW e \in Evbufs,
         \/ Construct(b, e) \/ Release(b, e) \/ Destroy(b) \/ Move(b, c) \/ Reset(b, c, e)
         \/ AppendMove(b, c, e)
  PROVE  ContentType' /\ CallsType' /\ Undisturbed'
<1>1. /\ TypeOK /\ Owned /\ handle \in [Buffers -> Evbufs \cup {None}] /\ None \notin Evbufs
  BY NoneAssumption DEF Inv, TypeOK
<1>2. UNCHANGED data => ContentType' /\ (Spread => Spread')
  BY <1>1, SameSpread DEF data, ContentType, TypeOK
<1>3. CASE Construct(b, e)
  <2>1. /\ handle' = [handle EXCEPT ![b] = e] /\ handle[b] = None
        /\ UNCHANGED <<data, call, misuse>>
    BY <1>3 DEF Construct
  <2>2. CallsType'  BY <1>1, <2>1 DEF CallsType, TypeOK
  <2>3. ASSUME "overlap" \notin misuse, NEW u \in Threads PROVE Reading(u)'
    <3>1. Reading(u)  BY <2>3 DEF Inv, Undisturbed
    <3>2. call[u].at # "idle" => call[u].b \in Buffers \ {b}
      BY <1>1, <2>1, <3>1, CallType DEF Reading
    <3>3. call[u].at # "idle" => handle'[call[u].b] = handle[call[u].b]
      BY <1>1, <2>1, <3>2
    <3>4. call'[u] = call[u] /\ content' = content  BY <2>1 DEF data
    <3> QED  BY <1>1, <3>1, <3>3, <3>4, ReadingKept
  <2>4. "overlap" \notin misuse => Spread  BY DEF Inv, Undisturbed
  <2> QED  BY <1>2, <2>1, <2>2, <2>3, <2>4 DEF Undisturbed
<1>4. CASE Release(b, e)
  <2>1. /\ Exchanges(b) /\ handle' = [handle EXCEPT ![b] = e] /\ UNCHANGED <<data, call>>
        /\ misuse \subseteq misuse'
    BY <1>4 DEF Release, NoteExchange
  <2> DEFINE bs == {b}
  <2>2. /\ bs \in SUBSET Buffers /\ \A d \in bs : Exchanges(d)
        /\ \A d \in Buffers \ bs : handle'[d] = handle[d]
    BY <1>1, <2>1
  <2>3. \A f \in Evbufs : content'[f] = content[f]  BY <2>1 DEF data
  <2> HIDE DEF bs
  <2> QED  BY <1>2, <2>1, <2>2, <2>3, ExchangeStep
<1>5. CASE Move(b, c)
  <2>1. /\ \A d \in {b, c} : Exchanges(d)
        /\ handle' = [handle EXCEPT ![b] = handle[c], ![c] = handle[b]]
        /\ UNCHANGED <<data, call>> /\ misuse \subseteq misuse'
    BY <1>5 DEF Move, NoteExchange
  <2> DEFINE bs == {b, c}
  <2>2. /\ bs \in SUBSET Buffers /\ \A d \in bs : Exchanges(d)
        /\ \A d \in Buffers \ bs : handle'[d] = handle[d]
    BY <1>1, <2>1
  <2>3. \A f \in Evbufs : content'[f] = content[f]  BY <2>1 DEF data
  <2> HIDE DEF bs
  <2> QED  BY <1>2, <2>1, <2>2, <2>3, ExchangeStep
<1>6. CASE Destroy(b)
  <2>1. /\ Exchanges(b) /\ handle' = [handle EXCEPT ![b] = None]
        /\ UNCHANGED <<call, sent, taken, misuse>> /\ handle[b] # None
        /\ gone' = gone \cup ToSet(content[handle[b]])
        /\ content' = [content EXCEPT ![handle[b]] = <<>>]
    BY <1>6 DEF Destroy, FreeContent, Exchanges
  <2>2. \A d \in Buffers \ {b} : handle'[d] = handle[d]  BY <1>1, <2>1
  <2>3. handle[b] \in Evbufs  BY <1>1, <2>1
  <2>4. /\ ContentType' /\ (Spread => Spread')
        /\ \A f \in Evbufs \ {handle[b]} : content'[f] = content[f]
    BY <2>1, <2>3, FreeData
  <2> QED  BY <2>1, <2>2, <2>4, ExchangeStep
<1>7. CASE Reset(b, c, e)
  <2>1. /\ \A d \in {b, c} : Exchanges(d)
        /\ handle' = [handle EXCEPT ![b] = handle[c], ![c] = e]
        /\ UNCHANGED <<call, sent, taken>> /\ handle[b] # None
        /\ gone' = gone \cup ToSet(content[handle[b]])
        /\ content' = [content EXCEPT ![handle[b]] = <<>>] /\ misuse \subseteq misuse'
    BY <1>7 DEF Reset, FreeContent, Exchanges, NoteExchange
  <2> DEFINE bs == {b, c}
  <2>2. /\ bs \in SUBSET Buffers /\ \A d \in bs : Exchanges(d)
        /\ \A d \in Buffers \ bs : handle'[d] = handle[d]
    BY <1>1, <2>1
  <2>3. handle[b] \in Evbufs  BY <1>1, <2>1
  <2>4. /\ ContentType' /\ (Spread => Spread')
        /\ \A f \in Evbufs \ {handle[b]} : content'[f] = content[f]
    BY <2>1, <2>3, FreeData
  <2>5. \A f \in Evbufs : (\A d \in bs : handle[d] # f) => content'[f] = content[f]
    BY <2>4
  <2> HIDE DEF bs
  <2> QED  BY <2>1, <2>2, <2>4, <2>5, ExchangeStep
<1>8. CASE AppendMove(b, c, e)
  <2>1. /\ \A d \in {c} : Exchanges(d)
        /\ handle' = [handle EXCEPT ![c] = e] /\ b # c
        /\ UNCHANGED <<call, sent, taken>> /\ NoteExchange({c}) /\ Calls(Main, {b})
    BY <1>8 DEF AppendMove
  <2>2. handle[b] # None /\ handle[c] # None /\ misuse \subseteq misuse'
    BY <2>1 DEF Exchanges, Calls, Uses, NoteExchange
  <2>3. \A d \in Buffers \ {c} : handle'[d] = handle[d]  BY <1>1, <2>1
  <2> DEFINE f == handle[b]
             g == handle[c]
  <2>4. f \in Evbufs /\ g \in Evbufs /\ g # f  BY <1>1, <2>1, <2>2 DEF Owned
  <2>5. CASE /\ content' = [content EXCEPT ![g] = <<>>]
             /\ gone' = gone \cup ToSet(content[g])
    <3>1. /\ ContentType' /\ (Spread => Spread')
          /\ \A h \in Evbufs \ {g} : content'[h] = content[h]
      BY <2>1, <2>4, <2>5, FreeData
    <3> QED  BY <2>1, <2>3, <2>2, <3>1, ExchangeStep
  <2>6. CASE content' = [Add(f, content[g], FALSE) EXCEPT ![g] = <<>>] /\ UNCHANGED gone
    <3> DEFINE p == content[g]
               r == <<>>
    <3>1. Split(g, p, r) /\ FALSE \in BOOLEAN  BY <1>1, <2>4, SplitAll
    <3>2. content' = [Add(f, p, FALSE) EXCEPT ![g] = r]  BY <2>6
    <3> HIDE DEF f, g, p, r
    <3>3. /\ content' \in [Evbufs -> Seq(Items)] /\ content'[f] = content[f] \o p
          /\ \A h \in Evbufs \ {g, f} : content'[h] = content[h]
      BY <1>1, <2>4, <3>1, <3>2, ShiftType
    <3>4. ContentType'  BY <1>1, <2>1, <2>6, <3>3 DEF ContentType, TypeOK
    <3>5. ASSUME Spread PROVE Spread'
      <4>1. UNCHANGED <<sent, taken, gone>>  BY <2>1, <2>6
      <4> QED  BY <1>1, <2>4, <3>1, <3>2, <3>5, <4>1, ShiftSpread
    <3>6. p \in Seq(Items)  BY <3>1 DEF Split
    <3>7. \A h \in Evbufs : (\A d \in {c} : handle[d] # h) =>
            content'[h] = content[h] \/ \E s \in Seq(Items) : content'[h] = content[h] \o s
      BY <3>3, <3>6 DEF g
    <3> QED  BY <2>1, <2>3, <2>2, <3>4, <3>5, <3>7, ExchangeStep
  <2> QED  BY <1>8, <2>5, <2>6 DEF AppendMove
<1> QED  BY <1>3, <1>4, <1>5, <1>6, <1>7, <1>8

LEMMA DataStep ==
  ASSUME Inv, MainNext \/ \E t \in Threads : ThreadNext(t) \/ ReadNext(t)
  PROVE  ContentType' /\ CallsType' /\ Undisturbed'
<1> DEFINE Good == ContentType' /\ CallsType' /\ Undisturbed'
<1>1. \A n \in 1 .. Cardinality(Items) : n \in Nat  OBVIOUS
<1>2. ASSUME NEW b \in Buffers, EnableLocking(b) PROVE Good
  <2>1. UNCHANGED <<handle, data>> /\ misuse' = misuse /\ call' = call
    BY <1>2 DEF EnableLocking, memory
  <2>2. Main \in Threads  BY DEF Threads
  <2> QED  BY <2>1, <2>2, QuietSteps
<1>3. CASE MainNext
  <2>1. ASSUME NEW b \in Buffers, Destroy(b) PROVE Good
    <3>1. handle[b] \in Evbufs
      BY <2>1 DEF Destroy, Exchanges, Inv, TypeOK
    <3> QED  BY <2>1, <3>1, ExchangeSteps
  <2>2. ASSUME NEW b \in Buffers, NEW e \in Evbufs, Construct(b, e) \/ Release(b, e)
        PROVE  Good
    BY <2>2, ExchangeSteps
  <2>3. ASSUME NEW b \in Buffers, NEW c \in Buffers, Move(b, c) PROVE Good
    <3>1. handle[b] \in Evbufs
      BY <2>3 DEF Move, Exchanges, Inv, TypeOK
    <3> QED  BY <2>3, <3>1, ExchangeSteps
  <2>4. ASSUME NEW b \in Buffers, NEW c \in Buffers, NEW e \in Evbufs,
               Reset(b, c, e) \/ AppendMove(b, c, e)
        PROVE  Good
    BY <2>4, ExchangeSteps
  <2> QED  BY <1>2, <1>3, <2>1, <2>2, <2>3, <2>4 DEF MainNext
<1>4. ASSUME NEW t \in Threads, ThreadNext(t) PROVE Good
  <2>1. ASSUME EndSync(t) \/ \E b \in Buffers : Sync(t, b) PROVE Good
    <3>1. UNCHANGED <<handle, data>> /\ misuse' = misuse /\ call' = call
      BY <2>1 DEF Sync, EndSync, memory
    <3> QED  BY <3>1, QuietSteps
  <2>2. ASSUME NEW b \in Buffers, NEW n \in Nat, StartRead(t, b, n) PROVE Good
    <3>1. UNCHANGED <<handle, data>> /\ misuse' = misuse
      BY <2>2 DEF StartRead, memory
    <3> QED  BY <2>2, <3>1, QuietSteps
  <2> QED
    BY <1>1, <1>4, <2>1, <2>2, AddItemStep, TakingSteps, MovingSteps DEF ThreadNext
<1>5. ASSUME NEW t \in Threads, ReadNext(t) PROVE Good
  <2>1. ASSUME Copyout(t) \/ EndRead(t) PROVE Good
    <3>1. UNCHANGED <<handle, data>> /\ misuse' = misuse
      BY <2>1 DEF Copyout, EndRead, memory
    <3> QED  BY <2>1, <3>1, QuietSteps
  <2> QED  BY <1>5, <2>1, DrainStep DEF ReadNext
<1> QED  BY <1>3, <1>4, <1>5

-----------------------------------------------------------------------------
(* The theorems.                                                            *)

LEMMA InitInv == Init => Inv
<1>1. SUFFICES ASSUME Init PROVE Inv  OBVIOUS
<1>2. <<>> \in Seq(Items)  BY EmptySeq
<1>3. ToSet(<<>>) = {} /\ IsInjective(<<>>)  BY DEF ToSet, IsInjective
<1>4. TypeOK
  <2>1. content \in [Evbufs -> Seq(Items)]  BY <1>1, <1>2 DEF Init
  <2>2. call \in [Threads -> {Idle}]  BY <1>1 DEF Init
  <2>3. taken \in [Items -> 0 .. 2]  BY <1>1 DEF Init
  <2>4. /\ handle \in [Buffers -> Evbufs \cup {None}]
        /\ owner \in [Evbufs -> Threads \cup {None}]
        /\ insync \in [Threads -> Buffers \cup {None}]
    BY <1>1 DEF Init
  <2>5. CallsType  BY <2>2 DEF CallsType
  <2>6. /\ made = {} /\ freed = {} /\ locking = {} /\ shared = {} /\ sent = {}
        /\ gone = {} /\ misuse = {} /\ raced \in BOOLEAN
    BY <1>1 DEF Init
  <2> QED
    BY <2>1, <2>3, <2>4, <2>5, <2>6, TypeGroups
       DEF MemoryType, LocksType, ContentType, NotesType
<1>5. Owned /\ LockReturned /\ SharedHaveLocks /\ SharedLocked
  <2>1. None \notin Threads  BY ThreadsAssumption
  <2> QED  BY <1>1, <2>1 DEF Init, Owned, LockReturned, SharedHaveLocks, SharedLocked
<1>6. \A i \in Items : ~Within(i)  BY <1>1, <1>3 DEF Init, Within
<1>7. Spread
  <2>1. \A i \in Items : Once(i)  BY <1>1, <1>6 DEF Init, Once
  <2> QED  BY <1>1, <1>3, <2>1 DEF Init, Spread
<1>8. \A t \in Threads : Reading(t)  BY <1>1 DEF Init, Reading, Idle
<1> QED  BY <1>4, <1>5, <1>7, <1>8 DEF Inv, Undisturbed

LEMMA NextInv == Inv /\ [Next]_vars => Inv'
<1>1. SUFFICES ASSUME Inv, [Next]_vars PROVE Inv'  OBVIOUS
<1>2. CASE Next
  <2>1. MainNext \/ \E t \in Threads : ThreadNext(t) \/ ReadNext(t)
    BY <1>2 DEF Next
  <2>2. MemoryType' /\ Owned'  BY <1>1, <2>1, MemoryStep
  <2>3. LocksType' /\ LockReturned' /\ SharedHaveLocks' /\ SharedLocked'
    BY <1>1, <2>1, LocksStep
  <2>4. ContentType' /\ CallsType' /\ Undisturbed'  BY <1>1, <2>1, DataStep
  <2>5. NotesType'  BY <1>1, <2>1, NotesStep, TypeGroups DEF Inv
  <2>6. TypeOK'
    BY <2>2, <2>3, <2>4, <2>5
       DEF TypeOK, MemoryType, LocksType, CallsType, ContentType, NotesType
  <2> QED  BY <2>2, <2>3, <2>4, <2>6 DEF Inv
<1>3. CASE UNCHANGED vars
  <2> USE <1>3 DEF vars
  <2>1. TypeOK'  BY <1>1 DEF Inv, TypeOK
  <2>2. Owned' /\ LockReturned' /\ SharedHaveLocks' /\ SharedLocked'
    BY <1>1 DEF Inv, Owned, LockReturned, SharedHaveLocks, SharedLocked
  <2>3. Undisturbed'
    <3>1. Spread => Spread'  BY SameSpread DEF data
    <3>2. \A t \in Threads : Reading(t) => Reading(t)'  BY DEF Reading
    <3> QED  BY <1>1, <3>1, <3>2 DEF Inv, Undisturbed
  <2> QED  BY <2>1, <2>2, <2>3 DEF Inv
<1> QED  BY <1>1, <1>2, <1>3

\* The inductive invariant: objects, locks and data, and the reads under way.
THEOREM Invariant == Spec => []Inv
<1> QED  BY InitInv, NextInv, PTL DEF Spec

\* Through every move, release, reset and append each object has an evbuffer of its
\* own that is not freed (buffer.hpp: buffer(buffer&&), release, reset, append).
THEOREM OneOwner == Spec => []OwnedOnce
<1>1. Inv => OwnedOnce  BY DEF Inv, Owned, OwnedOnce
<1> QED  BY <1>1, Invariant, PTL

\* Whatever the threads add, move between buffers and take, each item is in one place
\* and is taken once, and a read returns what it took the size of, unless a thread
\* took from a buffer in the middle of another one's read (buffer.hpp: drain, str,
\* vector).
THEOREM TakenOnce == Spec => []ReadOnce
<1>1. Inv => ReadOnce
  <2>1. SUFFICES ASSUME Inv, "overlap" \notin misuse PROVE ReadOnce  BY DEF ReadOnce
  <2>2. Spread /\ TypeOK /\ \A t \in Threads : Reading(t)
    BY <2>1 DEF Inv, Undisturbed
  <2> DEFINE inside == UNION {ToSet(content[e]) : e \in Evbufs}
  <2>3. ASSUME NEW i \in Items
        PROVE  taken[i] + (IF i \in inside THEN 1 ELSE 0) + (IF i \in gone THEN 1 ELSE 0)
                 = IF i \in sent THEN 1 ELSE 0
    <3>1. Once(i) /\ (i \in inside <=> Within(i))  BY <2>2 DEF Spread, Within
    <3> QED  BY <3>1 DEF Once
  <2>4. ASSUME NEW t \in Threads, call[t].at = "copied"
        PROVE  Len(call[t].text) = call[t].n
    <3> DEFINE s == content[handle[call[t].b]]
    <3>1. /\ call[t].n \in Nat /\ call[t].b \in Buffers /\ handle[call[t].b] # None
          /\ call[t].n <= Len(s) /\ call[t].text = First(s, call[t].n)
      BY <2>2, <2>4, CallType DEF Reading
    <3>2. handle[call[t].b] \in Evbufs  BY <2>2, <3>1 DEF TypeOK
    <3>3. s \in Seq(Items)  BY <2>2, <3>2 DEF TypeOK
    <3> HIDE DEF s
    <3>4. Len(First(s, call[t].n)) = IF call[t].n < Len(s) THEN call[t].n ELSE Len(s)
      BY <3>1, <3>3, FirstType
    <3>5. Len(s) \in Nat  BY <3>3
    <3> QED  BY <3>1, <3>4, <3>5
  <2> QED  BY <2>2, <2>3, <2>4 DEF ReadOnce, Spread
<1> QED  BY <1>1, Invariant, PTL

\* sync() gives back the lock it took, unless the function exchanged the evbuffer of
\* the object (buffer.hpp: lock, unlock, sync).
THEOREM SyncUnlocks == Spec => []LockReturned
<1>1. Inv => LockReturned  BY DEF Inv
<1> QED  BY <1>1, Invariant, PTL

\* No worker uses an evbuffer without a lock, unless a shared object had its evbuffer
\* exchanged (buffer.hpp: enable_locking).
THEOREM WorkersHaveLocks == Spec => []SharedLocked
<1>1. Inv => SharedLocked  BY DEF Inv
<1> QED  BY <1>1, Invariant, PTL
=============================================================================
