--------------------------- MODULE HttpClientProofs ---------------------------
(***************************************************************************)
(* Theorems about HttpClient, for any number of objects, structures and     *)
(* functors: where a request is, how it ends, and which functor a callback  *)
(* of libevent finds.                                                       *)
(***************************************************************************)
EXTENDS HttpClient, SequenceTheorems, TLAPS

-----------------------------------------------------------------------------
(* The inductive invariant.                                                 *)

Endings == {"done", "error", "null"}
Singles == Endings \cup {"free"}
Callbacks == [cb : Singles \cup {"close"}, of : Reqs \cup Conns,
              arg : Functors \cup Cells \cup {None}, runs : BOOLEAN]

\* What OnePlace excludes, and what it then promises.
Wrong == misuse \cap {"cancel held", "cancel told", "cancel done", "cancel failed",
                      "close inside"} # {}
Gone == faults \cap {"double free", "use after free"} # {}

InQueue(r) == \E c \in Conns : r \in ToSet(queue[c])
Pending(cb, r) == \E x \in ToSet(agenda) : x.cb = cb /\ x.of = r /\ ~x.runs

\* For each request there is one callback of a kind, and its error before its end.
\* Each connection is freed once, after its close callbacks have returned, unless the
\* program closed it in one.
Ordered(s, inside) ==
  \A i, j \in DOMAIN s :
    s[i].of = s[j].of =>
      /\ s[i].cb \in Singles /\ s[i].cb = s[j].cb => i = j
      /\ s[i].cb = "error" /\ s[j].cb = "null" => i < j
      /\ s[i].cb = "close" /\ s[j].cb = "free" => i < j \/ inside

\* What a callback that is on the agenda says of its request or connection.
Fits(x) ==
  LET r == x.of IN
  /\ x.cb \in Endings => r \in Reqs /\ x.arg \in Functors /\ x.arg = fn[r]
  /\ x.cb = "close" =>
       r \in Conns /\ x.arg \in Functors \cup Cells /\ (r \in freed => Wrong)
  /\ x.cb = "free" => r \in made \ freed /\ ~x.runs
  /\ x.cb = "done" =>
       IF x.runs THEN told[r] = <<"done">> /\ (r \in freed => Wrong)
         ELSE /\ ~InQueue(r)
              /\ \/ r \in outstanding \ freed
                 \/ r \in freed \cap dismissed /\ "cancel done" \in misuse
  /\ x.cb = "error" =>
       /\ r \in freed
       /\ IF x.runs THEN told[r] = <<"error">>
                    ELSE told[r] = <<>> /\ r \in outstanding \cup dismissed
  /\ x.cb = "null" =>
       /\ r \in freed \ dismissed
       /\ IF x.runs THEN told[r] \in {<<"null">>, <<"error", "null">>}
                    ELSE r \in outstanding \/ told[r] = <<"error">>

Agenda ==
  /\ Ordered(agenda, Wrong)
  /\ \A x \in ToSet(agenda) : Fits(x)

\* A request that was not given to a connection.
Unsent(r) ==
  /\ fn[r] # None /\ told[r] = <<>> /\ r \notin outstanding \cup dismissed
  /\ r \in freed => Wrong

\* Each structure that an object owns is its own, and the request was not sent.
Handles ==
  /\ \A o, p \in Objs : handle[o] = handle[p] => o = p \/ handle[o] = None
  /\ \A r \in Reqs : Held(r) => Unsent(r)
  /\ \A k \in Connections : handle[k] # None => handle[k] \in made \ freed
  /\ freed \subseteq Reqs \cup made

\* No object has a connection that is being freed.
Freeing(c) == \E x \in ToSet(agenda) : x.cb = "free" /\ x.of = c
Lasting == \A k \in Connections : handle[k] # None => ~Freeing(handle[k])

\* A request on a connection is at one place of one that is there, and awaited.
Queues ==
  /\ up \cap freed = {}
  /\ \A c \in Conns : queue[c] # <<>> => c \in made \ freed
  /\ \A c, d \in Conns : \A i \in DOMAIN queue[c], j \in DOMAIN queue[d] :
       queue[c][i] = queue[d][j] => c = d /\ i = j
  /\ \A r \in Reqs : InQueue(r) => r \in outstanding \ freed

\* What the program was told of a request, and what it will be told.
Settled(r) ==
  /\ told[r] \in {<<>>, <<"done">>, <<"null">>, <<"error">>, <<"error", "null">>,
                  <<"refused">>}
  /\ fn[r] = None => told[r] = <<>> /\ r \notin freed \cup outstanding \cup dismissed
  /\ r \in own => told[r] = <<"done">>
  /\ r \in dismissed => r \in freed \ outstanding /\ told[r] \in {<<>>, <<"error">>}
  /\ told[r] = <<"error">> => r \in dismissed \/ Pending("null", r)
  /\ r \in outstanding =>
       told[r] = <<>> /\ (InQueue(r) \/ Pending("done", r) \/ Pending("null", r))

\* Whatever may still be called calls a functor that is there; only the callback of
\* a request that failed may have lost its own, when the program ended it on error,
\* and that of a request cancelled when it was next.
Ready(f) == life[f] = "alive"
Callable(x) ==
  /\ x.cb = "done" /\ ~x.runs => Ready(x.arg) \/ "cancel done" \in misuse
  /\ x.cb = "close" /\ x.arg \in Functors => Ready(x.arg)
  /\ x.cb = "error" /\ ~x.runs => Ready(x.arg)
  /\ x.cb = "null" /\ ~x.runs => Ready(x.arg) \/ "ended on error" \in misuse
Targets ==
  /\ \A r \in Reqs \ freed : fn[r] # None => Ready(fn[r])
  /\ \A r \in outstanding : Ready(fn[r])
  /\ \A c \in made \ freed : closecb[c] \in Functors => Ready(closecb[c])
  /\ \A c \in Conns \ made : closecb[c] = None
  /\ \A x \in ToSet(agenda) : Callable(x)

Base ==
  /\ Handles /\ Lasting /\ Queues /\ Agenda /\ Targets
  /\ \A r \in Reqs : Settled(r)

Inv ==
  /\ TypeOK /\ FunctorsIntact
  /\ Gone => Wrong
  /\ ~Gone => Base

-----------------------------------------------------------------------------
(* The agenda as a sequence.                                                *)

\* What a concatenation has, what its parts have.
LEMMA SetCat ==
  ASSUME NEW S, NEW s \in Seq(S), NEW t \in Seq(S)
  PROVE  s \o t \in Seq(S) /\ ToSet(s \o t) = ToSet(s) \cup ToSet(t)
<1>1. /\ s \o t \in Seq(S) /\ Len(s \o t) = Len(s) + Len(t)
      /\ \A i \in 1 .. Len(s) + Len(t) :
           (s \o t)[i] = IF i <= Len(s) THEN s[i] ELSE t[i - Len(s)]
  BY ConcatProperties
<1>2. /\ Len(s) \in Nat /\ Len(t) \in Nat /\ DOMAIN s = 1 .. Len(s)
      /\ DOMAIN t = 1 .. Len(t) /\ DOMAIN (s \o t) = 1 .. (Len(s) + Len(t))
  BY <1>1, LenProperties
<1> DEFINE u == s \o t
<1>3. \A i \in DOMAIN s : u[i] = s[i] /\ i \in DOMAIN u  BY <1>1, <1>2
<1>4. \A j \in DOMAIN t : u[j + Len(s)] = t[j] /\ j + Len(s) \in DOMAIN u
  BY <1>1, <1>2
<1>5. \A i \in DOMAIN u : i \in DOMAIN s \/ i - Len(s) \in DOMAIN t
  BY <1>1, <1>2
<1>6. \A i \in DOMAIN u : u[i] = IF i \in DOMAIN s THEN s[i] ELSE t[i - Len(s)]
  BY <1>1, <1>2
<1> HIDE DEF u
<1>7. ToSet(u) = ToSet(s) \cup ToSet(t)
  BY <1>3, <1>4, <1>5, <1>6 DEF ToSet
<1> QED  BY <1>1, <1>7 DEF u

\* A sequence is its head and its tail.
LEMMA SetHead ==
  ASSUME NEW S, NEW s \in Seq(S), s # <<>>
  PROVE  /\ Head(s) \in S /\ Tail(s) \in Seq(S) /\ 1 \in DOMAIN s /\ Head(s) = s[1]
         /\ ToSet(s) = {Head(s)} \cup ToSet(Tail(s))
<1>1. /\ Len(s) \in Nat \ {0} /\ DOMAIN s = 1 .. Len(s) /\ Head(s) = s[1]
      /\ Tail(s) \in Seq(S) /\ Len(Tail(s)) = Len(s) - 1
      /\ DOMAIN Tail(s) = 1 .. (Len(s) - 1)
      /\ \A i \in 1 .. (Len(s) - 1) : Tail(s)[i] = s[i + 1]
  BY HeadTailProperties, EmptySeq, LenProperties
<1> DEFINE t == Tail(s)
<1>2. \A i \in DOMAIN t : i + 1 \in DOMAIN s /\ t[i] = s[i + 1]  BY <1>1
<1>3. \A i \in DOMAIN s : i = 1 \/ (i - 1 \in DOMAIN t /\ t[i - 1] = s[i])  BY <1>1
<1> HIDE DEF t
<1>4. ToSet(s) = {s[1]} \cup ToSet(t)  BY <1>1, <1>2, <1>3 DEF ToSet
<1> QED  BY <1>1, <1>4 DEF t

\* A sequence and one more element at its end.
LEMMA SetAppend ==
  ASSUME NEW S, NEW s \in Seq(S), NEW x \in S
  PROVE  /\ Append(s, x) \in Seq(S) /\ ToSet(Append(s, x)) = ToSet(s) \cup {x}
         /\ DOMAIN Append(s, x) = DOMAIN s \cup {Len(s) + 1} /\ Len(s) \in Nat
         /\ DOMAIN s = 1 .. Len(s)
         /\ \A i \in DOMAIN s : Append(s, x)[i] = s[i]
         /\ Append(s, x)[Len(s) + 1] = x
<1> DEFINE t == Append(s, x)
<1>1. /\ Len(s) \in Nat /\ DOMAIN s = 1 .. Len(s) /\ t \in Seq(S)
      /\ Len(t) = Len(s) + 1 /\ DOMAIN t = 1 .. (Len(s) + 1)
      /\ \A i \in 1 .. Len(s) : t[i] = s[i]
      /\ t[Len(s) + 1] = x
  BY AppendProperties, LenProperties
<1>2. DOMAIN t = DOMAIN s \cup {Len(s) + 1}  BY <1>1
<1>3. ToSet(t) = ToSet(s) \cup {x}
  <2> HIDE DEF t
  <2> QED  BY <1>1, <1>2 DEF ToSet
<1> QED  BY <1>1, <1>2, <1>3

\* The sequences of no element and of one.
LEMMA SetOne == \A x : ToSet(<<x>>) = {x} /\ ToSet(<<>>) = {}
BY DEF ToSet

\* t is s without some of its elements, in the same order.
Within(t, s, m) ==
  /\ m \in [DOMAIN t -> DOMAIN s]
  /\ \A i \in DOMAIN t : t[i] = s[m[i]]
  /\ \A i, j \in DOMAIN t : i < j => m[i] < m[j]

\* What is left of an ordered agenda is ordered.
LEMMA OrderedWithin ==
  ASSUME NEW S, NEW s \in Seq(S), NEW t \in Seq(S), NEW w \in BOOLEAN, Ordered(s, w),
         NEW m, Within(t, s, m)
  PROVE  Ordered(t, w)
<1>1. /\ DOMAIN s \subseteq Nat /\ DOMAIN t \subseteq Nat
      /\ DOMAIN s = 1 .. Len(s) /\ DOMAIN t = 1 .. Len(t)
  BY LenProperties
<1>2. \A i \in DOMAIN t : m[i] \in DOMAIN s /\ t[i] = s[m[i]]  BY DEF Within
<1>3. \A i, j \in DOMAIN t : i < j => m[i] < m[j]  BY DEF Within
<1>4. \A i, j \in DOMAIN t : m[i] = m[j] => i = j  BY <1>1, <1>2, <1>3
<1>5. \A i, j \in DOMAIN t : m[i] < m[j] => i < j  BY <1>1, <1>2, <1>3, <1>4
<1> SUFFICES ASSUME NEW i \in DOMAIN t, NEW j \in DOMAIN t, t[i].of = t[j].of
             PROVE  /\ t[i].cb \in Singles /\ t[i].cb = t[j].cb => i = j
                    /\ t[i].cb = "error" /\ t[j].cb = "null" => i < j
                    /\ t[i].cb = "close" /\ t[j].cb = "free" => i < j \/ w
  BY DEF Ordered
<1>6. /\ s[m[i]].cb \in Singles /\ s[m[i]].cb = s[m[j]].cb => m[i] = m[j]
      /\ s[m[i]].cb = "error" /\ s[m[j]].cb = "null" => m[i] < m[j]
      /\ s[m[i]].cb = "close" /\ s[m[j]].cb = "free" => m[i] < m[j] \/ w
  BY <1>2 DEF Ordered
<1> QED  BY <1>2, <1>4, <1>5, <1>6

\* x goes with nothing that is on the agenda s, or comes before it.
Before(x, y, w) ==
  x.of = y.of =>
    /\ ~(x.cb \in Singles /\ x.cb = y.cb)
    /\ ~(y.cb = "error" /\ x.cb = "null")
    /\ y.cb = "close" /\ x.cb = "free" => w

\* Two ordered agendas, the callbacks of the first before those of the second.
LEMMA OrderedCat ==
  ASSUME NEW S, NEW s \in Seq(S), NEW t \in Seq(S), NEW w \in BOOLEAN,
         Ordered(s, w), Ordered(t, w), \A x \in ToSet(s), y \in ToSet(t) : Before(x, y, w)
  PROVE  Ordered(s \o t, w)
<1>1. /\ Len(s \o t) = Len(s) + Len(t)
      /\ \A i \in 1 .. Len(s) + Len(t) :
           (s \o t)[i] = IF i <= Len(s) THEN s[i] ELSE t[i - Len(s)]
  BY ConcatProperties
<1>2. /\ Len(s) \in Nat /\ Len(t) \in Nat /\ DOMAIN s = 1 .. Len(s)
      /\ DOMAIN t = 1 .. Len(t) /\ DOMAIN (s \o t) = 1 .. (Len(s) + Len(t))
  BY <1>1, LenProperties, SetCat
<1> DEFINE u == s \o t
           n == Len(s)
<1>3. \A i \in DOMAIN u :
        \/ i \in DOMAIN s /\ u[i] = s[i]
        \/ i > n /\ i - n \in DOMAIN t /\ u[i] = t[i - n]
  BY <1>1, <1>2
<1>4. n \in Nat /\ DOMAIN u \subseteq Nat /\ \A i \in DOMAIN s : i <= n  BY <1>2
<1>5. \A i \in DOMAIN s, j \in DOMAIN t : Before(s[i], t[j], w)  BY DEF ToSet
<1> HIDE DEF u, n
<1> SUFFICES ASSUME NEW i \in DOMAIN u, NEW j \in DOMAIN u, u[i].of = u[j].of
             PROVE  /\ u[i].cb \in Singles /\ u[i].cb = u[j].cb => i = j
                    /\ u[i].cb = "error" /\ u[j].cb = "null" => i < j
                    /\ u[i].cb = "close" /\ u[j].cb = "free" => i < j \/ w
  BY DEF Ordered, u
<1>6. CASE i \in DOMAIN s /\ u[i] = s[i] /\ j \in DOMAIN s /\ u[j] = s[j]
  BY <1>6 DEF Ordered
<1>7. CASE i \in DOMAIN s /\ u[i] = s[i] /\ j > n /\ j - n \in DOMAIN t /\ u[j] = t[j - n]
  <2>1. Before(u[i], u[j], w) /\ i < j  BY <1>4, <1>5, <1>7
  <2> QED  BY <2>1 DEF Before
<1>8. CASE j \in DOMAIN s /\ u[j] = s[j] /\ i > n /\ i - n \in DOMAIN t /\ u[i] = t[i - n]
  <2>1. Before(u[j], u[i], w)  BY <1>4, <1>5, <1>8
  <2> QED  BY <2>1 DEF Before
<1>9. CASE /\ i > n /\ i - n \in DOMAIN t /\ u[i] = t[i - n]
           /\ j > n /\ j - n \in DOMAIN t /\ u[j] = t[j - n]
  <2>1. /\ u[i].cb \in Singles /\ u[i].cb = u[j].cb => i - n = j - n
        /\ u[i].cb = "error" /\ u[j].cb = "null" => i - n < j - n
        /\ u[i].cb = "close" /\ u[j].cb = "free" => i - n < j - n \/ w
    BY <1>9 DEF Ordered
  <2> QED  BY <2>1, <1>4
<1> QED  BY <1>3, <1>6, <1>7, <1>8, <1>9

\* An agenda of one callback at most is ordered.
LEMMA OrderedFew == \A w : Ordered(<<>>, w) /\ \A x : Ordered(<<x>>, w)
BY DEF Ordered

\* The callback at the head comes before each of the others.
LEMMA OrderedTail ==
  ASSUME NEW S, NEW s \in Seq(S), s # <<>>, NEW w \in BOOLEAN, Ordered(s, w)
  PROVE  Ordered(Tail(s), w) /\ \A y \in ToSet(Tail(s)) : Before(Head(s), y, w)
<1>1. /\ Len(s) \in Nat \ {0} /\ DOMAIN s = 1 .. Len(s) /\ Head(s) = s[1]
      /\ Tail(s) \in Seq(S) /\ Len(Tail(s)) = Len(s) - 1
      /\ DOMAIN Tail(s) = 1 .. (Len(s) - 1)
      /\ \A i \in 1 .. (Len(s) - 1) : Tail(s)[i] = s[i + 1]
  BY HeadTailProperties, EmptySeq, LenProperties
<1> DEFINE t == Tail(s)
           m == [i \in DOMAIN t |-> i + 1]
<1>2. Within(t, s, m)  BY <1>1 DEF Within
<1>3. Ordered(t, w)
  <2> HIDE DEF t, m
  <2> QED  BY <1>1, <1>2, OrderedWithin DEF t
<1>4. ASSUME NEW i \in DOMAIN t PROVE Before(Head(s), t[i], w)
  <2>1. 1 \in DOMAIN s /\ i + 1 \in DOMAIN s /\ t[i] = s[i + 1] /\ Head(s) = s[1]
    BY <1>1
  <2>2. i + 1 # 1 /\ ~(i + 1 < 1)  BY <1>1
  <2> HIDE DEF t
  <2> QED  BY <2>1, <2>2 DEF Ordered, Before
<1> QED  BY <1>3, <1>4 DEF ToSet

\* Without takes out the one element it is told to.
LEMMA WithoutOne ==
  ASSUME NEW S, NEW s \in Seq(S), NEW at, at \subseteq DOMAIN s,
         \A i, j \in at : i = j
  PROVE  /\ Without(s, at) \in Seq(S)
         /\ \E m : /\ Within(Without(s, at), s, m)
                   /\ {m[i] : i \in DOMAIN Without(s, at)} = DOMAIN s \ at
<1>1. CASE at = {}
  <2>1. Without(s, at) = s  BY <1>1 DEF Without
  <2> DEFINE m == [i \in DOMAIN s |-> i]
  <2>2. Within(s, s, m) /\ {m[i] : i \in DOMAIN s} = DOMAIN s \ at
    BY <1>1 DEF Within
  <2> QED  BY <2>1, <2>2
<1>2. CASE at # {}
  <2> DEFINE k == CHOOSE i \in at : TRUE
             t == Without(s, at)
             m == [i \in DOMAIN t |-> IF i < k THEN i ELSE i + 1]
  <2>1. at = {k} /\ k \in DOMAIN s  BY <1>2
  <2>2. t = SubSeq(s, 1, k - 1) \o SubSeq(s, k + 1, Len(s))
    BY <1>2 DEF Without, RemoveAt
  <2>3. Len(s) \in Nat /\ DOMAIN s = 1 .. Len(s)  BY LenProperties
  <2> HIDE DEF k
  <2> DEFINE a == SubSeq(s, 1, k - 1)
             b == SubSeq(s, k + 1, Len(s))
  <2>4. /\ a \in Seq(S) /\ Len(a) = k - 1 /\ \A i \in 1 .. (k - 1) : a[i] = s[i]
    BY <2>1, <2>3
  <2>5. /\ b \in Seq(S) /\ Len(b) = Len(s) - k
        /\ \A i \in 1 .. (Len(s) - k) : b[i] = s[i + k]
    BY <2>1, <2>3
  <2> HIDE DEF a, b
  <2>17. Len(a) + Len(b) = Len(s) - 1 /\ k \in 1 .. Len(s)  BY <2>1, <2>3, <2>4, <2>5
  <2>18. /\ a \o b \in Seq(S) /\ Len(a \o b) = Len(a) + Len(b)
         /\ \A i \in 1 .. Len(a) + Len(b) :
              (a \o b)[i] = IF i <= Len(a) THEN a[i] ELSE b[i - Len(a)]
    BY <2>4, <2>5, ConcatProperties
  <2>6. /\ a \o b \in Seq(S) /\ Len(a \o b) = Len(s) - 1
        /\ \A i \in 1 .. (Len(s) - 1) :
             (a \o b)[i] = IF i <= k - 1 THEN a[i] ELSE b[i - (k - 1)]
    BY <2>4, <2>17, <2>18
  <2>7. t = a \o b  BY <2>2 DEF a, b
  <2> HIDE DEF t
  <2>8. /\ t \in Seq(S) /\ DOMAIN t = 1 .. (Len(s) - 1)
        /\ \A i \in 1 .. (Len(s) - 1) : t[i] = IF i < k THEN s[i] ELSE s[i + 1]
    <3>1. t \in Seq(S) /\ Len(t) = Len(s) - 1 /\ DOMAIN t = 1 .. (Len(s) - 1)
      BY <2>6, <2>7, LenProperties
    <3>2. ASSUME NEW i \in 1 .. (Len(s) - 1) PROVE t[i] = IF i < k THEN s[i] ELSE s[i + 1]
      <4>1. t[i] = IF i <= k - 1 THEN a[i] ELSE b[i - (k - 1)]  BY <2>6, <2>7
      <4>2. CASE i < k
        <5>1. i <= k - 1 /\ i \in 1 .. (k - 1)  BY <4>2, <2>3, <2>17
        <5> QED  BY <4>1, <4>2, <5>1, <2>4
      <4>3. CASE ~(i < k)
        <5>1. /\ ~(i <= k - 1) /\ i - (k - 1) \in 1 .. (Len(s) - k)
              /\ (i - (k - 1)) + k = i + 1
          BY <4>3, <2>3, <2>17
        <5> QED  BY <4>1, <4>3, <5>1, <2>5
      <4> QED  BY <4>2, <4>3
    <3> QED  BY <3>1, <3>2
  <2>9. \A i \in DOMAIN t : m[i] = IF i < k THEN i ELSE i + 1  OBVIOUS
  <2>10. m \in [DOMAIN t -> DOMAIN s]  BY <2>1, <2>3, <2>8
  <2>11. \A i \in DOMAIN t : t[i] = s[m[i]]  BY <2>8, <2>9
  <2>12. \A i, j \in DOMAIN t : i < j => m[i] < m[j]
    BY <2>1, <2>3, <2>8, <2>9
  <2>13. Within(t, s, m)
    <3> HIDE DEF m
    <3> QED  BY <2>10, <2>11, <2>12 DEF Within
  <2>14. \A i \in DOMAIN t : m[i] # k  BY <2>1, <2>3, <2>8, <2>9
  <2>15. ASSUME NEW j \in DOMAIN s \ at PROVE \E i \in DOMAIN t : m[i] = j
    <3>1. CASE j < k  BY <3>1, <2>1, <2>3, <2>8, <2>9
    <3>2. CASE ~(j < k)
      <4>1. j - 1 \in DOMAIN t /\ ~(j - 1 < k) /\ (j - 1) + 1 = j
        BY <3>2, <2>1, <2>3, <2>8
      <4> QED  BY <4>1, <2>9
    <3> QED  BY <3>1, <3>2
  <2>16. {m[i] : i \in DOMAIN t} = DOMAIN s \ at
    <3> HIDE DEF m
    <3> QED  BY <2>1, <2>10, <2>14, <2>15
  <2> QED  BY <2>8, <2>13, <2>16 DEF t
<1> QED  BY <1>1, <1>2

\* What Without leaves, and that it keeps the order.
LEMMA SetWithout ==
  ASSUME NEW S, NEW s \in Seq(S), NEW at, at \subseteq DOMAIN s,
         \A i, j \in at : i = j
  PROVE  /\ Without(s, at) \in Seq(S)
         /\ ToSet(Without(s, at)) = {s[i] : i \in DOMAIN s \ at}
         /\ \A w \in BOOLEAN : Ordered(s, w) => Ordered(Without(s, at), w)
<1> DEFINE t == Without(s, at)
<1>1. t \in Seq(S)  BY WithoutOne
<1>2. PICK m : Within(t, s, m) /\ {m[i] : i \in DOMAIN t} = DOMAIN s \ at
  BY WithoutOne
<1> HIDE DEF t
<1>3. ToSet(t) = {s[i] : i \in DOMAIN s \ at}
  <2>1. \A i \in DOMAIN t : m[i] \in DOMAIN s \ at /\ t[i] = s[m[i]]
    BY <1>2 DEF Within
  <2>2. \A j \in DOMAIN s \ at : \E i \in DOMAIN t : m[i] = j  BY <1>2
  <2> QED  BY <2>1, <2>2 DEF ToSet
<1>4. \A w \in BOOLEAN : Ordered(s, w) => Ordered(t, w)  BY <1>1, <1>2, OrderedWithin
<1> QED  BY <1>1, <1>3, <1>4 DEF t

-----------------------------------------------------------------------------
(* What the steps put on the agenda and take from it.                       *)

\* Objects, structures and functors are not taken for each other, nor for None.
LEMMA Apart ==
  /\ Requests \cap Connections = {} /\ Reqs \cap Conns = {}
  /\ Functors \cap Cells = {}
  /\ None \notin Objs /\ None \notin Reqs /\ None \notin Conns
  /\ None \notin Functors /\ None \notin Cells
  /\ Requests \subseteq Objs /\ Connections \subseteq Objs
BY ObjectsAssumption, StructuresAssumption, FunctorsAssumption, NoneAssumption DEF Objs

\* What a request may be told are different things.
LEMMA Outcomes ==
  LET none == <<>>  done == <<"done">>  null == <<"null">>  error == <<"error">>
      both == <<"error", "null">>  refused == <<"refused">> IN
  /\ none \notin {done, null, error, both, refused}
  /\ done \notin {null, error, both, refused}
  /\ null \notin {error, both, refused}
  /\ error \notin {both, refused} /\ both # refused
<1>1. /\ Len(<<>>) = 0 /\ Len(<<"done">>) = 1 /\ Len(<<"null">>) = 1
      /\ Len(<<"error">>) = 1 /\ Len(<<"refused">>) = 1 /\ Len(<<"error", "null">>) = 2
  OBVIOUS
<1>2. /\ <<"done">>[1] = "done" /\ <<"null">>[1] = "null" /\ <<"error">>[1] = "error"
      /\ <<"refused">>[1] = "refused"
  OBVIOUS
<1> QED  BY <1>1, <1>2

\* The agenda is a sequence of callbacks.
LEMMA AgendaType == TypeOK => agenda \in Seq(Callbacks)
<1>1. {"done", "error", "null", "close", "free"} = Singles \cup {"close"}
  BY DEF Singles, Endings
<1> QED  BY <1>1 DEF TypeOK, Callbacks

\* The close callback of a connection that is up, and the error callback.
CloseOf(c) ==
  IF c \in up /\ closecb[c] # None THEN {Item("close", c, closecb[c])} ELSE {}
ErrorOf(r) == IF r \in errs THEN {Item("error", r, fn[r])} ELSE {}

\* A callback that waits to be called.
LEMMA ItemIs ==
  \A cb, x, f : LET i == Item(cb, x, f) IN i.cb = cb /\ i.of = x /\ i.arg = f /\ ~i.runs
BY DEF Item

\* The callbacks of a connection that closes.
LEMMA ResetItemsAre ==
  ASSUME TypeOK, NEW c \in Conns, NEW w
  PROVE  /\ ResetItems(c) \in Seq(Callbacks) /\ ToSet(ResetItems(c)) = CloseOf(c)
         /\ Ordered(ResetItems(c), w)
<1>1. CASE c \in up /\ closecb[c] # None
  <2> DEFINE x == Item("close", c, closecb[c])
  <2>1. x \in Callbacks  BY <1>1 DEF TypeOK, Item, Callbacks
  <2>2. ResetItems(c) = <<x>> /\ CloseOf(c) = {x}  BY <1>1 DEF ResetItems, CloseOf
  <2> HIDE DEF x
  <2> QED  BY <2>1, <2>2, SetOne, OrderedFew
<1>2. CASE ~(c \in up /\ closecb[c] # None)
  <2>1. ResetItems(c) = <<>> /\ CloseOf(c) = {}  BY <1>2 DEF ResetItems, CloseOf
  <2> QED  BY <2>1, SetOne, OrderedFew, EmptySeq
<1> QED  BY <1>1, <1>2

\* The error callback of a request.
LEMMA ErrorItemsAre ==
  ASSUME TypeOK, NEW r \in Reqs, fn[r] # None, NEW w
  PROVE  /\ ErrorItems(r) \in Seq(Callbacks) /\ ToSet(ErrorItems(r)) = ErrorOf(r)
         /\ Ordered(ErrorItems(r), w)
<1>1. CASE r \in errs
  <2> DEFINE x == Item("error", r, fn[r])
  <2>1. x \in Callbacks  BY DEF TypeOK, Item, Callbacks, Singles, Endings
  <2>2. ErrorItems(r) = <<x>> /\ ErrorOf(r) = {x}  BY <1>1 DEF ErrorItems, ErrorOf
  <2> HIDE DEF x
  <2> QED  BY <2>1, <2>2, SetOne, OrderedFew
<1>2. CASE r \notin errs
  <2>1. ErrorItems(r) = <<>> /\ ErrorOf(r) = {}  BY <1>2 DEF ErrorItems, ErrorOf
  <2> QED  BY <2>1, SetOne, OrderedFew, EmptySeq
<1> QED  BY <1>1, <1>2

\* A connection that closes puts its callback before the others.
LEMMA CloseFirst ==
  ASSUME TypeOK, NEW c \in Conns, NEW t \in Seq(Callbacks), NEW w \in BOOLEAN
  PROVE  /\ ResetItems(c) \o t \in Seq(Callbacks)
         /\ ToSet(ResetItems(c) \o t) = CloseOf(c) \cup ToSet(t)
         /\ Ordered(t, w) => Ordered(ResetItems(c) \o t, w)
<1>1. /\ ResetItems(c) \in Seq(Callbacks) /\ ToSet(ResetItems(c)) = CloseOf(c)
      /\ Ordered(ResetItems(c), w)
  BY ResetItemsAre
<1>2. \A x \in CloseOf(c), y \in ToSet(t) : Before(x, y, w)
  BY ItemIs DEF CloseOf, Before, Singles, Endings
<1> DEFINE s == ResetItems(c)
<1> HIDE DEF s
<1>3. s \o t \in Seq(Callbacks) /\ ToSet(s \o t) = ToSet(s) \cup ToSet(t)
  BY <1>1, SetCat DEF s
<1>4. Ordered(t, w) => Ordered(s \o t, w)
  BY <1>1, <1>2, OrderedCat DEF s
<1> QED  BY <1>1, <1>3, <1>4 DEF s

\* A request that failed puts its error before what t has, which is not of an error.
LEMMA Failed ==
  ASSUME TypeOK, NEW r \in Reqs, fn[r] # None, NEW t \in Seq(Callbacks), NEW w \in BOOLEAN,
         \A y \in ToSet(t) : ~(y.cb = "error" /\ y.of = r)
  PROVE  /\ ErrorItems(r) \o t \in Seq(Callbacks)
         /\ ToSet(ErrorItems(r) \o t) = ErrorOf(r) \cup ToSet(t)
         /\ Ordered(t, w) => Ordered(ErrorItems(r) \o t, w)
<1>1. /\ ErrorItems(r) \in Seq(Callbacks) /\ ToSet(ErrorItems(r)) = ErrorOf(r)
      /\ Ordered(ErrorItems(r), w)
  BY ErrorItemsAre
<1>2. \A x \in ErrorOf(r), y \in ToSet(t) : Before(x, y, w)
  BY ItemIs DEF ErrorOf, Before, Singles, Endings
<1> DEFINE s == ErrorItems(r)
<1> HIDE DEF s
<1>3. s \o t \in Seq(Callbacks) /\ ToSet(s \o t) = ToSet(s) \cup ToSet(t)
  BY <1>1, SetCat DEF s
<1>4. Ordered(t, w) => Ordered(s \o t, w)
  BY <1>1, <1>2, OrderedCat DEF s
<1> QED  BY <1>1, <1>3, <1>4 DEF s

\* The callbacks on the agenda, those that run and those that wait.
LEMMA InsideIs ==
  ASSUME TypeOK, NEW cb, NEW x
  PROVE  /\ Inside(cb, x) <=> \E i \in ToSet(agenda) : i.cb = cb /\ i.of = x /\ i.runs
         /\ OnAgenda(cb, x) <=> \E i \in ToSet(agenda) : i.cb = cb /\ i.of = x
BY DEF Inside, OnAgenda, ToSet

\* A request is on a queue that the model finds.
LEMMA QueuedIs ==
  ASSUME Queues, NEW r
  PROVE  Queued(r) <=> InQueue(r)
<1>1. ASSUME NEW c \in Conns, r \in ToSet(queue[c]) PROVE c \notin freed
  BY <1>1, SetOne DEF Queues
<1> QED  BY <1>1 DEF Queued, InQueue

-----------------------------------------------------------------------------
(* cancel().                                                                *)

\* A request that the program may cancel was allocated, and can be on one place of
\* one connection only, and to be told of once.
LEMMA CancelledIs ==
  ASSUME TypeOK, Base, NEW r \in Reqs, Cancel(r)
  PROVE  /\ fn[r] # None
         /\ r \in freed \/ r \in outstanding \/ (~InQueue(r) /\ ~Pending("done", r))
<1>1. r \in outstanding \/ Held(r) \/ Inside("done", r)  BY DEF Cancel
<1>2. Settled(r) /\ Handles /\ Agenda  BY DEF Base
<1>3. CASE r \in outstanding  BY <1>2, <1>3 DEF Settled
<1>4. CASE Held(r)
  <2>1. fn[r] # None /\ r \notin outstanding  BY <1>2, <1>4, Apart DEF Handles, Unsent, Held
  <2>2. ~InQueue(r)  BY <2>1 DEF Base, Queues
  <2>3. Pending("done", r) => r \in freed  BY <1>2, <2>1 DEF Agenda, Pending, Fits
  <2> QED  BY <2>1, <2>2, <2>3
<1>5. CASE Inside("done", r)
  <2>1. told[r] = <<"done">>
    <3>1. PICK x \in ToSet(agenda) : x.cb = "done" /\ x.of = r /\ x.runs
      BY <1>5, InsideIs
    <3> QED  BY <1>2, <3>1 DEF Agenda, Fits
  <2>2. fn[r] # None /\ r \notin outstanding  BY <1>2, <2>1 DEF Settled
  <2>3. ~InQueue(r)  BY <2>2 DEF Base, Queues
  <2>4. Pending("done", r) => r \in freed  BY <1>2, <2>2 DEF Agenda, Pending, Fits
  <2> QED  BY <2>2, <2>3, <2>4
<1> QED  BY <1>1, <1>3, <1>4, <1>5

\* It leaves every queue, and the rest of each stays as it was.
LEMMA CancelQueue ==
  ASSUME TypeOK, Base, NEW r \in Reqs, Cancel(r)
  PROVE  /\ queue' \in [Conns -> Seq(Reqs)]
         /\ \A c \in Conns :
              /\ ToSet(queue[c])' = ToSet(queue[c]) \ {r}
              /\ \E m : Within(queue'[c], queue[c], m)
<1> DEFINE at(c) == {i \in DOMAIN queue[c] : queue[c][i] = r}
<1>1. queue' = [c \in Conns |-> Without(queue[c], at(c))]  BY DEF Cancel
<1>2. ASSUME NEW c \in Conns
      PROVE  /\ Without(queue[c], at(c)) \in Seq(Reqs)
             /\ ToSet(Without(queue[c], at(c))) = {queue[c][i] : i \in DOMAIN queue[c] \ at(c)}
             /\ \E m : Within(Without(queue[c], at(c)), queue[c], m)
  <2>1. queue[c] \in Seq(Reqs)  BY DEF TypeOK
  <2>2. \A i, j \in at(c) : i = j  BY DEF Base, Queues
  <2>3. at(c) \subseteq DOMAIN queue[c]  OBVIOUS
  <2> HIDE DEF at
  <2>4. \E m : Within(Without(queue[c], at(c)), queue[c], m)
    BY <2>1, <2>2, <2>3, WithoutOne
  <2> QED  BY <2>1, <2>2, <2>3, <2>4, SetWithout
<1>3. ASSUME NEW c \in Conns PROVE ToSet(queue[c])' = ToSet(queue[c]) \ {r}
  <2>1. {queue[c][i] : i \in DOMAIN queue[c] \ at(c)} = ToSet(queue[c]) \ {r}
    BY DEF ToSet
  <2> HIDE DEF at
  <2>2. queue'[c] = Without(queue[c], at(c))  BY <1>1
  <2>3. ToSet(queue'[c]) = ToSet(queue[c]) \ {r}  BY <1>2, <2>1, <2>2
  <2> QED  BY <2>3
<1> HIDE DEF at
<1> QED  BY <1>1, <1>2, <1>3

\* What stays on the agenda of cancel(): a request that was to be told of a failed
\* attempt to connect is dropped from it; the callback of any other goes on.
Rest(r) == {x \in ToSet(agenda) :
              x.runs \/ x.cb # "done" \/ x.of # r \/ Unconnected(r) = {}}

\* cancel() takes the request out of a failed attempt to connect; one that is at the
\* head of a connection fails before the rest, and the connection closes.
LEMMA CancelAgenda ==
  ASSUME TypeOK, Base, NEW r \in Reqs, Cancel(r)
  PROVE  /\ agenda' \in Seq(Callbacks) /\ Ordered(agenda', Wrong)
         /\ \/ UNCHANGED up /\ ToSet(agenda') = Rest(r)
            \/ /\ InQueue(r)
               /\ \E c \in Conns :
                    /\ Reset(c)
                    /\ ToSet(agenda') = CloseOf(c) \cup ErrorOf(r) \cup Rest(r)
<1> DEFINE at == Unconnected(r)
           first == {c \in Conns : queue[c] # <<>> /\ Head(queue[c]) = r}
           rest == Without(agenda, at)
<1>1. \/ agenda' = rest /\ UNCHANGED up
      \/ \E c \in first :
           agenda' = ResetItems(c) \o ErrorItems(r) \o rest /\ Reset(c)
  BY DEF Cancel
<1>2. agenda \in Seq(Callbacks) /\ Ordered(agenda, Wrong) /\ Wrong \in BOOLEAN
  BY AgendaType DEF Base, Agenda, Wrong
<1>3. \A i \in at :
        i \in DOMAIN agenda /\ ~agenda[i].runs /\ agenda[i].cb = "done" /\ agenda[i].of = r
  BY DEF Unconnected, Due
<1>4. at \subseteq DOMAIN agenda /\ \A i, j \in at : i = j
  BY <1>2, <1>3 DEF Ordered, Singles, Endings
<1>5. {agenda[i] : i \in DOMAIN agenda \ at} = Rest(r)
  <2>1. CASE Unconnected(r) = {}  BY <2>1 DEF ToSet, Rest
  <2>2. CASE Unconnected(r) # {}
    <3>1. PICK k \in Unconnected(r) : TRUE  BY <2>2
    <3>2. \A i \in DOMAIN agenda :
            i \in at <=> ~agenda[i].runs /\ agenda[i].cb = "done" /\ agenda[i].of = r
      BY <1>2, <1>3, <3>1 DEF Ordered, Singles, Endings
    <3> HIDE DEF at
    <3> QED  BY <2>2, <3>2 DEF ToSet, Rest
  <2> QED  BY <2>1, <2>2
<1> HIDE DEF at
<1>6. rest \in Seq(Callbacks) /\ ToSet(rest) = Rest(r) /\ Ordered(rest, Wrong)
  <2>1. /\ rest \in Seq(Callbacks)
        /\ ToSet(rest) = {agenda[i] : i \in DOMAIN agenda \ at}
        /\ Ordered(agenda, Wrong) => Ordered(rest, Wrong)
    BY ONLY <1>2, <1>4, SetWithout
  <2> QED  BY <2>1, <1>2, <1>5
<1> HIDE DEF rest
<1>7. CASE agenda' = rest /\ UNCHANGED up  BY <1>6, <1>7
<1>8. CASE \E c \in first :
             agenda' = ResetItems(c) \o ErrorItems(r) \o rest /\ Reset(c)
  <2>1. PICK c \in first :
          agenda' = ResetItems(c) \o ErrorItems(r) \o rest /\ Reset(c)
    BY <1>8
  <2>2. c \in Conns /\ InQueue(r)
    <3>1. queue[c] \in Seq(Reqs) /\ queue[c] # <<>> /\ Head(queue[c]) = r /\ c \in Conns
      BY <2>1 DEF TypeOK
    <3> QED  BY <3>1, SetHead DEF InQueue
  <2>3. r \notin freed /\ fn[r] # None  BY <2>2, CancelledIs DEF Base, Queues
  <2>4. \A y \in ToSet(rest) : ~(y.cb = "error" /\ y.of = r)
    BY <1>6, <2>3 DEF Base, Agenda, Fits, Rest
  <2>5. /\ ErrorItems(r) \in Seq(Callbacks) /\ ResetItems(c) \in Seq(Callbacks)
    BY <2>2, <2>3, ErrorItemsAre, ResetItemsAre
  <2> DEFINE t == ErrorItems(r) \o rest
  <2>6. agenda' = ResetItems(c) \o t
    <3>1. (ResetItems(c) \o ErrorItems(r)) \o rest = ResetItems(c) \o (ErrorItems(r) \o rest)
      BY <1>6, <2>5, ConcatAssociative
    <3> QED  BY <2>1, <3>1
  <2>7. t \in Seq(Callbacks) /\ ToSet(t) = ErrorOf(r) \cup Rest(r) /\ Ordered(t, Wrong)
    BY <1>2, <1>6, <2>3, <2>4, Failed
  <2> HIDE DEF t
  <2>8. /\ agenda' \in Seq(Callbacks) /\ ToSet(agenda') = CloseOf(c) \cup ToSet(t)
        /\ Ordered(agenda', Wrong)
    BY <1>2, <2>2, <2>6, <2>7, CloseFirst
  <2> QED  BY <2>1, <2>2, <2>7, <2>8
<1> QED  BY <1>1, <1>7, <1>8

-----------------------------------------------------------------------------
(* Types.                                                                   *)

\* What is freed was a request or a connection.
LEMMA FreeType ==
  ASSUME TypeOK, NEW xs, xs \subseteq Reqs \cup Conns, Free(xs)
  PROVE  /\ freed' \subseteq Reqs \cup Conns
         /\ faults' \subseteq {"double free", "use after free", "dead functor",
                         "dead cell"}
BY DEF TypeOK, Free

\* An object has a structure of its own kind.
LEMMA HandleType ==
  ASSUME TypeOK, NEW o
  PROVE  /\ o \in Requests /\ handle[o] # None => handle[o] \in Reqs
         /\ o \in Connections /\ handle[o] # None => handle[o] \in Conns
BY DEF TypeOK

\* An object gets a structure of its kind.
LEMMA PutHandle ==
  ASSUME TypeOK, NEW o \in Objs, NEW x \in Reqs \cup Conns \cup {None},
         o \in Requests => x \in Reqs \cup {None},
         o \in Connections => x \in Conns \cup {None},
         handle' = [handle EXCEPT ![o] = x]
  PROVE  /\ handle' \in [Objs -> Reqs \cup Conns \cup {None}]
         /\ \A p \in Requests : handle'[p] \in Reqs \cup {None}
         /\ \A k \in Connections : handle'[k] \in Conns \cup {None}
<1>1. \A p \in Objs : handle'[p] = IF p = o THEN x ELSE handle[p]  BY DEF TypeOK
<1>2. handle' \in [Objs -> Reqs \cup Conns \cup {None}]  BY DEF TypeOK
<1> QED  BY <1>1, <1>2, Apart DEF TypeOK

\* Two objects of a kind exchange their structures.
LEMMA SwapHandles ==
  ASSUME TypeOK, NEW o \in Objs, NEW p \in Objs,
         (o \in Requests /\ p \in Requests) \/ (o \in Connections /\ p \in Connections),
         handle' = [handle EXCEPT ![p] = handle[o], ![o] = handle[p]]
  PROVE  /\ handle' \in [Objs -> Reqs \cup Conns \cup {None}]
         /\ \A q \in Requests : handle'[q] \in Reqs \cup {None}
         /\ \A k \in Connections : handle'[k] \in Conns \cup {None}
<1>1. \A q \in Objs : handle'[q] = IF q = o THEN handle[p]
                                   ELSE IF q = p THEN handle[o] ELSE handle[q]
  BY DEF TypeOK
<1>2. handle' \in [Objs -> Reqs \cup Conns \cup {None}]  BY DEF TypeOK
<1>3. ASSUME NEW q \in Requests PROVE handle'[q] \in Reqs \cup {None}
  <2>1. q = o \/ q = p => o \in Requests /\ p \in Requests  BY Apart
  <2> QED  BY <1>1, <2>1, Apart DEF TypeOK
<1>4. ASSUME NEW k \in Connections PROVE handle'[k] \in Conns \cup {None}
  <2>1. k = o \/ k = p => o \in Connections /\ p \in Connections  BY Apart
  <2> QED  BY <1>1, <2>1, Apart DEF TypeOK
<1> QED  BY <1>2, <1>3, <1>4

\* The callbacks, as TypeOK spells them.
LEMMA AgendaTyped ==
  Seq(Callbacks) = Seq([cb : {"done", "error", "null", "close", "free"},
                        of : Reqs \cup Conns, arg : Functors \cup Cells \cup {None},
                        runs : BOOLEAN])
<1>1. {"done", "error", "null", "close", "free"} = Singles \cup {"close"}
  BY DEF Singles, Endings
<1> QED  BY <1>1 DEF Callbacks

\* The operations of a request.
LEMMA RequestType ==
  ASSUME TypeOK, Base, RequestNext
  PROVE  TypeOK'
<1>1. ASSUME NEW o \in Requests, NEW r \in Reqs, NEW f \in Functors, NEW err \in BOOLEAN,
             ConstructRequest(o, r, f, err)
      PROVE  TypeOK'
  <2>1. handle' = [handle EXCEPT ![o] = r]  BY <1>1 DEF ConstructRequest
  <2>2. /\ handle' \in [Objs -> Reqs \cup Conns \cup {None}]
        /\ \A p \in Requests : handle'[p] \in Reqs \cup {None}
        /\ \A k \in Connections : handle'[k] \in Conns \cup {None}
    BY <2>1, PutHandle, Apart
  <2> QED
    BY <1>1, <2>2 DEF TypeOK, ConstructRequest, Allocate, conns, outcome
<1>2. ASSUME NEW o \in Requests, NEW r \in Reqs, NEW f \in Functors, CreateRequest(o, r, f)
      PROVE  TypeOK'
  <2>1. handle' = [handle EXCEPT ![o] = r]  BY <1>2 DEF CreateRequest
  <2>2. /\ handle' \in [Objs -> Reqs \cup Conns \cup {None}]
        /\ \A p \in Requests : handle'[p] \in Reqs \cup {None}
        /\ \A k \in Connections : handle'[k] \in Conns \cup {None}
    BY <2>1, PutHandle, Apart
  <2>3. {handle[o]} \ {None} \subseteq Reqs \cup Conns  BY HandleType
  <2>4. /\ freed' \subseteq Reqs \cup Conns
        /\ faults' \subseteq {"double free", "use after free", "dead functor",
                         "dead cell"}
    BY <1>2, <2>3, FreeType DEF CreateRequest
  <2> QED
    BY <1>2, <2>2, <2>4 DEF TypeOK, CreateRequest, Allocate, conns, outcome
<1>3. ASSUME NEW o \in Requests, CloseRequest(o) PROVE TypeOK'
  <2>1. handle' = [handle EXCEPT ![o] = None] /\ handle[o] # None
    BY <1>3 DEF CloseRequest
  <2>2. /\ handle' \in [Objs -> Reqs \cup Conns \cup {None}]
        /\ \A p \in Requests : handle'[p] \in Reqs \cup {None}
        /\ \A k \in Connections : handle'[k] \in Conns \cup {None}
    BY <2>1, PutHandle, Apart
  <2>3. {handle[o]} \subseteq Reqs \cup Conns  BY <2>1, HandleType
  <2>4. /\ freed' \subseteq Reqs \cup Conns
        /\ faults' \subseteq {"double free", "use after free", "dead functor",
                         "dead cell"}
    BY <1>3, <2>3, FreeType DEF CloseRequest
  <2> QED
    BY <1>3, <2>2, <2>4 DEF TypeOK, CloseRequest, reqs, conns, outcome
<1>4. ASSUME NEW o \in Requests, NEW p \in Requests, Move(o, p) PROVE TypeOK'
  <2>1. /\ handle' \in [Objs -> Reqs \cup Conns \cup {None}]
        /\ \A q \in Requests : handle'[q] \in Reqs \cup {None}
        /\ \A k \in Connections : handle'[k] \in Conns \cup {None}
    BY <1>4, SwapHandles, Apart DEF Move
  <2> QED  BY <1>4, <2>1 DEF TypeOK, Move, reqs, conns, outcome
<1>5. ASSUME NEW o \in Requests, Release(o) PROVE TypeOK'
  <2>1. handle' = [handle EXCEPT ![o] = None]  BY <1>5 DEF Release
  <2>2. /\ handle' \in [Objs -> Reqs \cup Conns \cup {None}]
        /\ \A p \in Requests : handle'[p] \in Reqs \cup {None}
        /\ \A k \in Connections : handle'[k] \in Conns \cup {None}
    BY <2>1, PutHandle, Apart
  <2> QED  BY <1>5, <2>2 DEF TypeOK, Release, reqs, conns, outcome
<1>6. ASSUME NEW r \in Reqs, Own(r) PROVE TypeOK'
  BY <1>6 DEF TypeOK, Own, conns, outcome
<1>7. ASSUME NEW r \in Reqs, Cancel(r) PROVE TypeOK'
  <2>1. queue' \in [Conns -> Seq(Reqs)]  BY <1>7, CancelQueue
  <2>2. agenda' \in Seq(Callbacks)  BY <1>7, CancelAgenda
  <2>3. up' \subseteq made'  BY <1>7, CancelAgenda DEF TypeOK, Cancel, Reset
  <2>4. /\ misuse' \subseteq {"cancel held", "cancel told", "cancel done", "cancel failed",
                          "close inside", "ended on error"}
        /\ faults' \subseteq {"double free", "use after free", "dead functor",
                         "dead cell"}
        /\ freed' \subseteq Reqs \cup Conns
        /\ outstanding' \subseteq Reqs /\ dismissed' \subseteq Reqs
    BY <1>7 DEF TypeOK, Cancel
  <2> QED
    BY <1>7, <2>1, <2>2, <2>3, <2>4, AgendaTyped DEF TypeOK, Cancel, reqs
<1> QED
  BY <1>1, <1>2, <1>3, <1>4, <1>5, <1>6, <1>7 DEF RequestNext

\* What the program did that the library does not guard against.
LEMMA NoteType ==
  ASSUME TypeOK, NEW what, NEW if, Note(what, if),
         what \in {"cancel held", "cancel told", "cancel done", "cancel failed",
                          "close inside", "ended on error"}
  PROVE  misuse' \subseteq {"cancel held", "cancel told", "cancel done", "cancel failed",
                          "close inside", "ended on error"}
BY DEF TypeOK, Note

\* A connection that is freed makes its close callback, and then goes.
LEMMA FreeConnectionType ==
  ASSUME TypeOK, NEW c \in Conns, FreeConnection(c)
  PROVE  /\ misuse' \subseteq {"cancel held", "cancel told", "cancel done", "cancel failed",
                              "close inside", "ended on error"}
         /\ agenda' \in Seq(Callbacks)
         /\ ToSet(agenda') = CloseOf(c) \cup {Item("free", c, None)} \cup ToSet(agenda)
<1> DEFINE x == Item("free", c, None)
           u == <<x>>
           t == u \o agenda
<1>1. x \in Callbacks  BY DEF Item, Callbacks, Singles
<1> HIDE DEF x
<1>2. u \in Seq(Callbacks) /\ ToSet(u) = {x}  BY <1>1, SetOne
<1> HIDE DEF u
<1>3. t \in Seq(Callbacks) /\ ToSet(t) = {x} \cup ToSet(agenda)
  BY <1>2, AgendaType, SetCat
<1>4. agenda' = ResetItems(c) \o t
  <2>1. agenda' = (ResetItems(c) \o u) \o agenda  BY DEF FreeConnection, u, x
  <2>2. (ResetItems(c) \o u) \o agenda = ResetItems(c) \o (u \o agenda)
    BY <1>2, AgendaType, ResetItemsAre, ConcatAssociative
  <2> QED  BY <2>1, <2>2
<1> HIDE DEF t
<1>5. agenda' \in Seq(Callbacks) /\ ToSet(agenda') = CloseOf(c) \cup ToSet(t)
  <2>1. TRUE \in BOOLEAN  OBVIOUS
  <2> QED  BY <1>3, <1>4, <2>1, CloseFirst
<1>6. OnAgenda("close", c) \in BOOLEAN /\ Note("close inside", OnAgenda("close", c))
  BY DEF FreeConnection, OnAgenda
<1> QED  BY <1>3, <1>5, <1>6, NoteType DEF x

\* When it was not to be freed already, it is once, after its callbacks.
LEMMA FreeConnectionOrdered ==
  ASSUME TypeOK, NEW c \in Conns, FreeConnection(c), ~OnAgenda("free", c),
         NEW w \in BOOLEAN, Ordered(agenda, w), OnAgenda("close", c) => w
  PROVE  Ordered(agenda', w)
<1> DEFINE x == Item("free", c, None)
           u == <<x>>
           t == u \o agenda
<1>1. x \in Callbacks /\ x.cb = "free" /\ x.of = c
  BY ItemIs DEF Item, Callbacks, Singles
<1> HIDE DEF x
<1>2. u \in Seq(Callbacks) /\ ToSet(u) = {x} /\ Ordered(u, w)
  BY <1>1, SetOne, OrderedFew
<1> HIDE DEF u
<1>3. \A y \in ToSet(agenda) : Before(x, y, w)
  BY <1>1, InsideIs DEF Before
<1>4. t \in Seq(Callbacks) /\ Ordered(t, w)
  BY <1>2, <1>3, AgendaType, SetCat, OrderedCat
<1>5. agenda' = ResetItems(c) \o t
  <2>1. agenda' = (ResetItems(c) \o u) \o agenda  BY DEF FreeConnection, u, x
  <2>2. (ResetItems(c) \o u) \o agenda = ResetItems(c) \o (u \o agenda)
    BY <1>2, AgendaType, ResetItemsAre, ConcatAssociative
  <2> QED  BY <2>1, <2>2
<1> HIDE DEF t
<1> QED  BY <1>4, <1>5, CloseFirst

\* What may come in any order still may.
LEMMA OrderedStays ==
  ASSUME NEW s, NEW v \in BOOLEAN, NEW w \in BOOLEAN, v => w, Ordered(s, v)
  PROVE  Ordered(s, w)
BY DEF Ordered

\* make_request() gives the request to the connection, or it is freed.
LEMMA MakeType ==
  ASSUME TypeOK, NEW r \in Reqs, NEW c \in Conns, Make(r, c)
  PROVE  /\ queue' \in [Conns -> Seq(Reqs)] /\ outstanding' \subseteq Reqs
         /\ told' \in [Reqs -> Seq({"done", "error", "null", "refused"})]
         /\ faults' \subseteq {"double free", "use after free", "dead functor",
                         "dead cell"}
         /\ freed' \subseteq Reqs \cup Conns
<1>1. CASE /\ queue' = [queue EXCEPT ![c] = Append(@, r)]
           /\ outstanding' = outstanding \cup {r}
           /\ faults' = faults \cup (IF r \in freed THEN {"use after free"} ELSE {})
           /\ UNCHANGED <<freed, told>>
  <2>1. queue[c] \in Seq(Reqs)  BY DEF TypeOK
  <2>3. Append(queue[c], r) \in Seq(Reqs)  BY <2>1, SetAppend
  <2>2. queue' \in [Conns -> Seq(Reqs)]  BY <1>1, <2>3 DEF TypeOK
  <2> QED  BY <1>1, <2>2 DEF TypeOK
<1>2. CASE /\ Free({r}) /\ told' = [told EXCEPT ![r] = Append(@, "refused")]
           /\ UNCHANGED <<queue, outstanding>>
  <2>1. told[r] \in Seq({"done", "error", "null", "refused"})  BY DEF TypeOK
  <2>2. Append(told[r], "refused") \in Seq({"done", "error", "null", "refused"})
    BY <2>1
  <2>3. told' \in [Reqs -> Seq({"done", "error", "null", "refused"})]
    BY <1>2, <2>2 DEF TypeOK
  <2>4. /\ freed' \subseteq Reqs \cup Conns
        /\ faults' \subseteq {"double free", "use after free", "dead functor",
                         "dead cell"}
    BY <1>2, FreeType
  <2> QED  BY <1>2, <2>3, <2>4 DEF TypeOK
<1> QED  BY <1>1, <1>2 DEF Make

\* The operations of a connection.
LEMMA ConnectionType ==
  ASSUME TypeOK, Base, ConnectionNext
  PROVE  TypeOK'
<1> USE AgendaTyped
<1>1. ASSUME NEW k \in Connections, NEW c \in Conns, ConstructConnection(k, c)
      PROVE  TypeOK'
  <2>1. handle' = [handle EXCEPT ![k] = c]  BY <1>1 DEF ConstructConnection
  <2>2. /\ handle' \in [Objs -> Reqs \cup Conns \cup {None}]
        /\ \A p \in Requests : handle'[p] \in Reqs \cup {None}
        /\ \A l \in Connections : handle'[l] \in Conns \cup {None}
    BY <2>1, PutHandle, Apart
  <2> QED  BY <1>1, <2>2 DEF TypeOK, ConstructConnection, reqs, outcome
<1>2. ASSUME NEW k \in Connections, NEW c \in Conns, CreateConnection(k, c)
      PROVE  TypeOK'
  <2>1. handle' = [handle EXCEPT ![k] = c] /\ handle[k] \in Conns
    BY <1>2, HandleType DEF CreateConnection
  <2>2. /\ handle' \in [Objs -> Reqs \cup Conns \cup {None}]
        /\ \A p \in Requests : handle'[p] \in Reqs \cup {None}
        /\ \A l \in Connections : handle'[l] \in Conns \cup {None}
    BY <2>1, PutHandle, Apart
  <2>3. FreeConnection(handle[k])  BY <1>2 DEF CreateConnection
  <2> QED
    BY <1>2, <2>1, <2>2, <2>3, FreeConnectionType DEF TypeOK, CreateConnection, reqs, outcome
<1>3. ASSUME NEW k \in Connections, CloseConnection(k) PROVE TypeOK'
  <2>1. handle' = [handle EXCEPT ![k] = None] /\ handle[k] \in Conns
    BY <1>3, HandleType DEF CloseConnection
  <2>2. /\ handle' \in [Objs -> Reqs \cup Conns \cup {None}]
        /\ \A p \in Requests : handle'[p] \in Reqs \cup {None}
        /\ \A l \in Connections : handle'[l] \in Conns \cup {None}
    BY <2>1, PutHandle, Apart
  <2>3. FreeConnection(handle[k])  BY <1>3 DEF CloseConnection
  <2> QED
    BY <1>3, <2>1, <2>2, <2>3, FreeConnectionType DEF TypeOK, CloseConnection, reqs, conns,
       outcome
<1>4. ASSUME NEW k \in Connections, Release(k) PROVE TypeOK'
  <2>1. handle' = [handle EXCEPT ![k] = None]  BY <1>4 DEF Release
  <2>2. /\ handle' \in [Objs -> Reqs \cup Conns \cup {None}]
        /\ \A p \in Requests : handle'[p] \in Reqs \cup {None}
        /\ \A l \in Connections : handle'[l] \in Conns \cup {None}
    BY <2>1, PutHandle, Apart
  <2> QED  BY <1>4, <2>2 DEF TypeOK, Release, reqs, conns, outcome
<1>5. ASSUME NEW k \in Connections, NEW l \in Connections, Move(k, l) PROVE TypeOK'
  <2>1. /\ handle' \in [Objs -> Reqs \cup Conns \cup {None}]
        /\ \A q \in Requests : handle'[q] \in Reqs \cup {None}
        /\ \A m \in Connections : handle'[m] \in Conns \cup {None}
    BY <1>5, SwapHandles, Apart DEF Move
  <2> QED  BY <1>5, <2>1 DEF TypeOK, Move, reqs, conns, outcome
<1>6. ASSUME NEW k \in Connections, NEW f \in Functors, OnCloseRef(k, f) PROVE TypeOK'
  <2>1. closecb' \in [Conns -> Functors \cup Cells \cup {None}]
    BY <1>6 DEF TypeOK, OnCloseRef
  <2> QED  BY <1>6, <2>1 DEF TypeOK, OnCloseRef, reqs, outcome
<1>7. ASSUME NEW k \in Connections, NEW f \in Cells, OnCloseMove(k, f) PROVE TypeOK'
  <2>1. closecb' \in [Conns -> Functors \cup Cells \cup {None}]
    BY <1>7 DEF TypeOK, OnCloseMove
  <2>2. life' \in [Functors \cup Cells -> {"raw", "alive", "dead"}]
    BY <1>7 DEF TypeOK, OnCloseMove
  <2> QED  BY <1>7, <2>1, <2>2 DEF TypeOK, OnCloseMove, reqs, outcome
<1>8. ASSUME NEW o \in Requests, NEW k \in Connections, MakeRequest(o, k) PROVE TypeOK'
  <2>1. /\ handle' = [handle EXCEPT ![o] = None] /\ handle[k] \in Conns
        /\ handle[o] \in Reqs /\ Make(handle[o], handle[k])
    BY <1>8, HandleType DEF MakeRequest
  <2>2. /\ handle' \in [Objs -> Reqs \cup Conns \cup {None}]
        /\ \A p \in Requests : handle'[p] \in Reqs \cup {None}
        /\ \A l \in Connections : handle'[l] \in Conns \cup {None}
    BY <2>1, PutHandle, Apart
  <2> QED  BY <1>8, <2>1, <2>2, MakeType DEF TypeOK, MakeRequest, reqs
<1>9. ASSUME NEW r \in Reqs, NEW k \in Connections, MakeReleased(r, k) PROVE TypeOK'
  <2>1. handle[k] \in Conns /\ Make(r, handle[k])
    BY <1>9, HandleType DEF MakeReleased
  <2> QED  BY <1>9, <2>1, MakeType DEF TypeOK, MakeReleased, reqs
<1> QED
  BY <1>1, <1>2, <1>3, <1>4, <1>5, <1>6, <1>7, <1>8, <1>9 DEF ConnectionNext

\* The request at the head of a queue.
LEMMA FirstIs ==
  ASSUME TypeOK, Base, NEW c \in Conns, queue[c] # <<>>
  PROVE  /\ Head(queue[c]) \in Reqs /\ InQueue(Head(queue[c]))
         /\ fn[Head(queue[c])] # None /\ fn[Head(queue[c])] \in Functors
         /\ Head(queue[c]) \in outstanding \ freed
         /\ Tail(queue[c]) \in Seq(Reqs)
         /\ ToSet(queue[c]) = {Head(queue[c])} \cup ToSet(Tail(queue[c]))
         /\ Head(queue[c]) \notin ToSet(Tail(queue[c]))
<1> DEFINE r == Head(queue[c])
<1>1. queue[c] \in Seq(Reqs)  BY DEF TypeOK
<1>2. /\ r \in Reqs /\ Tail(queue[c]) \in Seq(Reqs)
      /\ ToSet(queue[c]) = {r} \cup ToSet(Tail(queue[c]))
  BY <1>1, SetHead
<1>3. InQueue(r)  BY <1>2 DEF InQueue
<1>4. r \in outstanding \ freed  BY <1>2, <1>3 DEF Base, Queues
<1>5. fn[r] # None /\ fn[r] \in Functors  BY <1>2, <1>4 DEF Base, Settled, TypeOK
<1>6. r \notin ToSet(Tail(queue[c]))
  <2>1. /\ Len(queue[c]) \in Nat \ {0} /\ DOMAIN queue[c] = 1 .. Len(queue[c])
        /\ r = queue[c][1] /\ DOMAIN Tail(queue[c]) = 1 .. (Len(queue[c]) - 1)
        /\ \A i \in 1 .. (Len(queue[c]) - 1) : Tail(queue[c])[i] = queue[c][i + 1]
    BY <1>1, HeadTailProperties, EmptySeq, LenProperties
  <2>2. ASSUME NEW i \in DOMAIN Tail(queue[c]) PROVE Tail(queue[c])[i] # r
    <3>1. 1 \in DOMAIN queue[c] /\ i + 1 \in DOMAIN queue[c] /\ 1 # i + 1  BY <2>1
    <3>2. queue[c][1] # queue[c][i + 1]  BY <3>1 DEF Base, Queues
    <3> QED  BY <2>1, <3>2
  <2> QED  BY <2>2 DEF ToSet
<1> QED  BY <1>2, <1>3, <1>4, <1>5, <1>6

\* The callbacks of a connection that could not connect.
LEMMA AllDone ==
  ASSUME TypeOK, Base, NEW c \in Conns,
         NEW s, s = [i \in DOMAIN queue[c] |-> Item("done", queue[c][i], fn[queue[c][i]])]
  PROVE  /\ s \in Seq(Callbacks) /\ Ordered(s, Wrong)
         /\ ToSet(s) = {Item("done", r, fn[r]) : r \in ToSet(queue[c])}
<1>1. /\ queue[c] \in Seq(Reqs) /\ Len(queue[c]) \in Nat
      /\ DOMAIN queue[c] = 1 .. Len(queue[c])
  BY LenProperties DEF TypeOK
<1>2. ASSUME NEW i \in DOMAIN queue[c]
      PROVE  Item("done", queue[c][i], fn[queue[c][i]]) \in Callbacks
  <2>1. queue[c][i] \in Reqs /\ InQueue(queue[c][i])
    BY <1>1 DEF InQueue, ToSet
  <2>2. queue[c][i] \in outstanding  BY <2>1 DEF Base, Queues
  <2>3. fn[queue[c][i]] # None  BY <2>1, <2>2 DEF Base, Settled
  <2>4. fn[queue[c][i]] \in Functors  BY <2>1, <2>3 DEF TypeOK
  <2> QED  BY <2>1, <2>4 DEF Item, Callbacks, Singles, Endings
<1>3. s \in Seq(Callbacks)  BY <1>1, <1>2
<1>4. DOMAIN s = DOMAIN queue[c] /\ \A i \in DOMAIN s :
        s[i] = Item("done", queue[c][i], fn[queue[c][i]])
  OBVIOUS
<1>5. Ordered(s, Wrong)
  <2>1. \A i, j \in DOMAIN s : queue[c][i] = queue[c][j] => i = j
    BY <1>4 DEF Base, Queues
  <2> QED  BY <1>4, <2>1, ItemIs DEF Ordered
<1>6. ToSet(s) = {Item("done", r, fn[r]) : r \in ToSet(queue[c])}
  BY <1>4 DEF ToSet
<1> QED  BY <1>3, <1>5, <1>6

\* An agenda of one callback.
LEMMA OneItem ==
  ASSUME NEW x \in Callbacks
  PROVE  <<x>> \in Seq(Callbacks) /\ (\A w : Ordered(<<x>>, w)) /\ ToSet(<<x>>) = {x}
BY SetOne, OrderedFew

\* The response is complete.
LEMMA CompleteAgenda ==
  ASSUME TypeOK, Base, NEW c \in Conns, NEW keep \in BOOLEAN, Complete(c, keep)
  PROVE  LET r == Head(queue[c]) IN
         /\ agenda' \in Seq(Callbacks) /\ Ordered(agenda', Wrong)
         /\ ToSet(agenda') = (IF keep THEN {} ELSE CloseOf(c)) \cup {Item("done", r, fn[r])}
<1> DEFINE r == Head(queue[c])
           x == Item("done", r, fn[r])
<1>1. /\ queue[c] # <<>>
      /\ agenda' = (IF keep THEN <<>> ELSE ResetItems(c)) \o <<x>>
  BY DEF Complete
<1>2. x \in Callbacks  BY <1>1, FirstIs DEF Item, Callbacks, Singles, Endings
<1> HIDE DEF x
<1>3. <<x>> \in Seq(Callbacks) /\ (\A w : Ordered(<<x>>, w)) /\ ToSet(<<x>>) = {x}
  BY <1>2, OneItem
<1>4. CASE keep
  <2>1. agenda' = <<x>>  BY <1>1, <1>3, <1>4, ConcatEmptySeq
  <2> QED  BY <1>3, <1>4, <2>1 DEF x
<1>5. CASE ~keep
  <2> DEFINE t == <<x>>
  <2> HIDE DEF t
  <2>1. agenda' = ResetItems(c) \o t  BY <1>1, <1>5 DEF t
  <2>2. t \in Seq(Callbacks) /\ Ordered(t, Wrong) /\ ToSet(t) = {x}  BY <1>3 DEF t
  <2> QED  BY <1>5, <2>1, <2>2, CloseFirst DEF x, Wrong
<1> QED  BY <1>4, <1>5

\* The first request fails.
LEMMA FailAgenda ==
  ASSUME TypeOK, Base, NEW c \in Conns, Fail(c)
  PROVE  LET r == Head(queue[c]) IN
         /\ agenda' \in Seq(Callbacks) /\ Ordered(agenda', Wrong)
         /\ ToSet(agenda') = CloseOf(c) \cup ErrorOf(r) \cup {Item("null", r, fn[r])}
<1> DEFINE r == Head(queue[c])
           x == Item("null", r, fn[r])
<1>1. queue[c] # <<>> /\ agenda' = ResetItems(c) \o ErrorItems(r) \o <<x>>
  BY DEF Fail
<1>2. r \in Reqs /\ fn[r] # None  BY <1>1, FirstIs
<1>3. x \in Callbacks  BY <1>1, FirstIs DEF Item, Callbacks, Singles, Endings
<1>4. x.cb = "null"  BY ItemIs
<1> HIDE DEF x
<1> DEFINE u == <<x>>
<1>5. u \in Seq(Callbacks) /\ Ordered(u, Wrong) /\ ToSet(u) = {x}  BY <1>3, OneItem
<1> HIDE DEF u
<1> DEFINE t == ErrorItems(r) \o u
<1>6. t \in Seq(Callbacks) /\ ToSet(t) = ErrorOf(r) \cup {x} /\ Ordered(t, Wrong)
  <2>1. \A y \in ToSet(u) : ~(y.cb = "error" /\ y.of = r)  BY <1>4, <1>5
  <2> QED  BY <1>2, <1>5, <2>1, Failed DEF Wrong
<1>7. agenda' = ResetItems(c) \o t
  <2>1. ErrorItems(r) \in Seq(Callbacks) /\ ResetItems(c) \in Seq(Callbacks)
    BY <1>2, ErrorItemsAre, ResetItemsAre
  <2>2. (ResetItems(c) \o ErrorItems(r)) \o u = ResetItems(c) \o (ErrorItems(r) \o u)
    BY <1>5, <2>1, ConcatAssociative
  <2> QED  BY <1>1, <2>2 DEF u
<1> HIDE DEF t
<1>8. /\ agenda' \in Seq(Callbacks) /\ ToSet(agenda') = CloseOf(c) \cup ToSet(t)
      /\ Ordered(agenda', Wrong)
  BY <1>6, <1>7, CloseFirst DEF Wrong
<1> QED  BY <1>6, <1>8 DEF x

\* The first callback is called, and returns.
LEMMA CallAgenda ==
  ASSUME TypeOK, Base, Call
  PROVE  LET x == Head(agenda) IN
         /\ x \in Callbacks /\ ~x.runs
         /\ x \in ToSet(agenda) /\ \A y \in ToSet(Tail(agenda)) : Before(x, y, Wrong)
         /\ ToSet(agenda) = {x} \cup ToSet(Tail(agenda))
         /\ agenda' \in Seq(Callbacks) /\ Ordered(agenda', Wrong) /\ agenda' # <<>>
         /\ Head(agenda') = [x EXCEPT !.runs = TRUE]
         /\ ToSet(agenda') = {[x EXCEPT !.runs = TRUE]} \cup ToSet(Tail(agenda))
<1> DEFINE x == Head(agenda)
           y == [x EXCEPT !.runs = TRUE]
<1>1. /\ agenda # <<>> /\ ~x.runs /\ agenda' = [agenda EXCEPT ![1].runs = TRUE]
  BY DEF Call
<1>2. agenda \in Seq(Callbacks) /\ Ordered(agenda, Wrong)  BY AgendaType DEF Base, Agenda
<1>3. /\ x \in Callbacks /\ x = agenda[1] /\ 1 \in DOMAIN agenda
      /\ ToSet(agenda) = {x} \cup ToSet(Tail(agenda))
      /\ \A z \in ToSet(Tail(agenda)) : Before(x, z, Wrong)
  BY <1>1, <1>2, SetHead, OrderedTail DEF Wrong
<1>4. y \in Callbacks /\ y.cb = x.cb /\ y.of = x.of  BY <1>3 DEF Callbacks
<1>5. agenda' = [agenda EXCEPT ![1] = y]  BY <1>1, <1>3
<1> HIDE DEF y
<1>6. /\ agenda' \in Seq(Callbacks) /\ DOMAIN agenda' = DOMAIN agenda
      /\ Len(agenda') = Len(agenda) /\ Len(agenda) \in Nat \ {0}
      /\ DOMAIN agenda = 1 .. Len(agenda)
      /\ \A i \in DOMAIN agenda : agenda'[i] = IF i = 1 THEN y ELSE agenda[i]
  <2>1. Len(agenda) \in Nat \ {0} /\ DOMAIN agenda = 1 .. Len(agenda)
    BY <1>1, <1>2, EmptySeq, LenProperties
  <2>2. 1 \in 1 .. Len(agenda)  BY <2>1
  <2>3. agenda' \in Seq(Callbacks) /\ Len(agenda') = Len(agenda)
    BY <1>2, <1>4, <1>5, <2>2, ExceptSeq
  <2>4. DOMAIN agenda' = DOMAIN agenda
        /\ \A i \in DOMAIN agenda : agenda'[i] = IF i = 1 THEN y ELSE agenda[i]
    BY <1>5
  <2> QED  BY <2>1, <2>3, <2>4
<1>7. /\ agenda' # <<>> /\ Head(agenda') = y  BY <1>3, <1>6
<1>8. \A i \in DOMAIN agenda : agenda'[i].cb = agenda[i].cb /\ agenda'[i].of = agenda[i].of
  BY <1>3, <1>4, <1>6
<1>9. Ordered(agenda', Wrong)  BY <1>2, <1>6, <1>8 DEF Ordered
<1>10. Tail(agenda') = Tail(agenda)
  <2>1. /\ Tail(agenda) \in Seq(Callbacks) /\ Len(Tail(agenda)) = Len(agenda) - 1
        /\ \A i \in 1 .. (Len(agenda) - 1) : Tail(agenda)[i] = agenda[i + 1]
    BY <1>1, <1>2, HeadTailProperties
  <2>2. /\ Tail(agenda') \in Seq(Callbacks) /\ Len(Tail(agenda')) = Len(agenda) - 1
        /\ \A i \in 1 .. (Len(agenda) - 1) : Tail(agenda')[i] = agenda'[i + 1]
    BY <1>6, <1>7, HeadTailProperties
  <2>3. \A i \in 1 .. (Len(agenda) - 1) : agenda'[i + 1] = agenda[i + 1]
    <3>1. \A i \in 1 .. (Len(agenda) - 1) : i + 1 \in DOMAIN agenda /\ i + 1 # 1
      BY <1>6
    <3> QED  BY <3>1, <1>6
  <2>4. \A i \in 1 .. Len(Tail(agenda)) : Tail(agenda')[i] = Tail(agenda)[i]
    BY <2>1, <2>2, <2>3
  <2> QED  BY <2>1, <2>2, <2>4, SeqEqual
<1>11. ToSet(agenda') = {y} \cup ToSet(Tail(agenda))
  BY <1>6, <1>7, <1>10, SetHead
<1> QED  BY <1>1, <1>3, <1>6, <1>7, <1>9, <1>11 DEF y

\* The callback that returns is the first of the agenda, the others come after it.
LEMMA ReturnAgenda ==
  ASSUME TypeOK, Base, Return
  PROVE  LET x == Head(agenda) IN
         /\ x \in Callbacks /\ x.runs
         /\ x \in ToSet(agenda) /\ \A y \in ToSet(agenda') : Before(x, y, Wrong)
         /\ ToSet(agenda) = {x} \cup ToSet(agenda')
         /\ agenda' \in Seq(Callbacks) /\ Ordered(agenda', Wrong)
<1>1. agenda # <<>> /\ Head(agenda).runs /\ agenda' = Tail(agenda)  BY DEF Return
<1>2. agenda \in Seq(Callbacks) /\ Ordered(agenda, Wrong)  BY AgendaType DEF Base, Agenda
<1> QED  BY <1>1, <1>2, SetHead, OrderedTail DEF Wrong

\* The steps of the loop.
LEMMA LoopType ==
  ASSUME TypeOK, Base, LoopNext
  PROVE  TypeOK'
<1> USE AgendaTyped
<1>1. ASSUME NEW c \in Conns, Connect(c) PROVE TypeOK'
  BY <1>1 DEF TypeOK, Connect, reqs, outcome
<1>2. ASSUME NEW c \in Conns, ConnectFails(c) PROVE TypeOK'
  <2>1. agenda' \in Seq(Callbacks)  BY <1>2, AllDone DEF ConnectFails
  <2>2. <<>> \in Seq(Reqs)  BY EmptySeq
  <2>3. queue' \in [Conns -> Seq(Reqs)]  BY <1>2, <2>2 DEF ConnectFails, TypeOK
  <2> QED  BY <1>2, <2>1, <2>3 DEF TypeOK, ConnectFails, reqs, outcome
<1>3. ASSUME NEW c \in Conns, FreeRest(c) PROVE TypeOK'
  <2>1. agenda # <<>> /\ agenda' = Tail(agenda)  BY <1>3 DEF FreeRest
  <2>2. agenda' \in Seq(Callbacks)  BY <2>1, AgendaType, SetHead
  <2>3. {c} \cup ToSet(queue[c]) \subseteq Reqs \cup Conns
    <3>1. queue[c] \in Seq(Reqs)  BY DEF TypeOK
    <3> QED  BY <3>1 DEF ToSet
  <2>4. /\ freed' \subseteq Reqs \cup Conns
        /\ faults' \subseteq {"double free", "use after free", "dead functor",
                              "dead cell"}
    BY <1>3, <2>3, FreeType DEF FreeRest
  <2>5. queue' \in [Conns -> Seq(Reqs)]
    <3>1. <<>> \in Seq(Reqs)  BY EmptySeq
    <3> QED  BY <1>3, <3>1 DEF TypeOK, FreeRest
  <2>6. ToSet(queue[c]) \subseteq Reqs
    <3>1. queue[c] \in Seq(Reqs)  BY DEF TypeOK
    <3> QED  BY <3>1 DEF ToSet
  <2>7. up' \subseteq made' /\ outstanding' \subseteq Reqs /\ dismissed' \subseteq Reqs
    BY <1>3, <2>6 DEF TypeOK, FreeRest
  <2> QED  BY <1>3, <2>2, <2>4, <2>5, <2>7 DEF TypeOK, FreeRest, reqs
<1>4. ASSUME NEW c \in Conns, NEW keep \in BOOLEAN, Complete(c, keep) PROVE TypeOK'
  <2>1. agenda' \in Seq(Callbacks)  BY <1>4, CompleteAgenda
  <2>2. Tail(queue[c]) \in Seq(Reqs)  BY <1>4, FirstIs DEF Complete
  <2>3. queue' \in [Conns -> Seq(Reqs)]  BY <1>4, <2>2 DEF Complete, TypeOK
  <2>4. up' \subseteq made  BY <1>4 DEF Complete, Reset, TypeOK
  <2> QED  BY <1>4, <2>1, <2>3, <2>4 DEF TypeOK, Complete, reqs, outcome
<1>5. ASSUME NEW c \in Conns, Fail(c) PROVE TypeOK'
  <2>1. agenda' \in Seq(Callbacks)  BY <1>5, FailAgenda
  <2>2. Tail(queue[c]) \in Seq(Reqs) /\ Head(queue[c]) \in Reqs
    BY <1>5, FirstIs DEF Fail
  <2>3. queue' \in [Conns -> Seq(Reqs)]  BY <1>5, <2>2 DEF Fail, TypeOK
  <2>4. up' \subseteq made  BY <1>5 DEF Fail, Reset, TypeOK
  <2>5. {Head(queue[c])} \ own \subseteq Reqs \cup Conns  BY <2>2
  <2>6. /\ freed' \subseteq Reqs \cup Conns
        /\ faults' \subseteq {"double free", "use after free", "dead functor",
                         "dead cell"}
    BY <1>5, <2>5, FreeType DEF Fail
  <2> QED  BY <1>5, <2>1, <2>3, <2>4, <2>6 DEF TypeOK, Fail, reqs, outcome
<1>6. ASSUME NEW c \in Conns, PeerCloses(c) PROVE TypeOK'
  <2>1. agenda' \in Seq(Callbacks)  BY <1>6, ResetItemsAre DEF PeerCloses
  <2>2. up' \subseteq made  BY <1>6 DEF PeerCloses, Reset, TypeOK
  <2> QED  BY <1>6, <2>1, <2>2 DEF TypeOK, PeerCloses, reqs, outcome
<1>7. CASE Call
  <2> DEFINE x == Head(agenda)
  <2>1. agenda' \in Seq(Callbacks) /\ x \in ToSet(agenda)  BY <1>7, CallAgenda
  <2>2. told' \in [Reqs -> Seq({"done", "error", "null", "refused"})]
    <3>1. CASE x.cb \in {"done", "error", "null"}
      <4>1. x.of \in Reqs
        <5>1. Fits(x)  BY <2>1 DEF Base, Agenda
        <5> QED  BY <3>1, <5>1 DEF Fits, Endings
      <4>2. told' = [told EXCEPT ![x.of] = Append(told[x.of], x.cb)]
        BY <1>7, <3>1 DEF Call
      <4>3. told[x.of] \in Seq({"done", "error", "null", "refused"})
        BY <4>1 DEF TypeOK
      <4>4. Append(told[x.of], x.cb) \in Seq({"done", "error", "null", "refused"})
        BY <3>1, <4>3, SetAppend
      <4> QED  BY <4>2, <4>4 DEF TypeOK
    <3>2. CASE x.cb \notin {"done", "error", "null"}
      BY <1>7, <3>2 DEF Call, TypeOK
    <3> QED  BY <3>1, <3>2
  <2>3. outstanding' \subseteq Reqs  BY <1>7 DEF Call, TypeOK
  <2>4. faults' \subseteq {"double free", "use after free", "dead functor",
                         "dead cell"}
    BY <1>7 DEF Call, Lacks, TypeOK
  <2> QED  BY <1>7, <2>1, <2>2, <2>3, <2>4 DEF TypeOK, Call, reqs, conns
<1>8. CASE Return
  <2> DEFINE x == Head(agenda)
  <2>1. agenda' \in Seq(Callbacks) /\ x \in Callbacks  BY <1>8, ReturnAgenda
  <2>2. life' \in [Functors \cup Cells -> {"raw", "alive", "dead"}]
    BY <1>8 DEF Return, TypeOK
  <2>3. /\ freed' \subseteq Reqs \cup Conns
        /\ faults' \subseteq {"double free", "use after free", "dead functor",
                         "dead cell"}
    <3>1. CASE Resume(x.cb, x.of)
      <4>1. CASE x.cb = "done"
        <5>1. {x.of} \ own \subseteq Reqs \cup Conns  BY <2>1 DEF Callbacks
        <5> QED  BY <3>1, <4>1, <5>1, FreeType DEF Resume
      <4>2. CASE x.cb # "done"  BY <3>1, <4>2 DEF Resume, TypeOK
      <4> QED  BY <4>1, <4>2
    <3>2. CASE ~Resume(x.cb, x.of)  BY <1>8, <3>2 DEF Return, TypeOK
    <3> QED  BY <3>1, <3>2
  <2>4. up' \subseteq made'  BY <1>8 DEF Return, Resume, TypeOK
  <2> QED  BY <1>8, <2>1, <2>2, <2>3, <2>4 DEF TypeOK, Return, reqs, outcome
<1> QED
  BY <1>1, <1>2, <1>3, <1>4, <1>5, <1>6, <1>7, <1>8 DEF LoopNext

\* The program ends a functor.
LEMMA EndLifeType ==
  ASSUME TypeOK, NEW f \in Functors, EndLife(f)
  PROVE  TypeOK'
<1>1. life' \in [Functors \cup Cells -> {"raw", "alive", "dead"}]
  BY DEF TypeOK, EndLife
<1>2. misuse' \subseteq {"cancel held", "cancel told", "cancel done", "cancel failed",
                          "close inside", "ended on error"}
  BY DEF EndLife, Note, TypeOK
<1> QED  BY <1>1, <1>2 DEF TypeOK, EndLife, reqs, conns, outcome

-----------------------------------------------------------------------------
(* Faults.                                                                  *)

\* A misuse is not forgotten.
LEMMA MisuseGrows == Next => misuse \subseteq misuse'
<1> SUFFICES ASSUME Next PROVE misuse \subseteq misuse'  OBVIOUS
<1>1. ASSUME RequestNext PROVE misuse \subseteq misuse'
  BY <1>1 DEF RequestNext, ConstructRequest, CreateRequest, CloseRequest, Move, Release,
              Own, Cancel
<1>2. \A c : FreeConnection(c) => misuse \subseteq misuse'  BY DEF FreeConnection, Note
<1>3. ASSUME ConnectionNext PROVE misuse \subseteq misuse'
  BY <1>2, <1>3 DEF ConnectionNext, ConstructConnection, CreateConnection,
       CloseConnection, Move, Release, OnCloseRef, OnCloseMove, MakeRequest, MakeReleased
<1>4. ASSUME LoopNext PROVE misuse \subseteq misuse'
  BY <1>4 DEF LoopNext, Connect, ConnectFails, FreeRest, Complete, Fail, PeerCloses, Call,
              Return
<1>5. ASSUME NEW f \in Functors, EndLife(f) PROVE misuse \subseteq misuse'
  BY <1>5 DEF EndLife, Note
<1> QED  BY <1>1, <1>3, <1>4, <1>5 DEF Next

\* Nor is one that OnePlace excludes.
LEMMA WrongStays == Next => (Wrong => Wrong')
BY MisuseGrows DEF Wrong

\* Only a structure that was freed is freed twice.
LEMMA FreeFaults ==
  ASSUME faults = {}, NEW xs, Free(xs)
  PROVE  /\ freed' = freed \cup xs /\ "dead functor" \notin faults'
         /\ Gone' => \E x \in xs : x \in freed
BY DEF Free, Gone

\* A request that an object owns and that is freed was cancelled.
LEMMA HeldFreed ==
  ASSUME TypeOK, Base, NEW o \in Requests, handle[o] # None, handle[o] \in freed
  PROVE  Wrong
<1>1. handle[o] \in Reqs /\ Held(handle[o])  BY HandleType DEF Held
<1> QED  BY <1>1 DEF Base, Handles, Unsent

\* The requests of a connection are there.
LEMMA OnConnection ==
  ASSUME TypeOK, Base, NEW c \in Conns
  PROVE  /\ ToSet(queue[c]) \subseteq Reqs /\ ToSet(queue[c]) \cap freed = {}
         /\ \A r \in ToSet(queue[c]) : InQueue(r)
<1>1. ToSet(queue[c]) \subseteq Reqs
  <2>1. queue[c] \in Seq(Reqs)  BY DEF TypeOK
  <2> QED  BY <2>1 DEF ToSet
<1>2. \A r \in ToSet(queue[c]) : InQueue(r)  BY DEF InQueue
<1> QED  BY <1>1, <1>2 DEF Base, Queues

\* The connection to be freed is there, and is not among what comes after.
LEMMA FreeFirst ==
  ASSUME TypeOK, Base, NEW c \in Conns, FreeRest(c)
  PROVE  /\ c \in made \ freed /\ agenda' \in Seq(Callbacks)
         /\ ToSet(agenda) = {Item("free", c, None)} \cup ToSet(agenda')
         /\ \A y \in ToSet(agenda') : Before(Item("free", c, None), y, Wrong)
         /\ Ordered(agenda', Wrong)
<1>1. agenda # <<>> /\ Head(agenda) = Item("free", c, None) /\ agenda' = Tail(agenda)
  BY DEF FreeRest
<1>2. agenda \in Seq(Callbacks) /\ Ordered(agenda, Wrong) /\ Wrong \in BOOLEAN
  BY AgendaType DEF Base, Agenda, Wrong
<1>3. Head(agenda) \in ToSet(agenda)  BY <1>1, <1>2, SetHead
<1>4. c \in made \ freed
  <2> DEFINE x == Item("free", c, None)
  <2>1. Fits(x)  BY <1>1, <1>3 DEF Base, Agenda
  <2>2. x.cb = "free" /\ x.of = c  BY ItemIs
  <2> HIDE DEF x
  <2> QED  BY <2>1, <2>2 DEF Fits
<1> QED  BY <1>1, <1>2, <1>4, SetHead, OrderedTail

\* A connection that is there frees its requests, which are there, and itself.
LEMMA FreeRestFaults ==
  ASSUME TypeOK, Base, faults = {}, NEW c \in Conns, FreeRest(c)
  PROVE  /\ ~Gone' /\ "dead functor" \notin faults'
         /\ freed' = freed \cup {c} \cup ToSet(queue[c])
<1> DEFINE xs == {c} \cup ToSet(queue[c])
<1>1. xs \cap freed = {}  BY OnConnection, FreeFirst
<1>2. Free(xs)  BY DEF FreeRest
<1> HIDE DEF xs
<1>3. freed' = freed \cup xs /\ "dead functor" \notin faults' /\ ~Gone'
  BY <1>1, <1>2, FreeFaults
<1> QED  BY <1>3 DEF xs

\* make_request() uses a request that was freed, or nothing goes wrong.
LEMMA MakeFaults ==
  ASSUME faults = {}, NEW r \in Reqs, NEW c \in Conns, Make(r, c)
  PROVE  "dead functor" \notin faults' /\ (Gone' => r \in freed)
<1>3. ASSUME Free({r}) PROVE Gone' => r \in freed
  <2>1. Gone' => \E x \in {r} : x \in freed  BY <1>3, FreeFaults
  <2> QED  BY <2>1
<1>1. CASE faults' = faults \cup (IF r \in freed THEN {"use after free"} ELSE {})
  BY <1>1 DEF Gone
<1>2. CASE Free({r})  BY <1>2, <1>3, FreeFaults
<1> QED  BY <1>1, <1>2 DEF Make

\* The operations of a request.
LEMMA RequestFaults ==
  ASSUME TypeOK, Base, faults = {}, RequestNext, misuse \subseteq misuse'
  PROVE  "dead functor" \notin faults' /\ (Gone' => Wrong')
<1>1. Wrong => Wrong'  BY DEF Wrong
<1>2. ASSUME UNCHANGED faults
      PROVE  "dead functor" \notin faults' /\ ~Gone'
  BY <1>2 DEF Gone
<1>3. ASSUME NEW o \in Requests, NEW r \in Reqs, NEW f \in Functors, CreateRequest(o, r, f)
      PROVE  "dead functor" \notin faults' /\ (Gone' => Wrong')
  <2>1. Free({handle[o]} \ {None})  BY <1>3 DEF CreateRequest
  <2>3. Gone' => \E y \in {handle[o]} \ {None} : y \in freed  BY <2>1, FreeFaults
  <2>2. Gone' => handle[o] # None /\ handle[o] \in freed  BY <2>3
  <2> QED  BY <1>1, <2>1, <2>2, HeldFreed, FreeFaults
<1>4. ASSUME NEW o \in Requests, CloseRequest(o)
      PROVE  "dead functor" \notin faults' /\ (Gone' => Wrong')
  <2>1. Free({handle[o]}) /\ handle[o] # None  BY <1>4 DEF CloseRequest
  <2>3. Gone' => \E y \in {handle[o]} : y \in freed  BY <2>1, FreeFaults
  <2>2. Gone' => handle[o] \in freed  BY <2>3
  <2> QED  BY <1>1, <2>1, <2>2, HeldFreed, FreeFaults
<1>5. ASSUME NEW r \in Reqs, Cancel(r)
      PROVE  "dead functor" \notin faults' /\ (Gone' => Wrong')
  <2>1. /\ r \in outstanding \/ Held(r) \/ Inside("done", r)
        /\ misuse' = misuse
             \cup (IF Held(r) THEN {"cancel held"} ELSE {})
             \cup (IF Inside("done", r) THEN {"cancel told"} ELSE {})
             \cup (IF Due(r) # {} THEN {"cancel done"} ELSE {})
             \cup (IF r \in outstanding /\ r \in freed THEN {"cancel failed"} ELSE {})
        /\ \/ faults' = faults \cup (IF r \in freed THEN {"use after free"} ELSE {})
           \/ Unconnected(r) # {} /\ faults' = faults \cup {"use after free"}
    BY <1>5 DEF Cancel
  <2>2. Gone' => r \in freed \/ Due(r) # {}  BY <2>1 DEF Gone, Unconnected
  <2>3. r \in freed \/ Due(r) # {} => Wrong'  BY <2>1 DEF Wrong
  <2> QED  BY <2>1, <2>2, <2>3
<1>6. ASSUME NEW o \in Requests, NEW r \in Reqs, NEW f \in Functors, NEW err \in BOOLEAN,
             ConstructRequest(o, r, f, err)
      PROVE  UNCHANGED faults
  BY <1>6 DEF ConstructRequest
<1>7. ASSUME NEW o \in Requests, NEW p \in Requests, Move(o, p) PROVE UNCHANGED faults
  BY <1>7 DEF Move
<1>8. ASSUME NEW o \in Requests, Release(o) PROVE UNCHANGED faults
  BY <1>8 DEF Release
<1>9. ASSUME NEW r \in Reqs, Own(r) PROVE UNCHANGED faults  BY <1>9 DEF Own
<1> QED
  BY <1>2, <1>3, <1>4, <1>5, <1>6, <1>7, <1>8, <1>9 DEF RequestNext

\* The connection of an object is there.
LEMMA Connected ==
  ASSUME TypeOK, Base, NEW k \in Connections, handle[k] # None
  PROVE  handle[k] \in Conns /\ handle[k] \in made \ freed
BY HandleType DEF Base, Handles

\* The operations of a connection.
LEMMA ConnectionFaults ==
  ASSUME TypeOK, Base, faults = {}, ConnectionNext, misuse \subseteq misuse'
  PROVE  "dead functor" \notin faults' /\ (Gone' => Wrong')
<1>1. Wrong => Wrong'  BY DEF Wrong
<1>2. ASSUME UNCHANGED faults
      PROVE  "dead functor" \notin faults' /\ ~Gone'
  BY <1>2 DEF Gone
<1>3. ASSUME NEW k \in Connections, NEW c \in Conns, CreateConnection(k, c)
      PROVE  UNCHANGED faults
  BY <1>3 DEF CreateConnection
<1>4. ASSUME NEW k \in Connections, CloseConnection(k) PROVE UNCHANGED faults
  BY <1>4 DEF CloseConnection
<1>5. ASSUME NEW o \in Requests, NEW k \in Connections, MakeRequest(o, k)
      PROVE  "dead functor" \notin faults' /\ (Gone' => Wrong')
  <2>1. Make(handle[o], handle[k]) /\ handle[k] # None /\ handle[o] # None
    BY <1>5 DEF MakeRequest
  <2>2. handle[o] \in Reqs /\ handle[k] \in Conns  BY <2>1, HandleType
  <2>3. "dead functor" \notin faults' /\ (Gone' => handle[o] \in freed)
    BY <2>1, <2>2, MakeFaults
  <2> QED  BY <1>1, <2>1, <2>3, HeldFreed
<1>6. ASSUME NEW r \in Reqs, NEW k \in Connections, MakeReleased(r, k)
      PROVE  "dead functor" \notin faults' /\ (Gone' => Wrong')
  <2>1. Make(r, handle[k]) /\ handle[k] # None /\ r \notin freed
    BY <1>6 DEF MakeReleased
  <2> QED  BY <2>1, HandleType, MakeFaults
<1>7. ASSUME NEW k \in Connections, NEW c \in Conns, ConstructConnection(k, c)
      PROVE  UNCHANGED faults
  BY <1>7 DEF ConstructConnection
<1>8. ASSUME NEW k \in Connections, Release(k) PROVE UNCHANGED faults
  BY <1>8 DEF Release
<1>9. ASSUME NEW k \in Connections, NEW l \in Connections, Move(k, l)
      PROVE  UNCHANGED faults
  BY <1>9 DEF Move
<1>10. ASSUME NEW k \in Connections, NEW f \in Functors, OnCloseRef(k, f)
       PROVE  UNCHANGED faults
  BY <1>10 DEF OnCloseRef
<1>11. ASSUME NEW k \in Connections, NEW f \in Cells, OnCloseMove(k, f)
       PROVE  UNCHANGED faults
  BY <1>11 DEF OnCloseMove
<1> QED
  BY <1>2, <1>3, <1>4, <1>5, <1>6, <1>7, <1>8, <1>9, <1>10, <1>11 DEF ConnectionNext

\* What a call finds, and what it frees when it returns.
LEMMA CallFaults ==
  ASSUME TypeOK, Base, faults = {}, Call
  PROVE  (Gone' => Wrong') /\ FunctorsIntact'
<1> DEFINE x == Head(agenda)
<1>1. x \in Callbacks /\ ~x.runs /\ x \in ToSet(agenda)  BY CallAgenda
<1>2. /\ faults' = Lacks(x.arg)
           \cup (IF x.cb = "done" /\ x.of \in freed THEN {"use after free"} ELSE {})
      /\ UNCHANGED misuse /\ x.cb # "free"
  BY DEF Call
<1>3. Callable(x) /\ Fits(x)  BY <1>1 DEF Base, Agenda, Targets
<1> HIDE DEF x
<1>4. x.arg \in Functors \cup Cells /\ x.cb \in Endings \cup {"close"}
  BY <1>1, <1>2, <1>3 DEF Fits, Callbacks, Singles
<1>5. Gone' => Wrong'
  <2>1. Gone' => x.cb = "done" /\ x.of \in freed  BY <1>2 DEF Gone, Lacks
  <2>2. x.cb = "done" /\ x.of \in freed => "cancel done" \in misuse
    BY <1>1, <1>3 DEF Fits
  <2> QED  BY <1>2, <2>1, <2>2 DEF Wrong
<1>6. FunctorsIntact'
  <2>1. "dead functor" \in faults' => life[x.arg] # "alive" /\ x.arg \in Functors
    BY <1>2, <1>4 DEF Lacks
  <2>2. life[x.arg] # "alive" /\ x.arg \in Functors =>
          misuse \cap {"ended on error", "cancel done"} # {}
    BY <1>1, <1>3, <1>4 DEF Callable, Ready, Endings
  <2> QED  BY <1>2, <2>1, <2>2 DEF FunctorsIntact
<1> QED  BY <1>5, <1>6

\* A callback that returns frees its request, once if it was not cancelled, and
\* finds its connection, unless that was closed in it.
LEMMA ReturnFaults ==
  ASSUME TypeOK, Base, faults = {}, Return
  PROVE  "dead functor" \notin faults' /\ (Gone' => Wrong')
<1> DEFINE x == Head(agenda)
<1>1. x \in ToSet(agenda) /\ x.runs /\ UNCHANGED misuse  BY ReturnAgenda DEF Return
<1>2. Fits(x) /\ (Wrong => Wrong')  BY <1>1 DEF Base, Agenda, Wrong
<1>3. Resume(x.cb, x.of) \/ faults' = faults \cup {"dead cell"}  BY DEF Return
<1> HIDE DEF x
<1>4. CASE x.cb = "done" /\ Resume(x.cb, x.of)
  <2>1. Free({x.of} \ own)  BY <1>4 DEF Resume
  <2>2. Gone' => \E y \in {x.of} \ own : y \in freed  BY <2>1, FreeFaults
  <2>3. x.of \in freed => Wrong  BY <1>1, <1>2, <1>4 DEF Fits
  <2> QED  BY <1>2, <2>1, <2>2, <2>3, FreeFaults
<1>5. CASE x.cb # "done" /\ Resume(x.cb, x.of)
  <2>1. faults' = IF x.cb = "close" /\ x.of \in freed THEN {"use after free"} ELSE {}
    BY <1>5 DEF Resume
  <2>2. x.cb = "close" /\ x.of \in freed => Wrong  BY <1>2 DEF Fits
  <2> QED  BY <1>2, <2>1, <2>2 DEF Gone
<1>6. CASE faults' = faults \cup {"dead cell"}  BY <1>6 DEF Gone
<1> QED  BY <1>3, <1>4, <1>5, <1>6

\* A request that fails is freed once.
LEMMA FailFaults ==
  ASSUME TypeOK, Base, faults = {}, NEW c \in Conns, Fail(c)
  PROVE  /\ "dead functor" \notin faults' /\ ~Gone'
         /\ Head(queue[c]) \notin own /\ freed' = freed \cup {Head(queue[c])}
<1> DEFINE r == Head(queue[c])
<1>1. Free({r} \ own) /\ r \in Reqs /\ r \in outstanding \ freed
  BY FirstIs DEF Fail
<1>2. r \notin own  BY <1>1, Outcomes DEF Base, Settled
<1>3. {r} \ own = {r}  BY <1>2
<1>4. Free({r})  BY <1>1, <1>3
<1>5. /\ freed' = freed \cup {r} /\ "dead functor" \notin faults'
      /\ Gone' => \E x \in {r} : x \in freed
  BY <1>4, FreeFaults
<1> QED  BY <1>1, <1>2, <1>5

\* The steps of the loop; each calls a functor that is there.
LEMMA LoopFaults ==
  ASSUME TypeOK, Base, faults = {}, LoopNext
  PROVE  (Gone' => Wrong') /\ FunctorsIntact'
<1>1. ASSUME UNCHANGED faults PROVE (Gone' => Wrong') /\ FunctorsIntact'
  BY <1>1 DEF Gone, FunctorsIntact
<1>2. ASSUME NEW c \in Conns, Connect(c) \/ ConnectFails(c) \/ PeerCloses(c)
      PROVE  UNCHANGED faults
  BY <1>2 DEF Connect, ConnectFails, PeerCloses
<1>3. ASSUME NEW c \in Conns, NEW keep \in BOOLEAN, Complete(c, keep)
      PROVE  UNCHANGED faults
  BY <1>3 DEF Complete
<1>4. ASSUME NEW c \in Conns, Fail(c) PROVE (Gone' => Wrong') /\ FunctorsIntact'
  BY <1>4, FailFaults DEF FunctorsIntact
<1>5. Call => (Gone' => Wrong') /\ FunctorsIntact'  BY CallFaults
<1>6. Return => (Gone' => Wrong') /\ FunctorsIntact'  BY ReturnFaults DEF FunctorsIntact
<1>7. ASSUME NEW c \in Conns, FreeRest(c) PROVE (Gone' => Wrong') /\ FunctorsIntact'
  BY <1>7, FreeRestFaults DEF FunctorsIntact
<1> QED  BY <1>1, <1>2, <1>3, <1>4, <1>5, <1>6, <1>7 DEF LoopNext

\* A step that goes wrong is one of a program that misused the client.
LEMMA FaultStep ==
  ASSUME TypeOK, Base, Next
  PROVE  faults = {} /\ (Gone' => Wrong') /\ FunctorsIntact'
<1>1. faults = {} /\ misuse \subseteq misuse'  BY MisuseGrows DEF Next
<1>2. RequestNext => (Gone' => Wrong') /\ FunctorsIntact'
  BY <1>1, RequestFaults DEF FunctorsIntact
<1>3. ConnectionNext => (Gone' => Wrong') /\ FunctorsIntact'
  BY <1>1, ConnectionFaults DEF FunctorsIntact
<1>4. ASSUME NEW f \in Functors, EndLife(f) PROVE (Gone' => Wrong') /\ FunctorsIntact'
  <2>1. UNCHANGED faults  BY <1>4 DEF EndLife
  <2> QED  BY <1>1, <2>1 DEF Gone, FunctorsIntact
<1> QED  BY <1>1, <1>2, <1>3, <1>4, LoopFaults DEF Next

-----------------------------------------------------------------------------
(* What the objects own.                                                    *)

\* A structure that no object had is the object's own.
LEMMA PutOnce ==
  ASSUME TypeOK, Handles, NEW o \in Objs, NEW x,
         x = None \/ \A p \in Objs : handle[p] # x,
         handle' = [handle EXCEPT ![o] = x]
  PROVE  /\ \A p, q \in Objs : handle'[p] = handle'[q] => p = q \/ handle'[p] = None
         /\ \A p \in Objs : handle'[p] = IF p = o THEN x ELSE handle[p]
<1>1. \A p \in Objs : handle'[p] = IF p = o THEN x ELSE handle[p]  BY DEF TypeOK
<1>2. \A p, q \in Objs : handle[p] = handle[q] => p = q \/ handle[p] = None
  BY DEF Handles
<1> QED  BY <1>1, <1>2

\* And one that is exchanged stays one object's own.
LEMMA SwapOnce ==
  ASSUME TypeOK, Handles, NEW o \in Objs, NEW p \in Objs,
         handle' = [handle EXCEPT ![p] = handle[o], ![o] = handle[p]]
  PROVE  /\ \A q, s \in Objs : handle'[q] = handle'[s] => q = s \/ handle'[q] = None
         /\ \A q \in Objs : handle'[q] = IF q = o THEN handle[p]
                                         ELSE IF q = p THEN handle[o] ELSE handle[q]
<1>1. \A q \in Objs : handle'[q] = IF q = o THEN handle[p]
                                   ELSE IF q = p THEN handle[o] ELSE handle[q]
  BY DEF TypeOK
<1>2. \A q, s \in Objs : handle[q] = handle[s] => q = s \/ handle[q] = None
  BY DEF Handles
<1>3. SUFFICES ASSUME NEW q \in Objs, NEW s \in Objs, handle'[q] = handle'[s],
                      handle'[q] # None
               PROVE  q = s
  BY <1>1
<1> DEFINE other(x) == IF x = o THEN p ELSE IF x = p THEN o ELSE x
<1>4. handle'[q] = handle[other(q)] /\ handle'[s] = handle[other(s)]  BY <1>1
<1>5. other(q) \in Objs /\ other(s) \in Objs  OBVIOUS
<1>6. other(q) = other(s)
  <2> HIDE DEF other
  <2> QED  BY <1>2, <1>3, <1>4, <1>5
<1> QED  BY <1>6

\* No object owns a structure that was not allocated.
LEMMA Unowned ==
  ASSUME TypeOK, Handles, NEW p \in Objs
  PROVE  /\ \A r \in Reqs : fn[r] = None => handle[p] # r
         /\ \A c \in Conns \ made : handle[p] # c
<1>1. CASE p \in Requests
  <2>1. handle[p] \in Reqs => fn[handle[p]] # None
    BY <1>1 DEF Handles, Held, Unsent
  <2>2. handle[p] \in Reqs \cup {None}  BY <1>1, HandleType
  <2> QED  BY <2>1, <2>2, Apart
<1>2. CASE p \in Connections
  <2>1. handle[p] = None \/ handle[p] \in made  BY <1>2 DEF Handles
  <2>2. handle[p] \in Conns \cup {None}  BY <1>2, HandleType
  <2> QED  BY <2>1, <2>2, Apart
<1> QED  BY <1>1, <1>2 DEF Objs

\* A request that was not sent is not sent by a step that leaves it alone.
LEMMA SameUnsent ==
  ASSUME NEW r, Unsent(r), Wrong => Wrong', fn'[r] = fn[r], told'[r] = told[r],
         r \in outstanding' => r \in outstanding, r \in dismissed' => r \in dismissed,
         r \in freed' => r \in freed \/ Wrong'
  PROVE  Unsent(r)'
BY DEF Unsent

\* The objects have what they had.
LEMMA SameHandles ==
  ASSUME TypeOK, Handles, UNCHANGED <<handle, made>>, Wrong => Wrong',
         freed' \subseteq freed \cup Reqs,
         \A r \in Reqs : Held(r) => Unsent(r)'
  PROVE  Handles'
<1>1. \A k \in Connections : handle[k] # None => handle[k] \in made \ freed'
  BY HandleType, Apart DEF Handles
<1>2. \A r \in Reqs : Held(r)' => Unsent(r)'  BY DEF Held
<1>3. freed' \subseteq Reqs \cup made'  BY DEF Handles
<1>4. \A o, p \in Objs : handle'[o] = handle'[p] => o = p \/ handle'[o] = None
  BY DEF Handles
<1> QED  BY <1>1, <1>2, <1>3, <1>4 DEF Handles

\* What was cancelled, if nothing went wrong.
LEMMA CancelEffect ==
  ASSUME TypeOK, Base, faults = {}, NEW r \in Reqs, Cancel(r), ~Gone'
  PROVE  /\ r \notin freed
         /\ \/ /\ r \in outstanding /\ told[r] = <<>> /\ fn[r] # None
               /\ freed' = freed \cup {r} /\ outstanding' = outstanding \ {r}
               /\ dismissed' = dismissed \cup {r}
            \/ /\ r \notin outstanding /\ Wrong' /\ UNCHANGED <<outstanding, dismissed>>
               /\ freed \subseteq freed' /\ freed' \subseteq freed \cup {r}
               /\ ~InQueue(r) /\ ~Pending("done", r)
<1>1. r \notin freed  BY DEF Cancel, Gone
<1>2. Settled(r)  BY DEF Base
<1>3. CASE r \in outstanding
  <2>1. told[r] = <<>> /\ r \notin own /\ fn[r] # None
    BY <1>2, <1>3, Outcomes DEF Settled
  <2> QED  BY <1>1, <1>3, <2>1 DEF Cancel
<1>4. CASE r \notin outstanding
  <2>1. Wrong'  BY <1>4 DEF Cancel, Wrong
  <2>2. ~InQueue(r) /\ ~Pending("done", r)  BY <1>1, <1>4, CancelledIs
  <2> QED  BY <1>1, <1>4, <2>1, <2>2 DEF Cancel
<1> QED  BY <1>3, <1>4

\* An object gets a request, or gives up the one it has, which may be freed.
LEMMA RequestHeld ==
  ASSUME TypeOK, Base, NEW o \in Requests, NEW x \in Reqs \cup {None},
         handle' = [handle EXCEPT ![o] = x], Wrong => Wrong',
         UNCHANGED <<told, outstanding, dismissed, made>>,
         freed' \subseteq freed \cup ({handle[o]} \ {None}),
         \A q \in Reqs : fn[q] # None => fn'[q] = fn[q],
         x # None => fn[x] = None /\ fn'[x] # None
  PROVE  Handles'
<1>1. Handles /\ \A r \in Reqs : Settled(r)  BY DEF Base
<1>2. o \in Objs /\ (x = None \/ \A p \in Objs : handle[p] # x)
  BY <1>1, Unowned, Apart
<1>3. /\ \A p, q \in Objs : handle'[p] = handle'[q] => p = q \/ handle'[p] = None
      /\ \A p \in Objs : handle'[p] = IF p = o THEN x ELSE handle[p]
  BY ONLY TypeOK, handle' = [handle EXCEPT ![o] = x], <1>1, <1>2, PutOnce
<1>4. ASSUME NEW r \in Reqs, Held(r)' PROVE Unsent(r)'
  <2>1. PICK p \in Requests : handle'[p] = r  BY <1>4 DEF Held
  <2>2. CASE p = o
    <3>1. r = x /\ x # None  BY <1>3, <2>1, <2>2, Apart
    <3>2. /\ told[r] = <<>> /\ r \notin freed \cup outstanding \cup dismissed
          /\ fn[r] = None /\ fn'[r] # None
      BY <1>1, <3>1 DEF Settled
    <3>3. r # handle[o]  BY <1>2, <3>1
    <3>4. r \notin freed'  BY <3>2, <3>3
    <3> QED  BY <3>2, <3>4 DEF Unsent
  <2>3. CASE p # o
    <3>1. handle[p] = r  BY <1>3, <2>1, <2>3, Apart
    <3>2. Unsent(r)  BY <1>1, <3>1 DEF Handles, Held
    <3>3. r # handle[o]  BY <1>1, <2>3, <3>1, Apart DEF Handles
    <3>4. r \in freed' => r \in freed  BY <3>3
    <3>5. fn'[r] = fn[r]  BY <3>2 DEF Unsent
    <3> QED  BY <3>2, <3>4, <3>5 DEF Unsent
  <2> QED  BY <2>2, <2>3
<1>5. ASSUME NEW k \in Connections, handle'[k] # None PROVE handle'[k] \in made' \ freed'
  <2>1. handle'[k] = handle[k]  BY <1>3, Apart
  <2>2. handle[k] \in made \ freed /\ handle[k] \in Conns
    BY <1>1, <1>5, <2>1, HandleType DEF Handles
  <2>3. handle[k] # handle[o]  BY <2>2, HandleType, Apart
  <2> QED  BY <2>1, <2>2, <2>3
<1>6. freed' \subseteq Reqs \cup made'  BY <1>1, HandleType DEF Handles
<1> QED  BY <1>3, <1>4, <1>5, <1>6 DEF Handles

\* Two objects exchange what they have.
LEMMA MoveHandles ==
  ASSUME TypeOK, Base, NEW o \in Objs, NEW p \in Objs,
         (o \in Requests /\ p \in Requests) \/ (o \in Connections /\ p \in Connections),
         Move(o, p)
  PROVE  Handles'
<1>1. Handles  BY DEF Base
<1>2. /\ handle' = [handle EXCEPT ![p] = handle[o], ![o] = handle[p]]
      /\ UNCHANGED <<fn, told, outstanding, dismissed, made, freed, misuse>>
  BY DEF Move, reqs, conns, outcome
<1>3. /\ \A q, s \in Objs : handle'[q] = handle'[s] => q = s \/ handle'[q] = None
      /\ \A q \in Objs : handle'[q] = IF q = o THEN handle[p]
                                      ELSE IF q = p THEN handle[o] ELSE handle[q]
  BY <1>1, <1>2, SwapOnce
<1>4. \A r \in Reqs : Held(r)' => Held(r)
  <2>1. ASSUME NEW q \in Requests PROVE \E s \in Requests : handle'[q] = handle[s]
    <3>1. q \in Objs /\ (q = o \/ q = p => o \in Requests /\ p \in Requests)  BY Apart
    <3> QED  BY <1>3, <3>1
  <2> QED  BY <2>1 DEF Held
<1>5. \A r \in Reqs : Unsent(r) => Unsent(r)'  BY <1>2 DEF Unsent, Wrong
<1>6. ASSUME NEW k \in Connections PROVE \E l \in Connections : handle'[k] = handle[l]
  <2>1. k \in Objs /\ (k = o \/ k = p => o \in Connections /\ p \in Connections)
    BY Apart
  <2> QED  BY <1>3, <2>1
<1>7. \A k \in Connections : handle'[k] # None => handle'[k] \in made' \ freed'
  BY <1>1, <1>2, <1>6 DEF Handles
<1>8. \A r \in Reqs : Held(r)' => Unsent(r)'  BY <1>1, <1>4, <1>5 DEF Handles
<1>9. freed' \subseteq Reqs \cup made'  BY <1>1, <1>2 DEF Handles
<1> QED  BY <1>3, <1>7, <1>8, <1>9 DEF Handles

\* The operations of a request.
LEMMA RequestHandles ==
  ASSUME TypeOK, Base, faults = {}, RequestNext, ~Gone', Wrong => Wrong'
  PROVE  Handles'
<1>1. Handles /\ \A r \in Reqs : Settled(r)  BY DEF Base
<1>2. ASSUME NEW o \in Requests, NEW r \in Reqs, NEW f \in Functors, Allocate(r, f)
      PROVE  /\ \A q \in Reqs : fn[q] # None => fn'[q] = fn[q]
             /\ fn[r] = None /\ fn'[r] # None /\ r # None
  BY <1>2, Apart DEF Allocate, TypeOK
<1>3. ASSUME NEW o \in Requests, NEW r \in Reqs, NEW f \in Functors, NEW err \in BOOLEAN,
             ConstructRequest(o, r, f, err)
      PROVE  Handles'
  <2>1. /\ handle' = [handle EXCEPT ![o] = r] /\ Allocate(r, f)
        /\ UNCHANGED <<told, outstanding, dismissed, made, freed>>
    BY <1>3 DEF ConstructRequest, conns, outcome
  <2> QED  BY <1>2, <2>1, RequestHeld
<1>4. ASSUME NEW o \in Requests, NEW r \in Reqs, NEW f \in Functors, CreateRequest(o, r, f)
      PROVE  Handles'
  <2>1. /\ handle' = [handle EXCEPT ![o] = r] /\ Allocate(r, f)
        /\ UNCHANGED <<told, outstanding, dismissed, made>>
        /\ freed' = freed \cup ({handle[o]} \ {None})
    BY <1>4 DEF CreateRequest, conns, outcome, Free
  <2> QED  BY <1>2, <2>1, RequestHeld
<1>5. ASSUME NEW o \in Requests, CloseRequest(o) PROVE Handles'
  <2>1. /\ handle' = [handle EXCEPT ![o] = None]
        /\ UNCHANGED <<fn, told, outstanding, dismissed, made>>
        /\ freed' = freed \cup ({handle[o]} \ {None})
    BY <1>5 DEF CloseRequest, reqs, conns, outcome, Free
  <2> QED  BY <2>1, RequestHeld
<1>6. ASSUME NEW o \in Requests, NEW p \in Requests, Move(o, p) PROVE Handles'
  BY <1>6, MoveHandles, Apart
<1>7. ASSUME NEW o \in Requests, Release(o) PROVE Handles'
  <2>1. /\ handle' = [handle EXCEPT ![o] = None]
        /\ UNCHANGED <<fn, told, outstanding, dismissed, made, freed>>
    BY <1>7 DEF Release, reqs, conns, outcome
  <2> QED  BY <2>1, RequestHeld
<1>8. ASSUME NEW r \in Reqs, Own(r) PROVE Handles'
  <2>1. UNCHANGED <<handle, made, fn, told, outstanding, dismissed, freed>>
    BY <1>8 DEF Own, conns, outcome
  <2>2. \A q \in Reqs : Held(q) => Unsent(q)'  BY <1>1, <2>1 DEF Handles, Unsent
  <2> QED  BY <1>1, <2>1, <2>2, SameHandles
<1>9. ASSUME NEW r \in Reqs, Cancel(r) PROVE Handles'
  <2>1. /\ UNCHANGED <<handle, made, fn, told>> /\ freed' \subseteq freed \cup {r}
        /\ outstanding' \subseteq outstanding /\ (Held(r) => Wrong')
    BY <1>9 DEF Cancel, reqs, Wrong
  <2>2. ASSUME NEW q \in Reqs, Held(q) PROVE Unsent(q)'
    <3>1. Unsent(q)  BY <1>1, <2>2 DEF Handles
    <3>2. q \in freed' => q \in freed \/ Wrong'  BY <2>1, <2>2
    <3>3. q \in dismissed' => q \in dismissed
      BY <1>9, <3>1, CancelEffect DEF Unsent
    <3> QED  BY <2>1, <3>1, <3>2, <3>3, SameUnsent
  <2> QED  BY <1>1, <2>1, <2>2, SameHandles
<1> QED
  BY <1>3, <1>4, <1>5, <1>6, <1>7, <1>8, <1>9 DEF RequestNext

\* A connection object gets a connection, or gives up the one it has.
LEMMA ConnectionHeld ==
  ASSUME TypeOK, Base, NEW k \in Connections, NEW x \in Conns \cup {None},
         handle' = [handle EXCEPT ![k] = x], Wrong => Wrong',
         UNCHANGED <<fn, told, outstanding, dismissed, freed>>,
         made' = made \cup ({x} \ {None}), x \notin made
  PROVE  Handles'
<1>1. Handles  BY DEF Base
<1>2. k \in Objs /\ (x = None \/ \A p \in Objs : handle[p] # x)
  BY <1>1, Unowned, Apart
<1>3. /\ \A p, q \in Objs : handle'[p] = handle'[q] => p = q \/ handle'[p] = None
      /\ \A p \in Objs : handle'[p] = IF p = k THEN x ELSE handle[p]
  BY <1>1, <1>2, PutOnce
<1>4. ASSUME NEW r \in Reqs, Held(r)' PROVE Unsent(r)'
  <2>1. PICK p \in Requests : handle'[p] = r  BY <1>4 DEF Held
  <2>2. handle[p] = r  BY <1>3, <2>1, Apart
  <2>3. Unsent(r)  BY <1>1, <2>2 DEF Handles, Held
  <2> QED  BY <2>3 DEF Unsent
<1>5. ASSUME NEW l \in Connections, handle'[l] # None PROVE handle'[l] \in made' \ freed'
  <2>1. CASE l = k
    <3>1. handle'[l] = x /\ x \in Conns /\ x # None  BY <1>3, <1>5, <2>1, Apart
    <3>2. x \notin freed  BY <1>1, <3>1, Apart DEF Handles
    <3> QED  BY <3>1, <3>2
  <2>2. CASE l # k
    <3>1. handle'[l] = handle[l]  BY <1>3, <2>2, Apart
    <3>2. handle[l] \in made \ freed  BY <1>1, <1>5, <3>1 DEF Handles
    <3> QED  BY <3>1, <3>2
  <2> QED  BY <2>1, <2>2
<1>6. freed' \subseteq Reqs \cup made'
  BY <1>1, HandleType DEF Handles
<1> QED  BY <1>3, <1>4, <1>5, <1>6 DEF Handles

\* The operations of a connection.
LEMMA ConnectionHandles ==
  ASSUME TypeOK, Base, faults = {}, ConnectionNext, ~Gone', Wrong => Wrong'
  PROVE  Handles'
<1>1. Handles /\ \A r \in Reqs : Settled(r)  BY DEF Base
<1>2. None \notin made  BY Apart DEF TypeOK
<1>3. ASSUME NEW k \in Connections, NEW c \in Conns, ConstructConnection(k, c)
      PROVE  Handles'
  <2>1. /\ handle' = [handle EXCEPT ![k] = c] /\ c \notin made /\ made' = made \cup {c}
        /\ UNCHANGED <<fn, told, outstanding, dismissed, freed>>
    BY <1>3 DEF ConstructConnection, reqs, outcome
  <2>2. made' = made \cup ({c} \ {None})  BY <2>1, Apart
  <2> QED  BY <2>1, <2>2, ConnectionHeld
<1>4. ASSUME NEW k \in Connections, NEW c \in Conns, CreateConnection(k, c)
      PROVE  Handles'
  <2>1. /\ handle' = [handle EXCEPT ![k] = c] /\ c \notin made /\ made' = made \cup {c}
        /\ UNCHANGED <<fn, told, outstanding, dismissed, freed>>
    BY <1>4 DEF CreateConnection, reqs, outcome
  <2>2. made' = made \cup ({c} \ {None})  BY <2>1, Apart
  <2> QED  BY <2>1, <2>2, ConnectionHeld
<1>5. ASSUME NEW k \in Connections, CloseConnection(k) PROVE Handles'
  <2>1. /\ handle' = [handle EXCEPT ![k] = None]
        /\ UNCHANGED <<fn, told, outstanding, dismissed, made, freed>>
    BY <1>5 DEF CloseConnection, reqs, conns, outcome
  <2>2. made' = made \cup ({None} \ {None})  BY <2>1
  <2> QED  BY <1>2, <2>1, <2>2, ConnectionHeld
<1>6. ASSUME NEW k \in Connections, Release(k) PROVE Handles'
  <2>1. /\ handle' = [handle EXCEPT ![k] = None]
        /\ UNCHANGED <<fn, told, outstanding, dismissed, made, freed>>
    BY <1>6 DEF Release, reqs, conns, outcome
  <2>2. made' = made \cup ({None} \ {None})  BY <2>1
  <2> QED  BY <1>2, <2>1, <2>2, ConnectionHeld
<1>7. ASSUME NEW k \in Connections, NEW l \in Connections, Move(k, l) PROVE Handles'
  BY <1>7, MoveHandles, Apart
<1>8. ASSUME NEW k \in Connections, NEW f,
             OnCloseRef(k, f) \/ OnCloseMove(k, f)
      PROVE  Handles'
  <2>1. UNCHANGED <<handle, made, fn, told, outstanding, dismissed, freed>>
    BY <1>8 DEF OnCloseRef, OnCloseMove, reqs, outcome
  <2>2. \A q \in Reqs : Held(q) => Unsent(q)'  BY <1>1, <2>1 DEF Handles, Unsent
  <2> QED  BY <1>1, <2>1, <2>2, SameHandles
<1>9. ASSUME NEW r \in Reqs, NEW c \in Conns, Make(r, c), UNCHANGED <<fn, dismissed>>,
             NEW q \in Reqs, q # r, Unsent(q)
      PROVE  Unsent(q)'
  <2>1. /\ outstanding' \subseteq outstanding \cup {r} /\ freed' \subseteq freed \cup {r}
        /\ told'[q] = told[q]
    BY <1>9 DEF Make, Free, TypeOK
  <2> QED  BY <1>9, <2>1 DEF Unsent
<1>10. ASSUME NEW o \in Requests, NEW k \in Connections, MakeRequest(o, k) PROVE Handles'
  <2>1. /\ handle' = [handle EXCEPT ![o] = None] /\ handle[o] \in Reqs
        /\ handle[k] \in Conns /\ Make(handle[o], handle[k])
        /\ UNCHANGED <<fn, dismissed, made>>
    BY <1>10, HandleType DEF MakeRequest, reqs
  <2>2. /\ \A p, q \in Objs : handle'[p] = handle'[q] => p = q \/ handle'[p] = None
        /\ \A p \in Objs : handle'[p] = IF p = o THEN None ELSE handle[p]
    BY <1>1, <2>1, PutOnce, Apart
  <2>3. ASSUME NEW r \in Reqs, Held(r)' PROVE Unsent(r)'
    <3>1. PICK p \in Requests : handle'[p] = r  BY <2>3 DEF Held
    <3>2. handle[p] = r /\ p # o  BY <2>2, <3>1, Apart
    <3>3. r # handle[o]  BY <1>1, <3>2, Apart DEF Handles
    <3>4. Unsent(r)  BY <1>1, <3>2 DEF Handles, Held
    <3> QED  BY <1>9, <2>1, <3>3, <3>4
  <2>4. freed' \subseteq freed \cup Reqs  BY <2>1 DEF Make, Free
  <2>5. \A l \in Connections : handle'[l] # None => handle'[l] \in made' \ freed'
    <3>1. \A l \in Connections : handle'[l] = handle[l]  BY <2>2, Apart
    <3>2. freed' \subseteq freed \cup {handle[o]}  BY <2>1 DEF Make, Free
    <3> QED  BY <2>1, <3>1, <3>2, Connected, Apart
  <2>6. freed' \subseteq Reqs \cup made'  BY <1>1, <2>1, <2>4 DEF Handles
  <2> QED  BY <2>2, <2>3, <2>5, <2>6 DEF Handles
<1>11. ASSUME NEW r \in Reqs, NEW k \in Connections, MakeReleased(r, k) PROVE Handles'
  <2>1. /\ handle[k] \in Conns /\ Make(r, handle[k]) /\ ~Held(r)
        /\ UNCHANGED <<handle, fn, dismissed, made>>
    BY <1>11, HandleType DEF MakeReleased, reqs
  <2>2. \A q \in Reqs : Held(q) => Unsent(q)'  BY <1>1, <1>9, <2>1 DEF Handles
  <2>3. freed' \subseteq freed \cup Reqs  BY <2>1 DEF Make, Free
  <2> QED  BY <1>1, <2>1, <2>2, <2>3, SameHandles
<1> QED
  BY <1>3, <1>4, <1>5, <1>6, <1>7, <1>8, <1>10, <1>11 DEF ConnectionNext

\* What libevent does to a request that was not sent: nothing.
LEMMA LoopHandles ==
  ASSUME TypeOK, Base, faults = {}, LoopNext, ~Gone', Wrong => Wrong'
  PROVE  Handles'
<1>1. Handles /\ \A r \in Reqs : Settled(r)  BY DEF Base
<1>2. ASSUME UNCHANGED <<handle, made, fn, told, outstanding, dismissed, freed>>
      PROVE  Handles'
  <2>1. \A q \in Reqs : Held(q) => Unsent(q)'  BY <1>1, <1>2 DEF Handles, Unsent
  <2> QED  BY <1>1, <1>2, <2>1, SameHandles
<1>3. ASSUME NEW c \in Conns, Connect(c) \/ ConnectFails(c) \/ PeerCloses(c)
      PROVE  UNCHANGED <<handle, made, fn, told, outstanding, dismissed, freed>>
  BY <1>3 DEF Connect, ConnectFails, PeerCloses, reqs, conns, outcome
<1>4. ASSUME NEW c \in Conns, NEW keep \in BOOLEAN, Complete(c, keep)
      PROVE  UNCHANGED <<handle, made, fn, told, outstanding, dismissed, freed>>
  BY <1>4 DEF Complete, reqs, outcome
<1>5. ASSUME NEW c \in Conns, Fail(c) PROVE Handles'
  <2> DEFINE r == Head(queue[c])
  <2>1. /\ UNCHANGED <<handle, made, fn, told, outstanding, dismissed>>
        /\ r \in Reqs /\ r \in outstanding /\ freed' = freed \cup {r}
    BY <1>5, FirstIs, FailFaults DEF Fail, reqs, outcome
  <2> HIDE DEF r
  <2>2. \A q \in Reqs : Held(q) => Unsent(q)'  BY <1>1, <2>1 DEF Handles, Unsent
  <2>3. freed' \subseteq freed \cup Reqs  BY <2>1
  <2> QED  BY <1>1, <2>1, <2>2, <2>3, SameHandles
<1>6. CASE Call
  <2> DEFINE x == Head(agenda)
  <2>1. x \in ToSet(agenda) /\ ~x.runs  BY <1>6, CallAgenda
  <2>2. /\ UNCHANGED <<handle, made, fn, dismissed, freed>>
        /\ IF x.cb \in Endings
             THEN /\ told' = [told EXCEPT ![x.of] = Append(@, x.cb)]
                  /\ outstanding' = outstanding \ {x.of}
             ELSE UNCHANGED <<told, outstanding>>
    BY <1>6 DEF Call, reqs, conns, Endings
  <2>3. Fits(x)  BY <2>1 DEF Base, Agenda
  <2> HIDE DEF x
  <2>4. ASSUME NEW q \in Reqs, Held(q) PROVE Unsent(q)'
    <3>1. Unsent(q)  BY <1>1, <2>4 DEF Handles
    <3>2. CASE x.cb \in Endings
      <4>1. x.of # q  BY <2>1, <2>3, <3>1, <3>2, Outcomes DEF Fits, Unsent, Endings
      <4>2. told'[q] = told[q] /\ outstanding' \subseteq outstanding
        BY <2>2, <3>2, <4>1 DEF TypeOK
      <4> QED  BY <2>2, <3>1, <4>2, SameUnsent
    <3>3. CASE x.cb \notin Endings  BY <2>2, <3>1, <3>3, SameUnsent
    <3> QED  BY <3>2, <3>3
  <2> QED  BY <1>1, <2>2, <2>4, SameHandles
<1>7. CASE Return
  <2> DEFINE x == Head(agenda)
  <2>1. x \in ToSet(agenda) /\ x.runs  BY <1>7, ReturnAgenda
  <2>2. /\ UNCHANGED <<handle, made, fn, told, outstanding, dismissed>>
        /\ freed' \subseteq freed \cup (IF x.cb = "done" THEN {x.of} ELSE {})
    BY <1>7 DEF Return, Resume, reqs, outcome, Free
  <2>3. Fits(x)  BY <2>1 DEF Base, Agenda
  <2> HIDE DEF x
  <2>4. ASSUME NEW q \in Reqs, Held(q) PROVE Unsent(q)'
    <3>1. Unsent(q)  BY <1>1, <2>4 DEF Handles
    <3>2. x.cb = "done" => x.of # q
      BY <2>1, <2>3, <3>1, Outcomes DEF Fits, Unsent
    <3>3. q \in freed' => q \in freed  BY <2>2, <3>2
    <3> QED  BY <2>2, <3>1, <3>3, SameUnsent
  <2>5. freed' \subseteq freed \cup Reqs  BY <2>2, <2>3 DEF Fits, Endings
  <2> QED  BY <1>1, <2>2, <2>4, <2>5, SameHandles
<1>8. ASSUME NEW c \in Conns, FreeRest(c) PROVE Handles'
  <2>1. /\ UNCHANGED <<handle, made, fn, told>> /\ c \in made /\ Freeing(c)
        /\ freed' = freed \cup {c} \cup ToSet(queue[c])
        /\ outstanding' \subseteq outstanding
        /\ dismissed' = dismissed \cup ToSet(queue[c])
    <3>1. Item("free", c, None) \in ToSet(agenda) /\ c \in made  BY <1>8, FreeFirst
    <3>2. Freeing(c)  BY <3>1, ItemIs DEF Freeing
    <3> QED  BY <1>8, <3>1, <3>2, FreeRestFaults DEF FreeRest, reqs
  <2>2. ToSet(queue[c]) \subseteq Reqs /\ \A r \in ToSet(queue[c]) : r \in outstanding
    BY OnConnection DEF Base, Queues
  <2>3. ASSUME NEW q \in Reqs, Held(q)' PROVE Unsent(q)'
    <3>1. Unsent(q)  BY <1>1, <2>1, <2>3 DEF Handles, Held
    <3>2. q \notin ToSet(queue[c]) /\ q # c  BY <2>2, <3>1, Apart DEF Unsent
    <3> QED  BY <2>1, <3>1, <3>2, SameUnsent
  <2>4. ASSUME NEW k \in Connections, handle'[k] # None PROVE handle'[k] \in made' \ freed'
    <3>1. handle[k] \in Conns /\ handle[k] \in made \ freed
      BY <1>1, <2>1, <2>4, HandleType DEF Handles
    <3>2. handle[k] # c  BY <2>1, <2>4 DEF Base, Lasting
    <3> QED  BY <2>1, <2>2, <3>1, <3>2, Apart
  <2>5. freed' \subseteq Reqs \cup made'  BY <1>1, <2>1, <2>2 DEF Handles
  <2>6. \A o, p \in Objs : handle'[o] = handle'[p] => o = p \/ handle'[o] = None
    BY <1>1, <2>1 DEF Handles
  <2> QED  BY <2>3, <2>4, <2>5, <2>6 DEF Handles
<1> QED  BY <1>2, <1>3, <1>4, <1>5, <1>6, <1>7, <1>8 DEF LoopNext

\* Every step.
LEMMA HandlesStep ==
  ASSUME TypeOK, Base, Next, ~Gone'
  PROVE  Handles'
<1>1. faults = {} /\ (Wrong => Wrong')  BY WrongStays DEF Next
<1>2. ASSUME NEW f \in Functors, EndLife(f) PROVE Handles'
  <2>1. UNCHANGED <<handle, made, fn, told, outstanding, dismissed, freed>> /\ Handles
    BY <1>2 DEF EndLife, reqs, conns, outcome, Base
  <2>2. \A q \in Reqs : Held(q) => Unsent(q)'  BY <1>1, <2>1 DEF Handles, Unsent
  <2> QED  BY <1>1, <2>1, <2>2, SameHandles
<1> QED
  BY <1>1, <1>2, RequestHandles, ConnectionHandles, LoopHandles DEF Next

\* The steps of the loop, and cancel(), start to free no connection.
LEMMA LoopFreeing ==
  ASSUME TypeOK, Base, NEW x, x \in ToSet(agenda'), x.cb = "free",
         LoopNext \/ \E r \in Reqs : Cancel(r)
  PROVE  x \in ToSet(agenda)
<1>1. \A c \in Conns : x \notin CloseOf(c)  BY ItemIs DEF CloseOf
<1>2. \A r \in Reqs : x \notin ErrorOf(r)  BY ItemIs DEF ErrorOf
<1>3. \A cb, r, f : x = Item(cb, r, f) => cb = "free"  BY ItemIs
<1>4. ASSUME NEW r \in Reqs, Cancel(r) PROVE x \in ToSet(agenda)
  BY <1>1, <1>2, <1>4, CancelAgenda DEF Rest
<1>5. ASSUME NEW c \in Conns, Connect(c) PROVE x \in ToSet(agenda)
  BY <1>5 DEF Connect
<1>6. ASSUME NEW c \in Conns, ConnectFails(c) PROVE x \in ToSet(agenda)
  <2>1. ToSet(agenda') = {Item("done", r, fn[r]) : r \in ToSet(queue[c])}
    BY <1>6, AllDone DEF ConnectFails
  <2> QED  BY <1>3, <2>1
<1>7. ASSUME NEW c \in Conns, FreeRest(c) PROVE x \in ToSet(agenda)
  BY <1>7, FreeFirst
<1>8. ASSUME NEW c \in Conns, NEW keep \in BOOLEAN, Complete(c, keep)
      PROVE  x \in ToSet(agenda)
  <2>1. Item("done", Head(queue[c]), fn[Head(queue[c])]) # x  BY <1>3
  <2>2. ToSet(agenda') \subseteq
          CloseOf(c) \cup {Item("done", Head(queue[c]), fn[Head(queue[c])])}
    BY <1>8, CompleteAgenda
  <2> QED  BY <1>1, <2>1, <2>2
<1>9. ASSUME NEW c \in Conns, Fail(c) PROVE x \in ToSet(agenda)
  <2>1. Item("null", Head(queue[c]), fn[Head(queue[c])]) # x  BY <1>3
  <2>2. ToSet(agenda') = CloseOf(c) \cup ErrorOf(Head(queue[c]))
                           \cup {Item("null", Head(queue[c]), fn[Head(queue[c])])}
    BY <1>9, FailAgenda
  <2>3. Head(queue[c]) \in Reqs  BY <1>9, FirstIs DEF Fail
  <2> QED  BY <1>1, <1>2, <2>1, <2>2, <2>3
<1>10. ASSUME NEW c \in Conns, PeerCloses(c) PROVE x \in ToSet(agenda)
  BY <1>1, <1>10, ResetItemsAre DEF PeerCloses
<1>11. CASE Call
  <2> DEFINE y == Head(agenda)
             z == [y EXCEPT !.runs = TRUE]
  <2>1. /\ y \in Callbacks /\ y.cb # "free" /\ x \in {z} \cup ToSet(Tail(agenda))
        /\ ToSet(Tail(agenda)) \subseteq ToSet(agenda)
    BY <1>11, CallAgenda DEF Call
  <2>2. z.cb = y.cb  BY <2>1 DEF Callbacks
  <2> QED  BY <2>1, <2>2
<1>12. CASE Return  BY <1>12, ReturnAgenda
<1> QED
  BY <1>4, <1>5, <1>6, <1>7, <1>8, <1>9, <1>10, <1>11, <1>12 DEF LoopNext

\* An object that has a connection after the step had it before, or it is new.
LEMMA LastingStep ==
  ASSUME TypeOK, Base, Next
  PROVE  Lasting'
<1>1. Handles /\ Lasting  BY DEF Base
<1>2. \A c : Freeing(c) => c \in made
  BY DEF Base, Agenda, Freeing, Fits
<1>3. ASSUME \A k \in Connections : handle'[k] = handle[k],
             \A x \in ToSet(agenda') : x.cb = "free" => x \in ToSet(agenda)
      PROVE  Lasting'
  BY <1>1, <1>3 DEF Lasting, Freeing
<1>4. CASE RequestNext
  <2>1. \A k \in Connections : handle'[k] = handle[k]
    <3>1. \A o \in Requests, k \in Connections : o # k /\ k \in Objs  BY Apart
    <3>2. CASE \E o \in Requests : \E x : handle' = [handle EXCEPT ![o] = x]
      BY <3>1, <3>2 DEF TypeOK
    <3>3. CASE \E o, p \in Requests : Move(o, p)  BY <3>1, <3>3 DEF Move, TypeOK
    <3>4. CASE UNCHANGED handle  BY <3>4
    <3> QED
      BY <1>4, <3>2, <3>3, <3>4 DEF RequestNext, ConstructRequest, CreateRequest,
           CloseRequest, Release, Own, Cancel
  <2>2. (\E r \in Reqs : Cancel(r)) \/ UNCHANGED agenda
    BY <1>4 DEF RequestNext, ConstructRequest, CreateRequest, CloseRequest, Move, Release,
                Own
  <2> QED  BY <1>3, <2>1, <2>2, LoopFreeing
<1>5. ASSUME NEW k \in Connections, NEW x \in Conns \cup {None}, x \notin made,
             handle' = [handle EXCEPT ![k] = x],
             UNCHANGED agenda \/ (handle[k] # None /\ FreeConnection(handle[k]))
      PROVE  Lasting'
  <2>1. \A l \in Connections : handle'[l] = IF l = k THEN x ELSE handle[l]
    BY <1>5, Apart DEF TypeOK
  <2>2. ASSUME NEW c, Freeing(c)'
        PROVE  Freeing(c) \/ (handle[k] # None /\ c = handle[k])
    <3>1. CASE UNCHANGED agenda  BY <2>2, <3>1 DEF Freeing
    <3>2. CASE handle[k] # None /\ FreeConnection(handle[k])
      <4>1. handle[k] \in Conns  BY <3>2, HandleType
      <4>2. ToSet(agenda') = CloseOf(handle[k]) \cup {Item("free", handle[k], None)}
                               \cup ToSet(agenda)
        BY <3>2, <4>1, FreeConnectionType
      <4>3. \A y \in CloseOf(handle[k]) : y.cb # "free"  BY ItemIs DEF CloseOf
      <4> QED  BY <2>2, <3>2, <4>2, <4>3, ItemIs DEF Freeing
    <3> QED  BY <1>5, <3>1, <3>2
  <2>3. ASSUME NEW l \in Connections, NEW c, c = handle'[l], c # None PROVE ~Freeing(c)'
    <3>1. CASE l = k
      <4>1. c = x /\ ~Freeing(c)  BY <1>2, <1>5, <2>1, <2>3, <3>1
      <4>2. handle[k] # None => handle[k] \in made  BY <1>1 DEF Handles
      <4> QED  BY <1>5, <2>2, <4>1, <4>2
    <3>2. CASE l # k
      <4>1. c = handle[l] /\ ~Freeing(c)
        BY <1>1, <2>1, <2>3, <3>2 DEF Lasting
      <4>2. c # handle[k]  BY <1>1, <2>3, <3>2, <4>1, Apart DEF Handles
      <4> QED  BY <2>2, <4>1, <4>2
    <3> QED  BY <3>1, <3>2
  <2> QED  BY <2>3 DEF Lasting, Freeing
<1>6. None \notin made  BY Apart DEF TypeOK
<1>7. CASE ConnectionNext
  <2>1. ASSUME NEW k \in Connections, NEW c \in Conns,
               ConstructConnection(k, c) \/ CreateConnection(k, c)
        PROVE  Lasting'
    BY <1>5, <2>1 DEF ConstructConnection, CreateConnection
  <2>2. ASSUME NEW k \in Connections, CloseConnection(k) \/ Release(k) PROVE Lasting'
    BY <1>5, <1>6, <2>2 DEF CloseConnection, Release
  <2>3. ASSUME NEW k \in Connections, NEW l \in Connections, Move(k, l) PROVE Lasting'
    <3>1. \A m \in Connections : \E n \in Connections : handle'[m] = handle[n]
      BY <2>3, Apart DEF Move, TypeOK
    <3>2. UNCHANGED agenda  BY <2>3 DEF Move
    <3>3. \A c : Freeing(c)' => Freeing(c)  BY <3>2 DEF Freeing
    <3>4. ASSUME NEW m \in Connections, NEW c, c = handle'[m], c # None PROVE ~Freeing(c)'
      BY <1>1, <3>1, <3>3, <3>4 DEF Lasting
    <3> QED  BY <3>4 DEF Lasting, Freeing
  <2>4. ASSUME NEW k \in Connections, NEW f, OnCloseRef(k, f) \/ OnCloseMove(k, f)
        PROVE  Lasting'
    BY <1>3, <2>4 DEF OnCloseRef, OnCloseMove
  <2>5. ASSUME NEW o \in Requests, NEW k \in Connections, MakeRequest(o, k)
        PROVE  Lasting'
    <3>1. \A l \in Connections : handle'[l] = handle[l] /\ l # o
      BY <2>5, Apart DEF MakeRequest, TypeOK
    <3> QED  BY <1>3, <2>5, <3>1 DEF MakeRequest
  <2>6. ASSUME NEW r \in Reqs, NEW k \in Connections, MakeReleased(r, k) PROVE Lasting'
    BY <1>3, <2>6 DEF MakeReleased
  <2> QED  BY <1>7, <2>1, <2>2, <2>3, <2>4, <2>5, <2>6 DEF ConnectionNext
<1>8. CASE LoopNext
  <2>1. UNCHANGED handle
    BY <1>8 DEF LoopNext, Connect, ConnectFails, FreeRest, Complete, Fail, PeerCloses, Call,
                Return
  <2> QED  BY <1>3, <1>8, <2>1, LoopFreeing
<1>9. ASSUME NEW f \in Functors, EndLife(f) PROVE Lasting'
  BY <1>3, <1>9 DEF EndLife
<1> QED  BY <1>4, <1>7, <1>8, <1>9 DEF Next

-----------------------------------------------------------------------------
(* The connections and the requests on them.                                *)

\* A queue, an empty one and its tail are parts of it.
LEMMA WithinFew ==
  ASSUME NEW S, NEW s \in Seq(S)
  PROVE  /\ \E m : Within(s, s, m)
         /\ \E m : Within(<<>>, s, m)
         /\ s # <<>> => \E m : Within(Tail(s), s, m)
<1>1. Within(s, s, [i \in DOMAIN s |-> i])  BY DEF Within
<1>2. Within(<<>>, s, <<>>)  BY DEF Within
<1>3. ASSUME s # <<>> PROVE \E m : Within(Tail(s), s, m)
  <2>1. /\ Len(s) \in Nat \ {0} /\ DOMAIN s = 1 .. Len(s)
        /\ DOMAIN Tail(s) = 1 .. (Len(s) - 1)
        /\ \A i \in 1 .. (Len(s) - 1) : Tail(s)[i] = s[i + 1]
    BY <1>3, HeadTailProperties, EmptySeq, LenProperties
  <2>2. Within(Tail(s), s, [i \in DOMAIN Tail(s) |-> i + 1])  BY <2>1 DEF Within
  <2> QED  BY <2>2
<1> QED  BY <1>1, <1>2, <1>3

\* No connection gets a request.
LEMMA FewerQueued ==
  ASSUME TypeOK, TypeOK', Queues, made \subseteq made', up' \cap freed' = {},
         \A c \in Conns : \E m : Within(queue'[c], queue[c], m),
         \A c \in Conns : queue'[c] # <<>> => c \notin freed' \ freed,
         \A r \in Reqs : InQueue(r) /\ InQueue(r)' =>
                           r \in outstanding' /\ r \notin freed' \ freed
  PROVE  Queues'
<1>1. ASSUME NEW c \in Conns, NEW i \in DOMAIN queue'[c]
      PROVE  \E j \in DOMAIN queue[c] : queue'[c][i] = queue[c][j]
  BY <1>1 DEF Within
<1>2. ASSUME NEW c \in Conns, queue'[c] # <<>> PROVE c \in made' \ freed'
  <2>1. queue'[c] \in Seq(Reqs)  BY DEF TypeOK
  <2>2. 1 \in DOMAIN queue'[c]  BY <1>2, <2>1, SetHead
  <2>3. queue[c] # <<>>  BY <1>1, <2>2
  <2> QED  BY <1>2, <2>3 DEF Queues
<1>3. ASSUME NEW c \in Conns, NEW d \in Conns, NEW i \in DOMAIN queue'[c],
             NEW j \in DOMAIN queue'[d], queue'[c][i] = queue'[d][j]
      PROVE  c = d /\ i = j
  <2>1. PICK m : Within(queue'[c], queue[c], m)  OBVIOUS
  <2>2. PICK n : Within(queue'[d], queue[d], n)  OBVIOUS
  <2>3. /\ m[i] \in DOMAIN queue[c] /\ queue'[c][i] = queue[c][m[i]]
        /\ n[j] \in DOMAIN queue[d] /\ queue'[d][j] = queue[d][n[j]]
    BY <2>1, <2>2 DEF Within
  <2>9. /\ queue[c][m[i]] = queue[d][n[j]] /\ m[i] \in DOMAIN queue[c]
        /\ n[j] \in DOMAIN queue[d]
    BY <1>3, <2>3
  <2>10. \A a, b \in Conns : \A k \in DOMAIN queue[a], l \in DOMAIN queue[b] :
           queue[a][k] = queue[b][l] => a = b /\ k = l
    BY DEF Queues
  <2>4. c = d
    <3> HIDE DEF Within
    <3> QED  BY <2>9, <2>10
  <2>5. PICK k \in DOMAIN queue[c] : queue'[c][j] = queue[c][k] /\ k = m[j]
    BY <2>1, <2>4 DEF Within
  <2>6. m[i] = m[j]
    <3>1. queue[c][m[i]] = queue[c][k] /\ m[i] \in DOMAIN queue[c]  BY <1>3, <2>3, <2>4, <2>5
    <3>2. m[i] = k  BY <2>10, <3>1
    <3> QED  BY <2>5, <3>2
  <2>7. i \in Nat /\ j \in Nat /\ m[i] \in Nat /\ m[j] \in Nat
    <3>1. queue[c] \in Seq(Reqs) /\ queue'[c] \in Seq(Reqs)  BY DEF TypeOK
    <3>2. DOMAIN queue[c] \subseteq Nat /\ DOMAIN queue'[c] \subseteq Nat
      BY <3>1, LenProperties
    <3> QED  BY <2>3, <2>4, <2>5, <3>2
  <2>8. ~(i < j) /\ ~(j < i)  BY <2>1, <2>4, <2>6, <2>7 DEF Within
  <2> QED  BY <2>4, <2>7, <2>8
<1>4. ASSUME NEW r \in Reqs, InQueue(r)' PROVE r \in outstanding' \ freed'
  <2>1. InQueue(r)
    <3>1. PICK c \in Conns : r \in ToSet(queue'[c])  BY <1>4 DEF InQueue
    <3>2. PICK i \in DOMAIN queue'[c] : queue'[c][i] = r  BY <3>1 DEF ToSet
    <3> QED  BY <1>1, <3>2 DEF InQueue, ToSet
  <2> QED  BY <1>4, <2>1 DEF Queues
<1> QED  BY <1>2, <1>3, <1>4 DEF Queues

\* The connections are as they were.
LEMMA SameQueued ==
  ASSUME TypeOK, TypeOK', Queues, UNCHANGED queue, made \subseteq made',
         up' \subseteq up \cup (made \ freed),
         \A x \in freed' \ freed : x \in Reqs /\ ~InQueue(x),
         \A r \in Reqs : InQueue(r) => r \in outstanding'
  PROVE  Queues'
<1>1. \A c \in Conns : \E m : Within(queue'[c], queue[c], m)
  BY WithinFew DEF TypeOK
<1>2. up' \cap freed' = {}  BY Apart DEF Queues, TypeOK
<1>3. \A c \in Conns : c \notin freed' \ freed  BY Apart
<1>4. \A r \in Reqs : InQueue(r) => r \in outstanding' /\ r \notin freed' \ freed
  OBVIOUS
<1> QED  BY <1>1, <1>2, <1>3, <1>4, FewerQueued

\* A request that an object holds is on no connection.
LEMMA HeldQueued ==
  ASSUME TypeOK, Base, NEW o \in Requests, handle[o] # None
  PROVE  handle[o] \in Reqs /\ ~InQueue(handle[o]) /\ Unsent(handle[o])
<1>1. handle[o] \in Reqs /\ Held(handle[o])  BY HandleType DEF Held
<1> QED  BY <1>1 DEF Base, Handles, Queues, Unsent

\* The operations of a request.
LEMMA RequestQueues ==
  ASSUME TypeOK, TypeOK', Base, faults = {}, RequestNext, ~Gone'
  PROVE  Queues'
<1>1. Queues /\ \A r \in Reqs : InQueue(r) => r \in outstanding  BY DEF Base, Queues
<1>2. ASSUME UNCHANGED <<queue, made, up, freed, outstanding>> PROVE Queues'
  BY <1>1, <1>2, SameQueued
<1>3. ASSUME NEW o \in Requests, NEW r \in Reqs, NEW f \in Functors, NEW err \in BOOLEAN,
             ConstructRequest(o, r, f, err)
      PROVE  Queues'
  BY <1>2, <1>3 DEF ConstructRequest, conns, outcome
<1>4. ASSUME NEW o \in Requests, UNCHANGED <<queue, made, up, outstanding>>,
             freed' = freed \cup ({handle[o]} \ {None})
      PROVE  Queues'
  <2>1. \A x \in freed' \ freed : x \in Reqs /\ ~InQueue(x)
    BY <1>4, HeldQueued
  <2> QED  BY <1>1, <1>4, <2>1, SameQueued
<1>5. ASSUME NEW o \in Requests, NEW r \in Reqs, NEW f \in Functors, CreateRequest(o, r, f)
      PROVE  Queues'
  BY <1>4, <1>5 DEF CreateRequest, conns, outcome, Free
<1>6. ASSUME NEW o \in Requests, CloseRequest(o) PROVE Queues'
  <2>1. freed' = freed \cup ({handle[o]} \ {None}) /\ UNCHANGED <<queue, made, up, outstanding>>
    BY <1>6 DEF CloseRequest, conns, outcome, Free
  <2> QED  BY <1>4, <2>1
<1>7. ASSUME NEW o \in Requests, NEW p \in Requests, Move(o, p) PROVE Queues'
  BY <1>2, <1>7 DEF Move, conns, outcome
<1>8. ASSUME NEW o \in Requests, Release(o) PROVE Queues'
  BY <1>2, <1>8 DEF Release, conns, outcome
<1>9. ASSUME NEW r \in Reqs, Own(r) PROVE Queues'
  BY <1>2, <1>9 DEF Own, conns, outcome
<1>10. ASSUME NEW r \in Reqs, Cancel(r) PROVE Queues'
  <2>1. \A c \in Conns : /\ ToSet(queue[c])' = ToSet(queue[c]) \ {r}
                         /\ \E m : Within(queue'[c], queue[c], m)
    BY <1>10, CancelQueue
  <2>2. /\ made' = made /\ outstanding' = outstanding \ {r}
        /\ freed' \subseteq freed \cup {r} /\ up' \subseteq up
    BY <1>10, CancelAgenda DEF Cancel, Reset
  <2>7. up \cap freed = {} /\ up \subseteq Conns  BY <1>1 DEF Queues, TypeOK
  <2>3. up' \cap freed' = {}  BY <2>2, <2>7, Apart
  <2>4. \A c \in Conns : c \notin freed' \ freed  BY <2>2, Apart
  <2>5. ~InQueue(r)'  BY <2>1 DEF InQueue
  <2>6. \A q \in Reqs : InQueue(q) /\ InQueue(q)' =>
                          q \in outstanding' /\ q \notin freed' \ freed
    BY <1>1, <2>2, <2>5
  <2> QED  BY <1>1, <2>1, <2>2, <2>3, <2>4, <2>6, FewerQueued
<1> QED
  BY <1>3, <1>5, <1>6, <1>7, <1>8, <1>9, <1>10 DEF RequestNext

\* A connection that is freed takes its requests with it.
LEMMA FreeRestQueues ==
  ASSUME TypeOK, TypeOK', Base, faults = {}, NEW c \in Conns, FreeRest(c)
  PROVE  Queues'
<1>1. /\ freed' = freed \cup {c} \cup ToSet(queue[c])
      /\ ToSet(queue[c]) \subseteq Reqs /\ ToSet(queue[c]) \cap freed = {}
  BY FreeRestFaults, OnConnection
<1>2. /\ queue' = [queue EXCEPT ![c] = <<>>] /\ up' = up \ {c}
      /\ outstanding' = outstanding \ ToSet(queue[c]) /\ UNCHANGED made
  BY DEF FreeRest
<1>3. \A d \in Conns : queue'[d] = IF d = c THEN <<>> ELSE queue[d]
  BY <1>2 DEF TypeOK
<1>4. \A d \in Conns : \E m : Within(queue'[d], queue[d], m)
  <2>1. \A d \in Conns : queue[d] \in Seq(Reqs)  BY DEF TypeOK
  <2> QED  BY <1>3, <2>1, WithinFew
<1>5. up' \cap freed' = {}  BY <1>1, <1>2, Apart DEF Base, Queues, TypeOK
<1>6. \A d \in Conns : queue'[d] # <<>> => d \notin freed' \ freed
  BY <1>1, <1>3, Apart
<1>7. ASSUME NEW r \in Reqs, InQueue(r), InQueue(r)'
      PROVE  r \in outstanding' /\ r \notin freed' \ freed
  <2>1. PICK d \in Conns : r \in ToSet(queue'[d])  BY <1>7 DEF InQueue
  <2>2. d # c /\ r \in ToSet(queue[d])  BY <1>3, <2>1, SetOne
  <2>3. r \notin ToSet(queue[c])  BY <2>2 DEF ToSet, Base, Queues
  <2>4. r \in outstanding /\ r # c  BY <1>7, Apart DEF Base, Queues
  <2> QED  BY <1>1, <1>2, <2>3, <2>4
<1> QED  BY <1>2, <1>4, <1>5, <1>6, <1>7, FewerQueued DEF Base

\* One that gets a request did not have it.
LEMMA MakeQueues ==
  ASSUME TypeOK, TypeOK', Base, faults = {}, NEW r \in Reqs, NEW c \in Conns,
         c \in made \ freed, Make(r, c), ~InQueue(r), UNCHANGED <<made, up>>, ~Gone'
  PROVE  Queues'
<1>1. Queues /\ \A q \in Reqs : InQueue(q) => q \in outstanding \ freed
  BY DEF Base, Queues
<1>2. CASE /\ queue' = [queue EXCEPT ![c] = Append(@, r)]
           /\ outstanding' = outstanding \cup {r}
           /\ faults' = faults \cup (IF r \in freed THEN {"use after free"} ELSE {})
           /\ UNCHANGED <<freed, told>>
  <2>1. r \notin freed  BY <1>2 DEF Gone
  <2>2. \A d \in Conns : queue'[d] = IF d = c THEN Append(queue[c], r) ELSE queue[d]
    BY <1>2 DEF TypeOK
  <2>3. queue[c] \in Seq(Reqs)  BY DEF TypeOK
  <2> DEFINE n == Len(queue[c]) + 1
  <2>4. /\ DOMAIN Append(queue[c], r) = DOMAIN queue[c] \cup {n}
        /\ \A i \in DOMAIN queue[c] : Append(queue[c], r)[i] = queue[c][i]
        /\ Append(queue[c], r)[n] = r
        /\ ToSet(Append(queue[c], r)) = ToSet(queue[c]) \cup {r}
    BY <2>3, SetAppend
  <2> HIDE DEF n
  <2>5. ASSUME NEW d \in Conns, NEW i \in DOMAIN queue'[d]
        PROVE  \/ i \in DOMAIN queue[d] /\ queue'[d][i] = queue[d][i] /\ queue[d][i] # r
               \/ d = c /\ i = n /\ queue'[d][i] = r
    <3>1. \A j \in DOMAIN queue[d] : queue[d][j] # r  BY DEF InQueue, ToSet
    <3> QED  BY <2>2, <2>4, <2>5, <3>1
  <2>6. ASSUME NEW d \in Conns, NEW e \in Conns, NEW i \in DOMAIN queue'[d],
               NEW j \in DOMAIN queue'[e], queue'[d][i] = queue'[e][j]
        PROVE  d = e /\ i = j
    <3>1. CASE queue'[d][i] = r  BY <2>5, <2>6, <3>1
    <3>2. CASE queue'[d][i] # r
      <4>1. /\ i \in DOMAIN queue[d] /\ queue'[d][i] = queue[d][i]
            /\ j \in DOMAIN queue[e] /\ queue'[e][j] = queue[e][j]
        BY <2>5, <2>6, <3>2
      <4>2. queue[d][i] = queue[e][j]  BY <2>6, <4>1
      <4> QED  BY <1>1, <4>1, <4>2 DEF Queues
    <3> QED  BY <3>1, <3>2
  <2>7. ASSUME NEW q \in Reqs, InQueue(q)' PROVE q \in outstanding' \ freed'
    <3>1. PICK d \in Conns : q \in ToSet(queue'[d])  BY <2>7 DEF InQueue
    <3>2. q = r \/ q \in ToSet(queue[d])  BY <2>2, <2>4, <3>1
    <3>3. q = r \/ InQueue(q)  BY <3>2 DEF InQueue
    <3> QED  BY <1>1, <1>2, <2>1, <3>3
  <2>8. \A d \in Conns : queue'[d] # <<>> => d \in made' \ freed'
    BY <1>1, <1>2, <2>2 DEF Queues
  <2>9. up' \cap freed' = {}  BY <1>1, <1>2 DEF Queues
  <2> QED  BY <2>6, <2>7, <2>8, <2>9 DEF Queues
<1>3. CASE /\ Free({r}) /\ told' = [told EXCEPT ![r] = Append(@, "refused")]
           /\ UNCHANGED <<queue, outstanding>>
  <2>1. freed' = freed \cup {r}  BY <1>3 DEF Free
  <2>2. \A x \in freed' \ freed : x \in Reqs /\ ~InQueue(x)  BY <2>1
  <2> QED  BY <1>1, <1>3, <2>2, SameQueued
<1> QED  BY <1>2, <1>3 DEF Make

\* The operations of a connection.
LEMMA ConnectionQueues ==
  ASSUME TypeOK, TypeOK', Base, faults = {}, ConnectionNext, ~Gone'
  PROVE  Queues'
<1>1. Queues /\ \A r \in Reqs : InQueue(r) => r \in outstanding  BY DEF Base, Queues
<1>2. ASSUME UNCHANGED <<queue, up, freed, outstanding>>, made \subseteq made'
      PROVE  Queues'
  BY <1>1, <1>2, SameQueued
<1>3. ASSUME NEW k \in Connections, NEW c \in Conns, ConstructConnection(k, c)
      PROVE  Queues'
  BY <1>2, <1>3 DEF ConstructConnection, outcome
<1>4. ASSUME NEW k \in Connections, NEW c \in Conns, CreateConnection(k, c)
      PROVE  Queues'
  BY <1>2, <1>4 DEF CreateConnection, outcome
<1>5. ASSUME NEW k \in Connections, CloseConnection(k) PROVE Queues'
  BY <1>2, <1>5 DEF CloseConnection, conns, outcome
<1>6. ASSUME NEW k \in Connections, Release(k) PROVE Queues'
  BY <1>2, <1>6 DEF Release, conns, outcome
<1>7. ASSUME NEW k \in Connections, NEW l \in Connections, Move(k, l) PROVE Queues'
  BY <1>2, <1>7 DEF Move, conns, outcome
<1>8. ASSUME NEW k \in Connections, NEW f, OnCloseRef(k, f) \/ OnCloseMove(k, f)
      PROVE  Queues'
  BY <1>2, <1>8 DEF OnCloseRef, OnCloseMove, outcome
<1>9. ASSUME NEW o \in Requests, NEW k \in Connections, MakeRequest(o, k) PROVE Queues'
  <2>1. /\ Make(handle[o], handle[k]) /\ handle[o] # None /\ handle[k] # None
        /\ UNCHANGED <<made, up>>
    BY <1>9 DEF MakeRequest
  <2> QED  BY <2>1, Connected, HeldQueued, MakeQueues
<1>10. ASSUME NEW r \in Reqs, NEW k \in Connections, MakeReleased(r, k) PROVE Queues'
  <2>1. /\ Make(r, handle[k]) /\ handle[k] # None /\ UNCHANGED <<made, up>>
        /\ ~InQueue(r)
    BY <1>1, <1>10, QueuedIs DEF MakeReleased
  <2> QED  BY <2>1, Connected, MakeQueues
<1> QED
  BY <1>3, <1>4, <1>5, <1>6, <1>7, <1>8, <1>9, <1>10 DEF ConnectionNext

\* The requests that the callbacks are about are on no connection any more.
LEMMA ItemQueued ==
  ASSUME TypeOK, Base, NEW x \in ToSet(agenda), x.cb \in Endings
  PROVE  x.of \in Reqs /\ ~InQueue(x.of)
<1>1. Fits(x)  BY DEF Base, Agenda
<1>2. x.of \in Reqs  BY <1>1 DEF Fits, Endings
<1>3. InQueue(x.of) => x.of \in outstanding \ freed  BY <1>2 DEF Base, Queues
<1>4. x.of \in outstanding => told[x.of] = <<>>  BY <1>2 DEF Base, Settled
<1> QED  BY <1>1, <1>2, <1>3, <1>4, Outcomes DEF Fits, Endings

\* The steps of the loop.
LEMMA LoopQueues ==
  ASSUME TypeOK, TypeOK', Base, faults = {}, LoopNext, ~Gone'
  PROVE  Queues'
<1>1. Queues /\ \A r \in Reqs : InQueue(r) => r \in outstanding  BY DEF Base, Queues
<1>2. ASSUME NEW c \in Conns, Connect(c) \/ PeerCloses(c) PROVE Queues'
  <2>1. /\ UNCHANGED <<queue, made, freed, outstanding>>
        /\ up' \subseteq up \cup (made \ freed)
    BY <1>2 DEF Connect, PeerCloses, Reset, outcome, Queues
  <2> QED  BY <1>1, <2>1, SameQueued
<1>3. ASSUME NEW c \in Conns, ConnectFails(c) PROVE Queues'
  <2>1. /\ UNCHANGED <<made, freed, outstanding, up>>
        /\ \A d \in Conns : queue'[d] = IF d = c THEN <<>> ELSE queue[d]
    BY <1>3 DEF ConnectFails, outcome, TypeOK
  <2>2. \A d \in Conns : \E m : Within(queue'[d], queue[d], m)
    <3>1. \A d \in Conns : queue[d] \in Seq(Reqs)  BY DEF TypeOK
    <3> QED  BY <2>1, <3>1, WithinFew
  <2> QED  BY <1>1, <2>1, <2>2, FewerQueued DEF Queues
<1>4. ASSUME NEW c \in Conns, queue[c] # <<>>, queue' = [queue EXCEPT ![c] = Tail(@)]
      PROVE  \A d \in Conns : \E m : Within(queue'[d], queue[d], m)
  <2>1. \A d \in Conns : queue'[d] = IF d = c THEN Tail(queue[c]) ELSE queue[d]
    BY <1>4 DEF TypeOK
  <2>2. \A d \in Conns : queue[d] \in Seq(Reqs)  BY DEF TypeOK
  <2>3. \E m : Within(Tail(queue[c]), queue[c], m)  BY <1>4, <2>2, WithinFew
  <2> QED  BY <2>1, <2>2, <2>3, WithinFew
<1>5. ASSUME NEW c \in Conns, NEW keep \in BOOLEAN, Complete(c, keep) PROVE Queues'
  <2>1. /\ UNCHANGED <<made, freed, outstanding>> /\ up' \subseteq up
        /\ queue[c] # <<>> /\ queue' = [queue EXCEPT ![c] = Tail(@)]
    BY <1>5 DEF Complete, Reset, outcome
  <2>2. \A d \in Conns : \E m : Within(queue'[d], queue[d], m)  BY <1>4, <2>1
  <2> QED  BY <1>1, <2>1, <2>2, FewerQueued DEF Queues
<1>6. ASSUME NEW c \in Conns, Fail(c) PROVE Queues'
  <2>8. PICK r : r = Head(queue[c])  OBVIOUS
  <2>1. /\ UNCHANGED <<made, outstanding>> /\ up' \subseteq up
        /\ queue[c] # <<>> /\ queue' = [queue EXCEPT ![c] = Tail(@)]
    BY <1>6 DEF Fail, Reset, outcome
  <2>2. \A d \in Conns : \E m : Within(queue'[d], queue[d], m)  BY <1>4, <2>1
  <2>3. /\ freed' = freed \cup {r} /\ r \in Reqs /\ r \notin ToSet(Tail(queue[c]))
        /\ r \in ToSet(queue[c])
    BY <1>6, <2>1, <2>8, FirstIs, FailFaults
  <2>4. ~InQueue(r)'
    <3>1. \A d \in Conns : queue'[d] = IF d = c THEN Tail(queue[c]) ELSE queue[d]
      BY <2>1 DEF TypeOK
    <3>2. \A d \in Conns : d # c => r \notin ToSet(queue[d])
      BY <1>1, <2>3 DEF ToSet, Queues
    <3>3. \A d \in Conns : r \notin ToSet(queue'[d])  BY <2>3, <3>1, <3>2
    <3> QED  BY <3>3 DEF InQueue
  <2>9. up \cap freed = {} /\ up \subseteq Conns  BY <1>1 DEF Queues, TypeOK
  <2>5. up' \cap freed' = {}  BY <2>1, <2>3, <2>9, Apart
  <2>6. \A d \in Conns : d \notin freed' \ freed  BY <2>3, Apart
  <2>7. \A q \in Reqs : InQueue(q) /\ InQueue(q)' =>
                          q \in outstanding' /\ q \notin freed' \ freed
    BY <1>1, <2>1, <2>3, <2>4
  <2> QED  BY <1>1, <2>1, <2>2, <2>5, <2>6, <2>7, FewerQueued
<1>7. CASE Call
  <2> DEFINE x == Head(agenda)
  <2>1. x \in ToSet(agenda)  BY <1>7, CallAgenda
  <2>2. /\ UNCHANGED <<made, up, queue, freed>>
        /\ outstanding' = IF x.cb \in Endings THEN outstanding \ {x.of} ELSE outstanding
    BY <1>7 DEF Call, conns, Endings
  <2> HIDE DEF x
  <2>3. x.cb \in Endings => ~InQueue(x.of)  BY <2>1, ItemQueued
  <2>4. \A r \in Reqs : InQueue(r) => r \in outstanding'  BY <1>1, <2>2, <2>3
  <2> QED  BY <1>1, <2>2, <2>4, SameQueued
<1>8. CASE Return
  <2> DEFINE x == Head(agenda)
  <2>1. x \in ToSet(agenda)  BY <1>8, ReturnAgenda
  <2>2. /\ UNCHANGED <<made, queue, outstanding>> /\ up' \subseteq up
        /\ freed' \subseteq freed \cup (IF x.cb = "done" THEN {x.of} ELSE {})
    BY <1>8 DEF Return, Resume, outcome, Free
  <2> HIDE DEF x
  <2>3. x.cb = "done" => x.of \in Reqs /\ ~InQueue(x.of)
    BY <2>1, ItemQueued DEF Endings
  <2>4. \A y \in freed' \ freed : y \in Reqs /\ ~InQueue(y)  BY <2>2, <2>3
  <2> QED  BY <1>1, <2>2, <2>4, SameQueued
<1> QED
  BY <1>2, <1>3, <1>5, <1>6, <1>7, <1>8, FreeRestQueues DEF LoopNext

\* Every step.
LEMMA QueuesStep ==
  ASSUME TypeOK, TypeOK', Base, Next, ~Gone'
  PROVE  Queues'
<1>1. ASSUME NEW f \in Functors, EndLife(f) PROVE Queues'
  <2>1. UNCHANGED <<queue, made, up, freed, outstanding>>
    BY <1>1 DEF EndLife, conns, outcome
  <2> QED  BY <2>1, SameQueued DEF Base, Queues
<1> QED  BY <1>1, RequestQueues, ConnectionQueues, LoopQueues DEF Next

-----------------------------------------------------------------------------
(* The callbacks.                                                           *)

\* Request r is to the program what it was.
Same(r) ==
  /\ fn'[r] = fn[r] /\ told'[r] = told[r]
  /\ r \in outstanding' <=> r \in outstanding
  /\ r \in dismissed' <=> r \in dismissed
  /\ r \in freed' <=> r \in freed

\* And on a connection only if it was.
Still(r) == Same(r) /\ (InQueue(r)' => InQueue(r))

\* A callback fits its request while that is what it was, and its connection while
\* that is there.
LEMMA SameFits ==
  ASSUME NEW x, Fits(x), misuse \subseteq misuse', x.cb \in Endings => Still(x.of),
         x.cb = "close" /\ x.of \in freed' => x.of \in freed \/ Wrong',
         x.cb = "free" => x.of \in made' \ freed'
  PROVE  Fits(x)'
<1>1. Wrong => Wrong'  BY DEF Wrong
<1>2. CASE x.cb \in Endings
  <2> DEFINE r == x.of
  <2>1. Same(r) /\ (InQueue(r)' => InQueue(r))  BY <1>2 DEF Still
  <2>2. x.cb # "close" /\ x.cb # "free"  BY <1>2 DEF Endings
  <2>3. Fits(x)  OBVIOUS
  <2> QED  BY <1>1, <2>1, <2>2, <2>3 DEF Fits, Same
<1>3. CASE x.cb \notin Endings
  <2>1. x.cb # "done" /\ x.cb # "error" /\ x.cb # "null"  BY <1>3 DEF Endings
  <2> QED  BY <1>1, <1>3, <2>1 DEF Fits
<1> QED  BY <1>2, <1>3

\* Which it is after a step that frees no connection.
LEMMA KeptFits ==
  ASSUME TypeOK, NEW x, Fits(x), misuse \subseteq misuse', made \subseteq made',
         freed' \subseteq freed \cup Reqs, x.cb \in Endings => Still(x.of)
  PROVE  Fits(x)'
<1>1. x.cb = "close" => x.of \in Conns  BY DEF Fits
<1>2. x.cb = "free" => x.of \in made \ freed  BY DEF Fits
<1>3. x.cb = "free" => x.of \in made' \ freed'  BY <1>2, Apart DEF TypeOK
<1>4. x.cb = "close" /\ x.of \in freed' => x.of \in freed  BY <1>1, Apart
<1> QED  BY <1>3, <1>4, SameFits

\* A connection that closes is there.
LEMMA CloseFits ==
  ASSUME TypeOK, Base, freed' \subseteq freed \cup Reqs
  PROVE  \A c \in Conns : \A x \in CloseOf(c) : Fits(x)'
<1> SUFFICES ASSUME NEW c \in Conns, NEW x \in CloseOf(c) PROVE Fits(x)'  OBVIOUS
<1>1. c \in up /\ closecb[c] # None /\ x = Item("close", c, closecb[c])  BY DEF CloseOf
<1>2. x.cb = "close" /\ x.of = c /\ x.arg = closecb[c]  BY <1>1, ItemIs
<1>3. closecb[c] \in Functors \cup Cells  BY <1>1 DEF TypeOK
<1>4. c \notin freed'  BY <1>1, Apart DEF Base, Queues
<1> QED  BY <1>2, <1>3, <1>4 DEF Fits, Endings

\* No other callback of a request is on the agenda.
LEMMA KeptAgenda ==
  ASSUME TypeOK, Agenda, misuse \subseteq misuse', made \subseteq made',
         freed' \subseteq freed \cup Reqs, UNCHANGED agenda,
         \A x \in ToSet(agenda) : x.cb \in Endings => Still(x.of)
  PROVE  Agenda'
<1>1. Ordered(agenda, Wrong) /\ (Wrong => Wrong')  BY DEF Agenda, Wrong
<1>2. PICK w : w = Wrong'  OBVIOUS
<1>3. Ordered(agenda, w)  BY <1>1, <1>2, OrderedStays DEF Wrong
<1>4. \A x \in ToSet(agenda) : Fits(x)'  BY KeptFits DEF Agenda
<1>5. ToSet(agenda)' = ToSet(agenda)  OBVIOUS
<1> QED  BY <1>2, <1>3, <1>4, <1>5 DEF Agenda

\* The request that a callback is about is on no connection and no object has it.
LEMMA ItemOf ==
  ASSUME TypeOK, Base, NEW x \in ToSet(agenda), x.cb \in Endings
  PROVE  /\ x.of \in Reqs /\ fn[x.of] # None /\ ~Unsent(x.of) /\ ~InQueue(x.of)
         /\ x.cb \in {"error", "null"} => x.of \in freed
<1>1. Fits(x)  BY DEF Base, Agenda
<1>2. x.of \in Reqs /\ ~InQueue(x.of)  BY ItemQueued
<1>3. fn[x.of] # None  BY <1>1, Apart DEF Fits, Endings
<1>4. ~Unsent(x.of)  BY <1>1, Outcomes DEF Fits, Unsent, Endings
<1>5. x.cb \in {"error", "null"} => x.of \in freed  BY <1>1 DEF Fits
<1> QED  BY <1>2, <1>3, <1>4, <1>5

\* Requests are made, given up or freed that were not sent.
LEMMA UnsentAgenda ==
  ASSUME TypeOK, Base, misuse \subseteq misuse', made \subseteq made',
         UNCHANGED <<agenda, told, outstanding, dismissed, queue>>,
         \A q \in Reqs : fn[q] # None => fn'[q] = fn[q],
         freed \subseteq freed', \A q \in freed' \ freed : q \in Reqs /\ Unsent(q)
  PROVE  Agenda'
<1>1. ASSUME NEW x \in ToSet(agenda), x.cb \in Endings PROVE Still(x.of)
  <2>1. x.of \in Reqs /\ fn[x.of] # None /\ ~Unsent(x.of)  BY <1>1, ItemOf
  <2>2. InQueue(x.of)' => InQueue(x.of)  BY DEF InQueue
  <2> QED  BY <2>1, <2>2 DEF Still, Same
<1>2. freed' \subseteq freed \cup Reqs  OBVIOUS
<1> QED  BY <1>1, <1>2, KeptAgenda DEF Base

\* The operations of a request.
LEMMA RequestAgenda ==
  ASSUME TypeOK, TypeOK', Base, faults = {}, RequestNext, ~Gone', misuse \subseteq misuse'
  PROVE  Agenda'
<1>1. Agenda  BY DEF Base
<1>2. ASSUME NEW r \in Reqs, NEW f \in Functors, Allocate(r, f)
      PROVE  \A q \in Reqs : fn[q] # None => fn'[q] = fn[q]
  BY <1>2 DEF Allocate, TypeOK
<1>3. ASSUME NEW o \in Requests, NEW r \in Reqs, NEW f \in Functors, NEW err \in BOOLEAN,
             ConstructRequest(o, r, f, err)
      PROVE  Agenda'
  <2>1. /\ UNCHANGED <<agenda, told, outstanding, dismissed, queue, freed, made>>
        /\ Allocate(r, f)
    BY <1>3 DEF ConstructRequest, conns, outcome
  <2> QED  BY <1>2, <2>1, UnsentAgenda
<1>4. ASSUME NEW o \in Requests, NEW r \in Reqs, NEW f \in Functors, CreateRequest(o, r, f)
      PROVE  Agenda'
  <2>1. /\ UNCHANGED <<agenda, told, outstanding, dismissed, queue, made>> /\ Allocate(r, f)
        /\ freed' = freed \cup ({handle[o]} \ {None})
    BY <1>4 DEF CreateRequest, conns, outcome, Free
  <2>2. \A q \in freed' \ freed : q \in Reqs /\ Unsent(q)  BY <2>1, HeldQueued
  <2> QED  BY <1>2, <2>1, <2>2, UnsentAgenda
<1>5. ASSUME NEW o \in Requests, CloseRequest(o) PROVE Agenda'
  <2>1. /\ UNCHANGED <<fn, agenda, told, outstanding, dismissed, queue, made>>
        /\ freed' = freed \cup {handle[o]} /\ handle[o] # None
    BY <1>5 DEF CloseRequest, reqs, conns, outcome, Free
  <2>2. \A q \in freed' \ freed : q \in Reqs /\ Unsent(q)  BY <2>1, HeldQueued
  <2> QED  BY <2>1, <2>2, UnsentAgenda
<1>6. ASSUME NEW o \in Requests, NEW p \in Requests, Move(o, p) \/ Release(o) PROVE Agenda'
  <2>1. UNCHANGED <<fn, agenda, told, outstanding, dismissed, queue, freed, made>>
    BY <1>6 DEF Move, Release, reqs, conns, outcome
  <2> QED  BY <2>1, UnsentAgenda
<1>7. ASSUME NEW r \in Reqs, Own(r) PROVE Agenda'
  <2>1. UNCHANGED <<fn, agenda, told, outstanding, dismissed, queue, freed, made>>
    BY <1>7 DEF Own, conns, outcome
  <2> QED  BY <2>1, UnsentAgenda
<1>8. ASSUME NEW r \in Reqs, Cancel(r) PROVE Agenda'
  <2>1. UNCHANGED <<fn, told>>  BY <1>8 DEF Cancel, reqs
  <2>2. ASSUME NEW q PROVE InQueue(q)' => InQueue(q)
    <3>1. \A c \in Conns : ToSet(queue[c])' = ToSet(queue[c]) \ {r}  BY <1>8, CancelQueue
    <3> QED  BY <3>1 DEF InQueue
  <2>3. \A q : q # r => Still(q)
    BY <1>8, <2>1, <2>2 DEF Still, Same, Cancel
  <2>4. /\ r \notin freed
        /\ \/ /\ r \in outstanding /\ told[r] = <<>>
              /\ freed' = freed \cup {r} /\ dismissed' = dismissed \cup {r}
           \/ /\ r \notin outstanding /\ Wrong' /\ UNCHANGED <<outstanding, dismissed>>
              /\ ~InQueue(r) /\ ~Pending("done", r)
    BY <1>8, CancelEffect
  <2>5. made \subseteq made' /\ freed' \subseteq freed \cup Reqs  BY <1>8 DEF Cancel
  <2>6. ASSUME NEW x \in Rest(r) PROVE Fits(x)'
    <3>1. x \in ToSet(agenda)  BY DEF Rest
    <3>2. Fits(x)  BY <1>1, <3>1 DEF Agenda
    <3>3. CASE x.of = r /\ x.cb \in Endings /\ x.runs
      <4>1. x.cb = "done"  BY <2>4, <3>1, <3>3, ItemOf DEF Endings
      <4>2. told[r] = <<"done">>  BY <3>2, <3>3, <4>1 DEF Fits
      <4>3. r \notin outstanding /\ Wrong'  BY <2>4, <4>2, Outcomes
      <4> QED  BY <2>1, <3>2, <3>3, <4>1, <4>2, <4>3 DEF Fits
    <3>4. CASE x.of = r /\ x.cb \in Endings /\ ~x.runs
      <4>1. x.cb = "done"  BY <2>4, <3>1, <3>4, ItemOf DEF Endings
      <4>2. Pending("done", r)  BY <3>1, <3>4, <4>1 DEF Pending
      <4>3. r \in freed' \cap dismissed'  BY <2>4, <4>2
      <4>4. "cancel done" \in misuse'
        <5>1. PICK i \in DOMAIN agenda : agenda[i] = x  BY <3>1 DEF ToSet
        <5>2. i \in Due(r)  BY <3>4, <4>1, <5>1 DEF Due
        <5> QED  BY <1>8, <5>2 DEF Cancel
      <4>5. ~InQueue(r)'  BY <2>2, <3>1, <3>4, ItemOf
      <4> QED  BY <2>1, <3>2, <3>4, <4>1, <4>3, <4>4, <4>5 DEF Fits
    <3>5. CASE ~(x.of = r /\ x.cb \in Endings)
      BY <2>3, <2>5, <3>2, <3>5, KeptFits
    <3> QED  BY <3>3, <3>4, <3>5
  <2>7. PICK w : w = Wrong'  OBVIOUS
  <2>8. Ordered(agenda', w)
    <3>1. Ordered(agenda', Wrong) /\ (Wrong => w) /\ w \in BOOLEAN
      BY <1>8, <2>7, CancelAgenda DEF Wrong
    <3>2. PICK s : s = agenda'  OBVIOUS
    <3> QED  BY <3>1, <3>2, OrderedStays DEF Wrong
  <2>9. CASE ToSet(agenda') = Rest(r)
    BY <2>6, <2>7, <2>8, <2>9 DEF Agenda
  <2>10. CASE /\ InQueue(r)
              /\ \E c \in Conns :
                   ToSet(agenda') = CloseOf(c) \cup ErrorOf(r) \cup Rest(r)
    <3>1. ASSUME NEW x \in ErrorOf(r) PROVE Fits(x)'
      <4>1. x.cb = "error" /\ x.of = r /\ ~x.runs /\ x.arg = fn[r]
        BY <3>1, ItemIs DEF ErrorOf
      <4>2. r \in freed' /\ r \in dismissed' /\ told'[r] = <<>> /\ fn'[r] = fn[r]
        BY <2>1, <2>4, <2>10
      <4>3. fn[r] \in Functors  BY <1>8, CancelledIs DEF TypeOK
      <4> QED  BY <4>1, <4>2, <4>3 DEF Fits, Endings
    <3> QED  BY <2>5, <2>6, <2>7, <2>8, <2>10, <3>1, CloseFits DEF Agenda
  <2> QED  BY <1>8, <2>9, <2>10, CancelAgenda
<1> QED  BY <1>3, <1>4, <1>5, <1>6, <1>7, <1>8 DEF RequestNext

\* A connection that is freed is not being freed already, and it stays until then.
LEMMA FreeConnectionAgenda ==
  ASSUME TypeOK, Base, NEW k \in Connections, handle[k] # None, FreeConnection(handle[k]),
         made \subseteq made',
         UNCHANGED <<fn, told, outstanding, dismissed, freed, queue>>
  PROVE  Agenda'
<1>1. PICK c \in Conns : c = handle[k] /\ c \in made \ freed  BY Connected
<1>2. misuse \subseteq misuse' /\ FreeConnection(c)  BY <1>1 DEF FreeConnection, Note
<1>3. Agenda /\ (Wrong => Wrong')  BY <1>2 DEF Base, Wrong
<1>4. ~OnAgenda("free", c)  BY <1>1, InsideIs DEF Base, Lasting, Freeing
<1>5. PICK w : w = Wrong'  OBVIOUS
<1>6. Ordered(agenda, w)
  <2>1. PICK s : s = agenda  OBVIOUS
  <2> QED  BY <1>3, <1>5, <2>1, OrderedStays DEF Agenda, Wrong
<1>7. OnAgenda("close", c) => w  BY <1>2, <1>5 DEF FreeConnection, Note, Wrong
<1>8. Ordered(agenda', w)
  <2>1. w \in BOOLEAN  BY <1>5 DEF Wrong
  <2> QED  BY <1>2, <1>4, <1>6, <1>7, <2>1, FreeConnectionOrdered
<1>9. ToSet(agenda') = CloseOf(c) \cup {Item("free", c, None)} \cup ToSet(agenda)
  BY <1>2, FreeConnectionType
<1>10. \A q : Still(q)  BY DEF Still, Same, InQueue
<1>11. \A x \in ToSet(agenda) : Fits(x)'  BY <1>2, <1>3, <1>10, KeptFits DEF Agenda
<1>12. PICK x : x = Item("free", c, None)  OBVIOUS
<1>16. x.cb = "free" /\ x.of = c /\ ~x.runs  BY <1>12, ItemIs
<1>17. c \in made' \ freed'  BY <1>1
<1>13. Fits(x)'  BY <1>16, <1>17 DEF Fits, Endings
<1>14. \A y \in CloseOf(c) : Fits(y)'  BY <1>1, CloseFits
<1>15. \A y \in ToSet(agenda') : Fits(y)'  BY <1>9, <1>11, <1>12, <1>13, <1>14
<1> QED  BY <1>5, <1>8, <1>15 DEF Agenda

\* A request that no callback is about is given to a connection.
LEMMA MakeAgenda ==
  ASSUME TypeOK, Base, NEW r \in Reqs, NEW c \in Conns, Make(r, c),
         UNCHANGED <<fn, dismissed, agenda, made>>, misuse \subseteq misuse',
         \A x \in ToSet(agenda) : x.cb \in Endings => x.of # r
  PROVE  Agenda'
<1>1. ASSUME NEW q \in Reqs, q # r PROVE Still(q)
  <2>1. CASE /\ queue' = [queue EXCEPT ![c] = Append(@, r)]
             /\ outstanding' = outstanding \cup {r} /\ UNCHANGED <<freed, told>>
    <3>1. queue[c] \in Seq(Reqs)  BY DEF TypeOK
    <3>2. ToSet(Append(queue[c], r)) = ToSet(queue[c]) \cup {r}  BY <3>1, SetAppend
    <3>3. \A d \in Conns : queue'[d] = IF d = c THEN Append(queue[c], r) ELSE queue[d]
      BY <2>1 DEF TypeOK
    <3>4. InQueue(q)' => InQueue(q)  BY <1>1, <3>2, <3>3 DEF InQueue
    <3> QED  BY <1>1, <2>1, <3>4 DEF Still, Same
  <2>2. CASE /\ Free({r}) /\ told' = [told EXCEPT ![r] = Append(@, "refused")]
             /\ UNCHANGED <<queue, outstanding>>
    <3>1. told'[q] = told[q] /\ freed' = freed \cup {r}
      BY <1>1, <2>2 DEF TypeOK, Free
    <3>2. InQueue(q)' => InQueue(q)  BY <2>2 DEF InQueue
    <3> QED  BY <1>1, <2>2, <3>1, <3>2 DEF Still, Same
  <2> QED  BY <2>1, <2>2 DEF Make
<1>2. \A x \in ToSet(agenda) : x.cb \in Endings => Still(x.of)  BY <1>1, ItemOf
<1>3. freed' \subseteq freed \cup Reqs  BY DEF Make, Free
<1> QED  BY <1>2, <1>3, KeptAgenda DEF Base

\* The operations of a connection.
LEMMA ConnectionAgenda ==
  ASSUME TypeOK, TypeOK', Base, faults = {}, ConnectionNext, ~Gone', misuse \subseteq misuse'
  PROVE  Agenda'
<1>1. ASSUME UNCHANGED <<fn, agenda, told, outstanding, dismissed, queue, freed>>,
             made \subseteq made'
      PROVE  Agenda'
  BY <1>1, UnsentAgenda
<1>2. ASSUME NEW k \in Connections, NEW c \in Conns, ConstructConnection(k, c)
      PROVE  Agenda'
  BY <1>1, <1>2 DEF ConstructConnection, reqs, outcome
<1>3. ASSUME NEW k \in Connections, NEW c \in Conns, CreateConnection(k, c)
      PROVE  Agenda'
  <2>1. /\ FreeConnection(handle[k]) /\ handle[k] # None /\ made \subseteq made'
        /\ UNCHANGED <<fn, told, outstanding, dismissed, freed, queue>>
    BY <1>3 DEF CreateConnection, reqs, outcome
  <2> QED  BY <2>1, FreeConnectionAgenda
<1>4. ASSUME NEW k \in Connections, CloseConnection(k) PROVE Agenda'
  <2>1. /\ FreeConnection(handle[k]) /\ handle[k] # None /\ made \subseteq made'
        /\ UNCHANGED <<fn, told, outstanding, dismissed, freed, queue>>
    BY <1>4 DEF CloseConnection, reqs, conns, outcome
  <2> QED  BY <2>1, FreeConnectionAgenda
<1>5. ASSUME NEW k \in Connections, NEW l \in Connections, Release(k) \/ Move(k, l)
      PROVE  Agenda'
  BY <1>1, <1>5 DEF Release, Move, reqs, conns, outcome
<1>6. ASSUME NEW k \in Connections, NEW f, OnCloseRef(k, f) \/ OnCloseMove(k, f)
      PROVE  Agenda'
  BY <1>1, <1>6 DEF OnCloseRef, OnCloseMove, reqs, outcome
<1>7. ASSUME NEW o \in Requests, NEW k \in Connections, MakeRequest(o, k) PROVE Agenda'
  <2>1. /\ Make(handle[o], handle[k]) /\ handle[o] # None /\ handle[k] # None
        /\ UNCHANGED <<fn, dismissed, agenda, made>>
    BY <1>7 DEF MakeRequest, reqs
  <2>2. handle[o] \in Reqs /\ Unsent(handle[o])  BY <2>1, HeldQueued
  <2>3. \A x \in ToSet(agenda) : x.cb \in Endings => x.of # handle[o]
    BY <2>2, ItemOf
  <2> QED  BY <2>1, <2>2, <2>3, Connected, MakeAgenda
<1>8. ASSUME NEW r \in Reqs, NEW k \in Connections, MakeReleased(r, k) PROVE Agenda'
  <2>1. /\ Make(r, handle[k]) /\ handle[k] # None
        /\ UNCHANGED <<fn, dismissed, agenda, made>>
        /\ r \notin freed /\ ~OnAgenda("done", r)
    BY <1>8 DEF MakeReleased, reqs
  <2>2. \A x \in ToSet(agenda) : x.cb \in Endings => x.of # r
    BY <2>1, ItemOf, InsideIs DEF Endings
  <2> QED  BY <2>1, <2>2, Connected, MakeAgenda
<1> QED  BY <1>2, <1>3, <1>4, <1>5, <1>6, <1>7, <1>8 DEF ConnectionNext

\* A request that failed is told of the error, and then of its end.
LEMMA ErrorThenEnd == Append(<<"error">>, "null") = <<"error", "null">>
<1> DEFINE s == <<"error">>
           t == <<"error", "null">>
           S == {"error", "null"}
<1>1. s \in Seq(S) /\ Len(s) = 1 /\ s[1] = "error"  OBVIOUS
<1>2. t \in Seq(S) /\ Len(t) = 2 /\ t[1] = "error" /\ t[2] = "null"  OBVIOUS
<1>3. "null" \in S  OBVIOUS
<1> HIDE DEF s, t, S
<1>4. /\ DOMAIN s = 1 .. 1 /\ DOMAIN Append(s, "null") = DOMAIN s \cup {Len(s) + 1}
      /\ Append(s, "null") \in Seq(S)
      /\ \A i \in DOMAIN s : Append(s, "null")[i] = s[i]
      /\ Append(s, "null")[Len(s) + 1] = "null"
  BY <1>1, <1>3, SetAppend
<1>8. Len(Append(s, "null")) = Len(s) + 1  BY <1>1, <1>3, AppendProperties
<1>5. Len(Append(s, "null")) = 2  BY <1>1, <1>8
<1>6. \A i \in 1 .. 2 : Append(s, "null")[i] = t[i]  BY <1>1, <1>2, <1>4
<1>7. Append(s, "null") = t  BY <1>2, <1>4, <1>5, <1>6, SeqEqual
<1> QED  BY <1>7 DEF s, t

\* What a request is told, and what it was before.
LEMMA CallTold ==
  ASSUME TypeOK, Base, Call, ~Gone', NEW x, x = Head(agenda)
  PROVE  /\ x \in Callbacks /\ ~x.runs /\ x.cb # "free" /\ x \in ToSet(agenda) /\ Fits(x)
         /\ \A z \in ToSet(Tail(agenda)) : z \in ToSet(agenda) /\ Before(x, z, Wrong)
         /\ ToSet(agenda) = {x} \cup ToSet(Tail(agenda))
         /\ UNCHANGED <<fn, errs, own, dismissed, freed, made, queue, misuse>>
         /\ x.cb \notin Endings => UNCHANGED <<told, outstanding>>
         /\ x.cb \in Endings =>
              /\ x.of \in Reqs /\ outstanding' = outstanding \ {x.of}
              /\ \A q \in Reqs : q # x.of => told'[q] = told[q]
              /\ \/ /\ x.cb = "done" /\ told[x.of] = <<>> /\ told'[x.of] = <<"done">>
                    /\ x.of \notin freed
                 \/ /\ x.cb = "error" /\ told[x.of] = <<>> /\ told'[x.of] = <<"error">>
                    /\ x.of \in freed
                 \/ /\ x.cb = "null" /\ told[x.of] \in {<<>>, <<"error">>}
                    /\ x.of \in freed \ dismissed
                    /\ told'[x.of] \in {<<"null">>, <<"error", "null">>}
<1>1. /\ x \in Callbacks /\ ~x.runs /\ x \in ToSet(agenda)
      /\ \A z \in ToSet(Tail(agenda)) : z \in ToSet(agenda) /\ Before(x, z, Wrong)
      /\ ToSet(agenda) = {x} \cup ToSet(Tail(agenda))
  BY CallAgenda
<1>2. /\ UNCHANGED <<fn, errs, own, dismissed, freed, made, queue, misuse>>
      /\ x.cb # "free" /\ (x.cb = "done" => x.of \notin freed)
      /\ IF x.cb \in Endings
           THEN /\ told' = [told EXCEPT ![x.of] = Append(@, x.cb)]
                /\ outstanding' = outstanding \ {x.of}
           ELSE UNCHANGED <<told, outstanding>>
  BY DEF Call, reqs, conns, Endings, Gone
<1>3. Fits(x)  BY <1>1 DEF Base, Agenda
<1> SUFFICES ASSUME x.cb \in Endings
             PROVE  /\ x.of \in Reqs /\ \A q \in Reqs : q # x.of => told'[q] = told[q]
                    /\ \/ /\ x.cb = "done" /\ told[x.of] = <<>> /\ told'[x.of] = <<"done">>
                          /\ x.of \notin freed
                       \/ /\ x.cb = "error" /\ told[x.of] = <<>>
                          /\ told'[x.of] = <<"error">> /\ x.of \in freed
                       \/ /\ x.cb = "null" /\ told[x.of] \in {<<>>, <<"error">>}
                          /\ x.of \in freed \ dismissed
                          /\ told'[x.of] \in {<<"null">>, <<"error", "null">>}
  BY <1>1, <1>2, <1>3
<1> DEFINE r == x.of
<1>4. r \in Reqs  BY <1>1, ItemOf
<1>5. \A q \in Reqs : q # r => told'[q] = told[q]  BY <1>2 DEF TypeOK
<1>6. Settled(r)  BY <1>4 DEF Base
<1>7. told'[r] = Append(told[r], x.cb)  BY <1>2, <1>4 DEF TypeOK
<1>8. \A cb : Append(<<>>, cb) = <<cb>>  OBVIOUS
<1>9. CASE x.cb = "done"
  <2>1. r \in outstanding \ freed  BY <1>1, <1>2, <1>3, <1>9 DEF Fits
  <2>2. told[r] = <<>>  BY <1>6, <2>1 DEF Settled
  <2> QED  BY <1>4, <1>5, <1>7, <1>8, <1>9, <2>1, <2>2
<1>10. CASE x.cb = "error"
  <2>1. told[r] = <<>> /\ r \in freed  BY <1>1, <1>3, <1>10 DEF Fits
  <2> QED  BY <1>4, <1>5, <1>7, <1>8, <1>10, <2>1
<1>11. CASE x.cb = "null"
  <2>1. r \in freed \ dismissed /\ (r \in outstanding \/ told[r] = <<"error">>)
    BY <1>1, <1>3, <1>11 DEF Fits
  <2>2. told[r] = <<>> \/ told[r] = <<"error">>  BY <1>6, <2>1 DEF Settled
  <2> QED  BY <1>4, <1>5, <1>7, <1>8, <1>11, <2>1, <2>2, ErrorThenEnd
<1> QED  BY <1>9, <1>10, <1>11 DEF Endings

\* Only the requests that were told have new things to be said of them.
LEMMA CallFits ==
  ASSUME TypeOK, Base, Call, ~Gone'
  PROVE  Agenda'
<1>1. PICK x : x = Head(agenda)  OBVIOUS
<1>2. PICK y : y = [x EXCEPT !.runs = TRUE]  OBVIOUS
<1> DEFINE r == x.of
<1>3. /\ x \in Callbacks /\ ~x.runs /\ x.cb # "free" /\ Fits(x)
      /\ \A z \in ToSet(Tail(agenda)) : z \in ToSet(agenda) /\ Before(x, z, Wrong)
      /\ UNCHANGED <<fn, dismissed, freed, made, queue, misuse>>
      /\ x.cb \notin Endings => UNCHANGED <<told, outstanding>>
      /\ x.cb \in Endings =>
           /\ r \in Reqs /\ outstanding' = outstanding \ {r}
           /\ \A q \in Reqs : q # r => told'[q] = told[q]
           /\ \/ x.cb = "done" /\ told[r] = <<>> /\ told'[r] = <<"done">> /\ r \notin freed
              \/ x.cb = "error" /\ told[r] = <<>> /\ told'[r] = <<"error">> /\ r \in freed
              \/ /\ x.cb = "null" /\ told[r] \in {<<>>, <<"error">>}
                 /\ r \in freed \ dismissed
                 /\ told'[r] \in {<<"null">>, <<"error", "null">>}
  BY <1>1, CallTold
<1>4. Ordered(agenda', Wrong) /\ ToSet(agenda') = {y} \cup ToSet(Tail(agenda))
  BY <1>1, <1>2, CallAgenda
<1>5. y.cb = x.cb /\ y.of = x.of /\ y.arg = x.arg /\ y.runs
  BY <1>2, <1>3 DEF Callbacks
<1>6. \A q : InQueue(q)' => InQueue(q)  BY <1>3 DEF InQueue
<1>7. misuse \subseteq misuse' /\ made \subseteq made' /\ freed' \subseteq freed \cup Reqs
  BY <1>3
<1>10. PICK w : w = Wrong'  OBVIOUS
<1>11. Ordered(agenda', w)  BY <1>3, <1>4, <1>10 DEF Wrong
<1>8. CASE x.cb \notin Endings
  <2>1. \A q : Still(q)  BY <1>3, <1>6, <1>8 DEF Still, Same
  <2>2. \A z \in ToSet(Tail(agenda)) : Fits(z)'
    BY <1>3, <1>7, <2>1, KeptFits DEF Base, Agenda
  <2>3. x.cb = "close"  BY <1>3, <1>8 DEF Callbacks, Singles
  <2>5. y.of \in freed' => Wrong'  BY <1>3, <1>5, <2>3 DEF Fits, Wrong
  <2>4. Fits(y)'  BY <1>3, <1>5, <2>3, <2>5 DEF Fits, Endings
  <2> QED  BY <1>4, <1>10, <1>11, <2>2, <2>4 DEF Agenda
<1>9. CASE x.cb \in Endings
  <2>1. \A q \in Reqs : q # r => Still(q)  BY <1>3, <1>6, <1>9 DEF Still, Same
  <2>2. Fits(y)'  BY <1>3, <1>5, <1>9 DEF Fits, Endings
  <2>3. ASSUME NEW z \in ToSet(Tail(agenda)) PROVE Fits(z)'
    <3>1. Fits(z) /\ Before(x, z, Wrong)  BY <1>3 DEF Base, Agenda
    <3>2. CASE z.of = r /\ z.cb \in Endings
      <4>1. z.cb # x.cb /\ ~(z.cb = "error" /\ x.cb = "null")
        BY <3>1, <3>2, <1>9 DEF Before, Singles
      <4>2. \/ z.cb = "null" /\ x.cb = "error" /\ ~z.runs
            \/ z.cb = "done" /\ ~z.runs /\ r \in freed \cap dismissed
        BY <1>3, <1>9, <3>1, <3>2, <4>1, Outcomes DEF Fits, Endings
      <4>3. CASE z.cb = "null" /\ x.cb = "error" /\ ~z.runs
        <5>1. told'[r] = <<"error">>  BY <1>3, <1>9, <4>3
        <5> QED  BY <1>3, <3>1, <3>2, <4>3, <5>1 DEF Fits
      <4>4. CASE z.cb = "done" /\ ~z.runs /\ r \in freed \cap dismissed
        BY <1>3, <1>6, <3>1, <3>2, <4>4 DEF Fits, Endings
      <4> QED  BY <4>2, <4>3, <4>4
    <3>3. CASE ~(z.of = r /\ z.cb \in Endings)
      <4>1. z.cb \in Endings => z.of \in Reqs  BY <1>3, ItemOf
      <4> QED  BY <1>7, <2>1, <3>1, <3>3, <4>1, KeptFits
    <3> QED  BY <3>2, <3>3
  <2> QED  BY <1>4, <1>10, <1>11, <2>2, <2>3 DEF Agenda
<1> QED  BY <1>8, <1>9

\* A callback that returns leaves the others in their order.
LEMMA ReturnFits ==
  ASSUME TypeOK, Base, Return
  PROVE  Agenda'
<1> DEFINE x == Head(agenda)
<1>1. /\ x.runs /\ x \in ToSet(agenda) /\ Ordered(agenda', Wrong)
      /\ \A y \in ToSet(agenda') : Before(x, y, Wrong) /\ y \in ToSet(agenda)
  BY ReturnAgenda
<1>2. /\ UNCHANGED <<fn, told, outstanding, dismissed, queue, made, misuse>>
      /\ freed \subseteq freed'
      /\ freed' \subseteq freed \cup (IF x.cb = "done" THEN {x.of} ELSE {})
  BY DEF Return, Resume, reqs, outcome, Free
<1>5. x.cb = "done" => x.of \in Reqs  BY <1>1, ItemOf DEF Endings
<1> HIDE DEF x
<1>6. freed' \subseteq freed \cup Reqs  BY <1>2, <1>5
<1>3. ASSUME NEW y \in ToSet(agenda'), y.cb \in Endings PROVE Still(y.of)
  <2>1. Before(x, y, Wrong) /\ y \in ToSet(agenda)  BY <1>1, <1>3
  <2>2. y.of = x.of /\ x.cb = "done" => y.of \in freed
    <3>1. y.of = x.of /\ x.cb = "done" => y.cb \in {"error", "null"}
      BY <1>3, <2>1 DEF Before, Singles, Endings
    <3> QED  BY <1>3, <2>1, <3>1, ItemOf
  <2>3. InQueue(y.of)' => InQueue(y.of)  BY <1>2 DEF InQueue
  <2>4. y.of \in freed' <=> y.of \in freed  BY <1>2, <2>2
  <2> QED  BY <1>2, <2>3, <2>4 DEF Still, Same
<1>4. \A y \in ToSet(agenda') : Fits(y)'
  BY <1>1, <1>2, <1>3, <1>6, KeptFits DEF Base, Agenda
<1>7. PICK w : w = Wrong'  OBVIOUS
<1>8. Ordered(agenda', w)  BY <1>1, <1>2, <1>7 DEF Wrong
<1> QED  BY <1>4, <1>7, <1>8 DEF Agenda

\* What is left of a connection that is freed is what the program should not have
\* done: its close callback, in which it was closed.
LEMMA FreeRestAgenda ==
  ASSUME TypeOK, Base, faults = {}, NEW c \in Conns, FreeRest(c)
  PROVE  Agenda'
<1>1. /\ ToSet(agenda) = {Item("free", c, None)} \cup ToSet(agenda')
      /\ \A y \in ToSet(agenda') : Before(Item("free", c, None), y, Wrong)
      /\ Ordered(agenda', Wrong)
  BY FreeFirst
<1>2. /\ freed' = freed \cup {c} \cup ToSet(queue[c])
      /\ ToSet(queue[c]) \subseteq Reqs /\ \A r \in ToSet(queue[c]) : InQueue(r)
  BY FreeRestFaults, OnConnection
<1>3. /\ UNCHANGED <<fn, told, made, misuse>>
      /\ outstanding' = outstanding \ ToSet(queue[c])
      /\ dismissed' = dismissed \cup ToSet(queue[c])
      /\ queue' = [queue EXCEPT ![c] = <<>>]
  BY DEF FreeRest, reqs
<1>4. PICK z : z = Item("free", c, None)  OBVIOUS
<1>5. z.cb = "free" /\ z.of = c  BY <1>4, ItemIs
<1>6. ASSUME NEW x \in ToSet(agenda') PROVE Fits(x)'
  <2>1. Fits(x) /\ x \in ToSet(agenda)  BY <1>1 DEF Base, Agenda
  <2>2. Before(z, x, Wrong)  BY <1>1, <1>4
  <2>3. ASSUME x.cb \in Endings PROVE Still(x.of)
    <3>1. x.of \in Reqs /\ ~InQueue(x.of)  BY <2>1, <2>3, ItemOf
    <3>2. x.of \notin ToSet(queue[c]) /\ x.of # c  BY <1>2, <3>1, Apart
    <3>3. InQueue(x.of)' => InQueue(x.of)
      <4>1. \A d \in Conns : queue'[d] = queue[d] \/ queue'[d] = <<>>
        BY <1>3 DEF TypeOK
      <4> QED  BY <4>1, SetOne DEF InQueue
    <3> QED  BY <1>2, <1>3, <3>2, <3>3 DEF Still, Same
  <2>4. ASSUME x.cb = "close", x.of \in freed' PROVE x.of \in freed \/ Wrong'
    <3>1. x.of \in Conns  BY <2>1, <2>4 DEF Fits
    <3>2. x.of \in freed \/ x.of = c  BY <1>2, <2>4, <3>1, Apart
    <3>3. x.of = c => Wrong  BY <1>5, <2>2, <2>4 DEF Before
    <3> QED  BY <1>3, <3>2, <3>3 DEF Wrong
  <2>5. ASSUME x.cb = "free" PROVE x.of \in made' \ freed'
    <3>1. x.of \in made \ freed  BY <2>1, <2>5 DEF Fits
    <3>2. x.of # c  BY <1>5, <2>2, <2>5 DEF Before, Singles
    <3> QED  BY <1>2, <1>3, <3>1, <3>2, Apart DEF TypeOK
  <2> QED  BY <1>3, <2>1, <2>3, <2>4, <2>5, SameFits
<1>7. PICK w : w = Wrong'  OBVIOUS
<1>8. Ordered(agenda', w)  BY <1>1, <1>3, <1>7 DEF Wrong
<1> QED  BY <1>6, <1>7, <1>8 DEF Agenda

\* The head of a queue leaves it, and is on no other.
LEMMA TakeFirst ==
  ASSUME TypeOK, Base, NEW c \in Conns, queue[c] # <<>>,
         queue' = [queue EXCEPT ![c] = Tail(@)]
  PROVE  /\ \A q : InQueue(q)' => InQueue(q) /\ q # Head(queue[c])
         /\ \A q : InQueue(q) /\ q # Head(queue[c]) => InQueue(q)'
<1>1. \A d \in Conns : queue'[d] = IF d = c THEN Tail(queue[c]) ELSE queue[d]
  BY DEF TypeOK
<1>2. PICK r : r = Head(queue[c])  OBVIOUS
<1>3. /\ ToSet(queue[c]) = {r} \cup ToSet(Tail(queue[c]))
      /\ r \notin ToSet(Tail(queue[c]))
  BY <1>2, FirstIs
<1>4. \A d \in Conns : d # c => r \notin ToSet(queue[d])
  BY <1>3 DEF ToSet, Base, Queues
<1> QED  BY <1>1, <1>2, <1>3, <1>4 DEF InQueue

\* The steps of the loop.
LEMMA LoopAgenda ==
  ASSUME TypeOK, TypeOK', Base, faults = {}, LoopNext, ~Gone', misuse \subseteq misuse'
  PROVE  Agenda'
<1>7. PICK w : w = Wrong'  OBVIOUS
<1>8. ASSUME Ordered(agenda', Wrong) PROVE Ordered(agenda', w)
  <2>1. PICK s : s = agenda'  OBVIOUS
  <2> QED  BY <1>7, <1>8, <2>1, OrderedStays DEF Wrong
<1>1. ASSUME NEW c \in Conns, Connect(c) PROVE Agenda'
  <2>1. UNCHANGED <<fn, agenda, told, outstanding, dismissed, queue, freed, made>>
    BY <1>1 DEF Connect, reqs, outcome
  <2> QED  BY <2>1, UnsentAgenda
<1>2. ASSUME NEW c \in Conns, ConnectFails(c) PROVE Agenda'
  <2>1. /\ UNCHANGED <<fn, told, outstanding, dismissed, freed>>
        /\ queue' = [queue EXCEPT ![c] = <<>>]
        /\ agenda' = [i \in DOMAIN queue[c] |-> Item("done", queue[c][i], fn[queue[c][i]])]
    BY <1>2 DEF ConnectFails, reqs, outcome
  <2>2. /\ Ordered(agenda', Wrong)
        /\ ToSet(agenda') = {Item("done", r, fn[r]) : r \in ToSet(queue[c])}
    BY <2>1, AllDone
  <2>3. ASSUME NEW r \in ToSet(queue[c]) PROVE Fits(Item("done", r, fn[r]))'
    <3>1. InQueue(r) /\ r \in Reqs
      <4>1. queue[c] \in Seq(Reqs)  BY DEF TypeOK
      <4>2. r \in Reqs  BY <4>1 DEF ToSet
      <4> QED  BY <4>2 DEF InQueue
    <3>2. r \in outstanding \ freed  BY <3>1 DEF Base, Queues
    <3>3. fn[r] \in Functors  BY <3>1, <3>2 DEF Base, Settled, TypeOK
    <3>4. ~InQueue(r)'
      <4>1. \A d \in Conns : queue'[d] = IF d = c THEN <<>> ELSE queue[d]
        BY <2>1 DEF TypeOK
      <4>2. \A d \in Conns : d # c => r \notin ToSet(queue[d])
        BY DEF ToSet, Base, Queues
      <4> QED  BY <4>1, <4>2, SetOne DEF InQueue
    <3>5. PICK x : x = Item("done", r, fn[r])  OBVIOUS
    <3>8. x.cb = "done" /\ x.of = r /\ x.arg = fn[r] /\ ~x.runs  BY <3>5, ItemIs
    <3>6. Fits(x)'
      BY <2>1, <3>1, <3>2, <3>3, <3>4, <3>8 DEF Fits, Endings
    <3>7. x = Item("done", r, fn'[r])  BY <2>1, <3>5
    <3> QED  BY <3>6, <3>7
  <2>4. \A x \in ToSet(agenda') : Fits(x)'  BY <2>1, <2>2, <2>3
  <2> QED  BY <1>7, <1>8, <2>2, <2>4 DEF Agenda
<1>3. ASSUME NEW c \in Conns, FreeRest(c) PROVE Agenda'  BY <1>3, FreeRestAgenda
<1>4. ASSUME NEW c \in Conns, NEW keep \in BOOLEAN, Complete(c, keep) PROVE Agenda'
  <2>1. PICK r : r = Head(queue[c])  OBVIOUS
  <2>2. PICK x : x = Item("done", r, fn[r])  OBVIOUS
  <2>3. /\ Ordered(agenda', Wrong)
        /\ ToSet(agenda') = (IF keep THEN {} ELSE CloseOf(c)) \cup {x}
    BY <1>4, <2>1, <2>2, CompleteAgenda
  <2>4. /\ queue[c] # <<>> /\ queue' = [queue EXCEPT ![c] = Tail(@)]
        /\ UNCHANGED <<fn, outstanding, freed>>
    BY <1>4 DEF Complete, reqs, outcome
  <2>5. r \in Reqs /\ r \in outstanding \ freed /\ fn[r] \in Functors
    BY <2>1, <2>4, FirstIs
  <2>6. ~InQueue(r)'  BY <2>1, <2>4, TakeFirst
  <2>10. x.cb = "done" /\ x.of = r /\ x.arg = fn[r] /\ ~x.runs  BY <2>2, ItemIs
  <2>7. Fits(x)'  BY <2>4, <2>5, <2>6, <2>10 DEF Fits, Endings
  <2>8. \A y \in CloseOf(c) : Fits(y)'  BY <2>4, CloseFits
  <2>9. \A y \in ToSet(agenda') : Fits(y)'  BY <2>3, <2>7, <2>8
  <2> QED  BY <1>7, <1>8, <2>3, <2>9 DEF Agenda
<1>5. ASSUME NEW c \in Conns, Fail(c) PROVE Agenda'
  <2>1. PICK r : r = Head(queue[c])  OBVIOUS
  <2>2. PICK x : x = Item("null", r, fn[r])  OBVIOUS
  <2>3. Ordered(agenda', Wrong) /\ ToSet(agenda') = CloseOf(c) \cup ErrorOf(r) \cup {x}
    BY <1>5, <2>1, <2>2, FailAgenda
  <2>4. queue[c] # <<>> /\ UNCHANGED <<fn, told, outstanding, dismissed>>
    BY <1>5 DEF Fail, reqs, outcome
  <2>5. r \in Reqs /\ r \in outstanding /\ fn[r] \in Functors /\ r \in freed'
    BY <1>5, <2>1, <2>4, FirstIs, FailFaults
  <2>6. told[r] = <<>> /\ r \notin dismissed  BY <2>5 DEF Base, Settled
  <2>11. x.cb = "null" /\ x.of = r /\ x.arg = fn[r] /\ ~x.runs  BY <2>2, ItemIs
  <2>7. Fits(x)'  BY <2>4, <2>5, <2>6, <2>11 DEF Fits, Endings
  <2>8. ASSUME NEW y \in ErrorOf(r) PROVE Fits(y)'
    <3>1. y.cb = "error" /\ y.of = r /\ ~y.runs /\ y.arg = fn[r]
      BY <2>8, ItemIs DEF ErrorOf
    <3> QED  BY <2>4, <2>5, <2>6, <3>1 DEF Fits, Endings
  <2>9. \A y \in CloseOf(c) : Fits(y)'
    <3>1. freed' \subseteq freed \cup Reqs  BY <1>5, <2>1, <2>5, FailFaults
    <3> QED  BY <3>1, CloseFits
  <2>10. \A y \in ToSet(agenda') : Fits(y)'  BY <2>3, <2>7, <2>8, <2>9
  <2> QED  BY <1>7, <1>8, <2>3, <2>10 DEF Agenda
<1>6. ASSUME NEW c \in Conns, PeerCloses(c) PROVE Agenda'
  <2>1. Ordered(agenda', w) /\ ToSet(agenda') = CloseOf(c) /\ UNCHANGED freed
    BY <1>6, ResetItemsAre DEF PeerCloses
  <2>2. \A y \in ToSet(agenda') : Fits(y)'  BY <2>1, CloseFits
  <2> QED  BY <1>7, <2>1, <2>2 DEF Agenda
<1> QED  BY <1>1, <1>2, <1>3, <1>4, <1>5, <1>6, CallFits, ReturnFits DEF LoopNext

\* Every step.
LEMMA AgendaStep ==
  ASSUME TypeOK, TypeOK', Base, Next, ~Gone'
  PROVE  Agenda'
<1>1. faults = {} /\ misuse \subseteq misuse'  BY MisuseGrows DEF Next
<1>2. ASSUME NEW f \in Functors, EndLife(f) PROVE Agenda'
  <2>1. UNCHANGED <<fn, agenda, told, outstanding, dismissed, queue, freed, made>>
    BY <1>2 DEF EndLife, reqs, conns, outcome
  <2> QED  BY <1>1, <2>1, UnsentAgenda
<1> QED  BY <1>1, <1>2, RequestAgenda, ConnectionAgenda, LoopAgenda DEF Next

-----------------------------------------------------------------------------
(* How each request ends.                                                   *)

\* Nothing was said of a request, and what it waits for is still to come.
LEMMA SameSettled ==
  ASSUME NEW r, Settled(r), told'[r] = told[r], r \in own' => r \in own,
         r \in outstanding' <=> r \in outstanding, r \in dismissed' <=> r \in dismissed,
         r \in freed => r \in freed', fn'[r] = None => fn[r] = None /\ r \notin freed',
         Pending("null", r) => Pending("null", r)',
         r \in outstanding /\ (InQueue(r) \/ Pending("done", r)) =>
           InQueue(r)' \/ Pending("done", r)' \/ Pending("null", r)'
  PROVE  Settled(r)'
BY DEF Settled

\* What was to be called still is.
LEMMA PendingKept ==
  ASSUME ToSet(agenda) \subseteq ToSet(agenda')
  PROVE  \A cb, r : Pending(cb, r) => Pending(cb, r)'
BY DEF Pending

\* Requests are made, given up or freed that were not sent.
LEMMA UnsentSettled ==
  ASSUME TypeOK, Base, UNCHANGED <<agenda, told, outstanding, dismissed, queue, own>>,
         \A q \in Reqs : fn[q] # None => fn'[q] # None,
         freed \subseteq freed', \A q \in freed' \ freed : Unsent(q)
  PROVE  \A r \in Reqs : Settled(r)'
<1>1. \A cb, r : Pending(cb, r) => Pending(cb, r)'  BY PendingKept
<1>2. \A r : InQueue(r) => InQueue(r)'  BY DEF InQueue
<1>3. ASSUME NEW r \in Reqs, fn'[r] = None PROVE fn[r] = None /\ r \notin freed'
  <2>1. fn[r] = None /\ ~Unsent(r)  BY <1>3 DEF Unsent
  <2>2. r \notin freed  BY <2>1 DEF Base, Settled
  <2> QED  BY <2>1, <2>2
<1>4. ASSUME NEW r \in Reqs PROVE Settled(r)'
  <2>1. Settled(r)  BY DEF Base
  <2> QED  BY <1>1, <1>2, <1>3, <2>1, SameSettled
<1> QED  BY <1>4

\* The operations of a request.
LEMMA RequestSettled ==
  ASSUME TypeOK, TypeOK', Base, faults = {}, RequestNext, ~Gone'
  PROVE  \A r \in Reqs : Settled(r)'
<1>1. ASSUME NEW r \in Reqs, NEW f \in Functors, Allocate(r, f)
      PROVE  \A q \in Reqs : fn[q] # None => fn'[q] # None
  BY <1>1 DEF Allocate, TypeOK
<1>2. ASSUME NEW o \in Requests, NEW r \in Reqs, NEW f \in Functors, NEW err \in BOOLEAN,
             ConstructRequest(o, r, f, err)
      PROVE  \A q \in Reqs : Settled(q)'
  <2>1. /\ UNCHANGED <<agenda, told, outstanding, dismissed, queue, freed, own>>
        /\ Allocate(r, f)
    BY <1>2 DEF ConstructRequest, conns, outcome
  <2> QED  BY <1>1, <2>1, UnsentSettled
<1>3. ASSUME NEW o \in Requests, NEW r \in Reqs, NEW f \in Functors, CreateRequest(o, r, f)
      PROVE  \A q \in Reqs : Settled(q)'
  <2>1. /\ UNCHANGED <<agenda, told, outstanding, dismissed, queue, own>> /\ Allocate(r, f)
        /\ freed' = freed \cup ({handle[o]} \ {None})
    BY <1>3 DEF CreateRequest, conns, outcome, Free
  <2>2. \A q \in freed' \ freed : Unsent(q)  BY <2>1, HeldQueued
  <2> QED  BY <1>1, <2>1, <2>2, UnsentSettled
<1>4. ASSUME NEW o \in Requests, CloseRequest(o) PROVE \A q \in Reqs : Settled(q)'
  <2>1. /\ UNCHANGED <<fn, agenda, told, outstanding, dismissed, queue, own>>
        /\ freed' = freed \cup {handle[o]} /\ handle[o] # None
    BY <1>4 DEF CloseRequest, reqs, conns, outcome, Free
  <2>2. \A q \in freed' \ freed : Unsent(q)  BY <2>1, HeldQueued
  <2> QED  BY <2>1, <2>2, UnsentSettled
<1>5. ASSUME NEW o \in Requests, NEW p \in Requests, Move(o, p) \/ Release(o)
      PROVE  \A q \in Reqs : Settled(q)'
  <2>1. UNCHANGED <<fn, agenda, told, outstanding, dismissed, queue, freed, own>>
    BY <1>5 DEF Move, Release, reqs, conns, outcome
  <2> QED  BY <2>1, UnsentSettled
<1>7. ASSUME NEW r \in Reqs, Own(r) PROVE \A q \in Reqs : Settled(q)'
  <2>1. /\ UNCHANGED <<fn, agenda, told, outstanding, dismissed, queue, freed>>
        /\ own' = own \cup {r}
    BY <1>7 DEF Own, conns, outcome
  <2>2. told[r] = <<"done">>
    <3>1. Inside("done", r)  BY <1>7 DEF Own
    <3>2. PICK x \in ToSet(agenda) : x.cb = "done" /\ x.of = r /\ x.runs
      BY <3>1, InsideIs
    <3>3. Fits(x)  BY DEF Base, Agenda
    <3> QED  BY <3>2, <3>3 DEF Fits
  <2>3. ASSUME NEW q \in Reqs PROVE Settled(q)'
    <3>1. Settled(q)  BY DEF Base
    <3>2. \A cb : Pending(cb, q)' <=> Pending(cb, q)  BY <2>1 DEF Pending
    <3>3. InQueue(q)' <=> InQueue(q)  BY <2>1 DEF InQueue
    <3> QED  BY <2>1, <2>2, <3>1, <3>2, <3>3 DEF Settled
  <2> QED  BY <2>3
<1>8. ASSUME NEW r \in Reqs, Cancel(r) PROVE \A q \in Reqs : Settled(q)'
  <2>1. UNCHANGED <<fn, errs, own, told>> /\ fn[r] # None
    BY <1>8, CancelledIs DEF Cancel, reqs
  <2>2. ASSUME NEW q, q # r, InQueue(q) PROVE InQueue(q)'
    <3>1. \A c \in Conns : ToSet(queue[c])' = ToSet(queue[c]) \ {r}  BY <1>8, CancelQueue
    <3> QED  BY <2>2, <3>1 DEF InQueue
  <2>3. Rest(r) \subseteq ToSet(agenda')
    <3>1. \/ ToSet(agenda') = Rest(r)
          \/ \E c \in Conns : ToSet(agenda') = CloseOf(c) \cup ErrorOf(r) \cup Rest(r)
      BY <1>8, CancelAgenda
    <3> QED  BY <3>1
  <2>4. \A cb, q : Pending(cb, q) /\ ~(cb = "done" /\ q = r) => Pending(cb, q)'
    BY <2>3 DEF Pending, Rest
  <2>5. /\ r \notin freed
        /\ \/ /\ r \in outstanding /\ told[r] = <<>>
              /\ freed' = freed \cup {r} /\ outstanding' = outstanding \ {r}
              /\ dismissed' = dismissed \cup {r}
           \/ /\ r \notin outstanding /\ UNCHANGED <<outstanding, dismissed>>
              /\ freed \subseteq freed' /\ freed' \subseteq freed \cup {r}
    BY <1>8, CancelEffect
  <2>6. ASSUME NEW q \in Reqs, q # r PROVE Settled(q)'
    <3>1. Settled(q)  BY DEF Base
    <3>2. q \in freed => fn[q] # None  BY <3>1 DEF Settled
    <3> QED  BY <2>1, <2>2, <2>4, <2>5, <2>6, <3>1, <3>2, SameSettled
  <2>7. Settled(r)'
    <3>1. Settled(r)  BY DEF Base
    <3>2. CASE r \in outstanding
      BY <2>1, <2>5, <3>1, <3>2, Outcomes DEF Settled
    <3>3. CASE r \notin outstanding
      BY <2>1, <2>4, <2>5, <3>1, <3>3, SameSettled
    <3> QED  BY <3>2, <3>3
  <2> QED  BY <2>6, <2>7
<1> QED  BY <1>2, <1>3, <1>4, <1>5, <1>7, <1>8 DEF RequestNext

\* A connection that closes says nothing of its requests.
LEMMA FreeConnectionSettled ==
  ASSUME TypeOK, Base, NEW k \in Connections, handle[k] # None, FreeConnection(handle[k]),
         UNCHANGED <<fn, told, outstanding, dismissed, freed, queue, own>>
  PROVE  \A r \in Reqs : Settled(r)'
<1>1. handle[k] \in Conns  BY Connected
<1>2. ToSet(agenda) \subseteq ToSet(agenda')  BY <1>1, FreeConnectionType
<1>3. \A cb, r : Pending(cb, r) => Pending(cb, r)'  BY <1>2, PendingKept
<1>4. ASSUME NEW r \in Reqs PROVE Settled(r)'
  <2>1. Settled(r)  BY DEF Base
  <2>2. fn[r] = None => r \notin freed  BY <2>1 DEF Settled
  <2>3. InQueue(r) => InQueue(r)'  BY DEF InQueue
  <2> QED  BY <1>3, <2>1, <2>2, <2>3, SameSettled
<1> QED  BY <1>4

\* When it goes, it takes those that it still has with it: they are dismissed.
LEMMA FreeRestSettled ==
  ASSUME TypeOK, Base, faults = {}, NEW c \in Conns, FreeRest(c)
  PROVE  \A r \in Reqs : Settled(r)'
<1>1. /\ freed' = freed \cup {c} \cup ToSet(queue[c])
      /\ ToSet(queue[c]) \subseteq Reqs
  BY FreeRestFaults, OnConnection
<1>2. /\ queue' = [queue EXCEPT ![c] = <<>>] /\ UNCHANGED <<fn, told, own>>
      /\ outstanding' = outstanding \ ToSet(queue[c])
      /\ dismissed' = dismissed \cup ToSet(queue[c])
  BY DEF FreeRest, reqs
<1>3. ToSet(agenda) = {Item("free", c, None)} \cup ToSet(agenda')  BY FreeFirst
<1>4. \A cb \in Endings : \A r : Pending(cb, r) => Pending(cb, r)'
  <2>1. Item("free", c, None).cb \notin Endings  BY ItemIs DEF Endings
  <2> QED  BY <1>3, <2>1 DEF Pending
<1>5. ASSUME NEW r \in Reqs PROVE Settled(r)'
  <2>1. Settled(r)  BY DEF Base
  <2>2. CASE r \in ToSet(queue[c])
    <3>1. InQueue(r)  BY <2>2 DEF InQueue
    <3>2. r \in outstanding  BY <3>1 DEF Base, Queues
    <3> QED  BY <1>1, <1>2, <2>1, <2>2, <3>2, Outcomes DEF Settled
  <2>3. CASE r \notin ToSet(queue[c])
    <3>1. InQueue(r) => InQueue(r)'
      <4>1. \A d \in Conns : d # c => queue'[d] = queue[d]  BY <1>2 DEF TypeOK
      <4> QED  BY <2>3, <4>1 DEF InQueue
    <3>2. r # c  BY Apart
    <3>3. fn[r] = None => r \notin freed  BY <2>1 DEF Settled
    <3> QED
      BY <1>1, <1>2, <1>4, <2>1, <2>3, <3>1, <3>2, <3>3, SameSettled DEF Endings
  <2> QED  BY <2>2, <2>3
<1> QED  BY <1>5

\* A request that was not sent is on the connection, or refused.
LEMMA MakeSettled ==
  ASSUME TypeOK, Base, NEW r \in Reqs, NEW c \in Conns, Make(r, c),
         UNCHANGED <<fn, dismissed, agenda, own>>, fn[r] # None, told[r] = <<>>,
         r \notin outstanding \cup dismissed
  PROVE  \A q \in Reqs : Settled(q)'
<1>1. \A cb, q : Pending(cb, q) => Pending(cb, q)'  BY PendingKept
<1>2. Settled(r)  BY DEF Base
<1>3. r \notin own  BY <1>2, Outcomes DEF Settled
<1>4. CASE /\ queue' = [queue EXCEPT ![c] = Append(@, r)]
           /\ outstanding' = outstanding \cup {r} /\ UNCHANGED <<freed, told>>
  <2>1. queue[c] \in Seq(Reqs)  BY DEF TypeOK
  <2>2. ToSet(Append(queue[c], r)) = ToSet(queue[c]) \cup {r}  BY <2>1, SetAppend
  <2>3. \A d \in Conns : queue'[d] = IF d = c THEN Append(queue[c], r) ELSE queue[d]
    BY <1>4 DEF TypeOK
  <2>4. InQueue(r)' /\ \A q : InQueue(q) => InQueue(q)'  BY <2>2, <2>3 DEF InQueue
  <2>5. ASSUME NEW q \in Reqs, q # r PROVE Settled(q)'
    <3>1. Settled(q)  BY DEF Base
    <3>2. fn[q] = None => q \notin freed  BY <3>1 DEF Settled
    <3> QED  BY <1>1, <1>4, <2>4, <2>5, <3>1, <3>2, SameSettled
  <2>6. Settled(r)'  BY <1>2, <1>3, <1>4, <2>4, Outcomes DEF Settled
  <2> QED  BY <2>5, <2>6
<1>5. CASE /\ Free({r}) /\ told' = [told EXCEPT ![r] = Append(@, "refused")]
           /\ UNCHANGED <<queue, outstanding>>
  <2>1. freed' = freed \cup {r} /\ \A q \in Reqs : q # r => told'[q] = told[q]
    BY <1>5 DEF Free, TypeOK
  <2>2. told'[r] = <<"refused">>
    <3>1. told'[r] = Append(told[r], "refused")  BY <1>5 DEF TypeOK
    <3>2. \A x : Append(<<>>, x) = <<x>>  OBVIOUS
    <3> QED  BY <3>1, <3>2
  <2>3. \A q : InQueue(q) => InQueue(q)'  BY <1>5 DEF InQueue
  <2>4. ASSUME NEW q \in Reqs, q # r PROVE Settled(q)'
    <3>1. Settled(q)  BY DEF Base
    <3>2. fn[q] = None => q \notin freed  BY <3>1 DEF Settled
    <3> QED  BY <1>1, <1>5, <2>1, <2>3, <2>4, <3>1, <3>2, SameSettled
  <2>5. Settled(r)'  BY <1>3, <1>5, <2>2, Outcomes DEF Settled
  <2> QED  BY <2>4, <2>5
<1> QED  BY <1>4, <1>5 DEF Make

\* The operations of a connection.
LEMMA ConnectionSettled ==
  ASSUME TypeOK, TypeOK', Base, faults = {}, ConnectionNext, ~Gone'
  PROVE  \A r \in Reqs : Settled(r)'
<1>1. ASSUME UNCHANGED <<fn, agenda, told, outstanding, dismissed, queue, freed, own>>
      PROVE  \A r \in Reqs : Settled(r)'
  BY <1>1, UnsentSettled
<1>2. ASSUME NEW k \in Connections, NEW c \in Conns, ConstructConnection(k, c)
      PROVE  \A r \in Reqs : Settled(r)'
  BY <1>1, <1>2 DEF ConstructConnection, reqs, outcome
<1>3. ASSUME NEW k \in Connections, NEW c \in Conns, CreateConnection(k, c)
      PROVE  \A r \in Reqs : Settled(r)'
  <2>1. /\ FreeConnection(handle[k]) /\ handle[k] # None
        /\ UNCHANGED <<fn, told, outstanding, dismissed, freed, queue, own>>
    BY <1>3 DEF CreateConnection, reqs, outcome
  <2> QED  BY <2>1, FreeConnectionSettled
<1>4. ASSUME NEW k \in Connections, CloseConnection(k)
      PROVE  \A r \in Reqs : Settled(r)'
  <2>1. /\ FreeConnection(handle[k]) /\ handle[k] # None
        /\ UNCHANGED <<fn, told, outstanding, dismissed, freed, queue, own>>
    BY <1>4 DEF CloseConnection, reqs, conns, outcome
  <2> QED  BY <2>1, FreeConnectionSettled
<1>5. ASSUME NEW k \in Connections, NEW l \in Connections, Release(k) \/ Move(k, l)
      PROVE  \A r \in Reqs : Settled(r)'
  BY <1>1, <1>5 DEF Release, Move, reqs, conns, outcome
<1>6. ASSUME NEW k \in Connections, NEW f, OnCloseRef(k, f) \/ OnCloseMove(k, f)
      PROVE  \A r \in Reqs : Settled(r)'
  BY <1>1, <1>6 DEF OnCloseRef, OnCloseMove, reqs, outcome
<1>7. ASSUME NEW o \in Requests, NEW k \in Connections, MakeRequest(o, k)
      PROVE  \A r \in Reqs : Settled(r)'
  <2>1. /\ Make(handle[o], handle[k]) /\ handle[o] # None /\ handle[k] # None
        /\ UNCHANGED <<fn, dismissed, agenda, own>>
    BY <1>7 DEF MakeRequest, reqs
  <2>2. /\ handle[o] \in Reqs /\ fn[handle[o]] # None /\ told[handle[o]] = <<>>
        /\ handle[o] \notin outstanding \cup dismissed
    BY <2>1, HeldQueued DEF Unsent
  <2> QED  BY <2>1, <2>2, Connected, MakeSettled
<1>8. ASSUME NEW r \in Reqs, NEW k \in Connections, MakeReleased(r, k)
      PROVE  \A q \in Reqs : Settled(q)'
  <2>1. /\ Make(r, handle[k]) /\ handle[k] # None
        /\ UNCHANGED <<fn, dismissed, agenda, own>>
        /\ r \notin freed /\ ~OnAgenda("done", r) /\ ~InQueue(r)
        /\ fn[r] # None /\ told[r] = <<>>
    BY <1>8, QueuedIs DEF MakeReleased, reqs, Base
  <2>2. ~Pending("done", r)  BY <2>1, InsideIs DEF Pending
  <2>3. ~Pending("null", r)  BY <2>1, ItemOf DEF Pending, Endings
  <2>4. r \notin outstanding \cup dismissed  BY <2>1, <2>2, <2>3 DEF Base, Settled
  <2> QED  BY <2>1, <2>4, Connected, MakeSettled
<1> QED  BY <1>2, <1>3, <1>4, <1>5, <1>6, <1>7, <1>8 DEF ConnectionNext

\* A request that is called back is told one more thing.
LEMMA CallSettled ==
  ASSUME TypeOK, Base, Call, ~Gone'
  PROVE  \A r \in Reqs : Settled(r)'
<1>1. PICK x : x = Head(agenda)  OBVIOUS
<1> DEFINE r == x.of
<1>2. /\ x \in Callbacks /\ Fits(x) /\ ~x.runs /\ x \in ToSet(agenda)
      /\ ToSet(agenda) = {x} \cup ToSet(Tail(agenda))
      /\ UNCHANGED <<fn, own, dismissed, freed, queue, misuse>>
      /\ x.cb \notin Endings => UNCHANGED <<told, outstanding>>
      /\ x.cb \in Endings =>
           /\ r \in Reqs /\ outstanding' = outstanding \ {r}
           /\ \A q \in Reqs : q # r => told'[q] = told[q]
           /\ \/ x.cb = "done" /\ told[r] = <<>> /\ told'[r] = <<"done">> /\ r \notin freed
              \/ x.cb = "error" /\ told[r] = <<>> /\ told'[r] = <<"error">> /\ r \in freed
              \/ /\ x.cb = "null" /\ told[r] \in {<<>>, <<"error">>}
                 /\ r \in freed \ dismissed
                 /\ told'[r] \in {<<"null">>, <<"error", "null">>}
  BY <1>1, CallTold
<1>3. ToSet(Tail(agenda)) \subseteq ToSet(agenda')  BY CallAgenda
<1>4. \A cb, q : Pending(cb, q) /\ ~(cb = x.cb /\ q = r) => Pending(cb, q)'
  BY <1>2, <1>3 DEF Pending
<1>5. \A q : InQueue(q) => InQueue(q)'  BY <1>2 DEF InQueue
<1>6. ASSUME NEW q \in Reqs, x.cb \in Endings => q # r PROVE Settled(q)'
  <2>1. Settled(q)  BY DEF Base
  <2>2. fn[q] = None => q \notin freed  BY <2>1 DEF Settled
  <2>3. \A cb \in Endings : Pending(cb, q) => Pending(cb, q)'  BY <1>4, <1>6
  <2>4. told'[q] = told[q] /\ (q \in outstanding' <=> q \in outstanding)
    BY <1>2, <1>6
  <2> QED  BY <1>2, <1>5, <2>1, <2>2, <2>3, <2>4, SameSettled DEF Endings
<1>7. ASSUME x.cb \in Endings PROVE Settled(r)'
  <2>1. Settled(r) /\ fn[r] # None  BY <1>2, <1>7, ItemOf DEF Base
  <2>2. CASE x.cb = "done"
    BY <1>2, <1>7, <2>1, <2>2, Outcomes DEF Settled
  <2>3. CASE x.cb = "error"
    <3>1. r \in dismissed \/ Pending("null", r)
      <4>1. ~InQueue(r)  BY <1>2, <1>7, ItemOf
      <4>2. Pending("done", r) => r \in dismissed
        BY <1>2, <1>7, <2>3 DEF Pending, Base, Agenda, Fits
      <4>3. r \in outstanding \cup dismissed  BY <1>2, <2>3 DEF Fits
      <4> QED  BY <2>1, <4>1, <4>2, <4>3 DEF Settled
    <3>2. r \in dismissed \/ Pending("null", r)'  BY <1>4, <2>3, <3>1
    <3> QED  BY <1>2, <1>7, <2>1, <2>3, <3>2, Outcomes DEF Settled
  <2>4. CASE x.cb = "null"
    <3>1. r \notin own  BY <1>2, <1>7, <2>1, <2>4, Outcomes DEF Settled
    <3> QED  BY <1>2, <1>7, <2>1, <2>4, <3>1, Outcomes DEF Settled
  <2> QED  BY <1>7, <2>2, <2>3, <2>4 DEF Endings
<1> QED  BY <1>6, <1>7

\* A callback that returns.
LEMMA ReturnSettled ==
  ASSUME TypeOK, Base, Return
  PROVE  \A r \in Reqs : Settled(r)'
<1>1. PICK x : x = Head(agenda)  OBVIOUS
<1>2. /\ x.runs /\ x \in ToSet(agenda) /\ ToSet(agenda) = {x} \cup ToSet(agenda')
  BY <1>1, ReturnAgenda
<1>3. /\ UNCHANGED <<fn, told, outstanding, dismissed, queue, own>> /\ freed \subseteq freed'
      /\ freed' \subseteq freed \cup (IF x.cb = "done" THEN {x.of} ELSE {})
  BY <1>1 DEF Return, Resume, reqs, outcome, Free
<1>4. \A cb, q : Pending(cb, q) => Pending(cb, q)'  BY <1>2 DEF Pending
<1>5. \A q : InQueue(q) => InQueue(q)'  BY <1>3 DEF InQueue
<1>6. x.cb = "done" => fn[x.of] # None  BY <1>2, ItemOf DEF Endings
<1>7. ASSUME NEW q \in Reqs PROVE Settled(q)'
  <2>1. Settled(q)  BY DEF Base
  <2>2. fn[q] = None => q \notin freed'  BY <1>3, <1>6, <2>1 DEF Settled
  <2> QED  BY <1>3, <1>4, <1>5, <2>1, <2>2, SameSettled
<1> QED  BY <1>7

\* The steps of the loop.
LEMMA LoopSettled ==
  ASSUME TypeOK, TypeOK', Base, faults = {}, LoopNext, ~Gone'
  PROVE  \A r \in Reqs : Settled(r)'
<1>1. ASSUME agenda = <<>> PROVE \A cb, q : ~Pending(cb, q)
  BY <1>1, SetOne DEF Pending
<1>2. ASSUME NEW c \in Conns, Connect(c) \/ PeerCloses(c)
      PROVE  \A r \in Reqs : Settled(r)'
  <2>1. UNCHANGED <<fn, told, outstanding, dismissed, queue, freed, own>> /\ agenda = <<>>
    BY <1>2 DEF Connect, PeerCloses, reqs, conns, outcome
  <2>2. ASSUME NEW r \in Reqs PROVE Settled(r)'
    <3>1. Settled(r)  BY DEF Base
    <3>2. fn[r] = None => r \notin freed  BY <3>1 DEF Settled
    <3>3. InQueue(r) => InQueue(r)'  BY <2>1 DEF InQueue
    <3> QED  BY <1>1, <2>1, <3>1, <3>2, <3>3, SameSettled
  <2> QED  BY <2>2
<1>3. ASSUME NEW c \in Conns, ConnectFails(c) PROVE \A r \in Reqs : Settled(r)'
  <2>1. /\ UNCHANGED <<fn, told, outstanding, dismissed, freed, own>> /\ agenda = <<>>
        /\ queue' = [queue EXCEPT ![c] = <<>>]
        /\ agenda' = [i \in DOMAIN queue[c] |-> Item("done", queue[c][i], fn[queue[c][i]])]
    BY <1>3 DEF ConnectFails, reqs, outcome
  <2>2. ToSet(agenda') = {Item("done", r, fn[r]) : r \in ToSet(queue[c])}
    BY <2>1, AllDone
  <2>3. ASSUME NEW r \in Reqs PROVE Settled(r)'
    <3>1. Settled(r)  BY DEF Base
    <3>2. fn[r] = None => r \notin freed  BY <3>1 DEF Settled
    <3>3. r \in ToSet(queue[c]) => Pending("done", r)'
      BY <2>2, ItemIs DEF Pending
    <3>4. InQueue(r) => r \in ToSet(queue[c]) \/ InQueue(r)'
      <4>1. \A d \in Conns : d # c => queue'[d] = queue[d]  BY <2>1 DEF TypeOK
      <4> QED  BY <4>1 DEF InQueue
    <3> QED  BY <1>1, <2>1, <3>1, <3>2, <3>3, <3>4, SameSettled
  <2> QED  BY <2>3
<1>4. ASSUME NEW c \in Conns, NEW keep \in BOOLEAN, Complete(c, keep)
      PROVE  \A r \in Reqs : Settled(r)'
  <2>1. PICK r : r = Head(queue[c])  OBVIOUS
  <2>2. /\ UNCHANGED <<fn, told, outstanding, dismissed, freed, own>> /\ agenda = <<>>
        /\ queue[c] # <<>> /\ queue' = [queue EXCEPT ![c] = Tail(@)]
    BY <1>4 DEF Complete, reqs, outcome
  <2>3. Item("done", r, fn[r]) \in ToSet(agenda')  BY <1>4, <2>1, CompleteAgenda
  <2>4. Pending("done", r)'  BY <2>3, ItemIs DEF Pending
  <2>5. ASSUME NEW q \in Reqs PROVE Settled(q)'
    <3>1. Settled(q)  BY DEF Base
    <3>2. fn[q] = None => q \notin freed  BY <3>1 DEF Settled
    <3>3. InQueue(q) => q = r \/ InQueue(q)'  BY <2>1, <2>2, TakeFirst
    <3> QED  BY <1>1, <2>2, <2>4, <3>1, <3>2, <3>3, SameSettled
  <2> QED  BY <2>5
<1>5. ASSUME NEW c \in Conns, Fail(c) PROVE \A r \in Reqs : Settled(r)'
  <2>1. PICK r : r = Head(queue[c])  OBVIOUS
  <2>2. /\ UNCHANGED <<fn, told, outstanding, dismissed, own>> /\ agenda = <<>>
        /\ queue[c] # <<>> /\ queue' = [queue EXCEPT ![c] = Tail(@)]
    BY <1>5 DEF Fail, reqs, outcome
  <2>3. Item("null", r, fn[r]) \in ToSet(agenda')  BY <1>5, <2>1, FailAgenda
  <2>4. Pending("null", r)'  BY <2>3, ItemIs DEF Pending
  <2>5. freed' = freed \cup {r} /\ fn[r] # None
    BY <1>5, <2>1, <2>2, FirstIs, FailFaults
  <2>6. ASSUME NEW q \in Reqs PROVE Settled(q)'
    <3>1. Settled(q)  BY DEF Base
    <3>2. fn[q] = None => q \notin freed'  BY <2>5, <3>1 DEF Settled
    <3>3. InQueue(q) => q = r \/ InQueue(q)'  BY <2>1, <2>2, TakeFirst
    <3> QED  BY <1>1, <2>2, <2>4, <2>5, <3>1, <3>2, <3>3, SameSettled
  <2> QED  BY <2>6
<1> QED
  BY <1>2, <1>3, <1>4, <1>5, FreeRestSettled, CallSettled, ReturnSettled DEF LoopNext

\* Every step.
LEMMA SettledStep ==
  ASSUME TypeOK, TypeOK', Base, Next, ~Gone'
  PROVE  \A r \in Reqs : Settled(r)'
<1>1. ASSUME NEW f \in Functors, EndLife(f) PROVE \A r \in Reqs : Settled(r)'
  <2>1. UNCHANGED <<fn, agenda, told, outstanding, dismissed, queue, freed, own>>
    BY <1>1 DEF EndLife, reqs, conns, outcome
  <2> QED  BY <2>1, UnsentSettled
<1> QED  BY <1>1, RequestSettled, ConnectionSettled, LoopSettled DEF Next

-----------------------------------------------------------------------------
(* The functors that the callbacks will call.                               *)

\* No functor of the caller dies, and those that are set anew are there.
LEMMA SameTargets ==
  ASSUME TypeOK, Base, misuse \subseteq misuse', freed \subseteq freed',
         made \subseteq made',
         \A f \in Functors : life[f] = "alive" => life'[f] = "alive",
         \A r \in Reqs : fn'[r] = fn[r] \/ life'[fn'[r]] = "alive",
         \A r \in outstanding' : r \in outstanding \/ life'[fn'[r]] = "alive",
         \A c \in Conns :
           \/ closecb'[c] = closecb[c]
           \/ c \in made /\ (closecb'[c] \in Functors => life'[closecb'[c]] = "alive"),
         made' \subseteq Conns,
         \A x \in ToSet(agenda') : x \in ToSet(agenda) \/ Callable(x)'
  PROVE  Targets'
<1>1. Targets  BY DEF Base
<1>2. ASSUME NEW r \in Reqs \ freed', fn'[r] # None PROVE life'[fn'[r]] = "alive"
  <2>1. r \in Reqs \ freed  BY <1>2
  <2>2. fn[r] # None => fn[r] \in Functors /\ life[fn[r]] = "alive"
    BY <1>1, <2>1 DEF Targets, Ready, TypeOK
  <2> QED  BY <1>2, <2>2
<1>3. ASSUME NEW r \in outstanding' PROVE life'[fn'[r]] = "alive"
  <2>1. CASE r \in outstanding
    <3>1. fn[r] \in Functors  BY <2>1 DEF Base, Settled, TypeOK
    <3>2. life[fn[r]] = "alive"  BY <1>1, <2>1 DEF Targets, Ready
    <3>3. r \in Reqs  BY <2>1 DEF TypeOK
    <3> QED  BY <3>1, <3>2, <3>3
  <2> QED  BY <1>3, <2>1
<1>4. ASSUME NEW c \in made' \ freed', closecb'[c] \in Functors
      PROVE  life'[closecb'[c]] = "alive"
  <2>1. c \in made /\ closecb'[c] = closecb[c] => life[closecb[c]] = "alive"
    BY <1>1, <1>4 DEF Targets, Ready
  <2>2. c \notin made => closecb[c] = None  BY <1>1, <1>4 DEF Targets
  <2>3. None \notin Functors  BY Apart
  <2> QED  BY <1>4, <2>1, <2>2, <2>3
<1>5. \A c \in Conns \ made' : closecb'[c] = None  BY <1>1 DEF Targets
<1>6. ASSUME NEW x \in ToSet(agenda') PROVE Callable(x)'
  <2>1. CASE x \in ToSet(agenda)
    <3>1. Callable(x) /\ Fits(x)  BY <1>1, <2>1 DEF Targets, Base, Agenda
    <3>2. x.cb \in Endings => x.arg \in Functors  BY <3>1 DEF Fits
    <3> QED  BY <3>1, <3>2 DEF Callable, Ready, Endings
  <2> QED  BY <1>6, <2>1
<1> QED  BY <1>2, <1>3, <1>4, <1>5, <1>6 DEF Targets, Ready

\* A request that was not freed, or that is awaited, has its functor.
LEMMA HasFunctor ==
  ASSUME TypeOK, Base, NEW r \in Reqs, fn[r] # None, r \notin freed \/ r \in outstanding
  PROVE  fn[r] \in Functors /\ life[fn[r]] = "alive"
BY DEF TypeOK, Base, Targets, Ready

\* The close callback has its functor.
LEMMA CloseReady ==
  ASSUME TypeOK, Base, NEW c \in Conns, UNCHANGED life
  PROVE  \A x \in CloseOf(c) : Callable(x)'
<1>1. c \in up => c \in made \ freed  BY DEF TypeOK, Base, Queues
<1>2. ASSUME NEW x \in CloseOf(c) PROVE Callable(x)'
  <2>1. c \in up /\ x.cb = "close" /\ x.arg = closecb[c]  BY ItemIs DEF CloseOf
  <2>2. x.arg \in Functors => life[x.arg] = "alive"
    BY <1>1, <2>1 DEF Base, Targets, Ready
  <2> QED  BY <2>1, <2>2 DEF Callable, Ready
<1> QED  BY <1>2

\* And so has the error callback.
LEMMA ErrorReady ==
  ASSUME TypeOK, Base, NEW r \in Reqs, r \notin freed, fn[r] # None, UNCHANGED life
  PROVE  \A x \in ErrorOf(r) : Callable(x)'
<1>1. life[fn[r]] = "alive"  BY HasFunctor
<1>2. ASSUME NEW x \in ErrorOf(r) PROVE Callable(x)'
  <2>1. x.cb = "error" /\ x.arg = fn[r]  BY ItemIs DEF ErrorOf
  <2> QED  BY <1>1, <2>1 DEF Callable, Ready
<1> QED  BY <1>2

\* The operations of a request.
LEMMA RequestTargets ==
  ASSUME TypeOK, TypeOK', Base, RequestNext, misuse \subseteq misuse'
  PROVE  Targets'
<1>1. made' \subseteq Conns  BY DEF TypeOK
<1>2. ASSUME UNCHANGED <<fn, outstanding, made, closecb, life, agenda>>,
             freed \subseteq freed'
      PROVE  Targets'
  BY <1>1, <1>2, SameTargets
<1>3. ASSUME NEW r \in Reqs, NEW f \in Functors, Allocate(r, f), freed \subseteq freed',
             UNCHANGED <<outstanding, made, closecb, life, agenda>>
      PROVE  Targets'
  <2>1. \A q \in Reqs : fn'[q] = fn[q] \/ life'[fn'[q]] = "alive"
    BY <1>3 DEF Allocate, TypeOK
  <2> QED  BY <1>1, <1>3, <2>1, SameTargets
<1>4. ASSUME NEW o \in Requests, NEW r \in Reqs, NEW f \in Functors, NEW err \in BOOLEAN,
             ConstructRequest(o, r, f, err)
      PROVE  Targets'
  BY <1>3, <1>4 DEF ConstructRequest, conns, outcome
<1>5. ASSUME NEW o \in Requests, NEW r \in Reqs, NEW f \in Functors, CreateRequest(o, r, f)
      PROVE  Targets'
  BY <1>3, <1>5 DEF CreateRequest, conns, outcome, Free
<1>6. ASSUME NEW o \in Requests, CloseRequest(o) PROVE Targets'
  BY <1>2, <1>6 DEF CloseRequest, reqs, conns, outcome, Free
<1>7. ASSUME NEW o \in Requests, NEW p \in Requests, Move(o, p) \/ Release(o)
      PROVE  Targets'
  BY <1>2, <1>7 DEF Move, Release, reqs, conns, outcome
<1>9. ASSUME NEW r \in Reqs, Own(r) PROVE Targets'
  BY <1>2, <1>9 DEF Own, conns, outcome
<1>10. ASSUME NEW r \in Reqs, Cancel(r) PROVE Targets'
  <2>1. /\ UNCHANGED <<fn, made, closecb, life>>
        /\ outstanding' \subseteq outstanding /\ freed \subseteq freed'
    BY <1>10 DEF Cancel, reqs
  <2>2. ASSUME NEW x \in ToSet(agenda') PROVE x \in ToSet(agenda) \/ Callable(x)'
    <3>1. Rest(r) \subseteq ToSet(agenda)  BY DEF Rest
    <3>2. CASE ToSet(agenda') = Rest(r)  BY <2>2, <3>1, <3>2
    <3>3. CASE /\ InQueue(r)
               /\ \E c \in Conns :
                    ToSet(agenda') = CloseOf(c) \cup ErrorOf(r) \cup Rest(r)
      <4>1. r \notin freed /\ fn[r] # None
        BY <1>10, <3>3, CancelledIs DEF Base, Queues
      <4> QED  BY <2>1, <2>2, <3>1, <3>3, <4>1, CloseReady, ErrorReady
    <3> QED  BY <1>10, <3>2, <3>3, CancelAgenda
  <2> QED  BY <1>1, <2>1, <2>2, SameTargets
<1> QED
  BY <1>4, <1>5, <1>6, <1>7, <1>9, <1>10 DEF RequestNext

\* A connection that is freed.
LEMMA FreeConnectionTargets ==
  ASSUME TypeOK, TypeOK', Base, NEW c \in Conns, FreeConnection(c),
         UNCHANGED <<fn, closecb, life, outstanding, freed>>, made \subseteq made',
         misuse \subseteq misuse'
  PROVE  Targets'
<1>1. ToSet(agenda') = CloseOf(c) \cup {Item("free", c, None)} \cup ToSet(agenda)
  BY FreeConnectionType
<1>2. PICK z : z = Item("free", c, None)  OBVIOUS
<1>3. Callable(z)'
  <2>1. z.cb = "free"  BY <1>2, ItemIs
  <2> QED  BY <2>1 DEF Callable
<1>4. \A x \in ToSet(agenda') : x \in ToSet(agenda) \/ Callable(x)'
  BY <1>1, <1>2, <1>3, CloseReady
<1>5. made' \subseteq Conns  BY DEF TypeOK
<1> QED  BY <1>4, <1>5, SameTargets

\* A request that is given to a connection has its functor.
LEMMA MakeTargets ==
  ASSUME TypeOK, TypeOK', Base, faults = {}, NEW r \in Reqs, NEW c \in Conns, Make(r, c),
         fn[r] # None, ~Gone', UNCHANGED <<fn, closecb, life, made, agenda, misuse>>
  PROVE  Targets'
<1>1. made' \subseteq Conns  BY DEF TypeOK
<1>2. CASE /\ outstanding' = outstanding \cup {r} /\ UNCHANGED freed
           /\ faults' = faults \cup (IF r \in freed THEN {"use after free"} ELSE {})
  <2>1. r \notin freed  BY <1>2 DEF Gone
  <2>2. life'[fn'[r]] = "alive"  BY <2>1, HasFunctor
  <2> QED  BY <1>1, <1>2, <2>2, SameTargets
<1>3. CASE Free({r}) /\ UNCHANGED outstanding
  <2>1. freed \subseteq freed'  BY <1>3 DEF Free
  <2> QED  BY <1>1, <1>3, <2>1, SameTargets
<1> QED  BY <1>2, <1>3 DEF Make

\* The operations of a connection.
LEMMA ConnectionTargets ==
  ASSUME TypeOK, TypeOK', Base, faults = {}, ConnectionNext, ~Gone',
         misuse \subseteq misuse'
  PROVE  Targets'
<1>1. made' \subseteq Conns  BY DEF TypeOK
<1>2. ASSUME UNCHANGED <<fn, outstanding, closecb, life, agenda, freed>>,
             made \subseteq made'
      PROVE  Targets'
  BY <1>1, <1>2, SameTargets
<1>3. ASSUME NEW k \in Connections, NEW c \in Conns, ConstructConnection(k, c)
      PROVE  Targets'
  BY <1>2, <1>3 DEF ConstructConnection, reqs, outcome
<1>4. ASSUME NEW k \in Connections, NEW c \in Conns, CreateConnection(k, c)
      PROVE  Targets'
  <2>1. /\ FreeConnection(handle[k]) /\ handle[k] # None /\ made \subseteq made'
        /\ UNCHANGED <<fn, closecb, life, outstanding, freed>>
    BY <1>4 DEF CreateConnection, reqs, outcome
  <2> QED  BY <2>1, Connected, FreeConnectionTargets
<1>5. ASSUME NEW k \in Connections, CloseConnection(k) PROVE Targets'
  <2>1. /\ FreeConnection(handle[k]) /\ handle[k] # None /\ made \subseteq made'
        /\ UNCHANGED <<fn, closecb, life, outstanding, freed>>
    BY <1>5 DEF CloseConnection, reqs, conns, outcome
  <2> QED  BY <2>1, Connected, FreeConnectionTargets
<1>6. ASSUME NEW k \in Connections, NEW l \in Connections, Release(k) \/ Move(k, l)
      PROVE  Targets'
  BY <1>2, <1>6 DEF Release, Move, reqs, conns, outcome
<1>7. ASSUME NEW k \in Connections, NEW f \in Functors, OnCloseRef(k, f) PROVE Targets'
  <2>1. /\ UNCHANGED <<fn, outstanding, made, life, agenda, freed>>
        /\ closecb' = [closecb EXCEPT ![handle[k]] = f] /\ life[f] = "alive"
        /\ handle[k] \in made
    BY <1>7, Connected DEF OnCloseRef, reqs, outcome
  <2>2. \A c \in Conns :
           \/ closecb'[c] = closecb[c]
           \/ c \in made /\ (closecb'[c] \in Functors => life'[closecb'[c]] = "alive")
    BY <2>1 DEF TypeOK
  <2> QED  BY <1>1, <2>1, <2>2, SameTargets
<1>8. ASSUME NEW k \in Connections, NEW f \in Cells, OnCloseMove(k, f) PROVE Targets'
  <2>1. /\ UNCHANGED <<fn, outstanding, made, agenda, freed>>
        /\ closecb' = [closecb EXCEPT ![handle[k]] = f]
        /\ life' = [life EXCEPT ![f] = "alive"] /\ handle[k] \in made
    BY <1>8, Connected DEF OnCloseMove, reqs, outcome
  <2>2. \A c \in Conns :
           \/ closecb'[c] = closecb[c]
           \/ c \in made /\ (closecb'[c] \in Functors => life'[closecb'[c]] = "alive")
    <3>1. \A c \in Conns : closecb'[c] = IF c = handle[k] THEN f ELSE closecb[c]
      BY <2>1 DEF TypeOK
    <3>2. f \notin Functors  BY Apart
    <3> QED  BY <2>1, <3>1, <3>2
  <2>3. \A g \in Functors : life'[g] = life[g]
    <3>1. \A g \in Functors \cup Cells : life'[g] = IF g = f THEN "alive" ELSE life[g]
      BY <2>1 DEF TypeOK
    <3> QED  BY <3>1, Apart
  <2> QED  BY <1>1, <2>1, <2>2, <2>3, SameTargets
<1>9. ASSUME NEW o \in Requests, NEW k \in Connections, MakeRequest(o, k) PROVE Targets'
  <2>1. /\ Make(handle[o], handle[k]) /\ handle[o] # None /\ handle[k] # None
        /\ UNCHANGED <<fn, closecb, life, made, agenda, misuse>>
    BY <1>9 DEF MakeRequest, reqs
  <2>2. handle[o] \in Reqs /\ fn[handle[o]] # None  BY <2>1, HeldQueued DEF Unsent
  <2> QED  BY <2>1, <2>2, Connected, MakeTargets
<1>10. ASSUME NEW r \in Reqs, NEW k \in Connections, MakeReleased(r, k) PROVE Targets'
  <2>1. /\ Make(r, handle[k]) /\ handle[k] # None /\ fn[r] # None
        /\ UNCHANGED <<fn, closecb, life, made, agenda, misuse>>
    BY <1>10 DEF MakeReleased, reqs
  <2> QED  BY <2>1, Connected, MakeTargets
<1> QED
  BY <1>3, <1>4, <1>5, <1>6, <1>7, <1>8, <1>9, <1>10 DEF ConnectionNext

\* The steps of the loop.
LEMMA LoopTargets ==
  ASSUME TypeOK, TypeOK', Base, faults = {}, LoopNext, ~Gone', misuse \subseteq misuse'
  PROVE  Targets'
<1>1. made' \subseteq Conns  BY DEF TypeOK
<1>2. ASSUME UNCHANGED <<fn, outstanding, closecb, life, made>>,
             freed \subseteq freed',
             \A x \in ToSet(agenda') : x \in ToSet(agenda) \/ Callable(x)'
      PROVE  Targets'
  BY <1>1, <1>2, SameTargets
<1>3. ASSUME NEW r \in Reqs, fn[r] # None, r \notin freed, UNCHANGED life,
             NEW cb \in {"done", "null"}
      PROVE  \E x : x = Item(cb, r, fn[r]) /\ Callable(x)'
  <2>1. life[fn[r]] = "alive"  BY <1>3, HasFunctor
  <2>2. PICK x : x = Item(cb, r, fn[r])  OBVIOUS
  <2>3. x.cb = cb /\ x.arg = fn[r]  BY <2>2, ItemIs
  <2>4. Callable(x)'  BY <1>3, <2>1, <2>3 DEF Callable, Ready
  <2> QED  BY <2>2, <2>4
<1>4. ASSUME NEW c \in Conns, Connect(c) PROVE Targets'
  BY <1>2, <1>4 DEF Connect, reqs, outcome
<1>5. ASSUME NEW c \in Conns, ConnectFails(c) PROVE Targets'
  <2>1. /\ UNCHANGED <<fn, outstanding, closecb, life, made, freed>>
        /\ agenda' = [i \in DOMAIN queue[c] |-> Item("done", queue[c][i], fn[queue[c][i]])]
    BY <1>5 DEF ConnectFails, reqs, outcome
  <2>2. ToSet(agenda') = {Item("done", r, fn[r]) : r \in ToSet(queue[c])}
    BY <2>1, AllDone
  <2>3. ASSUME NEW x \in ToSet(agenda') PROVE Callable(x)'
    <3>1. PICK r \in ToSet(queue[c]) : x = Item("done", r, fn[r])  BY <2>2, <2>3
    <3>2. InQueue(r) /\ r \in Reqs
      <4>1. queue[c] \in Seq(Reqs)  BY DEF TypeOK
      <4> QED  BY <4>1 DEF InQueue, ToSet
    <3>3. r \in outstanding \ freed  BY <3>2 DEF Base, Queues
    <3>4. fn[r] # None  BY <3>2, <3>3 DEF Base, Settled
    <3> QED  BY <1>3, <2>1, <3>1, <3>2, <3>3, <3>4
  <2> QED  BY <1>2, <2>1, <2>3
<1>6. ASSUME NEW c \in Conns, FreeRest(c) PROVE Targets'
  <2>1. /\ UNCHANGED <<fn, closecb, life, made>> /\ outstanding' \subseteq outstanding
        /\ freed \subseteq freed'
    BY <1>6 DEF FreeRest, Free, reqs
  <2>2. ToSet(agenda') \subseteq ToSet(agenda)  BY <1>6, FreeFirst
  <2> QED  BY <1>1, <2>1, <2>2, SameTargets
<1>7. ASSUME NEW c \in Conns, NEW keep \in BOOLEAN, Complete(c, keep) PROVE Targets'
  <2>1. PICK r : r = Head(queue[c])  OBVIOUS
  <2>2. /\ UNCHANGED <<fn, outstanding, closecb, life, made, freed>>
        /\ queue[c] # <<>>
    BY <1>7 DEF Complete, reqs, outcome
  <2>3. ToSet(agenda') = (IF keep THEN {} ELSE CloseOf(c)) \cup {Item("done", r, fn[r])}
    BY <1>7, <2>1, CompleteAgenda
  <2>4. r \in Reqs \ freed /\ fn[r] # None  BY <2>1, <2>2, FirstIs
  <2>5. PICK x : x = Item("done", r, fn[r]) /\ Callable(x)'  BY <1>3, <2>2, <2>4
  <2>6. \A y \in CloseOf(c) : Callable(y)'  BY <2>2, CloseReady
  <2>7. \A y \in ToSet(agenda') : Callable(y)'  BY <2>3, <2>5, <2>6
  <2> QED  BY <1>2, <2>2, <2>7
<1>8. ASSUME NEW c \in Conns, Fail(c) PROVE Targets'
  <2>1. PICK r : r = Head(queue[c])  OBVIOUS
  <2>2. /\ UNCHANGED <<fn, outstanding, closecb, life, made>> /\ freed \subseteq freed'
        /\ queue[c] # <<>>
    BY <1>8 DEF Fail, reqs, outcome, Free
  <2>3. ToSet(agenda') = CloseOf(c) \cup ErrorOf(r) \cup {Item("null", r, fn[r])}
    BY <1>8, <2>1, FailAgenda
  <2>4. r \in Reqs \ freed /\ fn[r] # None  BY <2>1, <2>2, FirstIs
  <2>5. PICK x : x = Item("null", r, fn[r]) /\ Callable(x)'  BY <1>3, <2>2, <2>4
  <2>6. /\ \A y \in CloseOf(c) : Callable(y)'
        /\ \A y \in ErrorOf(r) : Callable(y)'
    BY <2>2, <2>4, CloseReady, ErrorReady
  <2>7. \A y \in ToSet(agenda') : Callable(y)'  BY <2>3, <2>5, <2>6
  <2> QED  BY <1>2, <2>2, <2>7
<1>9. ASSUME NEW c \in Conns, PeerCloses(c) PROVE Targets'
  <2>1. /\ UNCHANGED <<fn, outstanding, closecb, life, made, freed>>
        /\ ToSet(agenda') = CloseOf(c)
    BY <1>9, ResetItemsAre DEF PeerCloses, reqs, outcome
  <2> QED  BY <1>2, <2>1, CloseReady
<1>10. CASE Call
  <2>1. PICK x : x = Head(agenda)  OBVIOUS
  <2>2. PICK y : y = [x EXCEPT !.runs = TRUE]  OBVIOUS
  <2>3. /\ UNCHANGED <<fn, closecb, life, made, freed>>
        /\ outstanding' \subseteq outstanding
    BY <1>10 DEF Call, reqs, conns
  <2>4. /\ x \in Callbacks /\ x \in ToSet(agenda)
        /\ ToSet(agenda) = {x} \cup ToSet(Tail(agenda))
        /\ ToSet(agenda') = {y} \cup ToSet(Tail(agenda))
    BY <1>10, <2>1, <2>2, CallAgenda
  <2>5. y.cb = x.cb /\ y.arg = x.arg /\ y.runs  BY <2>2, <2>4 DEF Callbacks
  <2>6. Callable(x)  BY <2>4 DEF Base, Targets
  <2>7. Callable(y)'  BY <2>3, <2>5, <2>6 DEF Callable, Ready
  <2>8. \A z \in ToSet(agenda') : z \in ToSet(agenda) \/ Callable(z)'  BY <2>4, <2>7
  <2> QED  BY <1>1, <2>3, <2>8, SameTargets
<1>11. CASE Return
  <2>1. PICK x : x = Head(agenda)  OBVIOUS
  <2>2. /\ UNCHANGED <<fn, closecb, outstanding, made>> /\ freed \subseteq freed'
        /\ \/ UNCHANGED life
           \/ x.arg \in Cells /\ life' = [life EXCEPT ![x.arg] = "dead"]
    BY <1>11, <2>1 DEF Return, Resume, reqs, outcome, Free
  <2>3. ToSet(agenda) = {x} \cup ToSet(agenda')  BY <1>11, <2>1, ReturnAgenda
  <2>4. \A f \in Functors : life'[f] = life[f]
    <3>1. \A f \in Functors \cup Cells : (f = x.arg /\ f \in Cells) \/ life'[f] = life[f]
      BY <2>2 DEF TypeOK
    <3> QED  BY <3>1, Apart
  <2> QED  BY <1>1, <2>2, <2>3, <2>4, SameTargets
<1> QED
  BY <1>4, <1>5, <1>6, <1>7, <1>8, <1>9, <1>10, <1>11 DEF LoopNext

\* A functor ends only when it is not wanted, but for the end of a request whose error
\* was told, and this is noted.
LEMMA EndLifeTargets ==
  ASSUME TypeOK, Base, NEW f \in Functors, EndLife(f), misuse \subseteq misuse'
  PROVE  Targets'
<1>1. /\ UNCHANGED <<fn, freed, outstanding, made, closecb, agenda>>
      /\ ~Wanted(f) /\ life' = [life EXCEPT ![f] = "dead"]
      /\ (\E r \in Reqs : OnAgenda("null", r) /\ fn[r] = f) => "ended on error" \in misuse'
  BY DEF EndLife, Note, reqs, conns, outcome
<1>2. \A g \in Functors \cup Cells : g # f => life'[g] = life[g]  BY <1>1 DEF TypeOK
<1>3. Targets  BY DEF Base
<1>4. ASSUME NEW r \in Reqs \ freed, fn[r] # None PROVE life'[fn[r]] = "alive"
  <2>1. fn[r] # f  BY <1>1 DEF Wanted
  <2>2. fn[r] \in Functors /\ life[fn[r]] = "alive"
    BY <1>3, <1>4 DEF Targets, Ready, TypeOK
  <2> QED  BY <1>2, <2>1, <2>2
<1>5. ASSUME NEW r \in outstanding PROVE life'[fn[r]] = "alive"
  <2>1. fn[r] # f  BY <1>1 DEF Wanted
  <2>2. fn[r] \in Functors  BY DEF Base, Settled, TypeOK
  <2> QED  BY <1>2, <1>3, <2>1, <2>2 DEF Targets, Ready
<1>6. ASSUME NEW c \in made \ freed, closecb[c] \in Functors
      PROVE  life'[closecb[c]] = "alive"
  <2>1. closecb[c] # f  BY <1>1 DEF Wanted
  <2> QED  BY <1>2, <1>3, <1>6, <2>1 DEF Targets, Ready
<1>7. ASSUME NEW x \in ToSet(agenda) PROVE Callable(x)'
  <2>1. Callable(x) /\ Fits(x)  BY <1>3 DEF Targets, Base, Agenda
  <2>2. x.cb \in Endings \cup {"close"} => x.arg \in Functors \cup Cells
    BY <2>1 DEF Fits
  <2>3. CASE x.arg # f \/ x.cb = "free"
    <3>1. x.cb \in Endings \cup {"close"} => life'[x.arg] = life[x.arg]
      BY <1>2, <2>2, <2>3 DEF Endings
    <3> QED  BY <1>1, <2>1, <3>1 DEF Callable, Ready, Endings
  <2>4. CASE x.arg = f /\ x.cb # "free"
    <3>1. \/ x.cb = "error" /\ x.runs
          \/ x.cb = "null" /\ ~x.runs
          \/ x.cb = "done" /\ ~x.runs /\ x.of \notin outstanding
      <4>1. PICK i \in DOMAIN agenda : agenda[i] = x  BY DEF ToSet
      <4>2. x.cb \in Endings \cup {"close"} /\ x.runs \in BOOLEAN
        <5>1. x \in Callbacks
          <6>1. agenda \in Seq(Callbacks)  BY AgendaType
          <6> QED  BY <6>1 DEF ToSet
        <5> QED  BY <2>4, <5>1 DEF Callbacks, Singles
      <4> QED  BY <1>1, <2>4, <4>1, <4>2 DEF Wanted, Endings
    <3>2. x.cb = "null" => "ended on error" \in misuse'
      <4>1. x.cb = "null" => x.of \in Reqs /\ fn[x.of] = f
        BY <2>1, <2>4 DEF Fits, Endings
      <4> QED  BY <1>1, <4>1, InsideIs
    <3>3. x.cb = "done" /\ ~x.runs /\ x.of \notin outstanding => "cancel done" \in misuse'
      BY <1>1, <2>1 DEF Fits
    <3> QED  BY <3>1, <3>2, <3>3 DEF Callable
  <2> QED  BY <2>3, <2>4
<1> QED  BY <1>1, <1>3, <1>4, <1>5, <1>6, <1>7 DEF Targets, Ready

\* Every step.
LEMMA TargetsStep ==
  ASSUME TypeOK, TypeOK', Base, Next, ~Gone'
  PROVE  Targets'
<1>1. faults = {} /\ misuse \subseteq misuse'  BY MisuseGrows DEF Next
<1> QED
  BY <1>1, RequestTargets, ConnectionTargets, LoopTargets, EndLifeTargets DEF Next

-----------------------------------------------------------------------------
(* The theorems.                                                            *)

\* The invariant holds at the start.
LEMMA InitInv == Init => Inv
<1> SUFFICES ASSUME Init PROVE Inv  OBVIOUS
<1>1. TypeOK
  <2>1. <<>> \in Seq(Reqs) /\ agenda = <<>>  BY EmptySeq DEF Init
  <2>2. agenda \in Seq([cb : {"done", "error", "null", "close", "free"},
          of : Reqs \cup Conns, arg : Functors \cup Cells \cup {None}, runs : BOOLEAN])
    BY <2>1, EmptySeq
  <2>3. <<>> \in Seq({"done", "error", "null", "refused"})  BY EmptySeq
  <2> QED  BY <2>1, <2>2, <2>3, Apart DEF Init, TypeOK
<1>2. Handles  BY Apart DEF Init, Handles, Held
<1>3. \A q : ~InQueue(q)  BY SetOne DEF Init, InQueue
<1>4. Queues
  <2>1. \A c \in Conns : DOMAIN queue[c] = {}  BY DEF Init
  <2> QED  BY <1>3, <2>1 DEF Init, Queues
<1>5. Agenda  BY SetOne, OrderedFew DEF Init, Agenda
<1>6. Targets  BY SetOne, Apart DEF Init, Targets, Ready
<1>7. \A r \in Reqs : Settled(r)  BY Outcomes DEF Init, Settled
<1>8. FunctorsIntact /\ ~Gone  BY DEF Init, FunctorsIntact, Gone
<1>9. Lasting  BY SetOne DEF Init, Lasting, Freeing
<1> QED  BY <1>1, <1>2, <1>4, <1>5, <1>6, <1>7, <1>8, <1>9 DEF Inv, Base

\* And every step preserves it: each part needs the others.
LEMMA NextInv == Inv /\ [Next]_vars => Inv'
<1> SUFFICES ASSUME Inv, [Next]_vars PROVE Inv'  OBVIOUS
<1>1. CASE Next
  <2>1. faults = {}  BY <1>1 DEF Next
  <2>2. ~Gone /\ TypeOK /\ Base  BY <2>1 DEF Inv, Gone
  <2>3. TypeOK'
    BY <1>1, <2>2, RequestType, ConnectionType, LoopType, EndLifeType DEF Next
  <2>4. (Gone' => Wrong') /\ FunctorsIntact'  BY <1>1, <2>2, FaultStep
  <2>5. ~Gone' => Base'
    BY <1>1, <2>2, <2>3, HandlesStep, LastingStep, QueuesStep, AgendaStep, SettledStep,
       TargetsStep DEF Base
  <2> QED  BY <2>3, <2>4, <2>5 DEF Inv
<1>2. CASE UNCHANGED vars
  <2> USE <1>2 DEF vars
  <2>1. TypeOK' /\ FunctorsIntact'  BY DEF Inv, TypeOK, FunctorsIntact
  <2>2. (Wrong' <=> Wrong) /\ (Gone' <=> Gone)  BY DEF Wrong, Gone
  <2>3. /\ \A r : InQueue(r)' <=> InQueue(r)
        /\ \A cb, r : Pending(cb, r)' <=> Pending(cb, r)
        /\ \A r : Held(r)' <=> Held(r)
    BY DEF InQueue, Pending, Held
  <2>4. ASSUME Base PROVE Base'
    <3>1. Handles'  BY <2>2, <2>3, <2>4 DEF Base, Handles, Unsent
    <3>2. Queues'  BY <2>3, <2>4 DEF Base, Queues
    <3>3. Agenda'
      <4>1. Agenda  BY <2>4 DEF Base
      <4>2. \A q : Still(q)  BY <2>3 DEF Still, Same
      <4> QED  BY <4>1, <4>2, KeptAgenda DEF Inv
    <3>4. Targets'  BY <2>4 DEF Base, Targets, Callable, Ready
    <3>5. \A r \in Reqs : Settled(r)'  BY <2>3, <2>4 DEF Base, Settled
    <3>6. Lasting'  BY <2>4 DEF Base, Lasting, Freeing
    <3> QED  BY <3>1, <3>2, <3>3, <3>4, <3>5, <3>6 DEF Base
  <2> QED  BY <2>1, <2>2, <2>4 DEF Inv
<1> QED  BY <1>1, <1>2

\* Nothing is freed twice or used after it was freed, before the program misuses the
\* client; until something is, each structure has one place, each request that was sent
\* is awaited and is settled once, a connection that is freed comes after its close
\* callback, and the functor of every callback is there or its end was noted.
THEOREM Invariant == Spec => []Inv
<1> QED  BY InitInv, NextInv, PTL DEF Spec

\* A request is freed once and is in one place, an object, a connection, or the
\* callback that is about to be called, until the program cancels it there, or in the
\* other ways that misuse records (request.hpp, connection.hpp).
THEOREM RequestsInOnePlace == Spec => []OnePlace
<1>1. Inv => OnePlace
  <2> SUFFICES ASSUME Inv PROVE OnePlace  OBVIOUS
  <2>1. TypeOK /\ (Gone => Wrong)  BY DEF Inv
  <2>2. ASSUME misuse = {}
        PROVE  /\ \A o, p \in Requests : handle[o] = handle[p] => o = p \/ handle[o] = None
               /\ \A c, d \in Conns : ToSet(queue[c]) \cap ToSet(queue[d]) # {} => c = d
               /\ \A c \in Conns : IsInjective(queue[c])
               /\ \A r \in Reqs :
                    /\ ~(Held(r) /\ Queued(r))
                    /\ Held(r) \/ Queued(r) => r \notin freed /\ ~OnAgenda("done", r)
                    /\ OnAgenda("done", r) => r \notin freed
    <3>1. ~Wrong /\ Base  BY <2>1, <2>2 DEF Wrong, Inv
    <3>2. \A o, p \in Requests : handle[o] = handle[p] => o = p \/ handle[o] = None
      BY <3>1, Apart DEF Base, Handles
    <3>3. \A c, d \in Conns : ToSet(queue[c]) \cap ToSet(queue[d]) # {} => c = d
      BY <3>1 DEF Base, Queues, ToSet
    <3>4. \A c \in Conns : IsInjective(queue[c])
      BY <3>1 DEF Base, Queues, IsInjective
    <3>5. ASSUME NEW r \in Reqs
          PROVE  /\ ~(Held(r) /\ Queued(r))
                 /\ Held(r) \/ Queued(r) => r \notin freed /\ ~OnAgenda("done", r)
                 /\ OnAgenda("done", r) => r \notin freed
      <4>1. Queued(r) <=> InQueue(r)  BY <3>1, QueuedIs DEF Base
      <4>2. Held(r) => Unsent(r)  BY <3>1 DEF Base, Handles
      <4>3. InQueue(r) => r \in outstanding \ freed  BY <3>1 DEF Base, Queues
      <4>4. OnAgenda("done", r) => /\ ~Unsent(r) /\ ~InQueue(r) /\ r \notin freed
        <5>1. ASSUME NEW x \in ToSet(agenda), x.cb = "done", x.of = r
              PROVE  ~Unsent(r) /\ ~InQueue(r) /\ r \notin freed
          <6>1. ~Unsent(r) /\ ~InQueue(r)  BY <2>1, <3>1, <5>1, ItemOf DEF Endings
          <6>2. Fits(x) /\ "cancel done" \notin misuse
            BY <2>2, <3>1 DEF Base, Agenda
          <6>3. r \notin freed  BY <3>1, <5>1, <6>2 DEF Fits
          <6> QED  BY <6>1, <6>3
        <5> QED  BY <2>1, <5>1, InsideIs
      <4>5. Unsent(r) => r \notin freed /\ ~InQueue(r)  BY <3>1, <4>3 DEF Unsent
      <4> QED  BY <4>1, <4>2, <4>3, <4>4, <4>5
    <3> QED  BY <3>2, <3>3, <3>4, <3>5
  <2> QED  BY <2>1, <2>2 DEF OnePlace, Gone, Wrong
<1> QED  BY <1>1, Invariant, PTL

\* Each request is told of its end once, after at most one error, and the program never
\* waits for one that is gone.
THEOREM RequestsSettledOnce == Spec => []SettledOnce
<1>1. Inv => SettledOnce
  <2> SUFFICES ASSUME Inv, misuse = {}, NEW r \in Reqs
               PROVE  /\ told[r] \in {<<>>, <<"done">>, <<"null">>, <<"error">>,
                                      <<"error", "null">>, <<"refused">>}
                      /\ r \in dismissed => told[r] \in {<<>>, <<"error">>}
                      /\ told[r] = <<"error">> => r \in dismissed \/ OnAgenda("null", r)
                      /\ r \in outstanding =>
                           Queued(r) \/ OnAgenda("done", r) \/ OnAgenda("null", r)
    BY DEF SettledOnce
  <2>1. TypeOK /\ Base  BY DEF Inv, Wrong
  <2>2. Settled(r)  BY <2>1 DEF Base
  <2>3. InQueue(r) => Queued(r)  BY <2>1, QueuedIs DEF Base
  <2>4. \A cb : Pending(cb, r) => OnAgenda(cb, r)  BY <2>1, InsideIs DEF Pending
  <2> QED  BY <2>2, <2>3, <2>4 DEF Settled
<1> QED  BY <1>1, Invariant, PTL

\* A callback finds the functor of the caller, unless the program ended that in the error
\* callback, or after it had cancelled the request whose callback was next
\* (functional.hpp, request.hpp).
THEOREM CallbacksFindFunctors == Spec => []FunctorsIntact
<1>1. Inv => FunctorsIntact  BY DEF Inv
<1> QED  BY <1>1, Invariant, PTL
=============================================================================
