---------------------------- MODULE StreamProofs ----------------------------
(***************************************************************************)
(* Theorems about Stream, for any number of items, any watermarks and any   *)
(* room on the wire: what is written arrives in order or was left behind,   *)
(* an end of file is the truth, and each direction is a Channel.            *)
(***************************************************************************)
EXTENDS Stream, SequenceTheorems, TLAPS

-----------------------------------------------------------------------------
(* Runs of items: what is between two places of a direction.                *)

Size(s) == Len(s)

\* The items k + 1, k + 2, ..., in order.
Run(s, k) == s \in Seq(Nat) /\ \A i \in 1..Len(s) : s[i] = k + i

LEMMA RunSize ==
  ASSUME NEW s, NEW k, Run(s, k)
  PROVE  s \in Seq(Nat) /\ Size(s) \in Nat
BY LenProperties DEF Run, Size

LEMMA EmptyRun ==
  ASSUME NEW s, s = <<>>
  PROVE  Size(s) = 0 /\ \A k \in Nat : Run(s, k)
<1>1. Len(s) = 0  BY EmptySeq, Zenon
<1>2. s \in Seq(Nat)  BY EmptySeq
<1> QED  BY <1>1, <1>2 DEF Run, Size

\* Adding the next item to a run.
LEMMA AppendRun ==
  ASSUME NEW s, NEW k \in Nat, Run(s, k), NEW x, x = k + Size(s) + 1
  PROVE  /\ Run(Append(s, x), k)
         /\ Size(Append(s, x)) = Size(s) + 1
<1>1. s \in Seq(Nat) /\ Len(s) \in Nat  BY LenProperties DEF Run
<1>2. x = k + Len(s) + 1 /\ x \in Nat  BY <1>1 DEF Size
<1> DEFINE t == Append(s, x)
<1>3. /\ t \in Seq(Nat) /\ Len(t) = Len(s) + 1
      /\ \A i \in 1..Len(s) : t[i] = s[i]
      /\ t[Len(s) + 1] = x
  BY <1>1, <1>2, AppendProperties
<1>4. ASSUME NEW i \in 1..Len(t) PROVE t[i] = k + i
  <2>1. CASE i = Len(s) + 1  BY <2>1, <1>1, <1>2, <1>3
  <2>2. CASE i \in 1..Len(s)  BY <2>2, <1>1, <1>3 DEF Run
  <2> QED  BY <2>1, <2>2, <1>1, <1>3
<1> QED  BY <1>1, <1>3, <1>4 DEF Run, Size

\* Taking the first item of a run.
LEMMA TailRun ==
  ASSUME NEW s, NEW k \in Nat, Run(s, k), s # <<>>
  PROVE  /\ Head(s) = k + 1
         /\ Run(Tail(s), k + 1)
         /\ Size(s) \in Nat /\ Size(Tail(s)) \in Nat
         /\ Size(s) = Size(Tail(s)) + 1
<1>1. /\ s \in Seq(Nat) /\ Len(s) \in Nat \ {0} /\ Head(s) = s[1]
      /\ Tail(s) \in Seq(Nat) /\ Len(Tail(s)) = Len(s) - 1
      /\ \A i \in 1..Len(Tail(s)) : Tail(s)[i] = s[i + 1]
  BY HeadTailProperties, EmptySeq DEF Run
<1>2. \A i \in 1..Len(Tail(s)) : Tail(s)[i] = k + 1 + i
  BY <1>1 DEF Run
<1> QED  BY <1>1, <1>2 DEF Run, Size

\* Putting a run behind one that starts with the first item.
LEMMA ConcatRun ==
  ASSUME NEW s, NEW t, NEW n, Run(s, 0), Size(s) = n, Run(t, n)
  PROVE  /\ n \in Nat /\ Size(t) \in Nat
         /\ Run(s \o t, 0) /\ Size(s \o t) = n + Size(t)
<1>1. /\ s \in Seq(Nat) /\ t \in Seq(Nat) /\ n \in Nat /\ Len(t) \in Nat
      /\ Len(s) = n
  BY LenProperties DEF Run, Size
<1>2. /\ s \o t \in Seq(Nat) /\ Len(s \o t) = n + Len(t)
      /\ \A i \in 1..n + Len(t) : (s \o t)[i] = IF i <= n THEN s[i] ELSE t[i - n]
  <2>1. /\ s \o t \in Seq(Nat) /\ Len(s \o t) = Len(s) + Len(t)
        /\ \A i \in 1..Len(s) + Len(t) :
             (s \o t)[i] = IF i <= Len(s) THEN s[i] ELSE t[i - Len(s)]
    BY <1>1, ConcatProperties
  <2> QED  BY <2>1, <1>1
<1>3. ASSUME NEW i \in 1..Len(s \o t) PROVE (s \o t)[i] = 0 + i
  <2>1. CASE i <= n  BY <2>1, <1>1, <1>2 DEF Run
  <2>2. CASE i > n
    <3>1. i - n \in 1..Len(t)  BY <2>2, <1>1, <1>2
    <3>2. t[i - n] = n + (i - n)  BY <3>1 DEF Run
    <3> QED  BY <2>2, <3>2, <1>1, <1>2
  <2> QED  BY <2>1, <2>2, <1>1, <1>2
<1> QED  BY <1>1, <1>2, <1>3 DEF Run, Size

\* Cutting a run.
LEMMA CutRun ==
  ASSUME NEW s, NEW k \in Nat, Run(s, k), NEW n \in 0..Size(s)
  PROVE  Run(SubSeq(s, 1, n), k) /\ Size(SubSeq(s, 1, n)) = n
<1>1. s \in Seq(Nat) /\ Len(s) \in Nat /\ n \in 0..Len(s)
  BY LenProperties DEF Run, Size
<1>2. \A i \in 1..n : s[i] \in Nat  BY <1>1, ElementOfSeq
<1>3. /\ SubSeq(s, 1, n) \in Seq(Nat)
      /\ Len(SubSeq(s, 1, n)) = IF 1 <= n THEN n - 1 + 1 ELSE 0
      /\ \A i \in 1..n - 1 + 1 : SubSeq(s, 1, n)[i] = s[1 + i - 1]
  BY <1>1, <1>2, SubSeqProperties
<1>4. Len(SubSeq(s, 1, n)) = n  BY <1>1, <1>3
<1> QED  BY <1>1, <1>3, <1>4 DEF Run, Size

\* Runs of the same length are the same.
LEMMA SameRun ==
  ASSUME NEW s, NEW t, NEW k \in Nat, Run(s, k), Run(t, k), Size(s) = Size(t)
  PROVE  s = t
BY SeqEqual DEF Run, Size

\* All that an end wrote.
LEMMA WrittenRun ==
  ASSUME NEW e, sent[e] \in Nat
  PROVE  Run(Written(e), 0) /\ Size(Written(e)) = sent[e]
BY DEF Run, Written, Size

-----------------------------------------------------------------------------
(* The inductive invariant.                                                 *)

\* How many items have arrived at end p, and how many e has sent to it.
Arrived(p) == Size(got[p]) + Size(input[p])
Sent(e) == Arrived(Peer(e)) + Size(wire[e])

\* What end p took is a beginning of what the other end wrote.
Taken(p) == Run(got[p], 0) /\ Size(got[p]) <= sent[Peer(p)]

\* What has not been taken at an end that is there follows it without a gap,
Arriving(e) ==
  link[Peer(e)] # "freed" =>
    /\ Run(input[Peer(e)], Size(got[Peer(e)]))
    /\ Run(wire[e], Arrived(Peer(e)))
    /\ Sent(e) <= sent[e]

\* and the output, unless it was left behind, follows that, up to what was written.
Leaving(e) ==
  link[Peer(e)] # "freed" /\ e \notin hasty =>
    Run(output[e], Sent(e)) /\ Sent(e) + Size(output[e]) = sent[e]

\* An end that left things behind sends no more; one that closed and did not has
\* nothing left to send.
Closing(e) ==
  /\ e \in hasty => tail[e] # "open"
  /\ tail[e] # "open" /\ e \notin hasty => output[e] = <<>>

\* After an end of file nothing is on the way.
Told(e) ==
  ended[e] = "eof" /\ link[e] # "freed" =>
    /\ tail[Peer(e)] \notin {"open", "mute"}
    /\ Peer(e) \notin hasty => wire[Peer(e)] = <<>>
    /\ secure /\ e \notin dirty => tail[Peer(e)] # "fin"

\* The server has no connection while the client has none.
Linked ==
  /\ link[Client] \in {"idle", "connecting", "failed"} => link[Server] = "idle"
  /\ \A e \in Ends : link[e] \in {"idle", "connecting"} => ended[e] = "open"

Way(e) == Taken(e) /\ Arriving(e) /\ Leaving(e) /\ Closing(e) /\ Told(e)

Inv == TypeOK /\ Linked /\ \A e \in Ends : Way(e)

LEMMA PeerOf ==
  /\ Client \in Ends /\ Server \in Ends
  /\ Peer(Client) = Server /\ Peer(Server) = Client
  /\ \A e \in Ends : Peer(e) \in Ends /\ Peer(e) # e /\ Peer(Peer(e)) = e
  /\ \A e, f \in Ends : f = e \/ f = Peer(e)
BY EndsAssumption DEF Ends, Peer

\* The numbers of items are numbers.
LEMMA Sizes ==
  ASSUME TypeOK, NEW e \in Ends
  PROVE  /\ sent[e] \in Nat
         /\ Size(got[e]) \in Nat /\ Size(input[e]) \in Nat /\ Size(wire[e]) \in Nat
         /\ Size(output[e]) \in Nat /\ Arrived(e) \in Nat /\ Sent(e) \in Nat
<1>1. \A f \in Ends : /\ got[f] \in Seq(Nat) /\ input[f] \in Seq(Nat)
                      /\ wire[f] \in Seq(Nat) /\ output[f] \in Seq(Nat)
  BY DEF TypeOK
<1>2. \A s \in Seq(Nat) : Size(s) \in Nat  BY LenProperties DEF Size
<1>3. \A f \in Ends : Arrived(f) \in Nat  BY <1>1, <1>2 DEF Arrived
<1>4. Sent(e) \in Nat  BY <1>1, <1>2, <1>3, PeerOf DEF Sent
<1>5. sent[e] \in Nat  BY DEF TypeOK
<1> QED  BY <1>1, <1>2, <1>3, <1>4, <1>5

LEMMA InitInv == Init => Inv
<1> SUFFICES ASSUME Init PROVE Inv  OBVIOUS
<1>1. TypeOK
  <2>1. [e \in Ends |-> <<>>] \in [Ends -> Seq(Nat)]  BY EmptySeq
  <2>2. [e \in Ends |-> <<0, 0>>] \in [Ends -> Nat \X Nat]  OBVIOUS
  <2> QED  BY <2>1, <2>2 DEF Init, TypeOK
<1>2. Linked  BY PeerOf DEF Init, Linked
<1>3. ASSUME NEW e \in Ends PROVE Way(e)
  <2>1. \A f \in Ends : /\ output[f] = <<>> /\ wire[f] = <<>>
                        /\ input[f] = <<>> /\ got[f] = <<>>
                        /\ sent[f] = 0 /\ tail[f] = "open" /\ ended[f] = "open"
                        /\ f \notin hasty
    BY DEF Init
  <2>2. Arrived(e) = 0 /\ Arrived(Peer(e)) = 0 /\ Sent(e) = 0
    BY <2>1, EmptyRun, PeerOf DEF Arrived, Sent
  <2>3. Taken(e) /\ Arriving(e) /\ Leaving(e)
    BY <2>1, <2>2, EmptyRun, PeerOf DEF Taken, Arriving, Leaving
  <2>4. Closing(e) /\ Told(e)  BY <2>1 DEF Closing, Told
  <2> QED  BY <2>3, <2>4 DEF Way
<1> QED  BY <1>1, <1>2, <1>3 DEF Inv

\* What the program can rely on, from the invariant.
LEMMA InvInTransit == Inv => InTransit
<1> SUFFICES ASSUME Inv, NEW e \in Ends
             PROVE  LET p == Peer(e) IN
                    /\ got[p] = Written(e) \/ IsPrefix(got[p], Written(e))
                    /\ e \notin hasty /\ link[p] \notin {"freed", "failed"} =>
                         got[p] \o input[p] \o wire[e] \o output[e] = Written(e)
  BY DEF InTransit, Inv
<1> DEFINE p == Peer(e)
<1>1. /\ p \in Ends /\ Peer(p) = e /\ sent[e] \in Nat
      /\ Taken(p) /\ Arriving(e) /\ Leaving(e)
  BY PeerOf DEF Inv, Way, TypeOK
<1>2. Run(Written(e), 0) /\ Size(Written(e)) = sent[e]
  BY <1>1, WrittenRun
<1>3. IsPrefix(got[p], Written(e))
  <2>1. Run(got[p], 0) /\ Size(got[p]) \in 0..Size(Written(e))
    BY <1>1, <1>2, RunSize DEF Taken
  <2>2. /\ Run(SubSeq(Written(e), 1, Size(got[p])), 0)
        /\ Size(SubSeq(Written(e), 1, Size(got[p]))) = Size(got[p])
    BY <2>1, <1>2, CutRun
  <2>3. SubSeq(Written(e), 1, Size(got[p])) = got[p]
    BY <2>1, <2>2, SameRun
  <2>4. SubSeq(got[p], 1, Size(got[p])) = got[p]
    BY <2>1, SubSeqFull DEF Run, Size
  <2> QED  BY <2>1, <2>3, <2>4, <1>2 DEF IsPrefix, Size
<1>4. ASSUME e \notin hasty, link[p] \notin {"freed", "failed"}
      PROVE  got[p] \o input[p] \o wire[e] \o output[e] = Written(e)
  <2>1. /\ Run(got[p], 0) /\ Run(input[p], Size(got[p])) /\ Run(wire[e], Arrived(p))
        /\ Run(output[e], Sent(e)) /\ Sent(e) + Size(output[e]) = sent[e]
    BY <1>1, <1>4 DEF Taken, Arriving, Leaving
  <2>2. Run(got[p] \o input[p], 0) /\ Size(got[p] \o input[p]) = Arrived(p)
    BY <2>1, ConcatRun DEF Arrived
  <2>3. /\ Run(got[p] \o input[p] \o wire[e], 0)
        /\ Size(got[p] \o input[p] \o wire[e]) = Sent(e)
    BY <2>1, <2>2, ConcatRun DEF Sent
  <2>4. /\ Run(got[p] \o input[p] \o wire[e] \o output[e], 0)
        /\ Size(got[p] \o input[p] \o wire[e] \o output[e]) = sent[e]
    BY <2>1, <2>3, ConcatRun
  <2> QED  BY <2>4, <1>2, SameRun
<1> QED  BY <1>3, <1>4

LEMMA InvEofIsTrue == Inv => EofIsTrue
<1> SUFFICES ASSUME Inv, NEW e \in Ends, ended[e] = "eof", link[e] # "freed"
             PROVE  LET p == Peer(e) IN
                    /\ p \notin hasty => got[e] \o input[e] = Written(p)
                    /\ secure /\ e \notin dirty => tail[p] # "fin"
  BY DEF EofIsTrue
<1> DEFINE p == Peer(e)
<1>1. /\ p \in Ends /\ Peer(p) = e /\ sent[p] \in Nat
      /\ Taken(e) /\ Arriving(p) /\ Leaving(p) /\ Closing(p) /\ Told(e)
  BY PeerOf DEF Inv, Way, TypeOK
<1>2. ASSUME p \notin hasty PROVE got[e] \o input[e] = Written(p)
  <2>1. wire[p] = <<>> /\ output[p] = <<>>
    BY <1>1, <1>2 DEF Told, Closing
  <2>2. Run(got[e], 0) /\ Run(input[e], Size(got[e])) /\ Sent(p) + Size(output[p]) = sent[p]
    BY <1>1, <1>2 DEF Taken, Arriving, Leaving
  <2>3. Run(got[e] \o input[e], 0) /\ Size(got[e] \o input[e]) = Arrived(e)
    BY <2>2, ConcatRun DEF Arrived
  <2>4. Arrived(e) = sent[p]
    BY <2>1, <2>2, <1>1, EmptyRun, RunSize DEF Sent, Arrived
  <2> QED  BY <2>3, <2>4, <1>1, WrittenRun, SameRun
<1>3. secure /\ e \notin dirty => tail[p] # "fin"
  BY <1>1 DEF Told
<1> QED  BY <1>2, <1>3

-----------------------------------------------------------------------------
(* The steps keep the invariant: the types.                                 *)

LEMMA SeqFacts ==
  /\ <<>> \in Seq(Nat)
  /\ \A s \in Seq(Nat), x \in Nat : Append(s, x) \in Seq(Nat)
  /\ \A s, t \in Seq(Nat) : s \o t \in Seq(Nat)
  /\ \A s \in Seq(Nat) : s # <<>> => Head(s) \in Nat /\ Tail(s) \in Seq(Nat)
  /\ \A s \in Seq(Nat) : \A n \in 0..Len(s) : SubSeq(s, 1, n) \in Seq(Nat)
<1>1. ASSUME NEW s \in Seq(Nat), NEW n \in 0..Len(s)
      PROVE  SubSeq(s, 1, n) \in Seq(Nat)
  <2>1. \A i \in 1..n : s[i] \in Nat  BY LenProperties, ElementOfSeq
  <2> QED  BY <2>1, LenProperties, SubSeqProperties
<1>2. \A s \in Seq(Nat) : s # <<>> => Head(s) \in Nat /\ Tail(s) \in Seq(Nat)
  BY HeadTailProperties
<1>3. \A s \in Seq(Nat), x \in Nat : Append(s, x) \in Seq(Nat)
  BY AppendProperties
<1>4. \A s, t \in Seq(Nat) : s \o t \in Seq(Nat)
  BY ConcatProperties
<1> QED  BY <1>1, <1>2, <1>3, <1>4, EmptySeq

LEMMA ProgramType == TypeOK /\ ProgramNext => TypeOK'
<1> SUFFICES ASSUME TypeOK, ProgramNext PROVE TypeOK'  OBVIOUS
<1>1. CASE Connect  BY <1>1, PeerOf DEF Connect, TypeOK, data, flow, status, history
<1>2. ASSUME NEW e \in Ends, Write(e) PROVE TypeOK'
  BY <1>2, SeqFacts DEF Write, TypeOK, data, flow, status, history
<1>3. ASSUME NEW e \in Ends, Read(e) PROVE TypeOK'
  BY <1>3, SeqFacts DEF Read, Drained, Started, TypeOK, data, flow, status, history
<1>4. ASSUME NEW e \in Ends, TakeOne(e) PROVE TypeOK'
  <2>1. Size(input[e]) > 1  BY <1>4 DEF TakeOne, Size
  <2>2. input[e] # <<>>  BY <2>1, EmptyRun
  <2>3. got' \in [Ends -> Seq(Nat)] /\ input' \in [Ends -> Seq(Nat)]
    BY <1>4, <2>2, SeqFacts DEF TakeOne, TypeOK
  <2>4. stopped' \in [Ends -> SUBSET {"read", "write"}]
    BY <1>4 DEF TakeOne, Drained, Started, TypeOK
  <2>5. UNCHANGED <<status, link, enabled, mark, output, wire, tail, asked, ended,
                    sent, hasty, misuse>>
    BY <1>4 DEF TakeOne
  <2> QED  BY <2>3, <2>4, <2>5 DEF TypeOK, status
<1>5. ASSUME NEW e \in Ends, NEW d \in {"read", "write"}, Enable(e, d)
      PROVE  TypeOK'
  BY <1>5 DEF Enable, Started, TypeOK, data, flow, status, history
<1>6. ASSUME NEW e \in Ends, NEW d \in {"read", "write"}, Disable(e, d)
      PROVE  TypeOK'
  BY <1>6 DEF Disable, Started, TypeOK, data, flow, status, history
<1>7. ASSUME NEW e \in Ends, NEW m \in Marks[e], SetWatermark(e, m)
      PROVE  TypeOK'
  BY <1>7, MarksAssumption DEF SetWatermark, Started, TypeOK, data, flow, status, history
<1>8. ASSUME NEW e \in Ends, AllowDirtyShutdown(e) PROVE TypeOK'
  BY <1>8 DEF AllowDirtyShutdown, TypeOK, data, flow, status, history
<1>9. ASSUME NEW e \in Ends, Shutdown(e) PROVE TypeOK'
  BY <1>9 DEF Shutdown, TypeOK, data, flow, status, history
<1>10. ASSUME NEW e \in Ends, Destroy(e) PROVE TypeOK'
  BY <1>10, SeqFacts DEF Destroy, TypeOK, data, flow, status, history
<1> QED
  BY <1>1, <1>2, <1>3, <1>4, <1>5, <1>6, <1>7, <1>8, <1>9, <1>10 DEF ProgramNext

LEMMA LoopType == TypeOK /\ LoopNext => TypeOK'
<1> SUFFICES ASSUME TypeOK, LoopNext PROVE TypeOK'  OBVIOUS
<1>0. ASSUME NEW e \in Ends, NEW d \in {"read", "write"}, Ceases(e, d)
      PROVE  /\ enabled' \in [Ends -> SUBSET {"read", "write"}]
             /\ stopped' \in [Ends -> SUBSET {"read", "write"}]
  <2>1. /\ enabled \in [Ends -> SUBSET {"read", "write"}]
        /\ stopped \in [Ends -> SUBSET {"read", "write"}]
    BY DEF TypeOK
  <2>2. CASE secure
    <3> DEFINE both == {x \in enabled[e] : x = "write" => output[e] # <<>>}
    <3>1. stopped' = [stopped EXCEPT ![e] = both] /\ enabled' = enabled
      BY <1>0, <2>2 DEF Ceases
    <3>2. both \subseteq {"read", "write"}  BY <2>1
    <3> HIDE DEF both
    <3> QED  BY <2>1, <3>1, <3>2
  <2>3. CASE ~secure  BY <1>0, <2>1, <2>3 DEF Ceases
  <2> QED  BY <2>2, <2>3
<1>1. CASE Connected  BY <1>1 DEF Connected, TypeOK, data, flow, status, history
<1>2. CASE ConnectFails  BY <1>2, PeerOf DEF ConnectFails, TypeOK, data, flow, status, history
<1>3. ASSUME NEW e \in Ends, Send(e) PROVE TypeOK'
  BY <1>3, SeqFacts DEF Send, TypeOK, data, flow, status, history
<1>4. ASSUME NEW e \in Ends, Arrive(e) PROVE TypeOK'
  <2>1. asked' \in [Ends -> BOOLEAN]
    <3> DEFINE new == asked[e] \/ Len(input'[e]) >= mark[e][1]
    <3>1. asked' = [asked EXCEPT ![e] = new]  BY <1>4 DEF Arrive
    <3>2. new \in BOOLEAN  OBVIOUS
    <3> HIDE DEF new
    <3> QED  BY <3>1, <3>2 DEF TypeOK
  <2>2. wire' \in [Ends -> Seq(Nat)] /\ input' \in [Ends -> Seq(Nat)]
    BY <1>4, SeqFacts, PeerOf DEF Arrive, TypeOK
  <2>3. UNCHANGED <<status, link, flow, mark, output, tail, ended, history>>
    BY <1>4 DEF Arrive
  <2> QED  BY <2>1, <2>2, <2>3 DEF TypeOK, flow, status, history
<1>5. ASSUME NEW e \in Ends, ArriveEnd(e) PROVE TypeOK'
  <2>1. UNCHANGED <<status, link, mark, data, tail, history>>  BY <1>5 DEF ArriveEnd
  <2>2. /\ enabled' \in [Ends -> SUBSET {"read", "write"}]
        /\ stopped' \in [Ends -> SUBSET {"read", "write"}]
    BY <1>0, <1>5 DEF ArriveEnd
  <2>3. Meaning(e) \in {"eof", "error"}
    BY <1>5, PeerOf DEF ArriveEnd, Meaning, TypeOK
  <2>4. ended' \in [Ends -> {"open", "eof", "error"}] /\ asked' \in [Ends -> BOOLEAN]
    BY <1>5, <2>3 DEF ArriveEnd, TypeOK
  <2> QED  BY <2>1, <2>2, <2>4 DEF TypeOK, data, status, history
<1>6. ASSUME NEW e \in Ends, Reset(e) PROVE TypeOK'
  <2> DEFINE p == Peer(e)
  <2>1. PICK n \in 0..Len(wire[p]) :
          wire' = [wire EXCEPT ![e] = <<>>, ![p] = SubSeq(wire[p], 1, n)]
    BY <1>6, PeerOf DEF Reset
  <2>2. wire[p] \in Seq(Nat) /\ SubSeq(wire[p], 1, n) \in Seq(Nat) /\ p \in Ends
    BY SeqFacts, PeerOf DEF TypeOK
  <2>3. wire' \in [Ends -> Seq(Nat)]  BY <2>1, <2>2, SeqFacts DEF TypeOK
  <2> QED  BY <1>6, <2>2, <2>3 DEF Reset, TypeOK, data, flow, status, history
<1>7. ASSUME NEW e \in Ends, WriteError(e) PROVE TypeOK'
  <2>1. UNCHANGED <<status, link, mark, data, tail, asked, history>>
    BY <1>7 DEF WriteError
  <2>2. /\ enabled' \in [Ends -> SUBSET {"read", "write"}]
        /\ stopped' \in [Ends -> SUBSET {"read", "write"}]
    BY <1>0, <1>7 DEF WriteError
  <2>3. ended' \in [Ends -> {"open", "eof", "error"}]  BY <1>7 DEF WriteError, TypeOK
  <2> QED  BY <2>1, <2>2, <2>3 DEF TypeOK, data, status, history
<1>8. ASSUME NEW e \in Ends, NEW d \in {"read", "write"}, Timeout(e, d)
      PROVE  TypeOK'
  BY <1>8 DEF Timeout, Disable, Started, TypeOK, data, flow, status, history
<1> QED
  BY <1>1, <1>2, <1>3, <1>4, <1>5, <1>6, <1>7, <1>8 DEF LoopNext

-----------------------------------------------------------------------------
(* The steps keep the invariant: the ways of the items.                     *)

\* Steps that move nothing.
LEMMA StillWay ==
  ASSUME Inv, UNCHANGED <<secure, output, wire, tail, input, sent, got, hasty>>,
         dirty \subseteq dirty',
         \A f \in Ends : ended'[f] = "eof" => ended[f] = "eof",
         \A f \in Ends : link[f] = "freed" => link'[f] = "freed",
         NEW e \in Ends
  PROVE  Way(e)'
<1>1. Way(e) /\ Peer(e) \in Ends  BY PeerOf DEF Inv
<1>2. UNCHANGED <<Arrived(Peer(e)), Sent(e)>>  BY DEF Arrived, Sent
<1>3. Taken(e)'  BY <1>1 DEF Way, Taken
<1>4. Arriving(e)'  BY <1>1, <1>2 DEF Way, Arriving
<1>5. Leaving(e)'  BY <1>1, <1>2 DEF Way, Leaving
<1>6. Closing(e)'  BY <1>1 DEF Way, Closing
<1>7. Told(e)'  BY <1>1 DEF Way, Told
<1> QED  BY <1>3, <1>4, <1>5, <1>6, <1>7 DEF Way

LEMMA WriteWay ==
  ASSUME Inv, NEW e \in Ends, Write(e), NEW f \in Ends
  PROVE  Way(f)'
<1>1. /\ \A x \in Ends : sent'[x] = IF x = e THEN sent[x] + 1 ELSE sent[x]
      /\ \A x \in Ends : output'[x] = IF x = e THEN Append(output[x], sent[x] + 1)
                                              ELSE output[x]
      /\ hasty' = IF tail[e] = "open" THEN hasty ELSE hasty \cup {e}
      /\ UNCHANGED <<secure, dirty, link, wire, tail, input, ended, got>>
  BY DEF Write, Inv, TypeOK, status
<1>2. /\ Way(f) /\ TypeOK /\ Peer(f) \in Ends /\ Peer(f) # f /\ Peer(Peer(f)) = f
      /\ sent[f] \in Nat /\ sent[Peer(f)] \in Nat /\ Size(got[f]) \in Nat
      /\ Size(output[f]) \in Nat /\ Arrived(Peer(f)) \in Nat /\ Sent(f) \in Nat
  BY PeerOf, Sizes DEF Inv
<1>3. Arrived(Peer(f))' = Arrived(Peer(f)) /\ Sent(f)' = Sent(f)
  BY <1>1 DEF Arrived, Sent
<1>4. Taken(f)'  BY <1>1, <1>2 DEF Way, Taken
<1>5. Arriving(f)'  BY <1>1, <1>2, <1>3 DEF Way, Arriving
<1>6. Leaving(f)'
  <2>1. CASE f # e  BY <2>1, <1>1, <1>2, <1>3 DEF Way, Leaving
  <2>2. CASE f = e /\ link[Peer(f)] # "freed" /\ f \notin hasty
    <3>1. Run(output[f], Sent(f)) /\ sent[f] = Sent(f) + Size(output[f])
      BY <2>2, <1>2 DEF Way, Leaving
    <3>2. sent[f] + 1 = Sent(f) + Size(output[f]) + 1
      BY <3>1
    <3>3. /\ Run(Append(output[f], sent[f] + 1), Sent(f))
          /\ Size(Append(output[f], sent[f] + 1)) = Size(output[f]) + 1
      BY <3>1, <3>2, <1>2, AppendRun
    <3>4. /\ Run(output'[f], Sent(f)') /\ sent'[f] = sent[f] + 1
          /\ Size(output'[f]) = Size(output[f]) + 1
      BY <3>3, <2>2, <1>1, <1>3
    <3>5. Sent(f) + (Size(output[f]) + 1) = sent[f] + 1
      BY <3>1, <1>2
    <3> QED  BY <3>4, <3>5, <1>3 DEF Leaving
  <2>3. CASE f = e /\ (link[Peer(f)] = "freed" \/ f \in hasty)
    BY <2>3, <1>1 DEF Leaving
  <2> QED  BY <2>1, <2>2, <2>3
<1>7. Closing(f)'  BY <1>1, <1>2 DEF Way, Closing
<1>8. Told(f)'  BY <1>1, <1>2 DEF Way, Told
<1> QED  BY <1>4, <1>5, <1>6, <1>7, <1>8 DEF Way

LEMMA ReadWay ==
  ASSUME Inv, NEW e \in Ends, Read(e), NEW f \in Ends
  PROVE  Way(f)'
<1>1. /\ \A x \in Ends : got'[x] = IF x = e THEN got[x] \o input[x] ELSE got[x]
      /\ \A x \in Ends : input'[x] = IF x = e THEN <<>> ELSE input[x]
      /\ link[e] # "freed"
      /\ UNCHANGED <<secure, dirty, link, output, wire, tail, ended, sent, hasty>>
  BY DEF Read, Exists, Inv, TypeOK, status
<1>2. /\ \A x \in Ends : Way(x)
      /\ TypeOK /\ Peer(f) \in Ends /\ Peer(f) # f /\ Peer(Peer(f)) = f
      /\ sent[f] \in Nat /\ sent[Peer(f)] \in Nat /\ Size(got[f]) \in Nat
      /\ Size(wire[f]) \in Nat /\ Size(wire[Peer(f)]) \in Nat /\ Sent(f) \in Nat
  BY PeerOf, Sizes DEF Inv
<1>3. /\ Run(got[e] \o input[e], 0) /\ Size(got[e] \o input[e]) = Arrived(e)
      /\ Arrived(e) \in Nat
  <2>1. Run(got[e], 0) /\ Run(input[e], Size(got[e]))
    BY <1>1, <1>2, PeerOf DEF Way, Taken, Arriving
  <2> QED  BY <2>1, ConcatRun, Sizes DEF Arrived, Inv
<1>4. \A x \in Ends : Arrived(x)' = Arrived(x)
  <2>1. ASSUME NEW x \in Ends, x # e PROVE Arrived(x)' = Arrived(x)
    BY <2>1, <1>1 DEF Arrived
  <2>2. Size(input'[e]) = 0 /\ Size(got'[e]) = Arrived(e)
    BY <1>1, <1>3, EmptyRun
  <2>3. Arrived(e)' = Arrived(e)  BY <2>2, <1>3 DEF Arrived
  <2> QED  BY <2>1, <2>3
<1>5. Sent(f)' = Sent(f)  BY <1>1, <1>2, <1>4 DEF Sent
<1>6. Taken(f)'
  <2>1. CASE f # e  BY <2>1, <1>1, <1>2 DEF Way, Taken
  <2>2. CASE f = e
    <3>1. Sent(Peer(e)) <= sent[Peer(e)] /\ Sent(Peer(e)) = Arrived(e) + Size(wire[Peer(e)])
      BY <2>2, <1>1, <1>2 DEF Way, Arriving, Sent
    <3>2. Arrived(e) <= sent[Peer(e)]  BY <3>1, <2>2, <1>2, <1>3
    <3> QED  BY <3>2, <2>2, <1>1, <1>3 DEF Taken
  <2> QED  BY <2>1, <2>2
<1>7. Arriving(f)'
  <2>1. CASE Peer(f) # e  BY <2>1, <1>1, <1>2, <1>4, <1>5 DEF Way, Arriving
  <2>2. CASE Peer(f) = e
    <3>1. Run(input'[e], Size(got'[e]))  BY <1>1, <1>3, EmptyRun
    <3> QED  BY <3>1, <2>2, <1>1, <1>2, <1>4, <1>5 DEF Way, Arriving
  <2> QED  BY <2>1, <2>2
<1>8. Leaving(f)'  BY <1>1, <1>2, <1>5 DEF Way, Leaving
<1>9. Closing(f)'  BY <1>1, <1>2 DEF Way, Closing
<1>10. Told(f)'  BY <1>1, <1>2 DEF Way, Told
<1> QED  BY <1>6, <1>7, <1>8, <1>9, <1>10 DEF Way

LEMMA TakeOneWay ==
  ASSUME Inv, NEW e \in Ends, TakeOne(e), NEW f \in Ends
  PROVE  Way(f)'
<1>1. /\ \A x \in Ends : got'[x] = IF x = e THEN Append(got[x], Head(input[x])) ELSE got[x]
      /\ \A x \in Ends : input'[x] = IF x = e THEN Tail(input[x]) ELSE input[x]
      /\ link[e] # "freed" /\ Size(input[e]) > 1
      /\ UNCHANGED <<secure, dirty, link, output, wire, tail, ended, sent, hasty>>
  BY DEF TakeOne, Exists, Inv, TypeOK, status, Size
<1>2. /\ \A x \in Ends : Way(x)
      /\ TypeOK /\ Peer(f) \in Ends /\ Peer(f) # f /\ Peer(Peer(f)) = f
      /\ sent[f] \in Nat /\ sent[Peer(f)] \in Nat /\ Size(got[f]) \in Nat
      /\ Size(wire[f]) \in Nat /\ Size(wire[Peer(f)]) \in Nat /\ Sent(f) \in Nat
  BY PeerOf, Sizes DEF Inv
<1>3. /\ Size(got[e]) \in Nat /\ Size(input[e]) \in Nat /\ Size(Tail(input[e])) \in Nat
      /\ Run(Append(got[e], Head(input[e])), 0)
      /\ Size(Append(got[e], Head(input[e]))) = Size(got[e]) + 1
      /\ Run(Tail(input[e]), Size(got[e]) + 1)
      /\ Size(input[e]) = Size(Tail(input[e])) + 1
  <2>1. /\ Run(got[e], 0) /\ Run(input[e], Size(got[e]))
        /\ Size(got[e]) \in Nat /\ Size(input[e]) \in Nat
    BY <1>1, <1>2, PeerOf, Sizes DEF Way, Taken, Arriving
  <2>2. input[e] # <<>>  BY <1>1, EmptyRun
  <2>3. /\ Head(input[e]) = Size(got[e]) + 1
        /\ Run(Tail(input[e]), Size(got[e]) + 1) /\ Size(Tail(input[e])) \in Nat
        /\ Size(input[e]) = Size(Tail(input[e])) + 1
    BY <2>1, <2>2, TailRun
  <2>4. Head(input[e]) = 0 + Size(got[e]) + 1  BY <2>1, <2>3
  <2>5. /\ Run(Append(got[e], Head(input[e])), 0)
        /\ Size(Append(got[e], Head(input[e]))) = Size(got[e]) + 1
    BY <2>1, <2>4, AppendRun
  <2> QED  BY <2>1, <2>3, <2>5
<1>4. \A x \in Ends : Arrived(x)' = Arrived(x)
  <2>1. ASSUME NEW x \in Ends, x # e PROVE Arrived(x)' = Arrived(x)
    BY <2>1, <1>1 DEF Arrived
  <2>2. Size(input[e]) = Size(input'[e]) + 1 /\ Size(got'[e]) = Size(got[e]) + 1
    BY <1>1, <1>3
  <2>3. Size(input'[e]) \in Nat  BY <1>1, <1>3
  <2>4. Arrived(e)' = Arrived(e)  BY <2>2, <2>3, <1>3 DEF Arrived
  <2> QED  BY <2>1, <2>4
<1>5. Sent(f)' = Sent(f)  BY <1>1, <1>2, <1>4 DEF Sent
<1>6. Taken(f)'
  <2>1. CASE f # e  BY <2>1, <1>1, <1>2 DEF Way, Taken
  <2>2. CASE f = e
    <3>1. Sent(Peer(e)) <= sent[Peer(e)]
          /\ Sent(Peer(e)) = Size(got[e]) + Size(input[e]) + Size(wire[Peer(e)])
      BY <2>2, <1>1, <1>2 DEF Way, Arriving, Sent, Arrived
    <3>2. Size(got[e]) + 1 <= sent[Peer(e)]  BY <3>1, <2>2, <1>1, <1>2, <1>3
    <3> QED  BY <3>2, <2>2, <1>1, <1>3 DEF Taken
  <2> QED  BY <2>1, <2>2
<1>7. Arriving(f)'
  <2>1. CASE Peer(f) # e  BY <2>1, <1>1, <1>2, <1>4, <1>5 DEF Way, Arriving
  <2>2. CASE Peer(f) = e
    <3>1. Run(input'[e], Size(got'[e]))  BY <1>1, <1>3
    <3> QED  BY <3>1, <2>2, <1>1, <1>2, <1>4, <1>5 DEF Way, Arriving
  <2> QED  BY <2>1, <2>2
<1>8. Leaving(f)'  BY <1>1, <1>2, <1>5 DEF Way, Leaving
<1>9. Closing(f)'  BY <1>1, <1>2 DEF Way, Closing
<1>10. Told(f)'  BY <1>1, <1>2 DEF Way, Told
<1> QED  BY <1>6, <1>7, <1>8, <1>9, <1>10 DEF Way

LEMMA ShutdownWay ==
  ASSUME Inv, NEW e \in Ends, Shutdown(e), NEW f \in Ends
  PROVE  Way(f)'
<1>1. /\ \A x \in Ends : x # e => tail'[x] = tail[x]
      /\ tail[e] \in {"open", "mute"} /\ tail'[e] \in {"notify", "mute"}
      /\ hasty' = IF output[e] = <<>> THEN hasty ELSE hasty \cup {e}
      /\ UNCHANGED <<secure, dirty, link, output, wire, input, ended, sent, got>>
  BY DEF Shutdown, Inv, TypeOK, status, data
<1>2. Way(f) /\ Peer(f) \in Ends /\ Peer(f) # f  BY PeerOf DEF Inv
<1>3. UNCHANGED <<Arrived(Peer(f)), Sent(f)>>  BY <1>1 DEF Arrived, Sent
<1>4. Taken(f)'  BY <1>1, <1>2 DEF Way, Taken
<1>5. Arriving(f)'  BY <1>1, <1>2, <1>3 DEF Way, Arriving
<1>6. Leaving(f)'  BY <1>1, <1>2, <1>3 DEF Way, Leaving
<1>7. Closing(f)'  BY <1>1, <1>2 DEF Way, Closing
<1>8. Told(f)'  BY <1>1, <1>2 DEF Way, Told
<1> QED  BY <1>4, <1>5, <1>6, <1>7, <1>8 DEF Way

LEMMA DestroyWay ==
  ASSUME Inv, NEW e \in Ends, Destroy(e), NEW f \in Ends
  PROVE  Way(f)'
<1>1. /\ \A x \in Ends : x # e => /\ tail'[x] = tail[x] /\ link'[x] = link[x]
                                  /\ output'[x] = output[x] /\ input'[x] = input[x]
      /\ tail'[e] = IF tail[e] \in {"open", "mute"} THEN "fin" ELSE tail[e]
      /\ link'[e] = "freed" /\ output'[e] = <<>>
      /\ hasty' = IF output[e] = <<>> THEN hasty ELSE hasty \cup {e}
      /\ UNCHANGED <<secure, dirty, wire, ended, sent, got>>
  BY DEF Destroy, Inv, TypeOK, status
<1>2. Way(f) /\ Peer(f) \in Ends /\ Peer(f) # f  BY PeerOf DEF Inv
<1>3. Peer(f) # e => UNCHANGED <<Arrived(Peer(f)), Sent(f)>>
  BY <1>1, <1>2 DEF Arrived, Sent
<1>4. Taken(f)'  BY <1>1, <1>2 DEF Way, Taken
<1>5. Arriving(f)'  BY <1>1, <1>2, <1>3 DEF Way, Arriving
<1>6. Leaving(f)'  BY <1>1, <1>2, <1>3 DEF Way, Leaving
<1>7. Closing(f)'  BY <1>1, <1>2 DEF Way, Closing
<1>8. Told(f)'  BY <1>1, <1>2 DEF Way, Told
<1> QED  BY <1>4, <1>5, <1>6, <1>7, <1>8 DEF Way

LEMMA SendWay ==
  ASSUME Inv, NEW e \in Ends, Send(e), NEW f \in Ends
  PROVE  Way(f)'
<1>1. /\ \A x \in Ends : output'[x] = IF x = e THEN Tail(output[x]) ELSE output[x]
      /\ \A x \in Ends : wire'[x] = IF x = e THEN Append(wire[x], Head(output[x]))
                                            ELSE wire[x]
      /\ tail[e] = "open" /\ output[e] # <<>>
      /\ UNCHANGED <<secure, dirty, link, tail, input, ended, sent, got, hasty>>
  BY DEF Send, Inv, TypeOK, status, history
<1>2. Way(f) /\ Peer(f) \in Ends /\ Peer(f) # f /\ e \notin hasty
  BY <1>1, PeerOf DEF Inv, Way, Closing
<1>3. Arrived(Peer(f))' = Arrived(Peer(f))  BY <1>1 DEF Arrived
<1>4. Taken(f)'  BY <1>1, <1>2 DEF Way, Taken
<1>5. Arriving(f)' /\ Leaving(f)'
  <2>1. CASE f # e
    <3>1. Sent(f)' = Sent(f)  BY <2>1, <1>1, <1>3 DEF Sent
    <3> QED  BY <2>1, <3>1, <1>1, <1>2, <1>3 DEF Way, Arriving, Leaving
  <2>2. CASE f = e /\ link[Peer(f)] # "freed"
    <3>1. /\ Run(wire[e], Arrived(Peer(e))) /\ Run(output[e], Sent(e))
          /\ Sent(e) + Size(output[e]) = sent[e]
          /\ Sent(e) = Arrived(Peer(e)) + Size(wire[e])
          /\ Sent(e) \in Nat /\ Arrived(Peer(e)) \in Nat /\ Size(wire[e]) \in Nat
      BY <2>2, <1>2, Sizes DEF Inv, Way, Arriving, Leaving, Sent
    <3>2. /\ Head(output[e]) = Sent(e) + 1 /\ Run(Tail(output[e]), Sent(e) + 1)
          /\ Size(Tail(output[e])) \in Nat
          /\ Size(output[e]) = Size(Tail(output[e])) + 1
      BY <3>1, <1>1, TailRun
    <3>3. Head(output[e]) = Arrived(Peer(e)) + Size(wire[e]) + 1
      BY <3>1, <3>2
    <3>4. /\ Run(wire'[e], Arrived(Peer(e)))
          /\ Size(wire'[e]) = Size(wire[e]) + 1
      BY <3>1, <3>3, <1>1, AppendRun
    <3>5. Sent(e)' = Sent(e) + 1
      BY <3>1, <3>4, <2>2, <1>3 DEF Sent
    <3>6. Sent(e)' <= sent[e] /\ Sent(e)' + Size(output'[e]) = sent[e]
      BY <3>1, <3>2, <3>5, <1>1
    <3>7. Run(output'[e], Sent(e)')  BY <3>2, <3>5, <1>1
    <3>8. Arriving(e)'
      BY <3>4, <3>6, <2>2, <1>1, <1>2, <1>3 DEF Way, Arriving
    <3> QED  BY <3>6, <3>7, <3>8, <2>2, <1>1 DEF Leaving
  <2>3. CASE f = e /\ link[Peer(f)] = "freed"
    BY <2>3, <1>1 DEF Arriving, Leaving
  <2> QED  BY <2>1, <2>2, <2>3
<1>6. Closing(f)'  BY <1>1, <1>2 DEF Way, Closing
<1>7. Told(f)'  BY <1>1, <1>2 DEF Way, Told
<1> QED  BY <1>4, <1>5, <1>6, <1>7 DEF Way

LEMMA ArriveWay ==
  ASSUME Inv, NEW e \in Ends, Arrive(e), NEW f \in Ends
  PROVE  Way(f)'
<1> DEFINE p == Peer(e)
<1>1. /\ \A x \in Ends : wire'[x] = IF x = p THEN Tail(wire[x]) ELSE wire[x]
      /\ \A x \in Ends : input'[x] = IF x = e THEN Append(input[x], Head(wire[p]))
                                             ELSE input[x]
      /\ wire[p] # <<>> /\ link[e] # "freed"
      /\ UNCHANGED <<secure, dirty, link, output, tail, ended, sent, got, hasty>>
  BY PeerOf DEF Arrive, Reading, Runs, Inv, TypeOK, status, history
<1>2. /\ Way(f) /\ Peer(f) \in Ends /\ Peer(f) # f /\ Peer(Peer(f)) = f
      /\ Way(p) /\ Way(e) /\ p \in Ends /\ Peer(p) = e /\ p # e
  BY PeerOf DEF Inv
<1>3. /\ Run(input[e], Size(got[e])) /\ Run(wire[p], Arrived(e))
      /\ Arrived(e) = Size(got[e]) + Size(input[e])
      /\ Size(got[e]) \in Nat /\ Size(input[e]) \in Nat /\ Arrived(e) \in Nat
  BY <1>1, <1>2, Sizes DEF Inv, Way, Arriving, Arrived
<1>4. /\ Head(wire[p]) = Arrived(e) + 1 /\ Run(Tail(wire[p]), Arrived(e) + 1)
      /\ Size(Tail(wire[p])) \in Nat
      /\ Size(wire[p]) = Size(Tail(wire[p])) + 1
  BY <1>1, <1>3, TailRun
<1>5. /\ Run(input'[e], Size(got[e])) /\ Size(input'[e]) = Size(input[e]) + 1
  <2>1. Head(wire[p]) = Size(got[e]) + Size(input[e]) + 1  BY <1>3, <1>4
  <2> QED  BY <2>1, <1>1, <1>3, AppendRun
<1>6. Arrived(e)' = Arrived(e) + 1  BY <1>1, <1>3, <1>5 DEF Arrived
<1>7. Arrived(p)' = Arrived(p)  BY <1>1, <1>2 DEF Arrived
<1>8. Sent(f)' = Sent(f)
  <2>1. CASE f = p
    <3>1. Sent(p) = Arrived(e) + Size(wire[p])  BY <1>2 DEF Sent
    <3>2. Sent(p)' = Arrived(e)' + Size(wire'[p])  BY <1>2 DEF Sent
    <3> QED  BY <3>1, <3>2, <2>1, <1>1, <1>2, <1>3, <1>4, <1>6
  <2>2. CASE f = e  BY <2>2, <1>1, <1>2, <1>7 DEF Sent
  <2> QED  BY <2>1, <2>2, PeerOf
<1>9. Taken(f)'  BY <1>1, <1>2 DEF Way, Taken
<1>10. Arriving(f)'
  <2>1. CASE f = p
    <3>1. Run(wire'[p], Arrived(e)')  BY <1>1, <1>2, <1>4, <1>6
    <3> QED  BY <3>1, <2>1, <1>1, <1>2, <1>5, <1>8 DEF Way, Arriving
  <2>2. CASE f = e  BY <2>2, <1>1, <1>2, <1>7, <1>8 DEF Way, Arriving
  <2> QED  BY <2>1, <2>2, PeerOf
<1>11. Leaving(f)'  BY <1>1, <1>2, <1>8 DEF Way, Leaving
<1>12. Closing(f)'  BY <1>1, <1>2 DEF Way, Closing
<1>13. Told(f)'
  <2>1. CASE f = e
    <3>1. ended[e] = "eof" => p \in hasty  BY <2>1, <1>1, <1>2 DEF Way, Told
    <3> QED  BY <3>1, <2>1, <1>1, <1>2 DEF Way, Told
  <2>2. CASE f = p  BY <2>2, <1>1, <1>2 DEF Way, Told
  <2> QED  BY <2>1, <2>2, PeerOf
<1> QED  BY <1>9, <1>10, <1>11, <1>12, <1>13 DEF Way

LEMMA ArriveEndWay ==
  ASSUME Inv, NEW e \in Ends, ArriveEnd(e), NEW f \in Ends
  PROVE  Way(f)'
<1>1. /\ \A x \in Ends : ended'[x] = IF x = e /\ ended[x] = "open" THEN Meaning(x)
                                                                  ELSE ended[x]
      /\ wire[Peer(e)] = <<>> /\ tail[Peer(e)] \notin {"open", "mute"}
      /\ UNCHANGED <<secure, dirty, link, output, wire, tail, input, sent, got, hasty>>
  BY DEF ArriveEnd, Inv, TypeOK, status, data, history
<1>2. Way(f) /\ Peer(f) \in Ends  BY PeerOf DEF Inv
<1>3. UNCHANGED <<Arrived(Peer(f)), Sent(f)>>  BY <1>1 DEF Arrived, Sent
<1>4. Taken(f)'  BY <1>1, <1>2 DEF Way, Taken
<1>5. Arriving(f)'  BY <1>1, <1>2, <1>3 DEF Way, Arriving
<1>6. Leaving(f)'  BY <1>1, <1>2, <1>3 DEF Way, Leaving
<1>7. Closing(f)'  BY <1>1, <1>2 DEF Way, Closing
<1>8. Told(f)'
  <2>1. CASE f = e /\ ended[e] = "open"
    <3>1. tail[Peer(e)] = "fin" /\ Meaning(e) = "eof" => ~(secure /\ e \notin dirty)
      BY DEF Meaning
    <3> QED  BY <3>1, <2>1, <1>1 DEF Told
  <2>2. CASE ~(f = e /\ ended[e] = "open")
    BY <2>2, <1>1, <1>2 DEF Way, Told
  <2> QED  BY <2>1, <2>2
<1> QED  BY <1>4, <1>5, <1>6, <1>7, <1>8 DEF Way

LEMMA ResetWay ==
  ASSUME Inv, NEW e \in Ends, Reset(e), NEW f \in Ends
  PROVE  Way(f)'
<1> DEFINE p == Peer(e)
<1>1. PICK n \in 0..Len(wire[p]) :
        wire' = [wire EXCEPT ![e] = <<>>, ![p] = SubSeq(wire[p], 1, n)]
  BY PeerOf DEF Reset
<1>2. /\ Way(f) /\ Way(p) /\ p \in Ends /\ Peer(p) = e /\ p # e
      /\ Peer(f) \in Ends /\ Peer(f) # f
  BY PeerOf DEF Inv
<1>3. /\ \A x \in Ends : tail'[x] = IF x = p THEN "reset" ELSE tail[x]
      /\ wire'[e] = <<>> /\ wire'[p] = SubSeq(wire[p], 1, n)
      /\ link[e] # "freed" /\ link[p] = "freed" /\ hasty' = hasty \cup {p}
      /\ UNCHANGED <<secure, dirty, link, output, input, ended, sent, got>>
  BY <1>1, <1>2 DEF Reset, Inv, TypeOK, status
<1>4. UNCHANGED Arrived(e)  BY <1>3 DEF Arrived
<1>5. Taken(f)'  BY <1>2, <1>3 DEF Way, Taken
<1>6. Arriving(f)'
  <2>1. CASE f = e  BY <2>1, <1>3 DEF Arriving
  <2>2. CASE f = p
    <3>1. /\ Run(input[e], Size(got[e])) /\ Run(wire[p], Arrived(e))
          /\ Sent(p) <= sent[p] /\ Sent(p) = Arrived(e) + Size(wire[p])
          /\ Arrived(e) \in Nat /\ Size(wire[p]) \in Nat /\ sent[p] \in Nat
      BY <1>2, <1>3, Sizes DEF Inv, Way, Arriving, Sent
    <3>2. n \in 0..Size(wire[p])  BY DEF Size
    <3>3. Run(wire'[p], Arrived(e)) /\ Size(wire'[p]) = n
      BY <3>1, <3>2, <1>3, CutRun
    <3>4. Sent(p)' = Arrived(e) + n  BY <3>3, <1>2, <1>4 DEF Sent
    <3>5. Sent(p)' <= sent[p]  BY <3>1, <3>2, <3>4
    <3> QED  BY <3>1, <3>3, <3>5, <2>2, <1>2, <1>3, <1>4 DEF Arriving
  <2> QED  BY <2>1, <2>2, PeerOf
<1>7. Leaving(f)'
  <2>1. CASE f = e  BY <2>1, <1>3 DEF Leaving
  <2>2. CASE f = p  BY <2>2, <1>3 DEF Leaving
  <2> QED  BY <2>1, <2>2, PeerOf
<1>8. Closing(f)'  BY <1>2, <1>3 DEF Way, Closing
<1>9. Told(f)'
  <2>1. CASE f = e  BY <2>1, <1>2, <1>3 DEF Way, Told
  <2>2. CASE f = p  BY <2>2, <1>3 DEF Told
  <2> QED  BY <2>1, <2>2, PeerOf
<1> QED  BY <1>5, <1>6, <1>7, <1>8, <1>9 DEF Way

-----------------------------------------------------------------------------
(* The steps keep the invariant.                                            *)

LEMMA LinkedStep == Inv /\ Next => Linked'
<1> SUFFICES ASSUME Inv, Next PROVE Linked'  OBVIOUS
<1> USE DEF Linked, status, data, history
<1>1. /\ Linked /\ Client \in Ends /\ Server \in Ends /\ Client # Server
      /\ \A e, f \in Ends : f = e \/ f = Peer(e)
      /\ Ends = {Client, Server}
      /\ link \in [Ends -> {"idle", "connecting", "up", "failed", "freed"}]
      /\ ended \in [Ends -> {"open", "eof", "error"}]
  BY PeerOf, EndsAssumption DEF Inv, TypeOK, Ends
<1>2. CASE UNCHANGED <<link, ended>>  BY <1>1, <1>2
<1>3. CASE Connect  BY <1>1, <1>3 DEF Connect
<1>4. CASE Connected  BY <1>1, <1>4 DEF Connected
<1>5. CASE ConnectFails  BY <1>1, <1>5 DEF ConnectFails
<1>6. ASSUME NEW e \in Ends, Destroy(e) PROVE Linked'
  BY <1>1, <1>6 DEF Destroy, Exists
<1>7. ASSUME NEW e \in Ends, ArriveEnd(e) PROVE Linked'
  BY <1>1, <1>7 DEF ArriveEnd, Reading, Runs
<1>8. ASSUME NEW e \in Ends, WriteError(e) PROVE Linked'
  BY <1>1, <1>8 DEF WriteError, Runs
<1>9. \/ UNCHANGED <<link, ended>> \/ Connect \/ Connected \/ ConnectFails
      \/ \E e \in Ends : Destroy(e) \/ ArriveEnd(e) \/ WriteError(e)
  BY DEF Next, ProgramNext, LoopNext, Write, Read, TakeOne, Enable, Disable,
         SetWatermark, AllowDirtyShutdown, Shutdown, Send, Arrive, Reset, Timeout
<1> QED  BY <1>2, <1>3, <1>4, <1>5, <1>6, <1>7, <1>8, <1>9

LEMMA WayStep ==
  ASSUME Inv, Next, NEW f \in Ends
  PROVE  Way(f)'
<1>1. CASE Connect
  <2>1. /\ UNCHANGED <<secure, dirty, output, wire, tail, input, sent, got, hasty, ended>>
        /\ \A x \in Ends : link[x] = "freed" => link'[x] = "freed"
    BY <1>1, PeerOf DEF Connect, Inv, TypeOK, status, data, history
  <2> QED  BY <2>1, StillWay
<1>2. CASE Connected
  <2>1. /\ UNCHANGED <<secure, dirty, output, wire, tail, input, sent, got, hasty, ended>>
        /\ \A x \in Ends : link[x] # "freed"
    BY <1>2, PeerOf DEF Connected, Inv, TypeOK, Linked, Ends, status, data, history
  <2> QED  BY <2>1, StillWay
<1>3. CASE ConnectFails
  <2>1. /\ UNCHANGED <<secure, dirty, output, wire, tail, input, sent, got, hasty>>
        /\ \A x \in Ends : link[x] = "freed" => link'[x] = "freed"
        /\ \A x \in Ends : ended'[x] = "eof" => ended[x] = "eof"
    BY <1>3, PeerOf DEF ConnectFails, Inv, TypeOK, status, data, history
  <2> QED  BY <2>1, StillWay
<1>4. ASSUME NEW e \in Ends, NEW d \in {"read", "write"},
             Enable(e, d) \/ Disable(e, d) \/ Timeout(e, d)
      PROVE  Way(f)'
  <2>1. UNCHANGED <<secure, dirty, output, wire, tail, input, sent, got, hasty, ended, link>>
    BY <1>4 DEF Enable, Disable, Timeout, status, data, history
  <2> QED  BY <2>1, StillWay
<1>5. ASSUME NEW e \in Ends, NEW m \in Marks[e], SetWatermark(e, m) PROVE Way(f)'
  <2>1. UNCHANGED <<secure, dirty, output, wire, tail, input, sent, got, hasty, ended, link>>
    BY <1>5 DEF SetWatermark, status, data
  <2> QED  BY <2>1, StillWay
<1>6. ASSUME NEW e \in Ends, AllowDirtyShutdown(e) PROVE Way(f)'
  <2>1. /\ UNCHANGED <<secure, output, wire, tail, input, sent, got, hasty, ended, link>>
        /\ dirty \subseteq dirty'
    BY <1>6 DEF AllowDirtyShutdown, data, history
  <2> QED  BY <2>1, StillWay
<1>7. ASSUME NEW e \in Ends, WriteError(e) PROVE Way(f)'
  <2>1. /\ UNCHANGED <<secure, dirty, output, wire, tail, input, sent, got, hasty, link>>
        /\ \A x \in Ends : ended'[x] = "eof" => ended[x] = "eof"
    BY <1>7 DEF WriteError, Inv, TypeOK, status, data, history
  <2> QED  BY <2>1, StillWay
<1>8. ASSUME NEW e \in Ends,
             \/ Write(e) \/ Read(e) \/ TakeOne(e) \/ Shutdown(e) \/ Destroy(e)
             \/ Send(e) \/ Arrive(e) \/ ArriveEnd(e) \/ Reset(e)
      PROVE  Way(f)'
  BY <1>8, WriteWay, ReadWay, TakeOneWay, ShutdownWay, DestroyWay, SendWay,
     ArriveWay, ArriveEndWay, ResetWay
<1> QED
  BY <1>1, <1>2, <1>3, <1>4, <1>5, <1>6, <1>7, <1>8 DEF Next, ProgramNext, LoopNext

LEMMA NextInv == Inv /\ [Next]_vars => Inv'
<1> SUFFICES ASSUME Inv, [Next]_vars PROVE Inv'  OBVIOUS
<1>1. CASE Next
  BY <1>1, ProgramType, LoopType, LinkedStep, WayStep DEF Inv, Next
<1>2. CASE UNCHANGED vars
  <2>1. TypeOK'  BY <1>2 DEF Inv, TypeOK, vars
  <2>2. Linked'  BY <1>2 DEF Inv, Linked, vars
  <2>3. \A e \in Ends : Way(e)'
    BY <1>2, StillWay DEF vars
  <2> QED  BY <2>1, <2>2, <2>3 DEF Inv
<1> QED  BY <1>1, <1>2

THEOREM Invariant == Spec => []Inv
<1>1. Init => Inv  BY InitInv
<1>2. Inv /\ [Next]_vars => Inv'  BY NextInv
<1> QED  BY <1>1, <1>2, PTL DEF Spec

\* Through writes, reads, watermarks, timeouts, resets and the end of either end,
\* what an end wrote arrives in order, without a gap and once, or was left behind.
THEOREM ArrivesInOrder == Spec => []InTransit
<1>1. Inv => InTransit  BY InvInTransit
<1> QED  BY <1>1, Invariant, PTL

\* An end of file is told only when all that the peer did not leave behind has
\* arrived; over TLS only after close_notify, if no dirty shutdown is allowed.
THEOREM EofTold == Spec => []EofIsTrue
<1>1. Inv => EofIsTrue  BY InvEofIsTrue
<1> QED  BY <1>1, Invariant, PTL

-----------------------------------------------------------------------------
(* Each direction is a channel.                                             *)

\* The items of a run, the way Channel has them.
LEMMA RunItems ==
  ASSUME NEW s, NEW k \in Nat, Run(s, k)
  PROVE  s = [i \in 1..Size(s) |-> k + i]
<1>1. s \in Seq(Nat) /\ Size(s) \in Nat  BY RunSize
<1> DEFINE t == [i \in 1..Size(s) |-> k + i]
<1>2. t \in Seq(Nat) /\ Len(t) = Size(s)  BY <1>1
<1>3. Run(t, k) /\ Size(t) = Size(s)  BY <1>2 DEF Run, Size
<1> QED  BY <1>3, SameRun

\* What the direction from e shows of a step: nothing, or a step of Channel.
SameItems(e) == sent'[e] = sent[e] /\ got'[Peer(e)] = got[Peer(e)]
SameKept(e) == e \in hasty' <=> e \in hasty
SameClosed(e) == Closed(e)' <=> Closed(e)
SameEnded(e) == ended'[Peer(e)] = ended[Peer(e)]

Puts(e) ==
  /\ ~Closed(e) /\ sent'[e] = sent[e] + 1 /\ got'[Peer(e)] = got[Peer(e)]
  /\ SameKept(e) /\ SameClosed(e) /\ SameEnded(e)
Gets(e) ==
  LET p == Peer(e) IN
  /\ \E n \in 1..sent[e] : got'[p] = got[p] \o [i \in 1..n |-> Len(got[p]) + i]
  /\ Len(got'[p]) <= sent[e] /\ sent'[e] = sent[e]
  /\ SameKept(e) /\ SameClosed(e) /\ SameEnded(e)
Spoils(e) ==
  /\ e \in hasty' /\ Closed(e)' /\ sent'[e] \in {sent[e], sent[e] + 1}
  /\ got'[Peer(e)] = got[Peer(e)] /\ SameEnded(e)
Closes(e) == Closed(e)' /\ SameItems(e) /\ SameKept(e) /\ SameEnded(e)
EndTold(e) ==
  /\ ended[Peer(e)] = "open" /\ ended'[Peer(e)] \in {"eof", "error"}
  /\ ended'[Peer(e)] = "eof" => Closed(e)
  /\ SameItems(e) /\ SameKept(e) /\ SameClosed(e)
Shows(e) ==
  \/ SameItems(e) /\ SameKept(e) /\ SameClosed(e) /\ SameEnded(e)
  \/ Puts(e) \/ Gets(e) \/ Spoils(e) \/ Closes(e) \/ EndTold(e)

LEMMA ReadShows ==
  ASSUME Inv, NEW e \in Ends, Read(e) \/ TakeOne(e), NEW f \in Ends
  PROVE  Shows(f)
<1>1. /\ \A x \in Ends : x # e => got'[x] = got[x]
      /\ UNCHANGED <<link, tail, ended, sent, hasty>>
      /\ link[e] # "freed" /\ e \in Ends /\ Peer(e) \in Ends /\ Peer(Peer(e)) = e
      /\ f = e \/ f = Peer(e)
  <2>1. UNCHANGED <<link, tail, ended, sent, hasty>> /\ Exists(e)
    BY DEF Read, TakeOne
  <2>2. got \in [Ends -> Seq(Nat)]  BY DEF Inv, TypeOK
  <2>3. \A x \in Ends : x # e => got'[x] = got[x]
    <3>1. CASE Read(e)  BY <3>1, <2>2 DEF Read
    <3>2. CASE TakeOne(e)  BY <3>2, <2>2 DEF TakeOne
    <3> QED  BY <3>1, <3>2
  <2>4. link[e] # "freed"  BY <2>1 DEF Exists
  <2> QED  BY <2>1, <2>3, <2>4, PeerOf
<1>2. SameKept(f) /\ SameClosed(f) /\ SameEnded(f) /\ sent'[f] = sent[f]
  BY <1>1 DEF SameKept, SameClosed, SameEnded, Closed
<1>3. CASE f = e
  BY <1>1, <1>2, <1>3, PeerOf DEF Shows, SameItems
<1>4. CASE f = Peer(e)
  <2> DEFINE k == Size(got[e])
  <2>1. /\ Run(got[e], 0) /\ Run(input[e], k) /\ k \in Nat
        /\ Size(input[e]) \in Nat /\ Size(wire[f]) \in Nat /\ sent[f] \in Nat
        /\ k + Size(input[e]) + Size(wire[f]) <= sent[f]
    BY <1>1, <1>4, Sizes DEF Inv, Way, Taken, Arriving, Sent, Arrived
  <2>2. \E n \in 1..Size(input[e]) : got'[e] = got[e] \o [i \in 1..n |-> k + i]
    <3>1. CASE Read(e)
      <4>1. got'[e] = got[e] \o input[e] /\ input[e] # <<>>
        BY <3>1 DEF Read, Inv, TypeOK
      <4>2. Size(input[e]) # 0  BY <4>1, <2>1, TailRun
      <4>3. input[e] = [i \in 1..Size(input[e]) |-> k + i]
        BY <2>1, RunItems
      <4>4. Size(input[e]) \in 1..Size(input[e])  BY <4>2, <2>1
      <4> QED  BY <4>1, <4>3, <4>4
    <3>2. CASE TakeOne(e)
      <4>1. got'[e] = Append(got[e], Head(input[e])) /\ Size(input[e]) > 1
        BY <3>2 DEF TakeOne, Inv, TypeOK, Size
      <4>2. input[e] # <<>>  BY <4>1, EmptyRun
      <4>3. Head(input[e]) = k + 1  BY <2>1, <4>2, TailRun
      <4>4. got'[e] = got[e] \o <<k + 1>>
        <5>1. got[e] \in Seq(Nat) /\ k + 1 \in Nat  BY <2>1, RunSize
        <5>2. Append(got[e], k + 1) = got[e] \o <<k + 1>>
          BY <5>1, AppendIsConcat
        <5> QED  BY <5>2, <4>1, <4>3
      <4>5. <<k + 1>> = [i \in 1..1 |-> k + i]
        <5>1. Run(<<k + 1>>, k) /\ Size(<<k + 1>>) = 1
          BY <2>1 DEF Run, Size
        <5> QED  BY <5>1, <2>1, RunItems
      <4>6. 1 \in 1..Size(input[e])  BY <4>1, <2>1
      <4> QED  BY <4>4, <4>5, <4>6
    <3> QED  BY <3>1, <3>2
  <2>3. PICK n \in 1..Size(input[e]) : got'[e] = got[e] \o [i \in 1..n |-> k + i]
    BY <2>2
  <2>4. n \in 1..sent[f] /\ k + n <= sent[f]  BY <2>1
  <2>5. Size(got'[e]) = k + n
    <3> DEFINE t == [i \in 1..n |-> k + i]
    <3>1. n \in Nat  BY <2>1
    <3>2. t \in Seq(Nat) /\ Len(t) = n  BY <3>1, <2>1
    <3>3. Run(t, k) /\ Size(t) = n  BY <3>2 DEF Run, Size
    <3> HIDE DEF t
    <3>4. Size(got[e] \o t) = k + Size(t)  BY <2>1, <3>3, ConcatRun
    <3> QED  BY <3>3, <3>4, <2>3 DEF t
  <2>6. Gets(f)
    BY <1>1, <1>2, <1>4, <2>3, <2>4, <2>5 DEF Gets, Size
  <2> QED  BY <2>6 DEF Shows
<1> QED  BY <1>1, <1>3, <1>4

LEMMA StepShows ==
  ASSUME Inv, Next, NEW f \in Ends
  PROVE  Shows(f)
<1> USE DEF status, data, history
<1>1. /\ Peer(f) \in Ends /\ Peer(f) # f /\ TypeOK /\ Linked
      /\ \A e \in Ends : (e = f \/ e = Peer(f)) /\ Closing(e)
  BY PeerOf DEF Inv, Way
<1>2. CASE UNCHANGED <<sent, got, hasty, link, tail, ended>>
  BY <1>2 DEF Shows, SameItems, SameKept, SameClosed, SameEnded, Closed
<1>3. CASE Connect \/ Connected
  <2>1. /\ UNCHANGED <<sent, got, hasty, tail, ended>>
        /\ link[f] # "freed" <=> link'[f] # "freed"
    BY <1>1, <1>3, PeerOf DEF Connect, Connected, TypeOK, Linked, Ends
  <2> QED
    BY <2>1 DEF Shows, SameItems, SameKept, SameClosed, SameEnded, Closed
<1>4. CASE ConnectFails
  <2>1. /\ UNCHANGED <<sent, got, hasty, tail>>
        /\ link[f] # "freed" <=> link'[f] # "freed"
        /\ \/ ended'[Peer(f)] = ended[Peer(f)]
           \/ ended[Peer(f)] = "open" /\ ended'[Peer(f)] = "error"
    BY <1>1, <1>4, PeerOf DEF ConnectFails, TypeOK, Linked
  <2> QED
    BY <2>1 DEF Shows, SameItems, SameKept, SameClosed, SameEnded, Closed, EndTold
<1>5. ASSUME NEW e \in Ends, Write(e) PROVE Shows(f)
  <2>1. /\ UNCHANGED <<got, tail, ended, link>> /\ link[e] # "freed"
        /\ \A x \in Ends : sent'[x] = IF x = e THEN sent[x] + 1 ELSE sent[x]
        /\ hasty' = IF tail[e] = "open" THEN hasty ELSE hasty \cup {e}
    BY <1>5, <1>1 DEF Write, Exists, TypeOK
  <2>2. CASE e = f
    BY <2>1, <2>2
    DEF Shows, Puts, Spoils, SameKept, SameClosed, SameEnded, Closed
  <2>3. CASE e # f
    BY <2>1, <2>3 DEF Shows, SameItems, SameKept, SameClosed, SameEnded, Closed
  <2> QED  BY <2>2, <2>3
<1>6. ASSUME NEW e \in Ends, Shutdown(e) \/ Destroy(e) PROVE Shows(f)
  <2>1. /\ UNCHANGED <<sent, got, ended>> /\ Closed(e)'
        /\ \A x \in Ends : x # e => (Closed(x)' <=> Closed(x))
        /\ hasty' = hasty \/ hasty' = hasty \cup {e}
    BY <1>6, <1>1 DEF Shutdown, Destroy, TypeOK, Closed
  <2>2. CASE e = f
    BY <2>1, <2>2 DEF Shows, Spoils, Closes, SameItems, SameKept, SameEnded
  <2>3. CASE e # f
    BY <2>1, <2>3 DEF Shows, SameItems, SameKept, SameClosed, SameEnded
  <2> QED  BY <2>2, <2>3
<1>7. ASSUME NEW e \in Ends, ArriveEnd(e) \/ WriteError(e) PROVE Shows(f)
  <2>1. /\ UNCHANGED <<sent, got, hasty, link, tail>>
        /\ \A x \in Ends : x # e => ended'[x] = ended[x]
        /\ ended[e] # "open" => ended'[e] = ended[e]
        /\ ended'[e] \in {"open", "eof", "error"}
        /\ ended[e] # "eof" /\ ended'[e] = "eof" => tail[Peer(e)] # "open"
    <3>1. ended \in [Ends -> {"open", "eof", "error"}]  BY <1>1 DEF TypeOK
    <3>2. CASE ArriveEnd(e)
      <4>1. tail[Peer(e)] \in {"notify", "fin", "reset"}
        BY <3>2, <1>1, PeerOf DEF ArriveEnd, TypeOK
      <4>2. Meaning(e) \in {"eof", "error"}  BY <4>1 DEF Meaning
      <4> QED  BY <3>1, <3>2, <4>1, <4>2 DEF ArriveEnd
    <3>3. CASE WriteError(e)  BY <3>1, <3>3 DEF WriteError
    <3> QED  BY <1>7, <3>2, <3>3
  <2>2. CASE e = Peer(f)
    <3>1. Peer(e) = f  BY <2>2, PeerOf
    <3> QED
      BY <2>1, <2>2, <3>1, <1>1
      DEF Shows, SameItems, SameKept, SameClosed, SameEnded, Closed, EndTold, TypeOK
  <2>3. CASE e # Peer(f)
    BY <2>1, <2>3, <1>1
    DEF Shows, SameItems, SameKept, SameClosed, SameEnded, Closed
  <2> QED  BY <2>2, <2>3
<1>8. ASSUME NEW e \in Ends, Reset(e) PROVE Shows(f)
  <2>1. /\ UNCHANGED <<sent, got, ended, link>>
        /\ \A x \in Ends : tail'[x] = IF x = Peer(e) THEN "reset" ELSE tail[x]
        /\ hasty' = hasty \cup {Peer(e)}
    BY <1>8, <1>1, PeerOf DEF Reset, TypeOK
  <2>2. CASE f = Peer(e)
    BY <2>1, <2>2 DEF Shows, Spoils, SameEnded, Closed
  <2>3. CASE f # Peer(e)
    BY <2>1, <2>3 DEF Shows, SameItems, SameKept, SameClosed, SameEnded, Closed
  <2> QED  BY <2>2, <2>3
<1>9. ASSUME NEW e \in Ends, Read(e) \/ TakeOne(e) PROVE Shows(f)
  BY <1>9, ReadShows
<1>10. \/ UNCHANGED <<sent, got, hasty, link, tail, ended>>
       \/ Connect \/ Connected \/ ConnectFails
       \/ \E e \in Ends :
            \/ Write(e) \/ Read(e) \/ TakeOne(e) \/ Shutdown(e) \/ Destroy(e)
            \/ ArriveEnd(e) \/ WriteError(e) \/ Reset(e)
  BY DEF Next, ProgramNext, LoopNext, Enable, Disable, Timeout, SetWatermark,
         AllowDirtyShutdown, Send, Arrive
<1> QED
  BY <1>2, <1>3, <1>4, <1>5, <1>6, <1>7, <1>8, <1>9, <1>10

\* The channel has them as values.
LEMMA SameValues ==
  ASSUME NEW e \in Ends
  PROVE  /\ SameKept(e) => (e \notin hasty)' = (e \notin hasty)
         /\ SameClosed(e) => Closed(e)' = Closed(e)
         /\ e \in hasty' => (e \notin hasty)' = FALSE
         /\ e \notin hasty => (e \notin hasty) = TRUE
         /\ Closed(e)' => Closed(e)' = TRUE
         /\ ~Closed(e) => Closed(e) = FALSE
BY DEF SameKept, SameClosed, Closed

LEMMA ShowsToServer ==
  ASSUME Shows(Client)
  PROVE  [ToServer!Next]_(ToServer!vars)
<1>1. Peer(Client) = Server /\ Client \in Ends  BY DEF Peer, Ends
<1> USE <1>1, SameValues DEF ToServer!Next, ToServer!vars, SameItems, SameKept, SameClosed, SameEnded
<1>2. CASE SameItems(Client) /\ SameKept(Client) /\ SameClosed(Client) /\ SameEnded(Client)
  BY <1>2
<1>3. CASE Puts(Client)
  <2>1. ToServer!Put  BY <1>3 DEF Puts, ToServer!Put
  <2> QED  BY <2>1
<1>4. CASE Gets(Client)
  <2>1. PICK n \in 1..sent[Client] :
          got'[Server] = got[Server] \o [i \in 1..n |-> Len(got[Server]) + i]
    BY <1>4 DEF Gets
  <2>2. ToServer!Get(n)  BY <1>4, <2>1 DEF Gets, ToServer!Get
  <2> QED  BY <2>2
<1>5. CASE Spoils(Client)
  <2>1. ToServer!Spoil  BY <1>5 DEF Spoils, ToServer!Spoil
  <2> QED  BY <2>1
<1>6. CASE Closes(Client)
  <2>1. ToServer!Close  BY <1>6 DEF Closes, ToServer!Close
  <2> QED  BY <2>1
<1>7. CASE EndTold(Client)
  <2>1. ToServer!End(ended'[Server])
    BY <1>7 DEF EndTold, ToServer!End
  <2>2. ended'[Server] \in {"eof", "error"}  BY <1>7 DEF EndTold
  <2> QED  BY <2>1, <2>2
<1> QED  BY <1>2, <1>3, <1>4, <1>5, <1>6, <1>7 DEF Shows

LEMMA ShowsToClient ==
  ASSUME Shows(Server)
  PROVE  [ToClient!Next]_(ToClient!vars)
<1>1. Peer(Server) = Client /\ Server \in Ends  BY EndsAssumption DEF Peer, Ends
<1> USE <1>1, SameValues DEF ToClient!Next, ToClient!vars, SameItems, SameKept, SameClosed, SameEnded
<1>2. CASE SameItems(Server) /\ SameKept(Server) /\ SameClosed(Server) /\ SameEnded(Server)
  BY <1>2
<1>3. CASE Puts(Server)
  <2>1. ToClient!Put  BY <1>3 DEF Puts, ToClient!Put
  <2> QED  BY <2>1
<1>4. CASE Gets(Server)
  <2>1. PICK n \in 1..sent[Server] :
          got'[Client] = got[Client] \o [i \in 1..n |-> Len(got[Client]) + i]
    BY <1>4 DEF Gets
  <2>2. ToClient!Get(n)  BY <1>4, <2>1 DEF Gets, ToClient!Get
  <2> QED  BY <2>2
<1>5. CASE Spoils(Server)
  <2>1. ToClient!Spoil  BY <1>5 DEF Spoils, ToClient!Spoil
  <2> QED  BY <2>1
<1>6. CASE Closes(Server)
  <2>1. ToClient!Close  BY <1>6 DEF Closes, ToClient!Close
  <2> QED  BY <2>1
<1>7. CASE EndTold(Server)
  <2>1. ToClient!End(ended'[Client])
    BY <1>7 DEF EndTold, ToClient!End
  <2>2. ended'[Client] \in {"eof", "error"}  BY <1>7 DEF EndTold
  <2> QED  BY <2>1, <2>2
<1> QED  BY <1>2, <1>3, <1>4, <1>5, <1>6, <1>7 DEF Shows

LEMMA InitShows == Init => ToServer!Init /\ ToClient!Init
<1> SUFFICES ASSUME Init PROVE ToServer!Init /\ ToClient!Init  OBVIOUS
<1>1. \A e \in Ends : /\ sent[e] = 0 /\ got[e] = <<>> /\ ended[e] = "open"
                      /\ e \notin hasty /\ ~Closed(e)
  BY DEF Init, Closed
<1>2. Client \in Ends /\ Server \in Ends  BY DEF Ends
<1>3. ToServer!Init  BY <1>1, <1>2, SameValues DEF ToServer!Init
<1>4. ToClient!Init  BY <1>1, <1>2, SameValues DEF ToClient!Init
<1> QED  BY <1>3, <1>4

LEMMA NextShows ==
  Inv /\ [Next]_vars => [ToServer!Next]_(ToServer!vars) /\ [ToClient!Next]_(ToClient!vars)
<1> SUFFICES ASSUME Inv, [Next]_vars
             PROVE  [ToServer!Next]_(ToServer!vars) /\ [ToClient!Next]_(ToClient!vars)
  OBVIOUS
<1>1. CASE Next
  <2>1. Shows(Client) /\ Shows(Server)  BY <1>1, StepShows DEF Ends
  <2> QED  BY <2>1, ShowsToServer, ShowsToClient
<1>2. CASE UNCHANGED vars
  <2>1. UNCHANGED <<sent, got, hasty, ended, link, tail>>  BY <1>2 DEF vars
  <2>2. UNCHANGED ToServer!vars  BY <2>1 DEF ToServer!vars, Closed
  <2>3. UNCHANGED ToClient!vars  BY <2>1 DEF ToClient!vars, Closed
  <2> QED  BY <2>2, <2>3
<1> QED  BY <1>1, <1>2

\* bev and buffer_event promise of a connection what Channel says, in each direction:
\* whatever the buffers, watermarks, timeouts, resets and TLS do, the reader takes the
\* next items and is told the end once, and an end of file only of a writer that closed.
THEOREM ActsAsChannels == Spec => ImplementsChannel
<1>1. Init => ToServer!Init /\ ToClient!Init  BY InitShows
<1>2. Inv /\ [Next]_vars => [ToServer!Next]_(ToServer!vars) /\ [ToClient!Next]_(ToClient!vars)
  BY NextShows
<1> QED  BY <1>1, <1>2, Invariant, PTL DEF Spec, ImplementsChannel, ToServer!Spec, ToClient!Spec
=============================================================================
