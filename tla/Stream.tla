------------------------------- MODULE Stream -------------------------------
(***************************************************************************)
(* The data path of bev and buffer_event, over TCP or, for the bev of       *)
(* ssl/bev.hpp, over TLS: what a program writes on one end of a connection, *)
(* how it gets to what read() returns on the other, and how either end      *)
(* learns that the other is gone.                                           *)
(*                                                                          *)
(* An item goes from the output of a bufferevent over the wire, which is    *)
(* all that the kernel and TLS hold, to the input of the other end and from *)
(* there to the program.  The objects are those of Conn; here an end has    *)
(* one bufferevent, created with bev_close_on_free.                         *)
(*                                                                          *)
(* Bounds: end e writes at most Total[e] items, and Room of them fit the    *)
(* wire in each direction.  An end connects once, and sets no more marks    *)
(* after one it should not have set.                                        *)
(***************************************************************************)
EXTENDS Naturals, Sequences, SequencesExt

CONSTANTS
  Client, Server,
  Total,          \* Total[e]: how many items end e writes
  Marks,          \* Marks[e]: the watermarks end e sets, <<low, high>>
  Room

Ends == {Client, Server}
Peer(e) == IF e = Client THEN Server ELSE Client

ASSUME EndsAssumption == Client # Server
ASSUME TotalAssumption == Total \in [Ends -> Nat]
ASSUME MarksAssumption == Marks \in [Ends -> SUBSET (Nat \X Nat)]
ASSUME RoomAssumption == Room \in Nat \ {0}

VARIABLES
  secure,   \* the ends are openssl::bev and talk TLS
  link,     \* link[e]: "idle", "connecting", "up", "failed" or "freed"
  enabled,  \* enabled[e]: what end e has enabled, of "read" and "write"
  stopped,  \* stopped[e]: what of it conn_closed() of TLS has stopped
  mark,     \* mark[e]: the watermarks for reading, <<low, high>>; 0 is none
  dirty,    \* the ends that allow a dirty shutdown
  output,   \* output[e]: the output of end e
  wire,     \* wire[e]: what end e has sent and the other has not read
  tail,     \* tail[e]: what follows it: nothing ("open"), the close_notify of
            \* TLS ("notify"; "mute" while it is not sent), the end of the
            \* socket ("fin"), or a "reset"
  input,    \* input[e]: the input of end e
  asked,    \* asked[e]: e was called back, and has not emptied its input since
  ended,    \* ended[e]: what the event callback of e said first, or "open"
  sent,     \* sent[e]: history: how many items e wrote, 1..sent[e]
  got,      \* got[e]: history: the items that e took
  hasty,    \* history: the ends that left what they wrote behind
  misuse    \* history: watermarks that the program should not have set

flow == <<enabled, stopped>>
data == <<output, wire, input>>
status == <<secure, dirty>>
history == <<sent, got, hasty, misuse>>
vars == <<secure, link, enabled, stopped, mark, dirty, output, wire, tail, input, asked,
          ended, sent, got, hasty, misuse>>

\* A new bufferevent writes, but does not read until told to.
Init ==
  /\ secure \in BOOLEAN /\ dirty = {}
  /\ link = [e \in Ends |-> "idle"]
  /\ enabled = [e \in Ends |-> {"write"}] /\ stopped = [e \in Ends |-> {}]
  /\ mark = [e \in Ends |-> <<0, 0>>]
  /\ output = [e \in Ends |-> <<>>] /\ wire = output /\ input = output /\ got = output
  /\ tail = [e \in Ends |-> "open"]
  /\ ended = [e \in Ends |-> "open"]
  /\ asked = [e \in Ends |-> FALSE]
  /\ sent = [e \in Ends |-> 0]
  /\ hasty = {} /\ misuse = {}

\* The server has a bufferevent once it has accepted the connection.
Exists(e) == IF e = Client THEN link[e] # "freed" ELSE link[e] \in {"up", "failed"}

-----------------------------------------------------------------------------
(* What the program calls.                                                  *)

\* Direction d of end e is not stopped any more.
Started(e, d) == [stopped EXCEPT ![e] = @ \ {d}]

\* connect(); output may be waiting for the connection.
Connect ==
  /\ link[Client] = "idle"
  /\ link' = [link EXCEPT ![Client] = "connecting"]
  /\ UNCHANGED <<status, flow, mark, data, tail, asked, ended, history>>

\* Mutant: evbuffer_prepend().
WriteFirst(e) ==
  /\ Exists(e) /\ sent[e] < Total[e]
  /\ sent' = [sent EXCEPT ![e] = @ + 1]
  /\ output' = [output EXCEPT ![e] = <<sent[e] + 1>> \o @]
  /\ hasty' = IF tail[e] = "open" THEN hasty ELSE hasty \cup {e}
  /\ UNCHANGED <<status, link, flow, mark, wire, tail, input, asked, ended, got,
                 misuse>>

\* write(data, size), and write(buffer), which moves what the buffer holds.
Write(e) ==
  /\ Exists(e) /\ sent[e] < Total[e]
  /\ sent' = [sent EXCEPT ![e] = @ + 1]
  /\ output' = [output EXCEPT ![e] = Append(@, sent[e] + 1)]
  /\ hasty' = IF tail[e] = "open" THEN hasty ELSE hasty \cup {e}
  /\ UNCHANGED <<status, link, flow, mark, wire, tail, input, asked, ended, got,
                 misuse>>

\* The input shrinks, and the callback of a high mark finds it below: reading starts.
Drained(e) ==
  stopped' = IF Len(input'[e]) < mark[e][2] THEN Started(e, "read") ELSE stopped

\* Mutant: evbuffer_copyout() for bufferevent_read_buffer().
ReadCopies(e) ==
  /\ Exists(e) /\ input[e] # <<>>
  /\ got' = [got EXCEPT ![e] = @ \o input[e]]
  /\ asked' = [asked EXCEPT ![e] = FALSE]
  /\ UNCHANGED <<status, link, flow, mark, data, tail, ended, sent, hasty, misuse>>

\* read(): everything in the input, which is empty afterwards.
Read(e) ==
  /\ Exists(e) /\ input[e] # <<>>
  /\ got' = [got EXCEPT ![e] = @ \o input[e]]
  /\ input' = [input EXCEPT ![e] = <<>>] /\ Drained(e)
  /\ asked' = [asked EXCEPT ![e] = FALSE]
  /\ UNCHANGED <<status, link, enabled, mark, output, wire, tail, ended, sent, hasty,
                 misuse>>

\* input(), of which the program takes only the first item.
TakeOne(e) ==
  /\ Exists(e) /\ Len(input[e]) > 1
  /\ got' = [got EXCEPT ![e] = Append(@, Head(input[e]))]
  /\ input' = [input EXCEPT ![e] = Tail(@)] /\ Drained(e)
  /\ UNCHANGED <<status, link, enabled, mark, output, wire, tail, asked, ended, sent,
                 hasty, misuse>>

\* enable() also starts again what TLS has stopped.
Enable(e, d) ==
  /\ Exists(e) /\ d \notin enabled[e] \ stopped[e]
  /\ enabled' = [enabled EXCEPT ![e] = @ \cup {d}]
  /\ stopped' = Started(e, d)
  /\ UNCHANGED <<status, link, mark, data, tail, asked, ended, history>>

Disable(e, d) ==
  /\ Exists(e) /\ d \in enabled[e]
  /\ enabled' = [enabled EXCEPT ![e] = @ \ {d}]
  /\ stopped' = Started(e, d)
  /\ UNCHANGED <<status, link, mark, data, tail, asked, ended, history>>

\* set_timeout(): the loop disables a direction in which nothing has moved; over
\* TLS it only calls the event callback.
Timeout(e, d) ==
  /\ ~secure /\ link[e] = "up" /\ (d = "write" => output[e] # <<>>)
  /\ Disable(e, d)

\* Mutant: the marks in the wrong order.
SetWatermarkSwapped(e, m) ==
  /\ Exists(e) /\ mark[e] # m /\ misuse = {}
  /\ mark' = [mark EXCEPT ![e] = <<m[2], m[1]>>]
  /\ misuse' =
       misuse
         \cup (IF input[e] # <<>> /\ ~asked[e] /\ m[1] <= Len(input[e])
                 THEN {"lowered"} ELSE {})
         \cup (IF 0 < m[2] /\ m[2] < m[1] THEN {"crossed"} ELSE {})
  /\ stopped' = IF m[2] = 0 \/ Len(input[e]) < m[2] THEN Started(e, "read") ELSE stopped
  /\ UNCHANGED <<status, link, enabled, data, tail, asked, ended, sent, got, hasty>>

\* set_watermark() calls nobody back for what is in the input already; and the
\* callback for a low mark above the high one never comes.  A high mark that is not
\* reached, or none, starts the reading.
SetWatermark(e, m) ==
  /\ Exists(e) /\ mark[e] # m /\ misuse = {}
  /\ mark' = [mark EXCEPT ![e] = m]
  /\ misuse' =
       misuse
         \cup (IF input[e] # <<>> /\ ~asked[e] /\ m[1] <= Len(input[e])
                 THEN {"lowered"} ELSE {})
         \cup (IF 0 < m[2] /\ m[2] < m[1] THEN {"crossed"} ELSE {})
  /\ stopped' = IF m[2] = 0 \/ Len(input[e]) < m[2] THEN Started(e, "read") ELSE stopped
  /\ UNCHANGED <<status, link, enabled, data, tail, asked, ended, sent, got, hasty>>

AllowDirtyShutdown(e) ==
  /\ secure /\ Exists(e) /\ ended[e] = "open"
  /\ dirty' = dirty \cup {e}
  /\ UNCHANGED <<secure, link, flow, mark, data, tail, asked, ended, history>>

\* openssl::bev::shutdown(): close_notify follows what is on the wire, and
\* nothing that is still in the output.  It may not fit a full wire, which is not
\* checked; then nothing is sent any more, unless shutdown() is called again.
Shutdown(e) ==
  /\ secure /\ link[e] = "up" /\ tail[e] \in {"open", "mute"}
  /\ \E t \in {"notify", "mute"} :
       /\ t = "mute" => Len(wire[e]) = Room
       /\ tail' = [tail EXCEPT ![e] = t]
  /\ hasty' = IF output[e] = <<>> THEN hasty ELSE hasty \cup {e}
  /\ UNCHANGED <<status, link, flow, mark, data, asked, ended, sent, got, misuse>>

\* Mutant: created without bev_close_on_free.
DestroyKeepsSocket(e) ==
  /\ Exists(e)
  /\ link' = [link EXCEPT ![e] = "freed"]
  /\ output' = [output EXCEPT ![e] = <<>>] /\ input' = [input EXCEPT ![e] = <<>>]
  /\ hasty' = IF output[e] = <<>> THEN hasty ELSE hasty \cup {e}
  /\ enabled' = [enabled EXCEPT ![e] = {}] /\ stopped' = [stopped EXCEPT ![e] = {}]
  /\ mark' = [mark EXCEPT ![e] = <<0, 0>>]
  /\ asked' = [asked EXCEPT ![e] = FALSE]
  /\ UNCHANGED <<status, wire, tail, ended, sent, got, misuse>>

\* close(), destroy(), reset() or the destructor.  ~bev() calls the shutdown() of
\* the base class, which does nothing: TLS ends without close_notify.  What is in
\* the output goes with it, and the socket is closed.
Destroy(e) ==
  /\ Exists(e)
  /\ link' = [link EXCEPT ![e] = "freed"]
  /\ tail' = [tail EXCEPT ![e] = IF @ \in {"open", "mute"} THEN "fin" ELSE @]
  /\ output' = [output EXCEPT ![e] = <<>>] /\ input' = [input EXCEPT ![e] = <<>>]
  /\ enabled' = [enabled EXCEPT ![e] = {}] /\ stopped' = [stopped EXCEPT ![e] = {}]
  /\ mark' = [mark EXCEPT ![e] = <<0, 0>>]
  /\ asked' = [asked EXCEPT ![e] = FALSE]
  /\ hasty' = IF output[e] = <<>> THEN hasty ELSE hasty \cup {e}
  /\ UNCHANGED <<status, wire, ended, sent, got, misuse>>

-----------------------------------------------------------------------------
(* What the loop does.                                                      *)

\* The connection and the handshake of TLS are done, and the server accepted; or
\* the attempt failed, and the event callback says so.
Connected ==
  /\ link[Client] = "connecting"
  /\ link' = [e \in Ends |-> "up"]
  /\ UNCHANGED <<status, flow, mark, data, tail, asked, ended, history>>

ConnectFails ==
  /\ link[Client] = "connecting"
  /\ link' = [link EXCEPT ![Client] = "failed"]
  /\ ended' = [ended EXCEPT ![Client] = "error"]
  /\ UNCHANGED <<status, flow, mark, data, tail, asked, history>>

\* Nothing disabled or stopped the direction.
Runs(e, d) == link[e] = "up" /\ d \in enabled[e] \ stopped[e]

Send(e) ==
  /\ Runs(e, "write") /\ tail[e] = "open"
  /\ output[e] # <<>> /\ Len(wire[e]) < Room
  /\ output' = [output EXCEPT ![e] = Tail(@)]
  /\ wire' = [wire EXCEPT ![e] = Append(@, Head(output[e]))]
  /\ UNCHANGED <<status, link, flow, mark, tail, input, asked, ended, history>>

\* A full input suspends reading, which goes on once the program took something.
Reading(e) ==
  /\ Runs(e, "read")
  /\ mark[e][2] = 0 \/ Len(input[e]) < mark[e][2]

\* Data arrives, and the read callback follows if it reaches the low mark.
Arrive(e) ==
  /\ Reading(e) /\ wire[Peer(e)] # <<>>
  /\ wire' = [wire EXCEPT ![Peer(e)] = Tail(@)]
  /\ input' = [input EXCEPT ![e] = Append(@, Head(wire[Peer(e)]))]
  /\ asked' = [asked EXCEPT ![e] = @ \/ Len(input'[e]) >= mark[e][1]]
  /\ UNCHANGED <<status, link, flow, mark, output, tail, ended, history>>

\* Mutant: an end without close_notify is taken for an end.
MeaningTcp(e) == IF tail[Peer(e)] = "reset" THEN "error" ELSE "eof"

\* What the end of the socket means: over TLS it is an error without close_notify,
\* as anybody may cut a connection, unless the program allows it.
Meaning(e) ==
  CASE tail[Peer(e)] = "notify" -> "eof"
    [] tail[Peer(e)] = "fin" -> IF secure /\ e \notin dirty THEN "error" ELSE "eof"
    [] tail[Peer(e)] = "reset" -> "error"

\* The loop is done with direction d, before it calls the event callback: over TCP
\* the direction is disabled; conn_closed() of TLS stops both, and disables none.  The
\* first item of an empty output starts the writing, so that counts as not stopped.
Ceases(e, d) ==
  IF secure
    THEN /\ stopped' = [stopped EXCEPT ![e] =
              {x \in enabled[e] : x = "write" => output[e] # <<>>}]
         /\ UNCHANGED enabled
    ELSE enabled' = [enabled EXCEPT ![e] = @ \ {d}] /\ UNCHANGED stopped

\* The end arrives behind all data.  The event callback tells of it, and may find
\* input below the low mark that no read callback told of.
ArriveEnd(e) ==
  /\ Reading(e) /\ wire[Peer(e)] = <<>> /\ tail[Peer(e)] \notin {"open", "mute"}
  /\ ended' = [ended EXCEPT ![e] = IF @ = "open" THEN Meaning(e) ELSE @]
  /\ Ceases(e, "read")
  /\ asked' = [asked EXCEPT ![e] = input[e] # <<>>]
  /\ UNCHANGED <<status, link, mark, data, tail, history>>

\* The other end was closed with data unread, or data reaches it then: the
\* connection is reset, and what had not arrived by then may be lost.
Reset(e) ==
  LET p == Peer(e) IN
  /\ link[e] = "up" /\ link[p] = "freed" /\ wire[e] # <<>>
  /\ tail' = [tail EXCEPT ![p] = "reset"]
  /\ \E n \in 0..Len(wire[p]) :
       wire' = [wire EXCEPT ![e] = <<>>, ![p] = SubSeq(@, 1, n)]
  /\ hasty' = hasty \cup {p}
  /\ UNCHANGED <<status, link, flow, mark, output, input, asked, ended, sent, got,
                 misuse>>

\* Writing fails, after a reset or after the close_notify of this very end.
WriteError(e) ==
  /\ Runs(e, "write") /\ output[e] # <<>>
  /\ tail[Peer(e)] = "reset" \/ tail[e] \in {"notify", "mute"}
  /\ ended' = [ended EXCEPT ![e] = IF @ = "open" THEN "error" ELSE @]
  /\ Ceases(e, "write")
  /\ UNCHANGED <<status, link, mark, data, tail, asked, history>>

-----------------------------------------------------------------------------
ProgramNext ==
  \/ Connect
  \/ \E e \in Ends :
       \/ Write(e) \/ Read(e) \/ TakeOne(e)
       \/ \E d \in {"read", "write"} : Enable(e, d) \/ Disable(e, d)
       \/ \E m \in Marks[e] : SetWatermark(e, m)
       \/ AllowDirtyShutdown(e) \/ Shutdown(e) \/ Destroy(e)

LoopNext ==
  \/ Connected \/ ConnectFails
  \/ \E e \in Ends :
       \/ Send(e) \/ Arrive(e) \/ ArriveEnd(e) \/ Reset(e) \/ WriteError(e)
       \/ \E d \in {"read", "write"} : Timeout(e, d)

Next == ProgramNext \/ LoopNext

Spec == Init /\ [][Next]_vars

\* The loops run, and a program takes all its input when it is called back.
Fairness ==
  \A e \in Ends :
    /\ WF_vars(Send(e)) /\ WF_vars(Arrive(e)) /\ WF_vars(ArriveEnd(e))
    /\ WF_vars(asked[e] /\ Read(e))

FairSpec == Spec /\ Fairness

-----------------------------------------------------------------------------
(* Properties.                                                              *)

TypeOK ==
  /\ secure \in BOOLEAN /\ dirty \subseteq Ends
  /\ link \in [Ends -> {"idle", "connecting", "up", "failed", "freed"}]
  /\ enabled \in [Ends -> SUBSET {"read", "write"}]
  /\ stopped \in [Ends -> SUBSET {"read", "write"}]
  /\ mark \in [Ends -> Nat \X Nat]
  /\ \A f \in {output, wire, input, got} : f \in [Ends -> Seq(Nat)]
  /\ tail \in [Ends -> {"open", "notify", "mute", "fin", "reset"}]
  /\ asked \in [Ends -> BOOLEAN]
  /\ ended \in [Ends -> {"open", "eof", "error"}]
  /\ sent \in [Ends -> Nat] /\ hasty \subseteq Ends
  /\ misuse \subseteq {"lowered", "crossed"}

Written(e) == [i \in 1..sent[e] |-> i]

\* Every variable has its type, and through every write, read, watermark, timeout
\* and end, what an end wrote is in order on its way to one that still reads, each
\* item in one place, unless the end left it behind: it was destroyed, or shut TLS
\* down, before it was sent, or closed with data unread.
InTransit ==
  /\ TypeOK
  /\ \A e \in Ends :
       LET p == Peer(e) IN
       /\ got[p] = Written(e) \/ IsPrefix(got[p], Written(e))
       /\ e \notin hasty /\ link[p] \notin {"freed", "failed"} =>
            got[p] \o input[p] \o wire[e] \o output[e] = Written(e)

\* An end of file is the truth.  Nothing was lost before it, unless the writer left
\* it behind; and over TLS, where the connection may have been cut, the other end
\* called shutdown(), unless this one allows a dirty shutdown.
EofIsTrue ==
  \A e \in Ends :
    LET p == Peer(e) IN
    ended[e] = "eof" /\ link[e] # "freed" =>
      /\ p \notin hasty => got[e] \o input[e] = Written(p)
      /\ secure /\ e \notin dirty => tail[p] # "fin"

\* What one end wrote has not been taken at the other, though both are there, and
\* neither direction is disabled, or stopped by TLS after the event callback.
Stuck(e) ==
  LET p == Peer(e) IN
  /\ misuse = {} /\ tail[e] = "open"
  /\ Runs(e, "write") /\ Runs(p, "read")
  /\ \/ output[e] # <<>> \/ wire[e] # <<>>
     \/ input[p] # <<>> /\ Len(input[p]) >= mark[p][1]

\* End e has not been told that the other is gone.
Untold(e) ==
  /\ misuse = {} /\ ended[e] = "open"
  /\ Runs(e, "read")
  /\ link[Peer(e)] = "freed" \/ tail[Peer(e)] = "notify"

\* Two programs that take their input away when called back do not wait for each
\* other for ever: what one end wrote is taken at the other, up to a rest below the
\* low mark, however often high marks suspend the reading, and an end that goes on
\* reading is told of the end of the other, whether that was destroyed, shut TLS
\* down or reset the connection; as long as nobody crosses the marks or lowers one
\* under data that is there.  What TLS has stopped goes on after enable().
NobodyWaits == \A e \in Ends : []<>~Stuck(e) /\ []<>~Untold(e)

-----------------------------------------------------------------------------
\* No more is written at end e.
Closed(e) == link[e] = "freed" \/ tail[e] # "open"

ToServer == INSTANCE Channel WITH
  written <- sent[Client],
  taken <- got[Server],
  kept <- Client \notin hasty,
  closed <- Closed(Client),
  ended <- ended[Server]

ToClient == INSTANCE Channel WITH
  written <- sent[Server],
  taken <- got[Client],
  kept <- Server \notin hasty,
  closed <- Closed(Server),
  ended <- ended[Client]

\* Each direction is a channel: in spite of buffers, watermarks, timeouts, resets and
\* TLS, the program is shown what Channel promises and nothing else.
ImplementsChannel == ToServer!Spec /\ ToClient!Spec
=============================================================================
