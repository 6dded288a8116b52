------------------------------- MODULE KeyVal -------------------------------
(***************************************************************************)
(* Lists of headers and of query parameters: keyval objects, which own an   *)
(* evkeyvalq, keyval_ref objects, which point to one, and parse(), which    *)
(* shows each entry to the functors that wait for its key.                  *)
(*                                                                          *)
(* parse() makes one pass with a mask of the functors that have accepted a  *)
(* value.  The properties compare it with what a program expects of each    *)
(* functor, while the functors change the lists under it.                   *)
(*                                                                          *)
(* The names that every module has start with Kv here, as main() of          *)
(* evhttpsrv.cpp uses these lists before its server: ServerProofs extends   *)
(* this module and Server.                                                  *)
(*                                                                          *)
(* kv_allocator leaves the head of a list zeroed, as no TAILQ_INIT is done:  *)
(* until evhttp_parse_query_str() has initialised it, as the constructor of  *)
(* query does, the list can be read and cleared, and push() writes through  *)
(* a null pointer.                                                          *)
(*                                                                          *)
(* Bounds: each evkeyvalq is allocated once (Lists), each value is at most  *)
(* in one place (Values), a query string has at most MaxEntries entries,    *)
(* parse() is given at most MaxPairs functors, and a program that misuses a *)
(* list does nothing more.                                                  *)
(***************************************************************************)
EXTENDS Naturals, Sequences, SequencesExt

CONSTANTS
  Owners,    \* keyval objects
  Refs,      \* keyval_ref objects
  Lists,     \* evkeyvalq structures
  Keys,
  Values,    \* values of headers, all distinct
  MaxEntries,
  MaxPairs,
  Null       \* the null pointer: no list, and the key of no entry

ASSUME KindsAssumption == Owners \cap Refs = {}
ASSUME NullAssumption == Null \notin Lists \cup Keys
ASSUME BoundsAssumption == MaxEntries \in Nat /\ MaxPairs \in Nat

VARIABLES
  handle,   \* handle[o]: the evkeyvalq of an object, or Null
  made,     \* the evkeyvalq that exist or existed
  freed,    \* those that were freed
  filled,   \* those there that evhttp_parse_query_str() has initialised
  list,     \* list[l]: the entries of l, a sequence of [key, value]
  pairs,    \* the keys of the functors given to parse(), in their order
  at,       \* parse(): "idle", "loop", "call" (inside a functor) or "done"
  source,   \* the evkeyvalq it goes over
  entry,    \* h: the entry it is at
  accepted, \* processed_mask
  shown,    \* history: its calls, a sequence of [to, entry, ok]
  faults,   \* history: "entry gone", read, and "null tail", written through
  misuse    \* history: what the program should not have done

memory == <<handle, made, freed, filled>>
parse == <<pairs, at, source, entry, accepted, shown>>
kvVars == <<handle, made, freed, filled, list, pairs, at, source, entry, accepted,
            shown, faults, misuse>>

Entry == [key : Keys, value : Values]
NoEntry == [key |-> Null, value |-> Null]

KvInit ==
  /\ handle = [o \in Owners \cup Refs |-> Null]
  /\ made = {} /\ freed = {} /\ filled = {}
  /\ list = [l \in Lists |-> <<>>]
  /\ pairs = <<>> /\ at = "idle" /\ source = Null /\ entry = NoEntry
  /\ accepted = {} /\ shown = <<>>
  /\ faults = {} /\ misuse = {}

-----------------------------------------------------------------------------
(* Objects.  Each operation may be called inside a functor of parse().      *)

\* Program code runs: outside of parse(), or in one of its functors.
Program == at # "loop"
Parsing == at \in {"loop", "call"}

\* The constructor of a keyval: new evkeyvalq{}, which is not filled.
Construct(o, l) ==
  /\ handle[o] = Null /\ l \notin made
  /\ made' = made \cup {l}
  /\ handle' = [handle EXCEPT ![o] = l]
  /\ UNCHANGED <<freed, filled, list, parse, faults, misuse>>

\* The entries of l go away; the parse() that is at one of them reads it later.
Discard(l) ==
  /\ list' = [list EXCEPT ![l] = <<>>]
  /\ misuse' = IF Parsing /\ source = l THEN misuse \cup {"cleared in parse"} ELSE misuse

\* kv_allocator::free(), of the evkeyvalq that o had.
Free(o) ==
  /\ freed' = freed \cup {handle[o]} /\ filled' = filled \ {handle[o]}
  /\ Discard(handle[o])

\* The destructor of a keyval.
Destroy(o) ==
  /\ handle[o] # Null
  /\ Free(o)
  /\ handle' = [handle EXCEPT ![o] = Null]
  /\ UNCHANGED <<made, parse, faults>>

\* Both moves swap, the constructor after it has allocated as in Construct.
Move(o, p) ==
  /\ o # p /\ handle[o] # Null /\ handle[p] # Null
  /\ handle' = [handle EXCEPT ![o] = handle[p], ![p] = handle[o]]
  /\ UNCHANGED <<made, freed, filled, list, parse, faults, misuse>>

\* Mutant: the source keeps its handle.
ResetShares(o, p, l) ==
  /\ o # p /\ handle[o] # Null /\ handle[p] # Null /\ l \notin made
  /\ made' = made \cup {l}
  /\ Free(o)
  /\ handle' = [handle EXCEPT ![o] = handle[p]]
  /\ UNCHANGED <<parse, faults>>

\* reset(std::move(p)): p goes on with the fresh list the parameter was constructed
\* with, and what o had goes with the parameter.
Reset(o, p, l) ==
  /\ o # p /\ handle[o] # Null /\ handle[p] # Null /\ l \notin made
  /\ made' = made \cup {l}
  /\ Free(o)
  /\ handle' = [handle EXCEPT ![o] = handle[p], ![p] = l]
  /\ UNCHANGED <<parse, faults>>

\* ref(), and the copies of a reference; a null one is refused by an assertion.
Refer(r, o) ==
  /\ handle[o] # Null
  /\ handle' = [handle EXCEPT ![r] = handle[o]]
  /\ UNCHANGED <<made, freed, filled, list, parse, faults, misuse>>

\* The program uses an object, and a reference only while its list is there.
Usable(o) == handle[o] # Null /\ handle[o] \notin freed

Used == {e.value : e \in UNION {ToSet(list[l]) : l \in Lists}}

\* evhttp_parse_query_str(), as the constructor of query calls it on a new keyval:
\* TAILQ_INIT and the entries of the string, none if it is empty or refused, when the
\* result is an exception and the list is ready nevertheless.
Fill(o, s) ==
  /\ Usable(o) /\ handle[o] \notin filled
  /\ \A i, j \in DOMAIN s :
       s[i].value \notin Used /\ (s[i].value = s[j].value => i = j)
  /\ filled' = filled \cup {handle[o]}
  /\ list' = [list EXCEPT ![handle[o]] = s]
  /\ UNCHANGED <<handle, made, freed, parse, faults, misuse>>

\* push() writes through tqh_last, which is null in a list that is not filled.
PushFresh(o) ==
  /\ Usable(o) /\ handle[o] \notin filled
  /\ faults' = faults \cup {"null tail"}
  /\ misuse' = misuse \cup {"pushed to a fresh list"}
  /\ UNCHANGED <<memory, list, parse>>

\* Mutant: push() replaces what the key had.
PushReplaces(o, k, v) ==
  /\ Usable(o) /\ handle[o] \in filled
  /\ v \notin Used
  /\ list' = [list EXCEPT ![handle[o]] =
       Append(SelectSeq(@, LAMBDA e : e.key # k), [key |-> k, value |-> v])]
  /\ UNCHANGED <<memory, parse, faults, misuse>>

\* push() adds at the end.  A key or value that evhttp_add_header() refuses changes
\* nothing: check_result() throws, in a functor that does not catch it as in Throw.
Push(o, k, v) ==
  /\ Usable(o) /\ handle[o] \in filled
  /\ v \notin Used
  /\ list' = [list EXCEPT ![handle[o]] = Append(@, [key |-> k, value |-> v])]
  /\ UNCHANGED <<memory, parse, faults, misuse>>

\* clear_headers().
Clear(o) ==
  /\ Usable(o) /\ list[handle[o]] # <<>>
  /\ Discard(handle[o])
  /\ UNCHANGED <<memory, parse, faults>>

-----------------------------------------------------------------------------
(* parse().                                                                 *)

First(s) == IF s = <<>> THEN NoEntry ELSE Head(s)

\* h->next, of an entry that is in s.
After(s, e) ==
  LET i == CHOOSE j \in 1 .. Len(s) : s[j] = e
  IN IF i = Len(s) THEN NoEntry ELSE s[i + 1]

StartParse(o, keys) ==
  /\ at \in {"idle", "done"} /\ Usable(o)
  /\ at' = "loop" /\ pairs' = keys
  /\ source' = handle[o] /\ entry' = First(list[handle[o]])
  /\ accepted' = {} /\ shown' = <<>>
  /\ UNCHANGED <<memory, list, faults, misuse>>

\* Mutant: the mask is not tested for the functor.
WaitingAgain(k) == {i \in DOMAIN pairs : pairs[i] = k}

\* The functors that an entry with key k is for, and have not accepted one.
Waiting(k) == {i \in DOMAIN pairs : pairs[i] = k /\ i \notin accepted}

\* Mutant: the loop ends with the first accepted value.
EndsAtFirst == entry = NoEntry \/ accepted # {}

\* The loop goes on to an entry unless every functor has accepted a value.
Ends == entry = NoEntry \/ accepted = DOMAIN pairs

\* The fold over the tuple calls the first functor that waits for the key.
ShowTo(i) ==
  /\ at = "loop" /\ ~Ends
  /\ i \in Waiting(entry.key) /\ \A j \in Waiting(entry.key) : i <= j
  /\ at' = "call"
  /\ shown' = Append(shown, [to |-> i, entry |-> entry, ok |-> FALSE])
  /\ UNCHANGED <<memory, list, pairs, source, entry, accepted, faults, misuse>>

\* The functor returns, and h->next is read: a fault if the entry is gone.
Answer(ok) ==
  LET n == Len(shown) IN
  /\ at = "call"
  /\ accepted' = IF ok THEN accepted \cup {shown[n].to} ELSE accepted
  /\ shown' = [shown EXCEPT ![n].ok = ok]
  /\ IF entry \in ToSet(list[source])
       THEN entry' = After(list[source], entry) /\ UNCHANGED faults
       ELSE entry' = NoEntry /\ faults' = faults \cup {"entry gone"}
  /\ at' = "loop"
  /\ UNCHANGED <<memory, list, pairs, source, misuse>>

\* The functor throws, and so does parse().
Throw ==
  /\ at = "call"
  /\ at' = "idle"
  /\ UNCHANGED <<memory, list, pairs, source, entry, accepted, shown, faults,
                 misuse>>

Skip ==
  /\ at = "loop" /\ ~Ends /\ Waiting(entry.key) = {}
  /\ entry' = After(list[source], entry)
  /\ UNCHANGED <<memory, list, pairs, at, source, accepted, shown, faults,
                 misuse>>

EndParse ==
  /\ at = "loop" /\ Ends
  /\ at' = "done"
  /\ UNCHANGED <<memory, list, pairs, source, entry, accepted, shown, faults,
                 misuse>>

-----------------------------------------------------------------------------
ProgramNext ==
  \/ \E o \in Owners : Destroy(o) \/ \E l \in Lists : Construct(o, l)
  \/ \E o, p \in Owners : Move(o, p) \/ \E l \in Lists : Reset(o, p, l)
  \/ \E r \in Refs, o \in Owners \cup Refs : Refer(r, o)
  \/ \E o \in Owners, n \in 0 .. MaxEntries : \E s \in [1 .. n -> Entry] : Fill(o, s)
  \/ \E o \in Owners \cup Refs, k \in Keys, v \in Values : Push(o, k, v)
  \/ \E o \in Owners \cup Refs : PushFresh(o) \/ Clear(o)
  \/ \E o \in Owners \cup Refs, n \in 1 .. MaxPairs : \E keys \in [1 .. n -> Keys] :
       StartParse(o, keys)

ParseNext ==
  \/ \E i \in DOMAIN pairs : ShowTo(i)
  \/ \E ok \in BOOLEAN : Answer(ok)
  \/ Throw \/ Skip \/ EndParse

KvNext ==
  /\ faults = {}
  /\ \/ Program /\ misuse = {} /\ ProgramNext
     \/ ParseNext

KvSpec == KvInit /\ [][KvNext]_kvVars

-----------------------------------------------------------------------------
(* Properties.                                                              *)

Misuses == {"cleared in parse", "pushed to a fresh list"}

KvTypeOK ==
  /\ handle \in [Owners \cup Refs -> Lists \cup {Null}]
  /\ made \subseteq Lists /\ freed \subseteq made /\ filled \subseteq made
  /\ list \in [Lists -> Seq(Entry)]
  /\ pairs \in Seq(Keys) /\ accepted \subseteq DOMAIN pairs
  /\ at \in {"idle", "loop", "call", "done"}
  /\ source \in Lists \cup {Null} /\ entry \in Entry \cup {NoEntry}
  /\ shown \in Seq([to : DOMAIN pairs, entry : Entry, ok : BOOLEAN])
  /\ faults \subseteq {"entry gone", "null tail"} /\ misuse \subseteq Misuses

\* Every variable has its type; and through moves and resets each keyval has a list
\* of its own, and every list that is not freed has an owner.
OwnedOnce ==
  /\ KvTypeOK
  /\ {handle[o] : o \in Owners} \ {Null} = made \ freed
  /\ \A o, p \in Owners : handle[o] = handle[p] => o = p \/ handle[o] = Null

\* parse() survives whatever its functors do to the objects and the lists, moves
\* of the object itself included, except for removing the entries it goes over and
\* for a push to a keyval that is new, or that reset() has left, which faults
\* anywhere in a program.
FaultNeedsMisuse ==
  /\ "entry gone" \in faults => "cleared in parse" \in misuse
  /\ "null tail" \in faults => "pushed to a fresh list" \in misuse

Untouched == misuse = {}

\* What a functor may rely on: it is shown entries of its own key, in the order of
\* the list and none twice, nothing more once it has accepted one, and nothing
\* before the functors given for the same key before it have.
ShownInOrder ==
  Untouched /\ at # "idle" =>
    LET pos(n) == CHOOSE i \in DOMAIN list[source] :
                    list[source][i] = shown[n].entry
    IN /\ \A n \in DOMAIN shown :
            /\ shown[n].entry.key = pairs[shown[n].to]
            /\ \A j \in 1 .. shown[n].to - 1 :
                 pairs[j] = pairs[shown[n].to] =>
                   \E m \in 1 .. n - 1 : shown[m].to = j /\ shown[m].ok
       /\ \A m, n \in DOMAIN shown : m < n =>
            /\ Parsing => pos(m) < pos(n)
            /\ shown[m].to = shown[n].to => ~shown[m].ok

\* And when parse() returns, no entry was missed, those that functors pushed on the
\* way included: a functor that did not accept any was shown every entry of its
\* key that no other functor for the key was shown.
ShownAll ==
  [][at = "loop" /\ at' = "done" /\ Untouched =>
       \A i \in DOMAIN pairs, e \in ToSet(list[source]) :
         e.key = pairs[i] =>
           \/ \E n \in DOMAIN shown : shown[n].to = i /\ shown[n].ok
           \/ \E n \in DOMAIN shown : shown[n].entry = e]_kvVars
=============================================================================
