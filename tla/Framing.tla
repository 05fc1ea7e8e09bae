------------------------------- MODULE Framing -------------------------------
(***************************************************************************)
(* Why the framing of CCommunication::Recv works: the invariant of the     *)
(* bytes that messageBuffers holds and a connection still carries.         *)
(*                                                                         *)
(* A stream is messageBuffers, alone or with what a connection that can    *)
(* still be read has for it.  It may break off inside any frame and go on  *)
(* with a frame of a later connection.                                     *)
(***************************************************************************)
EXTENDS Communication

Stream(c) == messageBuffers \o inbound[c]

EndsAt(p, s) == p \in 1 .. Len(s) /\ s[p] = End

(* Nothing but a whole frame ends with the marker BOBEND.                  *)
WholeAt(p, s) ==
  /\ p >= 6
  /\ s[p - 5] = Bob /\ s[p - 4] = Start /\ s[p - 1] = Bob
  /\ s[p - 3] \in Requests /\ s[p - 2] = s[p - 3]

FramesWhole(s) == \A p \in 1 .. Len(s) : EndsAt(p, s) => WholeAt(p, s)

(* The requests are in the order of their connections (from), and those of *)
(* a connection in the order they were sent; none is there twice.          *)
StreamInOrder(s, from) ==
  \A i, j \in 1 .. Len(s) :
    i < j /\ s[i] \in Requests /\ s[j] \in Requests =>
      /\ from[s[i]] <= from[s[j]]
      /\ from[s[i]] = from[s[j]] => s[i] <= s[j]
      /\ s[i] = s[j] => j = i + 1

(* What was delivered is not in the stream, and precedes what is.          *)
StreamFollows(s, delivered, from) ==
  \A i \in 1 .. Len(s), d \in 1 .. Len(delivered) :
    s[i] \in Requests /\ delivered[d] # Garbage =>
      /\ s[i] # delivered[d]
      /\ from[s[i]] = from[delivered[d]] => delivered[d] < s[i]

(* A frame that starts at j and broke off. *)
BrokenAt(j, s) == j \in Occurrences(BOBSTART, s) /\ ~EndsAt(j + 5, s)

(* The connection of the frame that ends at p. *)
Bringer(p, s, from) == from[s[p - 2]]

(* Where a frame broke off up to p, every frame before it came from a      *)
(* connection before c, and fewer packets are spoiled than there are of    *)
(* those, not counting the first.                                          *)
BreaksBefore(p, c, s, spoiled, from) ==
  \A j \in 1 .. p : BrokenAt(j, s) =>
    /\ spoiled + 1 < c
    /\ \A q \in 1 .. j : EndsAt(q, s) => Bringer(q, s, from) < c

(* Each connection whose last frame broke off spoils at most one packet.   *)
BreaksBetween(s, spoiled, from) ==
  \A p \in 1 .. Len(s) : EndsAt(p, s) =>
    /\ spoiled < Bringer(p, s, from)
    /\ BreaksBefore(p, Bringer(p, s, from), s, spoiled, from)

Spoiled(delivered) ==
  Cardinality({i \in 1 .. Len(delivered) : delivered[i] = Garbage})

StreamOK(s, delivered, from) ==
  /\ FramesWhole(s)
  /\ StreamInOrder(s, from)
  /\ StreamFollows(s, delivered, from)
  /\ BreaksBetween(s, Spoiled(delivered), from)

(* The two threads are started after the Connect of main.                  *)
MainFirst == pc["main"] # "done" => pc["send"] = "off" /\ pc["recv"] = "off"

(* Before the first connection nothing is read, and nothing was sent.      *)
BeforeFirst ==
  conns = 0 =>
    /\ connected = -1 /\ asked = 0
    /\ pc["recv"] \in InConnect \cup {"off", "live", "lock"}
    /\ messageBuffers = <<>> /\ Delivered = <<>>

(* Connections are numbered as they are made, a blocked read holds on to   *)
(* the oldest, and what is on its way belongs to its connection.           *)
OriginInv ==
  /\ pc["recv"] # "reading" => reading = Free
  /\ reading <= conns
  /\ \A fd \in Fds : fdTable[fd] \in Conns =>
       fdTable[fd] <= conns /\ reading <= fdTable[fd]
  /\ \A c \in Conns : c > conns => inbound[c] = <<>>
  /\ \A c \in Conns : \A i \in 1 .. Len(inbound[c]) : inbound[c][i] \in Requests =>
       inbound[c][i] <= asked /\ origin[inbound[c][i]] = c
  /\ \A i \in 1 .. Len(messageBuffers) :
       messageBuffers[i] \in Requests =>
         messageBuffers[i] <= asked /\ origin[messageBuffers[i]] <= conns
  /\ \A d \in 1 .. Len(Delivered) : Delivered[d] <= asked

(* The streams of the connections that can still be read, and of those     *)
(* that nothing was read of yet.                                           *)
StreamInv ==
  /\ StreamOK(messageBuffers, Delivered, origin)
  /\ \A c \in Conns : Referenced(c) =>
       /\ StreamOK(Stream(c), Delivered, origin)
       /\ \A i \in 1 .. Len(messageBuffers) :
            messageBuffers[i] \in Requests => origin[messageBuffers[i]] <= c
       /\ reading \in Conns \ {c} => FramesWhole(inbound[c])
       /\ Spoiled(Delivered) < c
       /\ state[c] = "est" =>
            BreaksBefore(Len(Stream(c)), c, Stream(c), Spoiled(Delivered), origin)

(* While there is one connection, its stream is what is left of the        *)
(* server's frames, but for what was read from another file in the end.    *)
FrameToken(n) == Frame(((n - 1) \div 6) + 1)[((n - 1) % 6) + 1]

Continues(s, frames) == \A i \in 1 .. Len(s) : s[i] = FrameToken(6 * frames + i)

OneConnection ==
  LET frames == Len(Delivered) IN
  conns = 1 =>
    /\ \A i \in 1 .. Len(messageBuffers) :
         \/ messageBuffers[i] = FrameToken(6 * frames + i)
         \/ i = Len(messageBuffers) /\ messageBuffers[i] = Noise
    /\ Referenced(1) =>
         /\ Continues(Stream(1), frames)
         /\ 6 * frames + Len(Stream(1)) <= 6 * asked
         /\ state[1] = "est" => 6 * frames + Len(Stream(1)) = 6 * asked
=============================================================================
