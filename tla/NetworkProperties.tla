-------------------------- MODULE NetworkProperties --------------------------
(***************************************************************************)
(* What should be true of module Network, and what is although the source  *)
(* does not keep to what asio asks of it.  A history variable notes the    *)
(* clients to which a frame has been, or will be, sent with another inside *)
(* it; it takes no part in any step.                                       *)
(***************************************************************************)
EXTENDS Network

VARIABLE overtaken  \* the clients a short write to which was overtaken

hvars == <<nvars, overtaken>>

(* A short write to client c waits for its handler, and another write of   *)
(* the session is started or waiting: the handler will put what is left    *)
(* behind that one.                                                        *)
CutShort(c) ==
  \E i \in 1 .. Len(ready) :
    ready[i].kind = "Sent" /\ ready[i].client = c /\ ready[i].rest # << >>

Overtaken(c) == writes[c] # << >> /\ CutShort(c)

HistoryInit == Init /\ overtaken = {}
HistoryNext == Next /\ overtaken' = overtaken \cup { c \in Client : Overtaken(c)' }

HistorySpec     == HistoryInit /\ [][HistoryNext]_hvars
FairHistorySpec == HistorySpec /\ Fairness

-----------------------------------------------------------------------------
(* Types of the variables. *)
TypeOK ==
  /\ hostUp \in BOOLEAN
  /\ version \in Version
  /\ latest_data_ \in Version
  /\ sessions_ \subseteq Client
  /\ open \subseteq Client
  /\ link \in [Client -> {"None", "Backlog", "Up", "Lost"}]
  /\ \A i \in 1 .. Len(ready) :
       ready[i].kind \in {"Broadcast", "Accepted", "Sent", "SendFailed"}
  /\ \A c \in Client :
       /\ Len(stream[c]) <= SockBuf
       /\ \A f \in {stream[c], read_buf_[c], latest_buffer_[c], view[c]} :
            \A i \in 1 .. Len(f) : f[i][1] \in Version /\ f[i][2] \in 0 .. Size[f[i][1]]
  /\ {new_data_, fetching, quit} \subseteq [Client -> BOOLEAN]

(* A client never shows anything but a text the host really had (no part   *)
(* of one frame inside another, no length mistaken for text: send_buffer's *)
(* framing, network_models.cpp:29, and do_read_header's, :104), unless a   *)
(* short write to it was overtaken.                                        *)
ViewIsSnapshot ==
  \A c \in Client \ overtaken :
    view[c] = << >> \/ \E v \in 1 .. version : view[c] = Frame(v)

(* A client shows versions in order: a snapshot sent on joining            *)
(* (network_models.cpp:68) never arrives after a newer broadcast, and      *)
(* polling between two frames never goes back; again unless a short write  *)
(* to it was overtaken, which does not disturb the other clients.          *)
Mirrored == INSTANCE Mirror
              WITH shown <- [c \in Client |-> IF view[c] = << >> THEN 0 ELSE view[c][1][1]],
                   broken <- overtaken

ImplementsMirror == Mirrored!Spec

(* Text shown, without the header. *)
Shown(c) == IF view[c] = << >> THEN << >> ELSE Tail(view[c])

Connected(c) == hostUp /\ c \in sessions_ /\ c \in open /\ link[c] = "Up" /\ ~ quit[c]

(* Nothing is under way to client c, in any queue between the host's text  *)
(* and the client's screen.                                                *)
Quiet(c) ==
  /\ \A i \in 1 .. Len(ready) :
       ready[i].kind = "Broadcast" \/ ready[i].client = c =>
         \/ ready[i].kind = "Accepted"
         \/ ready[i].kind = "Sent" /\ ready[i].rest = << >>
  /\ writes[c] = << >> /\ stream[c] = << >> /\ read_buf_[c] = << >>
  /\ ~ new_data_[c] /\ ~ fetching[c]

(* No update is lost on the way: a connected client for which nothing is   *)
(* under way shows the host's text, whenever it joined and whatever became *)
(* of the other clients, whose closed sessions broadcast erases            *)
(* (network_models.cpp:81), once the host has broadcast anything at all;   *)
(* unless a short write to it was overtaken.                               *)
NoUpdateLost ==
  \A c \in Client \ overtaken :
    Connected(c) /\ Quiet(c) /\ version > 0 => Shown(c) = Tail(Frame(version))

(* A client that stays connected to a host that has broadcast something    *)
(* ends up showing the host's text, with the same exception.               *)
Converges ==
  \A c \in Client :
    <>[](Connected(c) /\ c \notin overtaken /\ version > 0)
      => <>[](Shown(c) = Tail(Frame(version)))

(* What short writes to client c left, and then all that is to be written. *)
Rests(c) ==
  LET sent == SelectSeq(ready, LAMBDA h : h.kind = "Sent" /\ h.client = c)
  IN  [i \in DOMAIN sent |-> sent[i].rest]

ToWrite(c) == FlattenSeq(writes[c] \o Rests(c))

(* Short writes (write.hpp:362) are continued exactly where they stopped,  *)
(* overtaken or not: of each frame, what is in the connection and what the *)
(* session has still to write make an end of the frame, so that no unit of *)
(* it is lost, repeated or out of its order.                               *)
FramesContinue ==
  \A c \in Client : Connected(c) =>
    \A v \in 1 .. version :
      LET units == SelectSeq(stream[c] \o ToWrite(c), LAMBDA u : u[1] = v)
      IN  \E n \in 0 .. Size[v] + 1 : units = Rest(Frame(v), n)

-----------------------------------------------------------------------------
(* Statements of the source the code does not meet.                        *)

(* libs/asio/include/asio/write.hpp:761, "The program must ensure that the *)
(* stream performs no other write operations [...] until this operation    *)
(* completes": a session never has two frames with something left to send. *)
Unfinished(c) ==
  Len(writes[c]) + Cardinality({ i \in 1 .. Len(ready) :
                                   /\ ready[i].kind = "Sent"
                                   /\ ready[i].client = c
                                   /\ ready[i].rest # << >> })

OneWriteAtATime == \A c \in Client : Unfinished(c) <= 1

=============================================================================
