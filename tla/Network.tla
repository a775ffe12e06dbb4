------------------------------- MODULE Network -------------------------------
(***************************************************************************)
(* How the host's text reaches the screens of its clients:                 *)
(* src/src/network_models.cpp, with the calls src/src/editor.cpp makes.    *)
(*                                                                         *)
(* The host has two threads: the main thread posts a snapshot of the text  *)
(* after every key (Post), the network thread runs asio's handlers one by  *)
(* one, in the order they became ready (RunBroadcast ... RunAccepted).     *)
(* asio itself makes handlers ready when a socket can be written or a      *)
(* connection accepted (WriteSome, AcceptConnection).  Each client has two *)
(* threads as well: its network thread reads frames (ReadHeader,           *)
(* ReadBody), its main thread polls for the last one (HasNewData,          *)
(* GetLatestBuffer).                                                       *)
(*                                                                         *)
(* The texts are numbered in the order they are posted, 0 being the text   *)
(* of the file when the host started.  On the wire text v is a frame: a    *)
(* header unit <<v, 0>> standing for the four length bytes, then Size[v]   *)
(* body units <<v, 1>> .. <<v, Size[v]>>.                                  *)
(*                                                                         *)
(* server_.stop() is one step here, although the main thread runs it while *)
(* the network thread may be inside a handler.                             *)
(***************************************************************************)
EXTENDS Integers, Sequences, FiniteSets, SequencesExt

CONSTANTS
  Client,       \* the clients that may connect, each of them once
  Leaving,      \* those that may lose their connection or quit
  MaxVersion,   \* bound on the number of texts posted
  Size,         \* the length of each text, in units
  MaxTransfer,  \* asio's bound on one write_some (65536 bytes)
  SockBuf,      \* units a connection holds before a write would block
  Garbage       \* the length that four bytes of text make when read as one

Version == 0 .. MaxVersion

ASSUME NetworkAssumption ==
  /\ Leaving \subseteq Client
  /\ MaxVersion \in Nat
  /\ Size \in [Version -> Nat]
  /\ {MaxTransfer, SockBuf, Garbage} \subseteq Nat \ {0}

VARIABLES
  \* the host
  hostUp,         \* server_.stop() has not been called
  version,        \* the last text posted
  ready,          \* asio's handlers that are ready to run, in order
  latest_data_,   \* what broadcast was last called with; 0 for the empty string
  sessions_,      \* the clients the server holds a session for
  open,           \* the sessions whose socket is open
  writes,         \* per session, the write operations waiting for the socket
  \* the connections
  link,           \* None, Backlog (not yet accepted), Up or Lost
  stream,         \* the units under way to each client
  \* the clients
  read_buf_,      \* the units read of the current frame
  latest_buffer_, \* the last complete frame
  new_data_,      \* it has not been fetched
  fetching,       \* the main thread saw new_data_ and will fetch
  view,           \* what the client shows, as the frame it came in
  quit            \* the client has stopped

host    == <<version, latest_data_, sessions_, open>>
clients == <<read_buf_, latest_buffer_, new_data_, fetching, view, quit>>
nvars   == <<hostUp, ready, writes, link, stream, host, clients>>

Frame(v) == [i \in 1 .. Size[v] + 1 |-> <<v, i - 1>>]

Prefix(s, n) == SubSeq(s, 1, n)
Rest(s, n)   == SubSeq(s, n + 1, Len(s))
Least(m, n)  == IF m < n THEN m ELSE n

Init ==
  /\ hostUp = TRUE
  /\ version = 0
  /\ ready = << >>
  /\ latest_data_ = 0
  /\ sessions_ = {}
  /\ open = {}
  /\ writes = [c \in Client |-> << >>]
  /\ link = [c \in Client |-> "None"]
  /\ stream = [c \in Client |-> << >>]
  /\ read_buf_ = [c \in Client |-> << >>]
  /\ latest_buffer_ = [c \in Client |-> << >>]
  /\ new_data_ = [c \in Client |-> FALSE]
  /\ fetching = [c \in Client |-> FALSE]
  /\ view = [c \in Client |-> << >>]
  /\ quit = [c \in Client |-> FALSE]

-----------------------------------------------------------------------------
(* The host's main thread.                                                 *)

BroadcastOf(v)   == [kind |-> "Broadcast", version |-> v]
AcceptedOf(c)    == [kind |-> "Accepted", client |-> c]
SentOf(c, rest)  == [kind |-> "Sent", client |-> c, rest |-> rest]
SendFailedOf(c)  == [kind |-> "SendFailed", client |-> c]

(* broadcast_buffer: a key has been handled. *)
Post ==
  /\ hostUp
  /\ version < MaxVersion
  /\ version' = version + 1
  /\ ready' = Append(ready, BroadcastOf(version + 1))
  /\ UNCHANGED <<hostUp, latest_data_, sessions_, open, writes, link, stream, clients>>

(* Closing a socket cancels its writes; their handlers find it closed. *)
HostStop ==
  /\ hostUp
  /\ hostUp' = FALSE
  /\ sessions_' = {}
  /\ open' = {}
  /\ writes' = [c \in Client |-> << >>]
  /\ UNCHANGED <<version, ready, latest_data_, link, stream, clients>>

-----------------------------------------------------------------------------
(* asio, on the host.                                                      *)

(* One accept operation is outstanding, except between its completion and  *)
(* its handler.                                                            *)
AcceptConnection(c) ==
  /\ hostUp
  /\ link[c] = "Backlog"
  /\ \A i \in 1 .. Len(ready) : ready[i].kind # "Accepted"
  /\ link' = [link EXCEPT ![c] = "Up"]
  /\ ready' = Append(ready, AcceptedOf(c))
  /\ UNCHANGED <<hostUp, host, writes, stream, clients>>

(* The first waiting write of a session moves as much as asio asks for in  *)
(* one go and the connection has room for.                                 *)
WriteSome(c) ==
  LET op == Head(writes[c])
      n  == Least(Len(op), Least(MaxTransfer, SockBuf - Len(stream[c])))
  IN  /\ hostUp
      /\ writes[c] # << >>
      /\ link[c] = "Up" /\ ~ quit[c]
      /\ n > 0
      /\ stream' = [stream EXCEPT ![c] = @ \o Prefix(op, n)]
      /\ writes' = [writes EXCEPT ![c] = Tail(@)]
      /\ ready' = Append(ready, SentOf(c, Rest(op, n)))
      /\ UNCHANGED <<hostUp, host, link, clients>>

(* Writing to a client that is gone fails, or at first goes unnoticed. *)
WriteToNobody(c) ==
  /\ hostUp
  /\ writes[c] # << >>
  /\ link[c] = "Lost" \/ quit[c]
  /\ writes' = [writes EXCEPT ![c] = Tail(@)]
  /\ \E handler \in {SendFailedOf(c), SentOf(c, << >>)} : ready' = Append(ready, handler)
  /\ UNCHANGED <<hostUp, host, link, stream, clients>>

-----------------------------------------------------------------------------
(* The handlers, on the host's network thread.                             *)

Run(kind) == hostUp /\ ready # << >> /\ Head(ready).kind = kind /\ ready' = Tail(ready)

(* Mutant of RunBroadcast: the newest frame is put before those waiting.   *)
RunBroadcastNewestFirst ==
  /\ Run("Broadcast")
  /\ LET v == Head(ready).version
     IN  /\ latest_data_' = v
         /\ sessions_' = sessions_ \cap open
         /\ writes' = [c \in Client |-> IF c \in sessions_ \cap open
                                        THEN <<Frame(v)>> \o writes[c]
                                        ELSE writes[c]]
  /\ UNCHANGED <<hostUp, version, open, link, stream, clients>>

(* Mutant of RunBroadcast: the loop over the sessions ends at one that is   *)
(* closed, and the others get nothing.                                     *)
RunBroadcastStoppingAtClosed ==
  /\ Run("Broadcast")
  /\ LET v == Head(ready).version
     IN  /\ latest_data_' = v
         /\ sessions_' = sessions_ \cap open
         /\ writes' = [c \in Client |-> IF c \in sessions_ /\ sessions_ \subseteq open
                                        THEN Append(writes[c], Frame(v))
                                        ELSE writes[c]]
  /\ UNCHANGED <<hostUp, version, open, link, stream, clients>>

(* Mutant of RunBroadcast: a session with a write waiting is passed over.  *)
RunBroadcastSkippingBusy ==
  /\ Run("Broadcast")
  /\ LET v == Head(ready).version
     IN  /\ latest_data_' = v
         /\ sessions_' = sessions_ \cap open
         /\ writes' = [c \in Client |->
                         IF c \in sessions_ \cap open /\ writes[c] = << >>
                         THEN <<Frame(v)>> ELSE writes[c]]
  /\ UNCHANGED <<hostUp, version, open, link, stream, clients>>

(* broadcast: closed sessions are erased, the others sent the frame. *)
RunBroadcast ==
  /\ Run("Broadcast")
  /\ LET v == Head(ready).version
     IN  /\ latest_data_' = v
         /\ sessions_' = sessions_ \cap open
         /\ writes' = [c \in Client |-> IF c \in sessions_ \cap open
                                        THEN Append(writes[c], Frame(v))
                                        ELSE writes[c]]
  /\ UNCHANGED <<hostUp, version, open, link, stream, clients>>

(* Mutant of RunSent: what a short write left over is dropped.             *)
RunSentDroppingRest ==
  /\ Run("Sent")
  /\ UNCHANGED <<hostUp, host, writes, link, stream, clients>>

(* async_write's own handler: what write_some left over is a new write     *)
(* operation, behind those that were started since.                        *)
RunSent ==
  /\ Run("Sent")
  /\ LET c == Head(ready).client
         rest == Head(ready).rest
     IN  writes' = IF rest # << >> /\ c \in open
                   THEN [writes EXCEPT ![c] = Append(@, rest)]
                   ELSE writes
  /\ UNCHANGED <<hostUp, host, link, stream, clients>>

(* send_buffer's handler on an error. *)
RunSendFailed ==
  /\ Run("SendFailed")
  /\ LET c == Head(ready).client
     IN  /\ open' = open \ {c}
         /\ writes' = [writes EXCEPT ![c] = << >>]
  /\ UNCHANGED <<hostUp, version, latest_data_, sessions_, link, stream, clients>>

(* start_accept's handler: the newcomer is sent the last text broadcast,   *)
(* unless that is empty.                                                   *)
RunAccepted ==
  /\ Run("Accepted")
  /\ LET c == Head(ready).client
     IN  /\ sessions_' = sessions_ \cup {c}
         /\ open' = open \cup {c}
         /\ writes' = IF latest_data_ # 0 /\ Size[latest_data_] # 0
                      THEN [writes EXCEPT ![c] = Append(@, Frame(latest_data_))]
                      ELSE writes
  /\ UNCHANGED <<hostUp, version, latest_data_, link, stream, clients>>

-----------------------------------------------------------------------------
(* A client's network thread and the connection it reads.                  *)

(* tcp_client's constructor; when it throws the client never runs. *)
Connect(c) ==
  /\ hostUp
  /\ link[c] = "None"
  /\ link' = [link EXCEPT ![c] = "Backlog"]
  /\ UNCHANGED <<hostUp, ready, writes, stream, host, clients>>

(* The connection breaks; some of what is under way still arrives. *)
LoseConnection(c) ==
  /\ c \in Leaving
  /\ link[c] = "Up"
  /\ link' = [link EXCEPT ![c] = "Lost"]
  /\ \E n \in 0 .. Len(stream[c]) : stream' = [stream EXCEPT ![c] = Prefix(@, n)]
  /\ UNCHANGED <<hostUp, ready, writes, host, clients>>

(* The length the client takes from a header: the right one if what it     *)
(* reads is a header.                                                      *)
BodyLength(unit) == IF unit[2] = 0 THEN Size[unit[1]] ELSE Garbage

ReadHeader(c) ==
  /\ ~ quit[c]
  /\ read_buf_[c] = << >>
  /\ stream[c] # << >>
  /\ read_buf_' = [read_buf_ EXCEPT ![c] = <<Head(stream[c])>>]
  /\ stream' = [stream EXCEPT ![c] = Tail(@)]
  /\ UNCHANGED <<hostUp, ready, writes, link, host,
                 latest_buffer_, new_data_, fetching, view, quit>>

(* Mutant of ReadBody: what has arrived is published, complete or not.     *)
ReadBodyPartly(c) ==
  LET missing == BodyLength(read_buf_[c][1]) + 1 - Len(read_buf_[c])
      n       == Least(missing, Len(stream[c]))
      got     == read_buf_[c] \o Prefix(stream[c], n)
  IN  /\ ~ quit[c]
      /\ read_buf_[c] # << >>
      /\ n > 0 \/ missing = 0
      /\ stream' = [stream EXCEPT ![c] = Rest(@, n)]
      /\ latest_buffer_' = [latest_buffer_ EXCEPT ![c] = got]
      /\ new_data_' = [new_data_ EXCEPT ![c] = TRUE]
      /\ read_buf_' = [read_buf_ EXCEPT ![c] = IF n = missing THEN << >> ELSE got]
      /\ UNCHANGED <<hostUp, ready, writes, link, host, fetching, view, quit>>

(* async_read takes what has arrived, until the body is complete; the      *)
(* handler then publishes it under the mutex.                              *)
ReadBody(c) ==
  LET missing == BodyLength(read_buf_[c][1]) + 1 - Len(read_buf_[c])
      n       == Least(missing, Len(stream[c]))
      got     == read_buf_[c] \o Prefix(stream[c], n)
  IN  /\ ~ quit[c]
      /\ read_buf_[c] # << >>
      /\ n > 0 \/ missing = 0
      /\ stream' = [stream EXCEPT ![c] = Rest(@, n)]
      /\ IF n = missing
         THEN /\ latest_buffer_' = [latest_buffer_ EXCEPT ![c] = got]
              /\ new_data_' = [new_data_ EXCEPT ![c] = TRUE]
              /\ read_buf_' = [read_buf_ EXCEPT ![c] = << >>]
         ELSE /\ read_buf_' = [read_buf_ EXCEPT ![c] = got]
              /\ UNCHANGED <<latest_buffer_, new_data_>>
      /\ UNCHANGED <<hostUp, ready, writes, link, host, fetching, view, quit>>

-----------------------------------------------------------------------------
(* A client's main thread: poll_network, and Quit.                         *)

(* has_new_data reads the flag without the mutex. *)
HasNewData(c) ==
  /\ ~ quit[c] /\ ~ fetching[c]
  /\ new_data_[c]
  /\ fetching' = [fetching EXCEPT ![c] = TRUE]
  /\ UNCHANGED <<hostUp, ready, writes, link, stream, host,
                 read_buf_, latest_buffer_, new_data_, view, quit>>

GetLatestBuffer(c) ==
  /\ fetching[c]
  /\ new_data_' = [new_data_ EXCEPT ![c] = FALSE]
  /\ view' = [view EXCEPT ![c] = latest_buffer_[c]]
  /\ fetching' = [fetching EXCEPT ![c] = FALSE]
  /\ UNCHANGED <<hostUp, ready, writes, link, stream, host,
                 read_buf_, latest_buffer_, quit>>

ClientStop(c) ==
  /\ c \in Leaving
  /\ link[c] # "None"
  /\ ~ quit[c] /\ ~ fetching[c]
  /\ quit' = [quit EXCEPT ![c] = TRUE]
  /\ UNCHANGED <<hostUp, ready, writes, link, stream, host,
                 read_buf_, latest_buffer_, new_data_, fetching, view>>

-----------------------------------------------------------------------------
HostNetworkThread == RunBroadcast \/ RunSent \/ RunSendFailed \/ RunAccepted

Next ==
  \/ Post
  \/ HostStop
  \/ HostNetworkThread
  \/ \E c \in Client :
       \/ AcceptConnection(c) \/ WriteSome(c) \/ WriteToNobody(c)
       \/ Connect(c) \/ LoseConnection(c)
       \/ ReadHeader(c) \/ ReadBody(c)
       \/ HasNewData(c) \/ GetLatestBuffer(c) \/ ClientStop(c)

Spec == Init /\ [][Next]_nvars

(* Threads that have something to do get to do it: asio's run loops, and   *)
(* the client's main loop, which polls every ten milliseconds and never    *)
(* blocks on the keyboard.  Users need not press keys, and clients need    *)
(* not come, stay or go.                                                   *)
Fairness ==
  /\ WF_nvars(HostNetworkThread)
  /\ \A c \in Client :
       /\ WF_nvars(AcceptConnection(c))
       /\ WF_nvars(WriteSome(c) \/ WriteToNobody(c))
       /\ WF_nvars(ReadHeader(c) \/ ReadBody(c))
       /\ WF_nvars(HasNewData(c) \/ GetLatestBuffer(c))

FairSpec == Spec /\ Fairness
=============================================================================
