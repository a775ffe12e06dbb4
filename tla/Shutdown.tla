------------------------------ MODULE Shutdown ------------------------------
(***************************************************************************)
(* A host that quits: the two threads of src/src/editor.cpp and            *)
(* src/src/network_models.cpp, one access to shared memory at a time.      *)
(*                                                                         *)
(* The main thread saves the file, posts a last broadcast, runs            *)
(* tcp_server::stop, joins the network thread and destroys the Editor.     *)
(* Meanwhile the network thread runs asio's handlers, which use the same   *)
(* acceptor, the same sessions_ and the same sockets, and nothing orders   *)
(* the two.  Where their next accesses conflict (Racing) the behaviour of  *)
(* the program is undefined: it goes on as if one of them came first, or   *)
(* in a way of which nothing is said (Race): the model stops there.        *)
(***************************************************************************)
EXTENDS Integers, Sequences, FiniteSets, SequencesExt

CONSTANTS
  Client,    \* the clients that may connect, each of them once
  Block,     \* what the file is written in
  OldText,   \* the file before the save
  NewText,   \* the host's text
  MaxPosts   \* bound on the broadcasts posted

ASSUME ShutdownAssumption ==
  /\ OldText \in Seq(Block)
  /\ NewText \in Seq(Block)
  /\ MaxPosts \in Nat \ {0}

VARIABLES
  \* the main thread
  main,        \* where it is
  closing,     \* in stop's loop: the index of the session to close next
  closeTo,     \* ... and the end() the loop has read when it started
  file,        \* the file on disk
  failed,      \* a write of the file has failed
  posts,       \* broadcasts posted so far
  \* the network thread
  net,         \* where it is: between two handlers, in one, or gone
  arg,         \* the client, or the iterator, of the handler it is in
  \* asio
  ready,       \* the handlers that are ready to run, in order
  acceptor_,   \* Listening while an accept is outstanding, Open, or Closed
  stopped,     \* io_context_.stop() has been called
  \* the server
  sessions_,   \* the sessions, in the order they were accepted
  open,        \* the clients whose socket on the host is open
  \* the others
  connected,   \* the clients that have connected
  gone,        \* the clients that have hung up
  \* undefined behaviour
  undefined    \* two accesses have collided, or one was to a destroyed object

mainVars == <<main, closing, closeTo, file, failed, posts>>
netVars  == <<net, arg>>
asioVars == <<ready, acceptor_, stopped>>
peers    == <<connected, gone>>
shared   == <<sessions_, open>>
svars    == <<mainVars, netVars, asioVars, shared, peers, undefined>>

Init ==
  /\ main = "typing" /\ closing = 0 /\ closeTo = 0
  /\ file = OldText /\ failed = FALSE
  /\ posts = 0
  /\ net = "idle" /\ arg = 0
  /\ ready = << >> /\ acceptor_ = "Listening" /\ stopped = FALSE
  /\ sessions_ = << >> /\ open = {}
  /\ connected = {} /\ gone = {}
  /\ undefined = FALSE

BroadcastHandler     == [kind |-> "Broadcast"]
AcceptedHandler(c)   == [kind |-> "Accepted", client |-> c]
AcceptFailedHandler  == [kind |-> "AcceptFailed"]
AcceptAbortedHandler == [kind |-> "AcceptAborted"]
SendFailedHandler(c) == [kind |-> "SendFailed", client |-> c]

-----------------------------------------------------------------------------
(* The main thread.                                                        *)

(* A key: broadcast_buffer posts the text. *)
Type ==
  /\ main = "typing" /\ posts < MaxPosts
  /\ posts' = posts + 1
  /\ ready' = Append(ready, BroadcastHandler)
  /\ UNCHANGED <<main, closing, closeTo, file, failed, netVars, acceptor_, stopped,
                 shared, peers, undefined>>

(* Quit: save_file opens the file, which empties it. *)
Quit ==
  /\ main = "typing"
  /\ main' = "writing"
  /\ file' = << >>
  /\ UNCHANGED <<closing, closeTo, failed, posts, netVars, asioVars, shared, peers, undefined>>

WriteBlock ==
  /\ main = "writing" /\ file # NewText
  /\ file' = Append(file, NewText[Len(file) + 1])
  /\ UNCHANGED <<main, closing, closeTo, failed, posts, netVars, asioVars, shared,
                 peers, undefined>>

(* A write fails: the stream ignores what is put into it from then on, and *)
(* nobody asks it.                                                         *)
WriteFails ==
  /\ main = "writing" /\ file # NewText
  /\ failed' = TRUE
  /\ main' = "posting"
  /\ UNCHANGED <<closing, closeTo, file, posts, netVars, asioVars, shared, peers, undefined>>

(* save_file returns when everything has been written. *)
CloseFile ==
  /\ main = "writing" /\ file = NewText
  /\ main' = "posting"
  /\ UNCHANGED <<closing, closeTo, file, failed, posts, netVars, asioVars, shared,
                 peers, undefined>>

(* Quit is broadcast like any other key. *)
PostLast ==
  /\ main = "posting"
  /\ main' = "closeAcceptor"
  /\ ready' = Append(ready, BroadcastHandler)
  /\ UNCHANGED <<closing, closeTo, file, failed, posts, netVars, acceptor_, stopped,
                 shared, peers, undefined>>

(* Mutant of CloseAcceptor: connections are still accepted.                *)
LeaveAcceptor ==
  /\ main = "closeAcceptor"
  /\ main' = "closing" /\ closing' = 1 /\ closeTo' = Len(sessions_)
  /\ UNCHANGED <<file, failed, posts, netVars, asioVars, shared, peers, undefined>>

(* stop: the acceptor is closed, which aborts the accept that is           *)
(* outstanding, and the loop over sessions_ starts.                        *)
CloseAcceptor ==
  /\ main = "closeAcceptor"
  /\ acceptor_' = "Closed"
  /\ ready' = IF acceptor_ = "Listening" THEN Append(ready, AcceptAbortedHandler)
              ELSE ready
  /\ main' = "closing" /\ closing' = 1 /\ closeTo' = Len(sessions_)
  /\ UNCHANGED <<file, failed, posts, netVars, stopped, shared, peers, undefined>>

CloseSession ==
  /\ main = "closing" /\ closing <= closeTo
  /\ open' = IF closing <= Len(sessions_) THEN open \ {sessions_[closing]} ELSE open
  /\ closing' = closing + 1
  /\ UNCHANGED <<main, closeTo, file, failed, posts, netVars, asioVars, sessions_,
                 peers, undefined>>

(* sessions_.clear().  A session that asio still reads from survives in    *)
(* the handler of that read; the others go, and their sockets with them.   *)
Clear ==
  /\ main = "closing" /\ closing > closeTo
  /\ main' = "stopping"
  /\ sessions_' = << >>
  /\ open' = open \ (Range(sessions_) \cap gone)
  /\ UNCHANGED <<closing, closeTo, file, failed, posts, netVars, asioVars, peers, undefined>>


StopContext ==
  /\ main = "stopping"
  /\ stopped' = TRUE
  /\ main' = "joining"
  /\ UNCHANGED <<closing, closeTo, file, failed, posts, netVars, ready, acceptor_,
                 shared, peers, undefined>>

Join ==
  /\ main = "joining" /\ net = "gone"
  /\ main' = "destroying"
  /\ UNCHANGED <<closing, closeTo, file, failed, posts, netVars, asioVars, shared,
                 peers, undefined>>

(* ~Editor destroys its members last to first: io_context_, and with it    *)
(* the handlers that never ran and the sessions only they held, goes       *)
(* before server_.  A socket that is still open in sessions_ then          *)
(* deregisters from a reactor that is no more.                             *)
Outliving == open \cap Range(sessions_)

Destroy ==
  /\ main = "destroying"
  /\ main' = "exited"
  /\ ready' = << >>
  /\ open' = Outliving
  /\ undefined' = (Outliving # {})
  /\ UNCHANGED <<closing, closeTo, file, failed, posts, netVars, acceptor_, stopped,
                 sessions_, peers>>

MainThread ==
  \/ WriteBlock \/ WriteFails \/ CloseFile
  \/ PostLast \/ CloseAcceptor \/ CloseSession \/ Clear \/ StopContext
  \/ Join \/ Destroy

-----------------------------------------------------------------------------
(* The network thread: scheduler::run and the handlers.                    *)

(* Mutant of FirstStep: start_accept's handler does not test for an error. *)
FirstStepWhateverError(kind) ==
  CASE kind = "Broadcast"     -> "broadcasting"
    [] kind \in {"Accepted", "AcceptFailed", "AcceptAborted"} -> "push"
    [] kind = "SendFailed"    -> "closeSocket"

(* The first handler that is ready is taken, and the thread goes to its    *)
(* first access.                                                           *)
FirstStep(kind) ==
  CASE kind = "Broadcast"     -> "broadcasting"
    [] kind = "Accepted"      -> "push"
    [] kind = "AcceptFailed"  -> "accept"
    [] kind = "AcceptAborted" -> "idle"
    [] kind = "SendFailed"    -> "closeSocket"

FirstArg(handler) ==
  CASE handler.kind = "Broadcast"                  -> 1
    [] handler.kind \in {"Accepted", "SendFailed"} -> handler.client
    [] handler.kind \in {"AcceptFailed", "AcceptAborted"} -> 0

TakeHandler ==
  /\ net = "idle" /\ ~ stopped /\ ready # << >>
  /\ ready' = Tail(ready)
  /\ net' = FirstStep(Head(ready).kind)
  /\ arg' = FirstArg(Head(ready))
  /\ UNCHANGED <<mainVars, acceptor_, stopped, shared, peers, undefined>>

(* Reading from a client goes on until it hangs up. *)
Outstanding == ready # << >> \/ acceptor_ = "Listening" \/ open \ gone # {}

(* run returns when it is stopped or nothing is outstanding. *)
LeaveRun ==
  /\ net = "idle" /\ (stopped \/ ~ Outstanding)
  /\ net' = "gone"
  /\ UNCHANGED <<mainVars, arg, asioVars, shared, peers, undefined>>

(* What asio does with a send on the socket of c: it is closed, its client *)
(* is gone, or the frame is on its way.                                    *)
AfterSend(c) ==
  IF c \in open /\ c \in gone THEN Append(ready, SendFailedHandler(c)) ELSE ready

(* broadcast, one turn of its loop: a session that is closed is erased.    *)
BroadcastStep ==
  /\ net = "broadcasting"
  /\ IF arg > Len(sessions_)
     THEN net' = "idle" /\ UNCHANGED <<arg, ready, sessions_>>
     ELSE /\ net' = net
          /\ IF sessions_[arg] \in open
             THEN /\ ready' = AfterSend(sessions_[arg])
                  /\ arg' = arg + 1
                  /\ UNCHANGED sessions_
             ELSE /\ sessions_' = RemoveAt(sessions_, arg)
                  /\ UNCHANGED <<ready, arg>>
  /\ UNCHANGED <<mainVars, acceptor_, stopped, open, peers, undefined>>

(* start_accept's handler: push_back, then start and send_buffer on the    *)
(* new session's socket, then start_accept.                                *)
PushBack ==
  /\ net = "push"
  /\ sessions_' = Append(sessions_, arg)
  /\ net' = "useSocket"
  /\ UNCHANGED <<mainVars, arg, asioVars, open, peers, undefined>>

UseSocket ==
  /\ net = "useSocket"
  /\ ready' = AfterSend(arg)
  /\ net' = "accept"
  /\ UNCHANGED <<mainVars, arg, acceptor_, stopped, shared, peers, undefined>>

(* Accepting on a closed acceptor fails at once, and the handler of that   *)
(* failure starts the next accept.                                         *)
StartAccept ==
  /\ net = "accept"
  /\ IF acceptor_ = "Closed"
     THEN ready' = Append(ready, AcceptFailedHandler) /\ UNCHANGED acceptor_
     ELSE acceptor_' = "Listening" /\ UNCHANGED ready
  /\ net' = "idle"
  /\ UNCHANGED <<mainVars, arg, stopped, shared, peers, undefined>>

(* send_buffer's handler on an error. *)
CloseSocket ==
  /\ net = "closeSocket"
  /\ open' = open \ {arg}
  /\ net' = "idle"
  /\ UNCHANGED <<mainVars, arg, asioVars, sessions_, peers, undefined>>

NetworkThread ==
  \/ TakeHandler \/ LeaveRun \/ BroadcastStep
  \/ PushBack \/ UseSocket \/ StartAccept \/ CloseSocket

-----------------------------------------------------------------------------
(* The clients.                                                            *)

Connect(c) ==
  /\ net # "gone" /\ acceptor_ = "Listening" /\ c \notin connected
  /\ connected' = connected \cup {c}
  /\ open' = open \cup {c}
  /\ acceptor_' = "Open"
  /\ ready' = Append(ready, AcceptedHandler(c))
  /\ UNCHANGED <<mainVars, netVars, stopped, sessions_, gone, undefined>>

HangUp(c) ==
  /\ c \in connected \ gone
  /\ gone' = gone \cup {c}
  /\ UNCHANGED <<mainVars, netVars, asioVars, shared, connected, undefined>>

-----------------------------------------------------------------------------
(* Undefined behaviour.                                                    *)

Acceptor  == <<"acceptor_">>
Sessions  == <<"sessions_">>
Socket(c) == <<"socket", c>>

(* What the next access of each thread reads and writes of what they       *)
(* share.  The sockets are not safe to share (basic_stream_socket.hpp:46), *)
(* and neither is a vector.                                                *)
MainReads  == IF main = "closing" /\ closing <= closeTo THEN {Sessions} ELSE {}

MainWrites ==
  CASE main = "closeAcceptor" -> {Acceptor}
    [] main = "closing"       ->
         IF closing > closeTo THEN {Sessions}
         ELSE IF closing <= Len(sessions_) THEN {Socket(sessions_[closing])} ELSE {}
    [] OTHER                  -> {}

NetReads == IF net = "broadcasting" THEN {Sessions} ELSE {}

NetWrites ==
  CASE net = "push"         -> {Sessions}
    [] net \in {"useSocket", "closeSocket"} -> {Socket(arg)}
    [] net = "accept"       -> {Acceptor}
    [] net = "broadcasting" ->
         IF arg > Len(sessions_) THEN {}
         ELSE IF sessions_[arg] \in open THEN {Socket(sessions_[arg])} ELSE {Sessions}
    [] OTHER                -> {}

Racing ==
  \/ MainWrites \cap (NetReads \cup NetWrites) # {}
  \/ MainReads \cap NetWrites # {}

Race ==
  /\ Racing
  /\ undefined' = TRUE
  /\ UNCHANGED <<mainVars, netVars, asioVars, shared, peers>>

Next ==
  ~ undefined /\ \/ Type \/ Quit \/ MainThread \/ NetworkThread
                 \/ \E c \in Client : Connect(c) \/ HangUp(c)
                 \/ Race

Spec == Init /\ [][Next]_svars

(* Both threads go on as long as they can; the user need not quit, and     *)
(* clients need not come or go.                                            *)
FairSpec ==
  /\ Spec
  /\ WF_svars(~ undefined /\ MainThread)
  /\ WF_svars(~ undefined /\ NetworkThread)
=============================================================================
