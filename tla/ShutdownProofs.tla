--------------------------- MODULE ShutdownProofs ---------------------------
(***************************************************************************)
(* What holds of a host that quits, for any number of clients, texts and   *)
(* broadcasts.                                                             *)
(***************************************************************************)
EXTENDS ShutdownProperties, FiniteSetTheorems, SequenceTheorems, TLAPS

Quitting == {"closing", "stopping", "joining", "destroying", "exited"}

Handler ==
  [kind : {"Broadcast", "AcceptFailed", "AcceptAborted"}]
    \cup [kind : {"Accepted", "SendFailed"}, client : Client]

(* The handlers of an accept, and the steps of one.                        *)
AcceptKinds == {"Accepted", "AcceptFailed", "AcceptAborted"}
Accepting   == {"push", "useSocket", "accept"}

(* Types, of what asio holds too.                                          *)
Types ==
  /\ main \in {"typing", "writing", "posting", "closeAcceptor", "closing",
               "stopping", "joining", "destroying", "exited"}
  /\ closing \in Nat /\ closeTo \in Nat
  /\ {failed, stopped, undefined} \subseteq BOOLEAN
  /\ posts \in 0 .. MaxPosts
  /\ net \in {"idle", "broadcasting", "push", "useSocket", "accept", "closeSocket",
              "gone"}
  /\ net = "broadcasting" => arg \in Nat \ {0}
  /\ net \in {"push", "useSocket", "closeSocket"} => arg \in Client
  /\ ready \in Seq(Handler)
  /\ acceptor_ \in {"Listening", "Open", "Closed"}
  /\ sessions_ \in Seq(Client)
  /\ open \subseteq connected /\ gone \subseteq connected /\ connected \subseteq Client

(* The file, of which a part is written.                                   *)
FileInv ==
  /\ file \in Seq(Block)
  /\ main = "writing" => /\ Len(file) <= Len(NewText)
                         /\ \A i \in 1 .. Len(file) : file[i] = NewText[i]

NoAccepts == \A i \in 1 .. Len(ready) : ready[i].kind \notin AcceptKinds

(* There is one accept: outstanding, ready or being handled.               *)
OneAccept ==
  /\ \A i, j \in 1 .. Len(ready) :
       ready[i].kind \in AcceptKinds /\ ready[j].kind \in AcceptKinds => i = j
  /\ net \in Accepting \/ acceptor_ = "Listening" => NoAccepts
  /\ ~ (net \in Accepting /\ acceptor_ = "Listening")
  /\ main \in Quitting => acceptor_ = "Closed"

(* After sessions_.clear() there is room for that one only.                *)
LateInv ==
  main \in {"stopping", "joining", "destroying"} =>
    /\ Len(sessions_) <= 1
    /\ Len(sessions_) = 1 =>
         /\ net # "push"
         /\ \A i \in 1 .. Len(ready) : ready[i].kind # "Accepted"

(* A client that is accepted has no session yet.                           *)
FreshInv ==
  /\ sessions_ \in Seq(connected) /\ IsInjective(sessions_)
  /\ net = "push" => arg \in connected \ Range(sessions_)
  /\ \A i \in 1 .. Len(ready) :
       ready[i].kind = "Accepted" => ready[i].client \in connected \ Range(sessions_)

-----------------------------------------------------------------------------
(* RemoveAt, which is vector's erase: one element less, the others in      *)
(* their order.                                                            *)
LEMMA RemoveAtFacts ==
  ASSUME NEW S, NEW s \in Seq(S), NEW i \in 1 .. Len(s)
  PROVE  /\ RemoveAt(s, i) \in Seq(S)
         /\ Len(RemoveAt(s, i)) = Len(s) - 1
         /\ \A k \in 1 .. Len(s) - 1 :
              RemoveAt(s, i)[k] = IF k < i THEN s[k] ELSE s[k + 1]
<1> DEFINE before == SubSeq(s, 1, i - 1)
           after  == SubSeq(s, i + 1, Len(s))
<1>0. Len(s) \in Nat /\ \A k \in 1 .. Len(s) : s[k] \in S
  BY LenProperties, ElementOfSeq
<1>1. /\ before \in Seq(S) /\ Len(before) = i - 1
      /\ \A k \in 1 .. i - 1 : before[k] = s[k]
  BY <1>0, SubSeqProperties
<1>2. /\ after \in Seq(S) /\ Len(after) = Len(s) - i
      /\ \A k \in 1 .. Len(s) - i : after[k] = s[k + i]
  BY <1>0, SubSeqProperties
<1> HIDE DEF before, after
<1>3. /\ before \o after \in Seq(S)
      /\ Len(before \o after) = Len(before) + Len(after)
      /\ \A k \in 1 .. Len(before) + Len(after) :
           (before \o after)[k] = IF k <= Len(before) THEN before[k]
                                  ELSE after[k - Len(before)]
  BY <1>1, <1>2, ConcatProperties, Zenon
<1>4. ASSUME NEW k \in 1 .. Len(s) - 1
      PROVE  (before \o after)[k] = IF k < i THEN s[k] ELSE s[k + 1]
  <2>1. CASE k < i
    BY <1>0, <1>1, <1>2, <1>3, <2>1
  <2>2. CASE ~ (k < i)
    <3>1. (before \o after)[k] = after[k - (i - 1)]
      BY <1>0, <1>1, <1>2, <1>3, <2>2
    <3> QED BY <1>0, <1>2, <2>2, <3>1
  <2> QED BY <2>1, <2>2
<1>5. Len(before \o after) = Len(s) - 1
  BY <1>0, <1>1, <1>2, <1>3
<1> QED BY <1>3, <1>4, <1>5 DEF RemoveAt, before, after

(* Append, where it is a handler that becomes ready.                       *)
LEMMA AppendFacts ==
  ASSUME NEW S, NEW s \in Seq(S), NEW e \in S
  PROVE  /\ Append(s, e) \in Seq(S)
         /\ Len(Append(s, e)) = Len(s) + 1
         /\ \A k \in 1 .. Len(s) : Append(s, e)[k] = s[k]
         /\ Append(s, e)[Len(s) + 1] = e
OBVIOUS

(* What a send leaves ready: the same, and at most one failed send more.   *)
LEMMA AfterSendFacts ==
  ASSUME ready \in Seq(Handler), NEW c \in Client
  PROVE  /\ AfterSend(c) \in Seq(Handler)
         /\ Len(AfterSend(c)) >= Len(ready)
         /\ \A i \in 1 .. Len(AfterSend(c)) :
              IF i <= Len(ready) THEN AfterSend(c)[i] = ready[i]
              ELSE AfterSend(c)[i].kind = "SendFailed"
<1>1. SendFailedHandler(c) \in Handler /\ SendFailedHandler(c).kind = "SendFailed"
  BY DEF SendFailedHandler, Handler
<1>2. Len(ready) \in Nat
  BY LenProperties
<1>3. CASE AfterSend(c) = ready
  BY <1>2, <1>3
<1>4. CASE AfterSend(c) = Append(ready, SendFailedHandler(c))
  <2> DEFINE h == SendFailedHandler(c)
             r == Append(ready, h)
  <2>1. /\ r \in Seq(Handler) /\ Len(r) = Len(ready) + 1
        /\ \A k \in 1 .. Len(ready) : r[k] = ready[k]
        /\ r[Len(ready) + 1] = h
    BY <1>1, AppendFacts
  <2>2. h.kind = "SendFailed"
    BY <1>1
  <2> HIDE DEF h, r
  <2>3. AfterSend(c) = r
    BY <1>4 DEF h, r
  <2> QED BY <1>2, <2>1, <2>2, <2>3
<1> QED BY <1>3, <1>4 DEF AfterSend

-----------------------------------------------------------------------------
(* Type correctness.                                                       *)

LEMMA TypesInit == Init => Types
<1> SUFFICES ASSUME Init PROVE Types
  OBVIOUS
<1>1. ready \in Seq(Handler) /\ sessions_ \in Seq(Client)
  BY EmptySeq DEF Init
<1>2. failed \in BOOLEAN /\ stopped \in BOOLEAN /\ undefined \in BOOLEAN
  BY Zenon DEF Init
<1> QED BY <1>1, <1>2, ShutdownAssumption DEF Init, Types

LEMMA TypesStep == Types /\ [Next]_svars => Types'
<1> SUFFICES ASSUME Types, [Next]_svars PROVE Types'
  OBVIOUS
<1> USE DEF Types
<1>h. /\ BroadcastHandler \in Handler
      /\ AcceptFailedHandler \in Handler
      /\ AcceptAbortedHandler \in Handler
      /\ \A c \in Client : AcceptedHandler(c) \in Handler
  BY DEF Handler, BroadcastHandler, AcceptFailedHandler, AcceptAbortedHandler,
         AcceptedHandler
<1>a. \A h \in Handler : Append(ready, h) \in Seq(Handler)
  BY AppendFacts
<1>1. CASE Type
  BY <1>1, <1>a, <1>h, ShutdownAssumption DEF Type, netVars, shared, peers
<1>2. CASE Quit \/ WriteBlock \/ WriteFails \/ CloseFile
  BY <1>2 DEF Quit, WriteBlock, WriteFails, CloseFile, netVars, asioVars, shared,
              peers
<1>3. CASE PostLast
  BY <1>3, <1>a, <1>h DEF PostLast, netVars, shared, peers
<1>4. CASE CloseAcceptor
  <2>1. ready' \in Seq(Handler) /\ Len(sessions_) \in Nat
    BY <1>4, <1>a, <1>h, LenProperties DEF CloseAcceptor
  <2> QED BY <1>4, <2>1 DEF CloseAcceptor, netVars, shared, peers
<1>5. CASE CloseSession
  BY <1>5 DEF CloseSession, netVars, asioVars, peers
<1>6. CASE Clear
  <2>1. sessions_' \in Seq(Client)
    BY <1>6, EmptySeq DEF Clear
  <2> QED BY <1>6, <2>1 DEF Clear, netVars, asioVars, peers
<1>7. CASE StopContext \/ Join
  BY <1>7 DEF StopContext, Join, netVars, asioVars, shared, peers
<1>8. CASE Destroy
  <2>1. ready' \in Seq(Handler)
    BY <1>8, EmptySeq DEF Destroy
  <2>2. (Outliving # {}) \in BOOLEAN
    OBVIOUS
  <2>3. undefined' \in BOOLEAN
    BY <1>8, <2>2, Zenon DEF Destroy
  <2> QED BY <1>8, <2>1, <2>3 DEF Destroy, Outliving, netVars, shared, peers
<1>9. CASE TakeHandler
  <2>1. Head(ready) \in Handler /\ ready' \in Seq(Handler)
    BY <1>9, HeadTailProperties DEF TakeHandler
  <2>2. PICK h \in Handler : h = Head(ready)
    BY <2>1
  <2>3. /\ net' \in {"broadcasting", "push", "accept", "idle", "closeSocket"}
        /\ net' = "broadcasting" => h.kind = "Broadcast"
        /\ net' \in {"push", "useSocket", "closeSocket"} =>
             h.kind \in {"Accepted", "SendFailed"}
    BY <1>9, <2>2 DEF TakeHandler, FirstStep, Handler
  <2>4. /\ h.kind = "Broadcast" => arg' = 1
        /\ h.kind \in {"Accepted", "SendFailed"} => arg' \in Client
    BY <1>9, <2>2 DEF TakeHandler, FirstArg, Handler
  <2> QED BY <1>9, <2>1, <2>3, <2>4 DEF TakeHandler, mainVars, shared, peers
<1>10. CASE LeaveRun
  BY <1>10 DEF LeaveRun, mainVars, asioVars, shared, peers
<1>11. CASE BroadcastStep
  <2>1. CASE arg > Len(sessions_)
    BY <1>11, <2>1 DEF BroadcastStep, mainVars, peers
  <2>2. CASE ~ (arg > Len(sessions_))
    <3>1. arg \in 1 .. Len(sessions_) /\ sessions_[arg] \in Client
      BY <1>11, <2>2, LenProperties, ElementOfSeq DEF BroadcastStep
    <3>2. RemoveAt(sessions_, arg) \in Seq(Client)
      BY <3>1, RemoveAtFacts
    <3>3. AfterSend(sessions_[arg]) \in Seq(Handler)
      BY <3>1, AfterSendFacts
    <3> QED BY <1>11, <2>2, <3>1, <3>2, <3>3 DEF BroadcastStep, mainVars, peers
  <2> QED BY <2>1, <2>2
<1>12. CASE PushBack
  <2>1. sessions_' \in Seq(Client)
    BY <1>12, AppendFacts DEF PushBack
  <2> QED BY <1>12, <2>1 DEF PushBack, mainVars, asioVars, peers
<1>13. CASE UseSocket
  BY <1>13, AfterSendFacts DEF UseSocket, mainVars, shared, peers
<1>14. CASE StartAccept
  BY <1>14, <1>a, <1>h DEF StartAccept, mainVars, shared, peers
<1>15. CASE CloseSocket
  BY <1>15 DEF CloseSocket, mainVars, asioVars, peers
<1>16. ASSUME NEW c \in Client, Connect(c)
       PROVE  Types'
  BY <1>16, <1>a, <1>h DEF Connect, mainVars, netVars
<1>17. ASSUME NEW c \in Client, HangUp(c)
       PROVE  Types'
  BY <1>17 DEF HangUp, mainVars, netVars, asioVars, shared
<1>18. CASE Race
  BY <1>18 DEF Race, mainVars, netVars, asioVars, shared, peers
<1>19. CASE UNCHANGED svars
  BY <1>19 DEF svars, mainVars, netVars, asioVars, shared, peers
<1> QED BY <1>1, <1>2, <1>3, <1>4, <1>5, <1>6, <1>7, <1>8, <1>9, <1>10, <1>11, <1>12,
           <1>13, <1>14, <1>15, <1>16, <1>17, <1>18, <1>19
        DEF Next, MainThread, NetworkThread

-----------------------------------------------------------------------------
(* The file.                                                               *)

LEMMA FileInit == Init => FileInv
BY ShutdownAssumption, Zenon DEF Init, FileInv

LEMMA FileStep == Types /\ FileInv /\ [Next]_svars => FileInv'
<1> SUFFICES ASSUME Types, FileInv, [Next]_svars PROVE FileInv'
  OBVIOUS
<1> USE DEF FileInv
<1>t. Len(file) \in Nat /\ Len(NewText) \in Nat /\ NewText \in Seq(Block)
  BY ShutdownAssumption, LenProperties
<1>1. CASE Quit
  <2>1. file' \in Seq(Block) /\ Len(file') = 0
    BY <1>1, EmptySeq DEF Quit
  <2> QED BY <1>1, <1>t, <2>1 DEF Quit
<1>2. CASE WriteBlock
  <2>1. Len(file) # Len(NewText)
    <3> SUFFICES ASSUME Len(file) = Len(NewText) PROVE FALSE
      OBVIOUS
    <3>1. file = NewText
      BY <1>2, <1>t, SeqEqual DEF WriteBlock
    <3> QED BY <1>2, <3>1 DEF WriteBlock
  <2>2. Len(file) + 1 \in 1 .. Len(NewText)
    BY <1>2, <1>t, <2>1 DEF WriteBlock
  <2>3. NewText[Len(file) + 1] \in Block
    BY <1>t, <2>2, ElementOfSeq
  <2> DEFINE e == NewText[Len(file) + 1]
  <2>4. /\ Append(file, e) \in Seq(Block)
        /\ Len(Append(file, e)) = Len(file) + 1
        /\ \A k \in 1 .. Len(file) : Append(file, e)[k] = file[k]
        /\ Append(file, e)[Len(file) + 1] = e
    BY <2>3, AppendFacts
  <2>5. file' = Append(file, e) /\ main = "writing" /\ main' = main
    BY <1>2 DEF WriteBlock
  <2>6. ASSUME NEW i \in 1 .. Len(file')
        PROVE  file'[i] = NewText[i]
    BY <1>t, <2>4, <2>5
  <2> QED BY <1>t, <2>2, <2>4, <2>5, <2>6
<1>3. CASE UNCHANGED file /\ main' # "writing"
  BY <1>3
<1>4. CASE UNCHANGED <<main, file>>
  BY <1>4
<1>5. \/ Quit \/ WriteBlock
      \/ UNCHANGED file /\ main' # "writing"
      \/ UNCHANGED <<main, file>>
  BY DEF Next, MainThread, NetworkThread, Type, WriteFails, CloseFile, PostLast,
         CloseAcceptor, CloseSession, Clear, StopContext, Join, Destroy, TakeHandler,
         LeaveRun, BroadcastStep, PushBack, UseSocket, StartAccept, CloseSocket,
         Connect, HangUp, Race, svars, mainVars
<1> QED BY <1>1, <1>2, <1>3, <1>4, <1>5

-----------------------------------------------------------------------------
(* There is one accept at a time.                                          *)

(* A handler that is not an accept's does not matter.                      *)
LEMMA ReadyGrows ==
  ASSUME Types, NEW h \in Handler, h.kind \notin AcceptKinds, ready' = Append(ready, h)
  PROVE  \A i \in 1 .. Len(ready') : \/ i \in 1 .. Len(ready) /\ ready'[i] = ready[i]
                                     \/ ready'[i].kind \notin AcceptKinds
<1>1. /\ Len(ready) \in Nat /\ Len(ready') = Len(ready) + 1
      /\ \A k \in 1 .. Len(ready) : ready'[k] = ready[k]
      /\ ready'[Len(ready) + 1] = h
  BY AppendFacts, LenProperties DEF Types
<1> QED BY <1>1

LEMMA SendGrows ==
  ASSUME Types, NEW c \in Client, ready' = AfterSend(c)
  PROVE  \A i \in 1 .. Len(ready') : \/ i \in 1 .. Len(ready) /\ ready'[i] = ready[i]
                                     \/ ready'[i].kind \notin AcceptKinds
<1>1. /\ Len(ready) \in Nat
      /\ \A i \in 1 .. Len(ready') :
           IF i <= Len(ready) THEN ready'[i] = ready[i] ELSE ready'[i].kind = "SendFailed"
  BY AfterSendFacts, LenProperties DEF Types
<1> QED BY <1>1 DEF AcceptKinds

LEMMA OneAcceptInit == Init => OneAccept /\ LateInv
BY EmptySeq DEF Init, OneAccept, NoAccepts, LateInv, Accepting, Quitting

LEMMA OneAcceptStep == Types /\ OneAccept /\ [Next]_svars => OneAccept'
<1> SUFFICES ASSUME Types, OneAccept, [Next]_svars PROVE OneAccept'
  OBVIOUS
<1> USE DEF OneAccept, NoAccepts, Accepting
<1>t. Len(ready) \in Nat /\ ready \in Seq(Handler)
  BY LenProperties DEF Types
<1>h. /\ BroadcastHandler \in Handler /\ BroadcastHandler.kind \notin AcceptKinds
      /\ AcceptFailedHandler \in Handler
      /\ AcceptAbortedHandler \in Handler
      /\ \A c \in Client : AcceptedHandler(c) \in Handler
  BY DEF Handler, BroadcastHandler, AcceptFailedHandler, AcceptAbortedHandler,
         AcceptedHandler, AcceptKinds
<1>g. ASSUME \A i \in 1 .. Len(ready') :
               \/ (i \in 1 .. Len(ready) /\ ready'[i] = ready[i])
               \/ ready'[i].kind \notin AcceptKinds,
             acceptor_' = acceptor_,
             net' \in Accepting => net \in Accepting,
             main' \in Quitting => main \in Quitting
      PROVE  OneAccept'
  BY <1>g
<1>n. ASSUME NEW h \in Handler, ready' = Append(ready, h), NoAccepts,
             ~ (net' \in Accepting), acceptor_' # "Listening",
             main' \in Quitting => acceptor_' = "Closed"
      PROVE  OneAccept'
  <2>1. /\ Len(ready') = Len(ready) + 1
        /\ \A k \in 1 .. Len(ready) : ready'[k] = ready[k]
    BY <1>t, <1>n, AppendFacts
  <2> QED BY <1>t, <1>n, <2>1
<1>1. CASE Type \/ PostLast
  <2>1. ready' = Append(ready, BroadcastHandler)
    BY <1>1 DEF Type, PostLast
  <2>2. /\ acceptor_' = acceptor_ /\ net' = net
        /\ main' \notin Quitting
    BY <1>1 DEF Type, PostLast, netVars, Quitting
  <2> QED BY <1>g, <1>h, <2>1, <2>2, ReadyGrows
<1>2. CASE CloseAcceptor
  <2>1. CASE acceptor_ = "Listening"
    BY <1>2, <1>h, <1>n, <2>1 DEF CloseAcceptor, netVars, Quitting
  <2>2. CASE acceptor_ # "Listening"
    BY <1>2, <2>2 DEF CloseAcceptor, netVars, Quitting
  <2> QED BY <2>1, <2>2
<1>3. CASE Destroy
  <2>1. Len(ready') = 0
    BY <1>3, EmptySeq DEF Destroy
  <2> QED BY <1>3, <2>1 DEF Destroy, netVars, Quitting
<1>4. CASE TakeHandler
  <2>1. /\ Len(ready') = Len(ready) - 1
        /\ \A i \in 1 .. Len(ready') : ready'[i] = ready[i + 1]
        /\ Head(ready) = ready[1]
    BY <1>4, <1>t, HeadTailProperties DEF TakeHandler
  <2>2. Len(ready) # 0
    BY <1>4, <1>t, EmptySeq DEF TakeHandler
  <2>3. Head(ready) \in Handler
    BY <1>4, <1>t, HeadTailProperties DEF TakeHandler
  <2>4. net' \in Accepting => ready[1].kind \in AcceptKinds
    <3>1. ready[1].kind \in {"Broadcast", "AcceptFailed", "AcceptAborted", "Accepted",
                             "SendFailed"}
      BY <2>1, <2>3 DEF Handler
    <3> QED BY <1>4, <2>1, <3>1 DEF TakeHandler, FirstStep, AcceptKinds
  <2> QED BY <1>4, <1>t, <2>1, <2>2, <2>4 DEF TakeHandler, mainVars
<1>5. CASE BroadcastStep
  <2>1. \A i \in 1 .. Len(ready') : \/ i \in 1 .. Len(ready) /\ ready'[i] = ready[i]
                                    \/ ready'[i].kind \notin AcceptKinds
    <3>1. CASE ready' = ready
      BY <3>1
    <3>2. CASE arg \in 1 .. Len(sessions_) /\ ready' = AfterSend(sessions_[arg])
      <4>1. sessions_[arg] \in Client
        BY <3>2, ElementOfSeq DEF Types
      <4> QED BY <3>2, <4>1, SendGrows
    <3> QED BY <1>5, <3>1, <3>2, LenProperties DEF BroadcastStep, Types
  <2> QED BY <1>5, <1>g, <2>1 DEF BroadcastStep, mainVars
<1>6. CASE UseSocket
  <2>1. arg \in Client /\ ready' = AfterSend(arg)
    BY <1>6 DEF UseSocket, Types
  <2> QED BY <1>6, <1>g, <2>1, SendGrows DEF UseSocket, mainVars
<1>7. CASE StartAccept
  <2>1. CASE acceptor_ = "Closed"
    BY <1>7, <1>h, <1>n, <2>1 DEF StartAccept, mainVars
  <2>2. CASE acceptor_ # "Closed"
    BY <1>7, <2>2 DEF StartAccept, mainVars
  <2> QED BY <2>1, <2>2
<1>8. ASSUME NEW c \in Client, Connect(c)
      PROVE  OneAccept'
  BY <1>8, <1>h, <1>n DEF Connect, mainVars, netVars
<1>9. CASE /\ UNCHANGED <<ready, acceptor_>>
           /\ net' \in Accepting => net \in Accepting
           /\ main' \in Quitting => main \in Quitting
  BY <1>9
<1>10. \/ Type \/ PostLast \/ CloseAcceptor \/ Destroy
       \/ TakeHandler \/ BroadcastStep \/ UseSocket \/ StartAccept
       \/ \E c \in Client : Connect(c)
       \/ /\ UNCHANGED <<ready, acceptor_>>
          /\ net' \in Accepting => net \in Accepting
          /\ main' \in Quitting => main \in Quitting
  BY DEF Next, MainThread, NetworkThread, Quit, WriteBlock, WriteFails, CloseFile,
         CloseSession, Clear, StopContext, Join, LeaveRun, PushBack, CloseSocket, HangUp,
         Race, svars, mainVars, netVars, asioVars, Quitting
<1> QED BY <1>1, <1>2, <1>3, <1>4, <1>5, <1>6, <1>7, <1>8, <1>9, <1>10

-----------------------------------------------------------------------------
(* What is in sessions_ once it has been cleared.                          *)

Stopping == {"stopping", "joining", "destroying"}

LEMMA LateStep == Types /\ OneAccept /\ LateInv /\ [Next]_svars => LateInv'
<1> SUFFICES ASSUME Types, OneAccept, LateInv, [Next]_svars, main' \in Stopping
             PROVE  LateInv'
  BY DEF LateInv, Stopping
<1>t. /\ Len(ready) \in Nat /\ ready \in Seq(Handler)
      /\ Len(sessions_) \in Nat /\ sessions_ \in Seq(Client)
  BY LenProperties DEF Types
<1>l. main \in Stopping => Len(sessions_) <= 1 /\ (Len(sessions_) = 1 => net # "push")
  BY Zenon DEF LateInv, Stopping
<1>1. CASE Clear
  <2>1. Len(sessions_') = 0
    BY <1>1, EmptySeq DEF Clear
  <2> QED BY <2>1 DEF LateInv
<1>2. CASE TakeHandler
  <2>1. main \in Stopping /\ sessions_' = sessions_ /\ main' = main
    BY <1>2 DEF TakeHandler, mainVars, shared
  <2>2. /\ Len(ready') = Len(ready) - 1
        /\ \A i \in 1 .. Len(ready') : ready'[i] = ready[i + 1]
        /\ Head(ready) = ready[1] /\ ready[1] \in Handler
        /\ Len(ready) # 0
    BY <1>2, <1>t, HeadTailProperties, EmptySeq DEF TakeHandler
  <2>3. net' = "push" => ready[1].kind = "Accepted"
    <3>1. ready[1].kind \in {"Broadcast", "AcceptFailed", "AcceptAborted", "Accepted",
                             "SendFailed"}
      BY <2>2 DEF Handler
    <3> QED BY <1>2, <2>2, <3>1 DEF TakeHandler, FirstStep
  <2> QED BY <1>t, <2>1, <2>2, <2>3 DEF LateInv, Stopping
<1>3. CASE BroadcastStep
  <2>1. main \in Stopping /\ main' = main
    BY <1>3 DEF BroadcastStep, mainVars
  <2>2. CASE UNCHANGED <<ready, sessions_>>
    BY <1>3, <2>1, <2>2 DEF BroadcastStep, LateInv, Stopping
  <2>3. CASE /\ arg \in 1 .. Len(sessions_)
             /\ sessions_' = RemoveAt(sessions_, arg) /\ ready' = ready
    <3>1. Len(sessions_') = Len(sessions_) - 1
      BY <1>t, <2>3, RemoveAtFacts
    <3>2. Len(sessions_) = 1
      BY <1>t, <1>l, <2>1, <2>3
    <3> QED BY <3>1, <3>2 DEF LateInv
  <2>4. CASE /\ arg \in 1 .. Len(sessions_)
             /\ sessions_' = sessions_ /\ ready' = AfterSend(sessions_[arg])
    <3>1. sessions_[arg] \in Client
      BY <1>t, <2>4, ElementOfSeq
    <3>2. \A i \in 1 .. Len(ready') : \/ i \in 1 .. Len(ready) /\ ready'[i] = ready[i]
                                      \/ ready'[i].kind \notin AcceptKinds
      BY <2>4, <3>1, SendGrows
    <3> QED BY <1>3, <2>1, <2>4, <3>2 DEF BroadcastStep, LateInv, Stopping, AcceptKinds
  <2> QED BY <1>3, <1>t, <2>2, <2>3, <2>4 DEF BroadcastStep, Types
<1>4. CASE PushBack
  <2>1. main \in Stopping /\ main' = main /\ net' # "push" /\ ready' = ready /\ net = "push"
    BY <1>4 DEF PushBack, mainVars, asioVars
  <2>2. Len(sessions_) = 0 /\ NoAccepts
    <3>1. NoAccepts
      BY <2>1, Zenon DEF OneAccept, Accepting
    <3> QED BY <1>t, <1>l, <2>1, <3>1, SMTT(30)
  <2>3. Len(sessions_') = 1
    BY <1>t, <1>4, <2>2 DEF PushBack
  <2> QED BY <2>1, <2>2, <2>3 DEF LateInv, NoAccepts, AcceptKinds
<1>5. CASE UseSocket
  <2>1. main \in Stopping /\ main' = main /\ net' # "push" /\ sessions_' = sessions_
    BY <1>5 DEF UseSocket, mainVars, shared
  <2>2. arg \in Client /\ ready' = AfterSend(arg)
    BY <1>5 DEF UseSocket, Types
  <2>3. \A i \in 1 .. Len(ready') : \/ i \in 1 .. Len(ready) /\ ready'[i] = ready[i]
                                    \/ ready'[i].kind \notin AcceptKinds
    BY <2>2, SendGrows
  <2> QED BY <2>1, <2>3 DEF LateInv, Stopping, AcceptKinds
<1>6. CASE StartAccept
  <2>1. main \in Stopping /\ main' = main /\ net' # "push" /\ sessions_' = sessions_
    BY <1>6 DEF StartAccept, mainVars, shared
  <2>2. ready' = Append(ready, AcceptFailedHandler)
    BY <1>6, <2>1 DEF StartAccept, OneAccept, Stopping, Quitting
  <2>3. AcceptFailedHandler \in Handler /\ AcceptFailedHandler.kind # "Accepted"
    BY DEF AcceptFailedHandler, Handler
  <2>4. /\ Len(ready') = Len(ready) + 1
        /\ \A k \in 1 .. Len(ready) : ready'[k] = ready[k]
        /\ ready'[Len(ready) + 1] = AcceptFailedHandler
    BY <1>t, <2>2, <2>3, AppendFacts
  <2> QED BY <1>t, <2>1, <2>3, <2>4 DEF LateInv, Stopping
<1>7. CASE /\ UNCHANGED <<ready, sessions_>>
           /\ net' = "push" => net = "push"
           /\ main \in Stopping
  BY <1>7 DEF LateInv, Stopping
<1>8. \/ Clear \/ TakeHandler \/ BroadcastStep \/ PushBack \/ UseSocket \/ StartAccept
      \/ /\ UNCHANGED <<ready, sessions_>>
         /\ net' = "push" => net = "push"
         /\ main \in Stopping
  <2>1. \A c \in Client : ~ Connect(c) \/ main \notin Stopping
    BY DEF Connect, OneAccept, Stopping, Quitting
  <2>2. \A c \in Client : ~ Connect(c)
    BY <2>1 DEF Connect, mainVars
  <2> QED BY <2>2 DEF Next, MainThread, NetworkThread, Type, Quit, WriteBlock, WriteFails,
         CloseFile, PostLast, CloseAcceptor, CloseSession, StopContext, Join, Destroy,
         LeaveRun, CloseSocket, HangUp, Race, svars, mainVars, netVars, asioVars,
         shared, Stopping
<1> QED BY <1>1, <1>2, <1>3, <1>4, <1>5, <1>6, <1>7, <1>8

-----------------------------------------------------------------------------
(* No client has two sessions.                                             *)

LEMMA FreshInit == Init => FreshInv
BY EmptySeq DEF Init, FreshInv, IsInjective

(* An element added that was not there, or one taken away.                 *)
LEMMA RangeOfAppend ==
  ASSUME NEW S, NEW s \in Seq(S), NEW e \in S
  PROVE  /\ Range(Append(s, e)) \subseteq Range(s) \cup {e}
         /\ IsInjective(s) /\ e \notin Range(s) => IsInjective(Append(s, e))
<1>1. /\ Len(s) \in Nat /\ DOMAIN s = 1 .. Len(s)
      /\ Append(s, e) \in Seq(S) /\ Len(Append(s, e)) = Len(s) + 1
      /\ \A k \in 1 .. Len(s) : Append(s, e)[k] = s[k]
      /\ Append(s, e)[Len(s) + 1] = e
  BY AppendFacts, LenProperties
<1>2. DOMAIN Append(s, e) = 1 .. Len(s) + 1
  BY <1>1, LenProperties
<1>3. Range(Append(s, e)) \subseteq Range(s) \cup {e}
  BY <1>1, <1>2 DEF Range
<1>4. ASSUME IsInjective(s), e \notin Range(s)
      PROVE  IsInjective(Append(s, e))
  <2>1. \A k \in 1 .. Len(s) : s[k] # e
    BY <1>1, <1>4 DEF Range
  <2> QED BY <1>1, <1>2, <1>4, <2>1 DEF IsInjective
<1> QED BY <1>3, <1>4

LEMMA RangeOfRemoveAt ==
  ASSUME NEW S, NEW s \in Seq(S), NEW i \in 1 .. Len(s)
  PROVE  /\ Range(RemoveAt(s, i)) \subseteq Range(s)
         /\ IsInjective(s) => IsInjective(RemoveAt(s, i))
<1> DEFINE r == RemoveAt(s, i)
<1>1. /\ Len(s) \in Nat /\ DOMAIN s = 1 .. Len(s)
      /\ DOMAIN r = 1 .. Len(s) - 1
      /\ \A k \in 1 .. Len(s) - 1 : r[k] = IF k < i THEN s[k] ELSE s[k + 1]
  BY RemoveAtFacts, LenProperties
<1> HIDE DEF r
<1>2. \A k \in 1 .. Len(s) - 1 : k \in 1 .. Len(s) /\ k + 1 \in 1 .. Len(s)
  BY <1>1
<1>3. Range(r) \subseteq Range(s)
  BY <1>1, <1>2 DEF Range
<1>4. IsInjective(s) => IsInjective(r)
  BY <1>1, <1>2 DEF IsInjective
<1> QED BY <1>3, <1>4 DEF r

LEMMA FreshStep == Types /\ OneAccept /\ FreshInv /\ [Next]_svars => FreshInv'
<1> SUFFICES ASSUME Types, OneAccept, FreshInv, [Next]_svars PROVE FreshInv'
  OBVIOUS
<1>t. /\ Len(ready) \in Nat /\ ready \in Seq(Handler)
      /\ Len(sessions_) \in Nat /\ sessions_ \in Seq(connected)
      /\ connected \subseteq Client
  BY LenProperties DEF Types, FreshInv
<1>g. ASSUME \A i \in 1 .. Len(ready') :
               \/ (i \in 1 .. Len(ready) /\ ready'[i] = ready[i])
               \/ ready'[i].kind # "Accepted",
             UNCHANGED <<sessions_, connected>>,
             net' = "push" => UNCHANGED netVars
      PROVE  FreshInv'
  BY <1>g, Zenon DEF FreshInv, netVars
<1>1. CASE Type \/ PostLast
  <2>1. BroadcastHandler \in Handler /\ BroadcastHandler.kind = "Broadcast"
    BY DEF BroadcastHandler, Handler
  <2>2. ready' = Append(ready, BroadcastHandler)
    BY <1>1 DEF Type, PostLast
  <2>3. \A i \in 1 .. Len(ready') : \/ i \in 1 .. Len(ready) /\ ready'[i] = ready[i]
                                    \/ ready'[i].kind # "Accepted"
    BY <2>1, <2>2, ReadyGrows DEF AcceptKinds
  <2> QED BY <1>1, <1>g, <2>3 DEF Type, PostLast, shared, peers, netVars
<1>2. CASE CloseAcceptor \/ StartAccept
  <2>1. PICK h \in {AcceptAbortedHandler, AcceptFailedHandler} :
          ready' = ready \/ ready' = Append(ready, h)
    BY <1>2 DEF CloseAcceptor, StartAccept
  <2>2. h \in Handler /\ h.kind # "Accepted"
    BY DEF AcceptAbortedHandler, AcceptFailedHandler, Handler
  <2>3. \A i \in 1 .. Len(ready') : \/ i \in 1 .. Len(ready) /\ ready'[i] = ready[i]
                                    \/ ready'[i].kind # "Accepted"
    <3>1. CASE ready' = ready
      BY <3>1
    <3>2. CASE ready' = Append(ready, h)
      <4>1. /\ Len(ready') = Len(ready) + 1
            /\ \A k \in 1 .. Len(ready) : ready'[k] = ready[k]
            /\ ready'[Len(ready) + 1] = h
        BY <1>t, <2>2, <3>2, AppendFacts
      <4> QED BY <1>t, <2>2, <4>1
    <3> QED BY <2>1, <3>1, <3>2
  <2> QED BY <1>2, <1>g, <2>3 DEF CloseAcceptor, StartAccept, shared, peers, netVars
<1>3. CASE Clear
  <2>1. sessions_' = << >> /\ UNCHANGED <<ready, netVars, connected>>
    BY <1>3 DEF Clear, asioVars, peers
  <2>2. /\ sessions_' \in Seq(connected') /\ IsInjective(sessions_')
        /\ Range(sessions_') = {}
    BY <2>1, EmptySeq DEF IsInjective, Range
  <2> QED BY <2>1, <2>2, Zenon DEF FreshInv, netVars
<1>4. CASE Destroy
  <2>1. Len(ready') = 0
    BY <1>4, EmptySeq DEF Destroy
  <2> QED BY <1>4, <1>g, <2>1 DEF Destroy, netVars, peers
<1>5. CASE TakeHandler
  <2>1. UNCHANGED <<sessions_, connected>>
    BY <1>5 DEF TakeHandler, shared, peers
  <2>2. /\ Len(ready') = Len(ready) - 1
        /\ \A i \in 1 .. Len(ready') : ready'[i] = ready[i + 1]
        /\ Head(ready) = ready[1] /\ ready[1] \in Handler
        /\ Len(ready) # 0
    BY <1>5, <1>t, HeadTailProperties, EmptySeq DEF TakeHandler
  <2>3. net' = "push" => ready[1].kind = "Accepted" /\ arg' = ready[1].client
    <3>1. ready[1].kind \in {"Broadcast", "AcceptFailed", "AcceptAborted", "Accepted",
                             "SendFailed"}
      BY <2>2 DEF Handler
    <3> QED BY <1>5, <2>2, <3>1 DEF TakeHandler, FirstStep, FirstArg
  <2> QED BY <1>t, <2>1, <2>2, <2>3 DEF FreshInv
<1>6. CASE BroadcastStep
  <2>1. net' # "push" /\ UNCHANGED connected
    BY <1>6 DEF BroadcastStep, peers
  <2>2. CASE UNCHANGED <<ready, sessions_>>
    BY <1>g, <2>1, <2>2
  <2>3. CASE /\ arg \in 1 .. Len(sessions_)
             /\ sessions_' = RemoveAt(sessions_, arg) /\ ready' = ready
    <3>1. /\ sessions_' \in Seq(connected)
          /\ Range(sessions_') \subseteq Range(sessions_)
          /\ IsInjective(sessions_')
      BY <1>t, <2>3, RemoveAtFacts, RangeOfRemoveAt DEF FreshInv
    <3> QED BY <2>1, <2>3, <3>1, Zenon DEF FreshInv
  <2>4. CASE /\ arg \in 1 .. Len(sessions_)
             /\ sessions_' = sessions_ /\ ready' = AfterSend(sessions_[arg])
    <3>1. sessions_[arg] \in Client
      BY <1>t, <2>4, ElementOfSeq
    <3>2. \A i \in 1 .. Len(ready') : \/ i \in 1 .. Len(ready) /\ ready'[i] = ready[i]
                                      \/ ready'[i].kind # "Accepted"
      BY <2>4, <3>1, SendGrows DEF AcceptKinds
    <3> QED BY <1>g, <2>1, <2>4, <3>2
  <2> QED BY <1>6, <1>t, <2>2, <2>3, <2>4 DEF BroadcastStep, Types
<1>7. CASE PushBack
  <2>1. /\ sessions_' = Append(sessions_, arg) /\ arg \in connected \ Range(sessions_)
        /\ net' # "push" /\ UNCHANGED <<ready, connected>>
    BY <1>7 DEF PushBack, FreshInv, asioVars, peers
  <2>2. sessions_' \in Seq(connected') /\ IsInjective(sessions_')
    BY <1>t, <2>1, RangeOfAppend, AppendFacts DEF FreshInv
  <2>3. NoAccepts
    BY <1>7, Zenon DEF PushBack, OneAccept, Accepting
  <2> QED BY <2>1, <2>2, <2>3 DEF FreshInv, NoAccepts, AcceptKinds
<1>8. CASE UseSocket
  <2>1. arg \in Client /\ ready' = AfterSend(arg) /\ net' # "push"
    BY <1>8 DEF UseSocket, Types
  <2>2. \A i \in 1 .. Len(ready') : \/ i \in 1 .. Len(ready) /\ ready'[i] = ready[i]
                                    \/ ready'[i].kind # "Accepted"
    BY <2>1, SendGrows DEF AcceptKinds
  <2> QED BY <1>8, <1>g, <2>1, <2>2 DEF UseSocket, shared, peers
<1>9. ASSUME NEW c \in Client, Connect(c)
      PROVE  FreshInv'
  <2>1. /\ connected' = connected \cup {c} /\ c \notin connected
        /\ ready' = Append(ready, AcceptedHandler(c)) /\ UNCHANGED <<netVars, sessions_>>
    BY <1>9 DEF Connect
  <2>2. AcceptedHandler(c) \in Handler /\ AcceptedHandler(c).client = c
    BY DEF AcceptedHandler, Handler
  <2>3. /\ Len(ready') = Len(ready) + 1
        /\ \A k \in 1 .. Len(ready) : ready'[k] = ready[k]
        /\ ready'[Len(ready) + 1] = AcceptedHandler(c)
    BY <1>t, <2>1, <2>2, AppendFacts
  <2>4. Range(sessions_) \subseteq connected
    BY <1>t, LenProperties, ElementOfSeq DEF Range
  <2>5. sessions_' \in Seq(connected')
    BY <1>t, <2>1, SeqMonotonic
  <2>6. ASSUME NEW i \in 1 .. Len(ready'), ready'[i].kind = "Accepted"
        PROVE  ready'[i].client \in connected' \ Range(sessions_')
    <3>1. CASE i \in 1 .. Len(ready)
      BY <2>1, <2>3, <2>6, <3>1 DEF FreshInv
    <3>2. CASE i = Len(ready) + 1
      BY <2>1, <2>2, <2>3, <2>4, <3>2
    <3> QED BY <1>t, <2>3, <3>1, <3>2
  <2> QED BY <2>1, <2>5, <2>6, Zenon DEF FreshInv, netVars
<1>10. CASE /\ UNCHANGED <<ready, sessions_, connected>>
            /\ net' = "push" => UNCHANGED netVars
  BY <1>g, <1>10
<1>11. \/ Type \/ PostLast \/ CloseAcceptor \/ StartAccept \/ Clear \/ Destroy
       \/ TakeHandler \/ BroadcastStep \/ PushBack \/ UseSocket
       \/ \E c \in Client : Connect(c)
       \/ /\ UNCHANGED <<ready, sessions_, connected>>
          /\ net' = "push" => UNCHANGED netVars
  BY DEF Next, MainThread, NetworkThread, Quit, WriteBlock, WriteFails, CloseFile,
         CloseSession, StopContext, Join, LeaveRun, CloseSocket, HangUp,
         Race, svars, mainVars, netVars, asioVars, shared, peers
<1> QED BY <1>1, <1>2, <1>3, <1>4, <1>5, <1>6, <1>7, <1>8, <1>9, <1>10, <1>11

-----------------------------------------------------------------------------
(* The properties.                                                         *)

SInv == Types /\ FileInv /\ OneAccept /\ LateInv /\ FreshInv

(* The inductive invariant of a host that quits.                           *)
LEMMA InductiveInvariant == Spec => []SInv
<1>1. Init => SInv
  BY TypesInit, FileInit, OneAcceptInit, FreshInit DEF SInv
<1>2. SInv /\ [Next]_svars => SInv'
  BY TypesStep, FileStep, OneAcceptStep, LateStep, FreshStep DEF SInv
<1> QED BY <1>1, <1>2, PTL DEF Spec

(* Types are respected, and no client ever has two sessions.               *)
THEOREM TypesAreRespected == Spec => []TypeOK
<1>1. SInv => TypeOK
  BY DEF SInv, Types, FileInv, FreshInv, TypeOK
<1> QED BY <1>1, InductiveInvariant, PTL

(* Of any number of sessions at most one is left open when the Editor is   *)
(* destroyed.                                                              *)
THEOREM OneOutlives == Spec => []AtMostOneOutlives
<1>1. SInv => AtMostOneOutlives
  <2> SUFFICES ASSUME SInv, main = "destroying"
               PROVE  Cardinality(Outliving) <= 1
    BY DEF AtMostOneOutlives
  <2>1. /\ sessions_ \in Seq(Client) /\ Len(sessions_) \in Nat /\ Len(sessions_) <= 1
        /\ DOMAIN sessions_ = 1 .. Len(sessions_)
    BY LenProperties DEF SInv, Types, LateInv
  <2>2. Outliving \subseteq {sessions_[1]}
    BY <2>1 DEF Outliving, Range
  <2>3. IsFiniteSet({sessions_[1]}) /\ Cardinality({sessions_[1]}) = 1
    BY FS_Singleton
  <2>4. Cardinality(Outliving) <= Cardinality({sessions_[1]})
    BY <2>2, <2>3, FS_Subset
  <2> QED BY <2>3, <2>4
<1> QED BY <1>1, InductiveInvariant, PTL
=============================================================================
