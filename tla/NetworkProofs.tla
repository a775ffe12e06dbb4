---------------------------- MODULE NetworkProofs ----------------------------
(***************************************************************************)
(* Theorems about module Network, for any number of clients, any texts and *)
(* any limits of writes and connections: what each client shows, until a   *)
(* short write to it is overtaken, whatever happens to the others.         *)
(***************************************************************************)
EXTENDS NetworkProperties, InductionLemmas

Unit == { u \in Version \X Nat : u[2] <= Size[u[1]] }

(* asio's handlers. *)
Handler ==
  [kind : {"Broadcast"}, version : Version]
    \cup [kind : {"Accepted", "SendFailed"}, client : Client]
    \cup [kind : {"Sent"}, client : Client, rest : Seq(Unit)]

(* Types, of what the queues hold too.                                     *)
Types ==
  /\ hostUp \in BOOLEAN
  /\ version \in Version /\ latest_data_ \in Version
  /\ sessions_ \subseteq Client /\ open \subseteq Client
  /\ ready \in Seq(Handler)
  /\ writes \in [Client -> Seq(Seq(Unit) \ {<< >>})]
  /\ link \in [Client -> {"None", "Backlog", "Up", "Lost"}]
  /\ stream \in [Client -> Seq(Unit)]
  /\ \A c \in Client : Len(stream[c]) <= SockBuf
  /\ read_buf_ \in [Client -> Seq(Unit)]
  /\ latest_buffer_ \in [Client -> Seq(Unit)]
  /\ view \in [Client -> Seq(Unit)]
  /\ {new_data_, fetching, quit} \subseteq [Client -> BOOLEAN]

-----------------------------------------------------------------------------
(* Frames, and sequences of units that follow each other.                 *)

(* Unit w may come right after unit u: the next of the same frame, or the  *)
(* first of a later one.                                                   *)
Follows(u, w) ==
  \/ u[2] < Size[u[1]] /\ w = <<u[1], u[2] + 1>>
  \/ u[2] = Size[u[1]] /\ w[2] = 0 /\ u[1] < w[1]

InOrder(s) == \A i \in 1 .. Len(s) - 1 : Follows(s[i], s[i + 1])

LastOf(v) == <<v, Size[v]>>

(* The units of frame v from the j-th on. *)
Piece(v, j) == [i \in 1 .. Size[v] + 1 - j |-> <<v, j + i - 1>>]

-----------------------------------------------------------------------------
(* The inductive invariant.                                                *)

(* What the host writes for client c gets to it.                           *)
Flowing(c) == hostUp /\ link[c] = "Up" /\ ~ quit[c]

(* The handlers that are ready to run, those about client c, and of these  *)
(* the ones that find a write cut short.                                   *)
Ready == Range(ready)

Handlers(c) == { h \in Ready : h.kind # "Broadcast" /\ h.client = c }

Cut(c) == { h \in Handlers(c) : h.kind = "Sent" /\ h.rest # << >> }

(* What is still to be written to client c.                                *)
Writes(c) == Range(writes[c])

Pending(c) == Writes(c) \cup { h.rest : h \in Cut(c) }

(* The writes whose bytes go next.                                         *)
Firsts(c) ==
  { h.rest : h \in Cut(c) } \cup IF writes[c] = << >> THEN {} ELSE {Head(writes[c])}

(* A write that has been cut is the only one its session has left.         *)
Alone(c) == Cut(c) # {} => writes[c] = << >>

(* Broadcasts wait in the order they were posted, none missing.            *)
BroadcastInv ==
  /\ latest_data_ <= version
  /\ \A i \in 1 .. Len(ready) :
       ready[i].kind = "Broadcast" => ready[i].version \in latest_data_ + 1 .. version
  /\ \A i, j \in 1 .. Len(ready) :
       i < j /\ ready[i].kind = "Broadcast" /\ ready[j].kind = "Broadcast"
         => ready[i].version < ready[j].version
  /\ \A v \in latest_data_ + 1 .. version : BroadcastOf(v) \in Ready

(* A client that has no session yet: nothing has been sent to it.          *)
Waiting(c) == link[c] \in {"None", "Backlog"}

Untouched(c) ==
  /\ c \notin sessions_ /\ c \notin open
  /\ writes[c] = << >> /\ stream[c] = << >>
  /\ read_buf_[c] = << >> /\ latest_buffer_[c] = << >> /\ view[c] = << >>
  /\ \A h \in Handlers(c) : h.kind \notin {"Sent", "SendFailed"}

OneAccepted ==
  \A i, j \in 1 .. Len(ready) :
    ready[i].kind = "Accepted" /\ ready[j].kind = "Accepted" => i = j

(* A client whose bytes flow has a session, or is about to.                *)
SessionInv(c) ==
  /\ Waiting(c) => AcceptedOf(c) \notin Handlers(c)
  /\ Waiting(c) \/ AcceptedOf(c) \in Handlers(c) => Untouched(c)
  /\ Flowing(c) =>
       /\ AcceptedOf(c) \in Handlers(c) \/ (c \in sessions_ /\ c \in open)
       /\ SendFailedOf(c) \notin Handlers(c)

(* The version of a frame, 0 for none.                                     *)
VersionOf(frame) == IF frame = << >> THEN 0 ELSE frame[1][1]

IsFrame(f) == f = << >> \/ (VersionOf(f) > 0 /\ f = Frame(VersionOf(f)))

(* What has left the host and is not a complete frame at the client yet,   *)
(* the last frame that is, and the last unit that left the host.           *)
Wire(c) == read_buf_[c] \o stream[c]

Received(c) == VersionOf(latest_buffer_[c])

End(c) == IF Wire(c) = << >> THEN LastOf(Received(c)) ELSE Wire(c)[Len(Wire(c))]

(* The client's end: whole frames in order, behind each other.             *)
ClientInv(c) ==
  /\ IsFrame(latest_buffer_[c]) /\ IsFrame(view[c])
  /\ VersionOf(view[c]) <= Received(c) /\ Received(c) <= latest_data_
  /\ ~ new_data_[c] => view[c] = latest_buffer_[c]

WireInv(c) ==
  /\ InOrder(Wire(c))
  /\ Wire(c) # << >> => Follows(LastOf(Received(c)), Wire(c)[1])
  /\ \A i \in 1 .. Len(Wire(c)) : Wire(c)[i][1] <= latest_data_
  /\ read_buf_[c] # << >> => Len(read_buf_[c]) <= Size[read_buf_[c][1][1]] + 1

IsPiece(op) == \E v \in 1 .. latest_data_ : \E j \in 0 .. Size[v] : op = Piece(v, j)

(* The host's end, for a client whose bytes flow: what is still to be      *)
(* written fits behind what has been, the frames behind it in order.       *)
SendInv(c) ==
  Flowing(c) =>
    /\ \A op \in Pending(c) : IsPiece(op)
    /\ \A op \in Firsts(c) : Follows(End(c), op[1])
    /\ \A k, l \in 1 .. Len(writes[c]) :
         k < l => writes[c][k][1][1] < writes[c][l][1][1] /\ writes[c][l][1][2] = 0
    /\ End(c)[2] < Size[End(c)[1]] => Pending(c) # {}

(* A session's last frame is that of the last broadcast, unless that is    *)
(* empty and the client has joined since.                                  *)
NewestInv(c) ==
  Flowing(c) /\ c \in sessions_ =>
    \/ \E op \in Pending(c) : op[1][1] = latest_data_
    \/ End(c)[1] = latest_data_
    \/ End(c)[1] = 0 /\ Pending(c) = {} /\ Size[latest_data_] = 0

Part(c) == SessionInv(c) /\ ClientInv(c) /\ WireInv(c) /\ SendInv(c) /\ NewestInv(c)

Queue == BroadcastInv /\ OneAccepted

NInv ==
  /\ Queue /\ overtaken \subseteq Client
  /\ \A c \in Client \ overtaken : ~ Overtaken(c) /\ Part(c)

-----------------------------------------------------------------------------
(* Facts about units, pieces of frames and sequences.                      *)

LEMMA UnitFacts ==
  ASSUME NEW u \in Unit
  PROVE  /\ u[1] \in Version /\ u[1] \in Nat /\ u[2] \in Nat
         /\ Size[u[1]] \in Nat /\ u[2] <= Size[u[1]]
         /\ u = <<u[1], u[2]>>
BY NetworkAssumption DEF Unit, Version

LEMMA PieceFacts ==
  ASSUME NEW v \in Version, NEW j \in 0 .. Size[v]
  PROVE  /\ Piece(v, j) \in Seq(Unit)
         /\ Len(Piece(v, j)) = Size[v] + 1 - j
         /\ Len(Piece(v, j)) \in Nat \ {0} /\ Piece(v, j) # << >>
         /\ \A i \in 1 .. Len(Piece(v, j)) : Piece(v, j)[i] = <<v, j + i - 1>>
<1>1. Size[v] \in Nat /\ Size[v] + 1 - j \in Nat \ {0}
  BY NetworkAssumption
<1>2. \A i \in 1 .. Size[v] + 1 - j : <<v, j + i - 1>> \in Unit
  BY <1>1 DEF Unit
<1>3. Piece(v, j) \in [1 .. Size[v] + 1 - j -> Unit]
  BY <1>2 DEF Piece
<1>4. Piece(v, j) \in Seq(Unit) /\ Len(Piece(v, j)) = Size[v] + 1 - j
  BY <1>1, <1>3, FunctionIsSeq
<1>5. \A i \in 1 .. Size[v] + 1 - j : Piece(v, j)[i] = <<v, j + i - 1>>
  BY DEF Piece
<1> QED BY <1>1, <1>4, <1>5, EmptySeq

LEMMA FrameIsPiece ==
  ASSUME NEW v \in Version
  PROVE  Frame(v) = Piece(v, 0) /\ 0 \in 0 .. Size[v]
<1>1. Size[v] \in Nat
  BY NetworkAssumption
<1>2. /\ Size[v] + 1 - 0 = Size[v] + 1
      /\ \A i \in 1 .. Size[v] + 1 : i - 1 = 0 + i - 1
  BY <1>1
<1> QED BY <1>1, <1>2 DEF Frame, Piece

(* Cutting a sequence in two.                                              *)
LEMMA SplitFacts ==
  ASSUME NEW S, NEW s \in Seq(S), NEW n \in 0 .. Len(s)
  PROVE  /\ Prefix(s, n) \in Seq(S) /\ Len(Prefix(s, n)) = n
         /\ Rest(s, n) \in Seq(S) /\ Len(Rest(s, n)) = Len(s) - n
         /\ \A i \in 1 .. n : Prefix(s, n)[i] = s[i]
         /\ \A i \in 1 .. Len(s) - n : Rest(s, n)[i] = s[n + i]
         /\ Prefix(s, n) \o Rest(s, n) = s
<1>1. /\ Len(s) \in Nat /\ n \in Nat /\ n <= Len(s)
      /\ \A i \in 1 .. Len(s) : s[i] \in S
  BY LenProperties, ElementOfSeq
<1>2. /\ Prefix(s, n) \in Seq(S) /\ Len(Prefix(s, n)) = n
      /\ \A i \in 1 .. n : Prefix(s, n)[i] = s[i]
  <2>1. CASE n = 0
    <3>1. Prefix(s, n) = << >>
      BY <2>1, <1>1, SubSeqEmpty DEF Prefix
    <3>2. 1 .. n = {}
      BY <2>1
    <3> QED BY <2>1, <3>1, <3>2, EmptySeq
  <2>2. CASE n # 0
    <3>1. \A i \in 1 .. n : s[i] \in S
      BY <1>1
    <3>2. 1 <= n /\ n - 1 + 1 = n /\ \A i \in 1 .. n : 1 + i - 1 = i
      BY <1>1, <2>2
    <3> QED BY <1>1, <3>1, <3>2, SubSeqProperties DEF Prefix
  <2> QED BY <2>1, <2>2
<1>3. /\ Rest(s, n) \in Seq(S) /\ Len(Rest(s, n)) = Len(s) - n
      /\ \A i \in 1 .. Len(s) - n : Rest(s, n)[i] = s[n + i]
  <2>1. CASE n = Len(s)
    <3>1. Rest(s, n) = << >> /\ Len(s) - n = 0
      BY <2>1, <1>1, SubSeqEmpty DEF Rest
    <3> QED BY <3>1, EmptySeq
  <2>2. CASE n # Len(s)
    <3>1. \A i \in n + 1 .. Len(s) : s[i] \in S
      BY <1>1
    <3>2. /\ n + 1 <= Len(s) /\ Len(s) - (n + 1) + 1 = Len(s) - n /\ n + 1 \in Int
          /\ \A i \in 1 .. Len(s) - n : (n + 1) + i - 1 = n + i
      BY <1>1, <2>2
    <3> QED BY <1>1, <3>1, <3>2, SubSeqProperties DEF Rest
  <2> QED BY <2>1, <2>2
<1>4. Prefix(s, n) \o Rest(s, n) = s
  <2> DEFINE p == Prefix(s, n)
             r == Rest(s, n)
             t == p \o r
  <2>1. p \in Seq(S) /\ Len(p) = n /\ r \in Seq(S) /\ Len(r) = Len(s) - n
    BY <1>2, <1>3
  <2> HIDE DEF p, r
  <2>2. /\ t \in Seq(S) /\ Len(t) = n + (Len(s) - n)
        /\ \A i \in 1 .. Len(t) : t[i] = IF i <= n THEN p[i] ELSE r[i - n]
    BY <2>1, ConcatProperties
  <2> HIDE DEF t
  <2>3. Len(t) = Len(s)
    BY <1>1, <2>2
  <2>4. ASSUME NEW i \in 1 .. Len(t) PROVE t[i] = s[i]
    <3>1. CASE i <= n
      BY <1>1, <1>2, <2>2, <2>3, <3>1 DEF p
    <3>2. CASE n < i
      <4>1. i - n \in 1 .. Len(s) - n /\ n + (i - n) = i /\ ~ (i <= n)
        BY <1>1, <2>3, <3>2
      <4>2. r[i - n] = s[n + (i - n)]
        BY <4>1, <1>3 DEF r
      <4> QED BY <2>2, <4>1, <4>2
    <3> QED BY <1>1, <3>1, <3>2
  <2>5. t = s
    BY <2>2, <2>3, <2>4, SeqEqual
  <2> QED BY <2>5 DEF t, p, r
<1> QED BY <1>2, <1>3, <1>4

(* A write moves the first n units of a piece; what it leaves is a piece.  *)
LEMMA CutPiece ==
  ASSUME NEW v \in Version, NEW j \in 0 .. Size[v],
         NEW n \in 1 .. Len(Piece(v, j))
  PROVE  /\ Prefix(Piece(v, j), n) \in Seq(Unit)
         /\ Len(Prefix(Piece(v, j), n)) = n
         /\ \A i \in 1 .. n : Prefix(Piece(v, j), n)[i] = <<v, j + i - 1>>
         /\ InOrder(Prefix(Piece(v, j), n))
         /\ n = Len(Piece(v, j)) => Rest(Piece(v, j), n) = << >>
         /\ n < Len(Piece(v, j)) =>
              j + n \in 0 .. Size[v] /\ Rest(Piece(v, j), n) = Piece(v, j + n)
<1> DEFINE s == Piece(v, j)
           p == Prefix(s, n)
           r == Rest(s, n)
<1>1. /\ s \in Seq(Unit) /\ Len(s) = Size[v] + 1 - j /\ Len(s) \in Nat
      /\ \A i \in 1 .. Len(s) : s[i] = <<v, j + i - 1>> /\ s[i] \in Unit
      /\ Size[v] \in Nat
  BY PieceFacts, ElementOfSeq, NetworkAssumption
<1> HIDE DEF s
<1>2. n \in 0 .. Len(s) /\ n \in 1 .. Len(s)
  BY <1>1 DEF s
<1>3. p \in Seq(Unit) /\ Len(p) = n /\ \A i \in 1 .. n : p[i] = s[i]
  BY <1>1, <1>2, SplitFacts
<1> HIDE DEF p
<1>4. \A i \in 1 .. n : p[i] = <<v, j + i - 1>>
  <2> SUFFICES ASSUME NEW i \in 1 .. n PROVE p[i] = <<v, j + i - 1>>
    OBVIOUS
  <2>1. n \in 1 .. Len(s) /\ i \in 1 .. Len(s)
    BY <1>1 DEF s
  <2> QED BY <1>1, <1>3, <2>1
<1>5. InOrder(p)
  <2> SUFFICES ASSUME NEW i \in 1 .. n - 1
               PROVE  Follows(p[i], p[i + 1])
    BY <1>3 DEF InOrder
  <2>1. p[i] = <<v, j + i - 1>> /\ p[i + 1] = <<v, j + (i + 1) - 1>>
    BY <1>4, <1>1 DEF s
  <2>2. j + i - 1 < Size[v] /\ j + (i + 1) - 1 = (j + i - 1) + 1
    BY <1>1 DEF s
  <2> QED BY <2>1, <2>2 DEF Follows
<1>6. n = Len(s) => r = << >>
  BY <1>1, SubSeqEmpty DEF Rest
<1>7. ASSUME n < Len(s) PROVE j + n \in 0 .. Size[v] /\ r = Piece(v, j + n)
  <2>1. j + n \in 0 .. Size[v]
    BY <1>1, <1>7
  <2>3. /\ r \in Seq(Unit) /\ Len(r) = Len(s) - n
        /\ \A i \in 1 .. Len(s) - n : r[i] = s[n + i]
    BY <1>1, <1>2, SplitFacts
  <2>4. /\ Piece(v, j + n) \in Seq(Unit) /\ Len(Piece(v, j + n)) = Size[v] + 1 - (j + n)
        /\ \A i \in 1 .. Len(Piece(v, j + n)) : Piece(v, j + n)[i] = <<v, (j + n) + i - 1>>
    BY <2>1, PieceFacts
  <2>5. Len(r) = Len(Piece(v, j + n))
    BY <1>1, <2>3, <2>4 DEF s
  <2>6. ASSUME NEW i \in 1 .. Len(r) PROVE r[i] = Piece(v, j + n)[i]
    <3>1. n + i \in 1 .. Len(s) /\ i \in 1 .. Len(s) - n /\ j + (n + i) - 1 = (j + n) + i - 1
      BY <1>1, <2>3 DEF s
    <3>2. r[i] = <<v, j + (n + i) - 1>>
      BY <1>1, <2>3, <3>1
    <3>3. Piece(v, j + n)[i] = <<v, (j + n) + i - 1>>
      BY <2>4, <2>5
    <3> QED BY <3>1, <3>2, <3>3
  <2> HIDE DEF r
  <2>7. r = Piece(v, j + n)
    BY <2>3, <2>4, <2>5, <2>6, SeqEqual
  <2> QED BY <2>1, <2>7
<1> QED BY <1>3, <1>4, <1>5, <1>6, <1>7 DEF s, p

LEMMA RangeFacts ==
  ASSUME NEW S, NEW s \in Seq(S)
  PROVE  /\ Range(s) = { s[i] : i \in 1 .. Len(s) }
         /\ Range(s) \subseteq S
         /\ Range(s) = {} <=> s = << >>
         /\ s # << >> => Head(s) \in Range(s)
<1>1. /\ DOMAIN s = 1 .. Len(s) /\ Len(s) \in Nat
      /\ \A i \in 1 .. Len(s) : s[i] \in S
  BY LenProperties, ElementOfSeq
<1>2. s # << >> => Len(s) # 0
  BY EmptySeq
<1>3. s # << >> => 1 \in 1 .. Len(s) /\ Head(s) = s[1]
  BY <1>1, <1>2, HeadTailProperties
<1>4. s = << >> => Len(s) = 0
  BY EmptySeq
<1>5. s = << >> => 1 .. Len(s) = {}
  BY <1>4
<1> QED BY <1>1, <1>3, <1>5 DEF Range

LEMMA RangeOfNil == Range(<< >>) = {}
BY RangeFacts, EmptySeq

LEMMA RangeOfAppend ==
  ASSUME NEW S, NEW s \in Seq(S), NEW x \in S
  PROVE  Range(Append(s, x)) = Range(s) \cup {x}
<1> DEFINE t == Append(s, x)
<1>1. /\ t \in Seq(S) /\ Len(t) = Len(s) + 1 /\ Len(s) \in Nat
      /\ \A i \in 1 .. Len(s) : t[i] = s[i]
      /\ t[Len(s) + 1] = x
  BY AppendProperties, LenProperties
<1> HIDE DEF t
<1>2. 1 .. Len(t) = 1 .. Len(s) \cup {Len(s) + 1}
  BY <1>1
<1>3. Range(t) = { t[i] : i \in 1 .. Len(t) } /\ Range(s) = { s[i] : i \in 1 .. Len(s) }
  BY <1>1, RangeFacts
<1>4. { t[i] : i \in 1 .. Len(t) } = { s[i] : i \in 1 .. Len(s) } \cup {x}
  BY <1>1, <1>2
<1> QED BY <1>3, <1>4 DEF t

LEMMA RangeOfTail ==
  ASSUME NEW S, NEW s \in Seq(S), s # << >>
  PROVE  /\ Range(s) = Range(Tail(s)) \cup {Head(s)}
         /\ Tail(s) \in Seq(S) /\ Len(Tail(s)) = Len(s) - 1 /\ Len(s) \in Nat \ {0}
         /\ \A i \in 1 .. Len(s) - 1 : Tail(s)[i] = s[i + 1]
         /\ Head(s) = s[1] /\ Head(s) \in S
<1> DEFINE t == Tail(s)
<1>1. /\ Len(s) \in Nat \ {0} /\ Head(s) = s[1]
      /\ t \in Seq(S) /\ Len(t) = Len(s) - 1
      /\ \A i \in 1 .. Len(t) : t[i] = s[i + 1]
  BY HeadTailProperties, LenProperties, EmptySeq
<1> HIDE DEF t
<1>2. Range(t) = { t[i] : i \in 1 .. Len(t) } /\ Range(s) = { s[i] : i \in 1 .. Len(s) }
      /\ Range(s) \subseteq S /\ Head(s) \in Range(s)
  BY <1>1, RangeFacts
<1>3. ASSUME NEW h \in Range(s) PROVE h \in Range(t) \cup {Head(s)}
  <2>1. PICK i \in 1 .. Len(s) : h = s[i]
    BY <1>2
  <2>2. CASE i = 1
    BY <1>1, <2>1, <2>2
  <2>3. CASE i # 1
    <3>1. i - 1 \in 1 .. Len(t) /\ (i - 1) + 1 = i
      BY <1>1, <2>3
    <3>2. t[i - 1] = h
      BY <1>1, <2>1, <3>1
    <3> QED BY <1>2, <3>1, <3>2
  <2> QED BY <2>2, <2>3
<1>4. ASSUME NEW h \in Range(t) PROVE h \in Range(s)
  <2>1. PICK i \in 1 .. Len(t) : h = t[i]
    BY <1>2
  <2>2. i + 1 \in 1 .. Len(s) /\ h = s[i + 1]
    BY <1>1, <2>1
  <2> QED BY <1>2, <2>2
<1> QED BY <1>1, <1>2, <1>3, <1>4 DEF t

LEMMA JoinFacts ==
  ASSUME NEW s \in Seq(Unit), NEW p \in Seq(Unit)
  PROVE  /\ s \o p \in Seq(Unit) /\ Len(s \o p) = Len(s) + Len(p)
         /\ Len(s) \in Nat /\ Len(p) \in Nat
         /\ \A i \in 1 .. Len(s \o p) : (s \o p)[i] = IF i <= Len(s) THEN s[i] ELSE p[i - Len(s)]
         /\ s # << >> => Len(s) # 0 /\ (s \o p)[1] = s[1] /\ s \o p # << >>
<1> DEFINE t == s \o p
<1>1. /\ t \in Seq(Unit) /\ Len(t) = Len(s) + Len(p)
      /\ \A i \in 1 .. Len(t) : t[i] = IF i <= Len(s) THEN s[i] ELSE p[i - Len(s)]
      /\ Len(s) \in Nat /\ Len(p) \in Nat
  BY ConcatProperties, LenProperties
<1> HIDE DEF t
<1>2. ASSUME s # << >> PROVE Len(s) # 0 /\ t[1] = s[1] /\ t # << >>
  <2>1. Len(s) # 0
    BY <1>2, EmptySeq
  <2>2. 1 \in 1 .. Len(t) /\ 1 <= Len(s) /\ Len(t) # 0
    BY <1>1, <2>1
  <2> QED BY <1>1, <2>1, <2>2, EmptySeq
<1> QED BY <1>1, <1>2 DEF t

(* Units in order behind units in order are in order.                      *)
LEMMA JoinInOrder ==
  ASSUME NEW s \in Seq(Unit), NEW p \in Seq(Unit), InOrder(s), InOrder(p), p # << >>,
         s # << >> => Follows(s[Len(s)], p[1])
  PROVE  /\ InOrder(s \o p) /\ s \o p # << >> /\ s \o p \in Seq(Unit)
         /\ (s \o p)[Len(s \o p)] = p[Len(p)]
         /\ (s \o p)[1] = IF s = << >> THEN p[1] ELSE s[1]
         /\ Range(s \o p) = Range(s) \cup Range(p)
<1> DEFINE t == s \o p
<1>1. /\ t \in Seq(Unit) /\ Len(t) = Len(s) + Len(p)
      /\ \A i \in 1 .. Len(t) : t[i] = IF i <= Len(s) THEN s[i] ELSE p[i - Len(s)]
      /\ Len(s) \in Nat /\ Len(p) \in Nat \ {0} /\ (s # << >> <=> Len(s) # 0)
  BY ConcatProperties, LenProperties, EmptySeq
<1> HIDE DEF t
<1>2. t # << >> /\ t[Len(t)] = p[Len(p)]
  <2>1. Len(t) # 0 /\ Len(t) \in 1 .. Len(t) /\ ~ (Len(t) <= Len(s)) /\ Len(t) - Len(s) = Len(p)
    BY <1>1
  <2> QED BY <1>1, <2>1, EmptySeq
<1>3. InOrder(t)
  <2> SUFFICES ASSUME NEW i \in 1 .. Len(t) - 1 PROVE Follows(t[i], t[i + 1])
    BY DEF InOrder
  <2>1. i \in 1 .. Len(t) /\ i + 1 \in 1 .. Len(t)
    BY <1>1
  <2>2. CASE i + 1 <= Len(s)
    <3>1. t[i] = s[i] /\ t[i + 1] = s[i + 1] /\ i \in 1 .. Len(s) - 1
      BY <1>1, <2>1, <2>2
    <3> QED BY <3>1 DEF InOrder
  <2>3. CASE i = Len(s)
    <3>1. t[i] = s[Len(s)] /\ t[i + 1] = p[1] /\ s # << >>
      BY <1>1, <2>1, <2>3
    <3> QED BY <3>1
  <2>4. CASE i > Len(s)
    <3>1. i - Len(s) \in 1 .. Len(p) - 1 /\ (i + 1) - Len(s) = (i - Len(s)) + 1
      BY <1>1, <2>1, <2>4
    <3>2. t[i] = p[i - Len(s)] /\ t[i + 1] = p[(i + 1) - Len(s)]
      BY <1>1, <2>1, <2>4
    <3> QED BY <3>1, <3>2 DEF InOrder
  <2> QED BY <1>1, <2>2, <2>3, <2>4
<1>4. t[1] = IF s = << >> THEN p[1] ELSE s[1]
  <2>1. 1 \in 1 .. Len(t) /\ (1 <= Len(s) <=> s # << >>) /\ (s = << >> => 1 - Len(s) = 1)
    BY <1>1
  <2> QED BY <1>1, <2>1
<1>5. Range(t) = Range(s) \cup Range(p)
  <2>1. /\ Range(t) = { t[i] : i \in 1 .. Len(t) }
        /\ Range(s) = { s[i] : i \in 1 .. Len(s) }
        /\ Range(p) = { p[i] : i \in 1 .. Len(p) }
    BY <1>1, RangeFacts
  <2>2. ASSUME NEW i \in 1 .. Len(t) PROVE t[i] \in Range(s) \cup Range(p)
    <3>1. CASE i <= Len(s)
      BY <1>1, <2>1, <3>1
    <3>2. CASE ~ (i <= Len(s))
      <4>1. i - Len(s) \in 1 .. Len(p)
        BY <1>1, <3>2
      <4> QED BY <1>1, <2>1, <3>2, <4>1
    <3> QED BY <3>1, <3>2
  <2>3. ASSUME NEW i \in 1 .. Len(s) PROVE s[i] \in Range(t)
    <3>1. i \in 1 .. Len(t) /\ i <= Len(s)
      BY <1>1
    <3> QED BY <1>1, <2>1, <3>1
  <2>4. ASSUME NEW i \in 1 .. Len(p) PROVE p[i] \in Range(t)
    <3>1. Len(s) + i \in 1 .. Len(t) /\ ~ (Len(s) + i <= Len(s)) /\ (Len(s) + i) - Len(s) = i
      BY <1>1
    <3> QED BY <1>1, <2>1, <3>1
  <2> QED BY <2>1, <2>2, <2>3, <2>4
<1> QED BY <1>1, <1>2, <1>3, <1>4, <1>5 DEF t

(* The beginning and the end of units in order are in order.               *)
LEMMA PartInOrder ==
  ASSUME NEW s \in Seq(Unit), NEW p \in Seq(Unit), InOrder(s), NEW n \in Nat,
         Len(p) <= Len(s) - n, \A i \in 1 .. Len(p) : p[i] = s[n + i]
  PROVE  InOrder(p) /\ Range(p) \subseteq Range(s)
<1>1. /\ Len(s) \in Nat /\ Len(p) \in Nat
      /\ Range(s) = { s[i] : i \in 1 .. Len(s) } /\ Range(p) = { p[i] : i \in 1 .. Len(p) }
  BY LenProperties, RangeFacts
<1>2. InOrder(p)
  <2> SUFFICES ASSUME NEW i \in 1 .. Len(p) - 1 PROVE Follows(p[i], p[i + 1])
    BY DEF InOrder
  <2>1. /\ i \in 1 .. Len(p) /\ i + 1 \in 1 .. Len(p) /\ n + i \in 1 .. Len(s) - 1
        /\ n + (i + 1) = (n + i) + 1
    BY <1>1
  <2>2. p[i] = s[n + i] /\ p[i + 1] = s[(n + i) + 1]
    BY <2>1
  <2> QED BY <2>1, <2>2 DEF InOrder
<1>3. ASSUME NEW i \in 1 .. Len(p) PROVE p[i] \in Range(s)
  <2>1. n + i \in 1 .. Len(s)
    BY <1>1
  <2> QED BY <1>1, <2>1
<1> QED BY <1>1, <1>2, <1>3

(* Units in order that begin with a header begin with that frame.          *)
LEMMA FrameInOrder ==
  ASSUME NEW s \in Seq(Unit), InOrder(s), s # << >>, s[1][2] = 0
  PROVE  /\ s[1][1] \in Version /\ Size[s[1][1]] \in Nat
         /\ \A i \in 1 .. Len(s) : i <= Size[s[1][1]] + 1 => s[i] = <<s[1][1], i - 1>>
         /\ Size[s[1][1]] + 1 < Len(s) => Follows(LastOf(s[1][1]), s[Size[s[1][1]] + 2])
<1> DEFINE v == s[1][1]
           Z == Size[v]
<1>1. /\ Len(s) \in Nat \ {0} /\ \A i \in 1 .. Len(s) : s[i] \in Unit
      /\ 1 \in 1 .. Len(s)
  BY LenProperties, EmptySeq, ElementOfSeq
<1>2. v \in Version /\ Z \in Nat /\ s[1] = <<v, 0>>
  BY <1>1, UnitFacts
<1> HIDE DEF v, Z
<1> DEFINE T == { k \in Nat : k + 1 <= Len(s) /\ k <= Z => s[k + 1] = <<v, k>> }
<1>3. 0 \in T
  BY <1>2
<1>4. ASSUME NEW k \in Nat, k \in T PROVE k + 1 \in T
  <2> SUFFICES ASSUME (k + 1) + 1 <= Len(s), k + 1 <= Z
               PROVE  s[(k + 1) + 1] = <<v, k + 1>>
    OBVIOUS
  <2>1. s[k + 1] = <<v, k>>
    BY <1>1, <1>2, <1>4
  <2>2. k + 1 \in 1 .. Len(s) - 1 /\ k < Z
    BY <1>1, <1>2
  <2>3. Follows(s[k + 1], s[(k + 1) + 1])
    BY <2>2 DEF InOrder
  <2> QED BY <1>2, <2>1, <2>2, <2>3 DEF Follows, Z
<1> HIDE DEF T
<1>5. Nat \subseteq T
  BY <1>3, <1>4, SetInduction
<1>6. ASSUME NEW i \in 1 .. Len(s), i <= Z + 1 PROVE s[i] = <<v, i - 1>>
  <2>1. i - 1 \in Nat /\ (i - 1) + 1 = i /\ i - 1 <= Z /\ i <= Len(s)
    BY <1>1, <1>2, <1>6
  <2>2. i - 1 \in T
    BY <2>1, <1>5
  <2> QED BY <2>1, <2>2 DEF T
<1>7. ASSUME Z + 1 < Len(s) PROVE Follows(LastOf(v), s[Z + 2])
  <2>1. Z + 1 \in 1 .. Len(s) - 1 /\ Z + 1 \in 1 .. Len(s) /\ (Z + 1) - 1 = Z /\ (Z + 1) + 1 = Z + 2
    BY <1>1, <1>2, <1>7
  <2>2. s[Z + 1] = <<v, Z>>
    BY <1>6, <2>1, <1>2
  <2>3. Follows(s[Z + 1], s[Z + 2])
    BY <2>1 DEF InOrder
  <2> QED BY <2>2, <2>3 DEF LastOf, Z
<1> QED BY <1>2, <1>6, <1>7 DEF v, Z

-----------------------------------------------------------------------------
(* Types.                                                                  *)

LEMMA HandlerFacts ==
  /\ \A v \in Version : BroadcastOf(v) \in Handler
  /\ \A c \in Client : AcceptedOf(c) \in Handler /\ SendFailedOf(c) \in Handler
  /\ \A c \in Client, r \in Seq(Unit) : SentOf(c, r) \in Handler
  /\ \A h \in Handler :
       /\ h.kind \in {"Broadcast", "Accepted", "Sent", "SendFailed"}
       /\ h.kind = "Broadcast" => h.version \in Version /\ h = BroadcastOf(h.version)
       /\ h.kind = "Accepted" => h.client \in Client /\ h = AcceptedOf(h.client)
       /\ h.kind = "Sent" => /\ h.client \in Client /\ h.rest \in Seq(Unit)
                             /\ h = SentOf(h.client, h.rest)
       /\ h.kind = "SendFailed" => h.client \in Client /\ h = SendFailedOf(h.client)
BY DEF Handler, BroadcastOf, AcceptedOf, SentOf, SendFailedOf

(* A handler that runs is taken from the front of the queue.               *)
LEMMA RunFacts ==
  ASSUME NEW kind, Types, Run(kind)
  PROVE  /\ ready # << >> /\ Head(ready) \in Handler /\ Head(ready).kind = kind
         /\ ready' = Tail(ready) /\ ready' \in Seq(Handler)
         /\ Ready = Ready' \cup {Head(ready)}
         /\ Head(ready) = ready[1] /\ 1 \in 1 .. Len(ready)
         /\ Len(ready') = Len(ready) - 1 /\ Len(ready) \in Nat
         /\ \A i \in 1 .. Len(ready') : ready'[i] = ready[i + 1]
<1>1. ready \in Seq(Handler) /\ ready # << >> /\ Head(ready).kind = kind /\ ready' = Tail(ready)
  BY DEF Types, Run
<1>2. /\ Range(ready) = Range(Tail(ready)) \cup {Head(ready)}
      /\ Tail(ready) \in Seq(Handler) /\ Len(Tail(ready)) = Len(ready) - 1
      /\ Len(ready) \in Nat \ {0}
      /\ \A i \in 1 .. Len(ready) - 1 : Tail(ready)[i] = ready[i + 1]
      /\ Head(ready) = ready[1] /\ Head(ready) \in Handler
  BY <1>1, RangeOfTail
<1>3. Ready = Range(ready) /\ Ready' = Range(Tail(ready))
  BY <1>1 DEF Ready
<1> QED BY <1>1, <1>2, <1>3

(* A handler that becomes ready is put at the end of the queue.            *)
LEMMA AddFacts ==
  ASSUME Types, NEW h \in Handler, ready' = Append(ready, h)
  PROVE  /\ ready' \in Seq(Handler) /\ Ready' = Ready \cup {h}
         /\ Len(ready') = Len(ready) + 1 /\ Len(ready) \in Nat
         /\ \A i \in 1 .. Len(ready) : ready'[i] = ready[i]
         /\ ready'[Len(ready) + 1] = h
<1>1. ready \in Seq(Handler)
  BY DEF Types
<1>2. Range(Append(ready, h)) = Range(ready) \cup {h}
  BY <1>1, RangeOfAppend
<1>3. Ready = Range(ready) /\ Ready' = Range(Append(ready, h))
  BY DEF Ready
<1> QED BY <1>1, <1>2, <1>3, AppendProperties, LenProperties

(* The units a write moves, and what it leaves.                            *)
LEMMA WriteTypes ==
  ASSUME Types, NEW c \in Client, WriteSome(c)
  PROVE  LET op == Head(writes[c])
             n  == Least(Len(op), Least(MaxTransfer, SockBuf - Len(stream[c])))
         IN  /\ op \in Seq(Unit) \ {<< >>} /\ op \in Writes(c)
             /\ n \in 1 .. Len(op) /\ n \in 0 .. Len(op) /\ Len(op) \in Nat
             /\ Prefix(op, n) \in Seq(Unit) /\ Len(Prefix(op, n)) = n
             /\ Rest(op, n) \in Seq(Unit)
             /\ Len(stream[c]) + n <= SockBuf
             /\ stream[c] \in Seq(Unit) /\ stream'[c] = stream[c] \o Prefix(op, n)
             /\ stream'[c] \in Seq(Unit) /\ Len(stream'[c]) <= SockBuf
             /\ writes[c] # << >> /\ writes'[c] = Tail(writes[c])
             /\ writes'[c] \in Seq(Seq(Unit) \ {<< >>})
<1> DEFINE op == Head(writes[c])
           n  == Least(Len(op), Least(MaxTransfer, SockBuf - Len(stream[c])))
<1>1. /\ writes[c] \in Seq(Seq(Unit) \ {<< >>}) /\ writes[c] # << >>
      /\ stream[c] \in Seq(Unit) /\ Len(stream[c]) <= SockBuf
      /\ stream' = [stream EXCEPT ![c] = @ \o Prefix(op, n)] /\ n > 0
      /\ writes' = [writes EXCEPT ![c] = Tail(@)]
      /\ stream \in [Client -> Seq(Unit)] /\ writes \in [Client -> Seq(Seq(Unit) \ {<< >>})]
  BY DEF Types, WriteSome
<1>2. op \in Seq(Unit) \ {<< >>} /\ Tail(writes[c]) \in Seq(Seq(Unit) \ {<< >>})
      /\ op \in Writes(c)
  BY <1>1, RangeOfTail DEF Writes
<1>3. Len(op) \in Nat /\ Len(stream[c]) \in Nat
  BY <1>1, <1>2, LenProperties
<1>4. SockBuf \in Nat /\ MaxTransfer \in Nat
  BY NetworkAssumption
<1>5. n \in 0 .. Len(op) /\ n \in 1 .. Len(op) /\ Len(stream[c]) + n <= SockBuf
  BY <1>1, <1>3, <1>4 DEF Least
<1> HIDE DEF n
<1>6. Prefix(op, n) \in Seq(Unit) /\ Len(Prefix(op, n)) = n /\ Rest(op, n) \in Seq(Unit)
  BY <1>2, <1>5, SplitFacts
<1>7. stream[c] \o Prefix(op, n) \in Seq(Unit) /\ Len(stream[c] \o Prefix(op, n)) = Len(stream[c]) + n
  <2> DEFINE p == Prefix(op, n)
             s == stream[c]
  <2>1. p \in Seq(Unit) /\ Len(p) = n /\ s \in Seq(Unit)
    BY <1>1, <1>6
  <2> HIDE DEF p, s
  <2>2. s \o p \in Seq(Unit) /\ Len(s \o p) = Len(s) + n
    BY <2>1, ConcatProperties
  <2> QED BY <2>2 DEF p, s
<1>8. stream'[c] = stream[c] \o Prefix(op, n) /\ writes'[c] = Tail(writes[c])
  BY <1>1
<1> QED BY <1>1, <1>2, <1>3, <1>5, <1>6, <1>7, <1>8 DEF n

(* What a read takes of the stream.                                        *)
LEMMA ReadTypes ==
  ASSUME Types, NEW c \in Client, ReadBody(c)
  PROVE  LET missing == BodyLength(read_buf_[c][1]) + 1 - Len(read_buf_[c])
             n       == Least(missing, Len(stream[c]))
             got     == read_buf_[c] \o Prefix(stream[c], n)
         IN  /\ read_buf_[c] \in Seq(Unit) /\ stream[c] \in Seq(Unit) /\ read_buf_[c][1] \in Unit
             /\ missing \in Int /\ n \in 0 .. Len(stream[c]) /\ n <= missing
             /\ Prefix(stream[c], n) \in Seq(Unit)
             /\ got \in Seq(Unit) /\ Len(got) = Len(read_buf_[c]) + n
             /\ Rest(stream[c], n) \in Seq(Unit) /\ Len(Rest(stream[c], n)) = Len(stream[c]) - n
             /\ Len(read_buf_[c]) \in Nat \ {0} /\ Len(stream[c]) \in Nat
<1> DEFINE missing == BodyLength(read_buf_[c][1]) + 1 - Len(read_buf_[c])
           n       == Least(missing, Len(stream[c]))
           got     == read_buf_[c] \o Prefix(stream[c], n)
<1>1. /\ read_buf_[c] \in Seq(Unit) /\ stream[c] \in Seq(Unit) /\ read_buf_[c] # << >>
      /\ n > 0 \/ missing = 0
  BY DEF Types, ReadBody
<1>2. Len(read_buf_[c]) \in Nat \ {0} /\ Len(stream[c]) \in Nat
  BY <1>1, LenProperties, EmptySeq
<1>3. read_buf_[c][1] \in Unit
  <2>1. 1 \in 1 .. Len(read_buf_[c])
    BY <1>2
  <2> QED BY <1>1, <2>1, ElementOfSeq
<1>4. BodyLength(read_buf_[c][1]) \in Nat
  BY <1>3, UnitFacts, NetworkAssumption DEF BodyLength
<1>5. missing \in Int
  BY <1>2, <1>4
<1> HIDE DEF missing
<1>6. n \in 0 .. Len(stream[c]) /\ n <= missing
  BY <1>1, <1>2, <1>5 DEF Least
<1> HIDE DEF n
<1>7. /\ Prefix(stream[c], n) \in Seq(Unit) /\ Len(Prefix(stream[c], n)) = n
      /\ Rest(stream[c], n) \in Seq(Unit) /\ Len(Rest(stream[c], n)) = Len(stream[c]) - n
  BY <1>1, <1>6, SplitFacts
<1>8. got \in Seq(Unit) /\ Len(got) = Len(read_buf_[c]) + n
  <2> DEFINE p == Prefix(stream[c], n)
             s == read_buf_[c]
  <2>1. p \in Seq(Unit) /\ Len(p) = n /\ s \in Seq(Unit)
    BY <1>1, <1>7
  <2> HIDE DEF p, s
  <2>2. s \o p \in Seq(Unit) /\ Len(s \o p) = Len(s) + n
    BY <2>1, ConcatProperties
  <2> QED BY <2>2 DEF p, s
<1> QED BY <1>1, <1>2, <1>3, <1>5, <1>6, <1>7, <1>8 DEF n, missing

LEMMA FrameType ==
  ASSUME NEW v \in Version
  PROVE  Frame(v) \in Seq(Unit) \ {<< >>}
BY FrameIsPiece, PieceFacts

LEMMA TypesRun ==
  ASSUME Types, HostNetworkThread
  PROVE  Types'
<1> USE DEF Types
<1>1. CASE RunBroadcast
  <2> DEFINE v == Head(ready).version
             Joined(c) == c \in sessions_ \cap open
  <2>1. ready' \in Seq(Handler) /\ v \in Version
    BY <1>1, RunFacts, HandlerFacts DEF RunBroadcast
  <2>2. Frame(v) \in Seq(Unit) \ {<< >>}
    BY <2>1, FrameType
  <2>3. ASSUME NEW c \in Client
        PROVE  (IF Joined(c) THEN Append(writes[c], Frame(v)) ELSE writes[c])
                 \in Seq(Seq(Unit) \ {<< >>})
    <3>1. writes[c] \in Seq(Seq(Unit) \ {<< >>})
      OBVIOUS
    <3> QED BY <2>2, <3>1, AppendProperties
  <2>4. writes' \in [Client -> Seq(Seq(Unit) \ {<< >>})]
    BY <1>1, <2>3 DEF RunBroadcast
  <2> HIDE DEF v
  <2>5. latest_data_' = v /\ sessions_' = sessions_ \cap open
    BY <1>1 DEF RunBroadcast, v
  <2> QED BY <1>1, <2>1, <2>4, <2>5 DEF RunBroadcast, clients
<1>2. CASE RunSent
  <2> DEFINE h == Head(ready)
  <2>1. ready' \in Seq(Handler) /\ h.client \in Client /\ h.rest \in Seq(Unit)
    BY <1>2, RunFacts, HandlerFacts DEF RunSent
  <2>2. ASSUME h.rest # << >>
        PROVE  Append(writes[h.client], h.rest) \in Seq(Seq(Unit) \ {<< >>})
    <3>1. writes[h.client] \in Seq(Seq(Unit) \ {<< >>}) /\ h.rest \in Seq(Unit) \ {<< >>}
      BY <2>1, <2>2
    <3> QED BY <3>1, AppendProperties
  <2> HIDE DEF h
  <2>3. writes' = IF h.rest # << >> /\ h.client \in open
                  THEN [writes EXCEPT ![h.client] = Append(@, h.rest)] ELSE writes
    BY <1>2 DEF RunSent, h
  <2>4. writes' \in [Client -> Seq(Seq(Unit) \ {<< >>})]
    BY <2>1, <2>2, <2>3
  <2> QED BY <1>2, <2>1, <2>4 DEF RunSent, host, clients
<1>3. CASE RunSendFailed
  <2> DEFINE h == Head(ready)
  <2>1. ready' \in Seq(Handler) /\ h.client \in Client
    BY <1>3, RunFacts, HandlerFacts DEF RunSendFailed
  <2> HIDE DEF h
  <2>2. open' = open \ {h.client} /\ writes' = [writes EXCEPT ![h.client] = << >>]
    BY <1>3 DEF RunSendFailed, h
  <2>3. << >> \in Seq(Seq(Unit) \ {<< >>})
    BY EmptySeq
  <2>4. writes' \in [Client -> Seq(Seq(Unit) \ {<< >>})]
    BY <2>2, <2>3
  <2> QED BY <1>3, <2>1, <2>2, <2>4 DEF RunSendFailed, clients
<1>4. CASE RunAccepted
  <2> DEFINE h == Head(ready)
  <2>1. ready' \in Seq(Handler) /\ h.client \in Client
    BY <1>4, RunFacts, HandlerFacts DEF RunAccepted
  <2> HIDE DEF h
  <2>2. /\ open' = open \cup {h.client} /\ sessions_' = sessions_ \cup {h.client}
        /\ writes' = IF latest_data_ # 0 /\ Size[latest_data_] # 0
                     THEN [writes EXCEPT ![h.client] = Append(@, Frame(latest_data_))]
                     ELSE writes
    BY <1>4 DEF RunAccepted, h
  <2>3. Append(writes[h.client], Frame(latest_data_)) \in Seq(Seq(Unit) \ {<< >>})
    <3>1. writes[h.client] \in Seq(Seq(Unit) \ {<< >>})
      BY <2>1
    <3> QED BY <3>1, FrameType, AppendProperties
  <2>4. writes' \in [Client -> Seq(Seq(Unit) \ {<< >>})]
    BY <2>2, <2>3
  <2> QED BY <1>4, <2>1, <2>2, <2>4 DEF RunAccepted, clients
<1> QED BY <1>1, <1>2, <1>3, <1>4 DEF HostNetworkThread

LEMMA TypesClient ==
  ASSUME Types, NEW c \in Client,
         \/ AcceptConnection(c) \/ WriteSome(c) \/ WriteToNobody(c)
         \/ Connect(c) \/ LoseConnection(c)
         \/ ReadHeader(c) \/ ReadBody(c)
         \/ HasNewData(c) \/ GetLatestBuffer(c) \/ ClientStop(c)
  PROVE  Types'
<1>1. CASE AcceptConnection(c)
  <2>1. ready' \in Seq(Handler)
    BY <1>1, HandlerFacts, AddFacts DEF AcceptConnection
  <2> QED BY <1>1, <2>1 DEF AcceptConnection, Types, host, clients
<1>2. CASE WriteSome(c)
  <2>1. /\ stream'[c] \in Seq(Unit) /\ Len(stream'[c]) <= SockBuf
        /\ writes'[c] \in Seq(Seq(Unit) \ {<< >>})
    BY <1>2, WriteTypes
  <2>2. /\ stream' = [stream EXCEPT ![c] = stream'[c]]
        /\ writes' = [writes EXCEPT ![c] = writes'[c]]
    BY <1>2 DEF WriteSome, Types
  <2>3. /\ stream' \in [Client -> Seq(Unit)] /\ \A d \in Client : Len(stream'[d]) <= SockBuf
        /\ writes' \in [Client -> Seq(Seq(Unit) \ {<< >>})]
    BY <2>1, <2>2 DEF Types
  <2>4. ready' \in Seq(Handler)
    <3> DEFINE r == Rest(Head(writes[c]), Least(Len(Head(writes[c])),
                          Least(MaxTransfer, SockBuf - Len(stream[c]))))
    <3>1. r \in Seq(Unit)
      BY <1>2, WriteTypes
    <3>2. ready' = Append(ready, SentOf(c, r))
      BY <1>2 DEF WriteSome
    <3> HIDE DEF r
    <3> QED BY <3>1, <3>2, HandlerFacts, AddFacts
  <2> QED BY <1>2, <2>3, <2>4 DEF WriteSome, Types, host, clients
<1>3. CASE WriteToNobody(c)
  <2>1. ready' \in Seq(Handler)
    <3>1. SendFailedOf(c) \in Handler /\ SentOf(c, << >>) \in Handler
      BY HandlerFacts, EmptySeq
    <3>2. PICK h \in {SendFailedOf(c), SentOf(c, << >>)} : ready' = Append(ready, h)
      BY <1>3 DEF WriteToNobody
    <3> QED BY <3>1, <3>2, AddFacts
  <2>2. /\ writes[c] # << >> /\ writes[c] \in Seq(Seq(Unit) \ {<< >>})
        /\ writes' = [writes EXCEPT ![c] = Tail(@)]
    BY <1>3 DEF WriteToNobody, Types
  <2>3. Tail(writes[c]) \in Seq(Seq(Unit) \ {<< >>})
    BY <2>2, RangeOfTail
  <2>4. writes' \in [Client -> Seq(Seq(Unit) \ {<< >>})]
    BY <2>2, <2>3 DEF Types
  <2> QED BY <1>3, <2>1, <2>4 DEF WriteToNobody, Types, host, clients
<1>4. CASE Connect(c)
  BY <1>4 DEF Connect, Types, host, clients
<1>5. CASE LoseConnection(c)
  <2>1. PICK n \in 0 .. Len(stream[c]) : stream' = [stream EXCEPT ![c] = Prefix(@, n)]
    BY <1>5 DEF LoseConnection
  <2>2. stream[c] \in Seq(Unit) /\ Len(stream[c]) <= SockBuf /\ Len(stream[c]) \in Nat
    BY LenProperties DEF Types
  <2>3. Prefix(stream[c], n) \in Seq(Unit) /\ Len(Prefix(stream[c], n)) = n
    BY <2>2, SplitFacts
  <2>4. n <= SockBuf
    BY <2>2, NetworkAssumption
  <2>5. stream' \in [Client -> Seq(Unit)] /\ \A d \in Client : Len(stream'[d]) <= SockBuf
    BY <2>1, <2>3, <2>4 DEF Types
  <2> QED BY <1>5, <2>5 DEF LoseConnection, Types, host, clients
<1>6. CASE ReadHeader(c)
  <2>1. /\ stream[c] \in Seq(Unit) /\ stream[c] # << >> /\ Len(stream[c]) <= SockBuf
        /\ read_buf_' = [read_buf_ EXCEPT ![c] = <<Head(stream[c])>>]
        /\ stream' = [stream EXCEPT ![c] = Tail(@)]
    BY <1>6 DEF ReadHeader, Types
  <2>2. /\ Tail(stream[c]) \in Seq(Unit) /\ Len(Tail(stream[c])) = Len(stream[c]) - 1
        /\ Len(stream[c]) \in Nat /\ Head(stream[c]) \in Unit
    BY <2>1, RangeOfTail
  <2>3. <<Head(stream[c])>> \in Seq(Unit) /\ Len(Tail(stream[c])) <= SockBuf
    BY <2>1, <2>2, NetworkAssumption
  <2>4. /\ stream' \in [Client -> Seq(Unit)] /\ \A d \in Client : Len(stream'[d]) <= SockBuf
        /\ read_buf_' \in [Client -> Seq(Unit)]
    BY <2>1, <2>2, <2>3 DEF Types
  <2> QED BY <1>6, <2>4 DEF ReadHeader, Types, host
<1>7. CASE ReadBody(c)
  <2> DEFINE missing == BodyLength(read_buf_[c][1]) + 1 - Len(read_buf_[c])
             n       == Least(missing, Len(stream[c]))
             got     == read_buf_[c] \o Prefix(stream[c], n)
             rest    == Rest(stream[c], n)
  <2>1. got \in Seq(Unit) /\ rest \in Seq(Unit) /\ Len(rest) <= SockBuf
    <3>1. /\ got \in Seq(Unit) /\ rest \in Seq(Unit) /\ Len(rest) = Len(stream[c]) - n
          /\ n \in 0 .. Len(stream[c]) /\ Len(stream[c]) \in Nat
      BY <1>7, ReadTypes
    <3>2. Len(stream[c]) <= SockBuf /\ SockBuf \in Nat
      BY NetworkAssumption DEF Types
    <3> HIDE DEF n, got, rest
    <3> QED BY <3>1, <3>2
  <2>2. /\ stream' = [stream EXCEPT ![c] = rest]
        /\ \/ /\ latest_buffer_' = [latest_buffer_ EXCEPT ![c] = got]
              /\ new_data_' = [new_data_ EXCEPT ![c] = TRUE]
              /\ read_buf_' = [read_buf_ EXCEPT ![c] = << >>]
           \/ /\ read_buf_' = [read_buf_ EXCEPT ![c] = got]
              /\ UNCHANGED <<latest_buffer_, new_data_>>
    BY <1>7 DEF ReadBody
  <2> HIDE DEF got, rest
  <2>3. << >> \in Seq(Unit)
    BY EmptySeq
  <2>4. /\ stream' \in [Client -> Seq(Unit)] /\ \A d \in Client : Len(stream'[d]) <= SockBuf
        /\ read_buf_' \in [Client -> Seq(Unit)]
        /\ latest_buffer_' \in [Client -> Seq(Unit)]
        /\ new_data_' \in [Client -> BOOLEAN]
    <3>1. stream' \in [Client -> Seq(Unit)] /\ \A d \in Client : Len(stream'[d]) <= SockBuf
      BY <2>1, <2>2 DEF Types
    <3>2. read_buf_' \in [Client -> Seq(Unit)]
      BY <2>1, <2>2, <2>3 DEF Types
    <3>3. latest_buffer_' \in [Client -> Seq(Unit)]
      BY <2>1, <2>2 DEF Types
    <3>4. new_data_' \in [Client -> BOOLEAN]
      BY <2>2 DEF Types
    <3> QED BY <3>1, <3>2, <3>3, <3>4
  <2> QED BY <1>7, <2>4 DEF ReadBody, Types, host
<1>8. CASE HasNewData(c)
  BY <1>8 DEF HasNewData, Types, host
<1>9. CASE GetLatestBuffer(c)
  <2>1. latest_buffer_[c] \in Seq(Unit)
    BY DEF Types
  <2> QED BY <1>9, <2>1 DEF GetLatestBuffer, Types, host
<1>10. CASE ClientStop(c)
  BY <1>10 DEF ClientStop, Types, host
<1> QED BY <1>1, <1>2, <1>3, <1>4, <1>5, <1>6, <1>7, <1>8, <1>9, <1>10

LEMMA TypesStep ==
  ASSUME Types, [Next]_nvars
  PROVE  Types'
<1>1. CASE Post
  <2>1. version + 1 \in Version
    BY <1>1, NetworkAssumption DEF Post, Types, Version
  <2>2. ready' \in Seq(Handler)
    BY <1>1, <2>1, HandlerFacts, AddFacts DEF Post
  <2> QED BY <1>1, <2>1, <2>2 DEF Post, Types, clients
<1>2. CASE HostStop
  <2>1. << >> \in Seq(Seq(Unit) \ {<< >>})
    BY EmptySeq
  <2> QED BY <1>2, <2>1 DEF HostStop, Types, clients
<1>3. CASE HostNetworkThread
  BY <1>3, TypesRun
<1>4. CASE UNCHANGED nvars
  BY <1>4 DEF nvars, host, clients, Types
<1> QED BY <1>1, <1>2, <1>3, <1>4, TypesClient DEF Next

LEMMA TypesInit ==
  ASSUME Init
  PROVE  Types
<1>1. << >> \in Seq(Unit) /\ << >> \in Seq(Handler) /\ << >> \in Seq(Seq(Unit) \ {<< >>})
      /\ Len(<< >>) = 0
  BY EmptySeq
<1>2. 0 \in Version /\ 0 <= SockBuf
  BY NetworkAssumption DEF Version
<1> QED BY <1>1, <1>2 DEF Init, Types

LEMMA UnitsTyped ==
  ASSUME Types
  PROVE  TypeOK
<1>1. \A i \in 1 .. Len(ready) : ready[i].kind \in {"Broadcast", "Accepted", "Sent", "SendFailed"}
  <2> SUFFICES ASSUME NEW i \in 1 .. Len(ready)
               PROVE  ready[i].kind \in {"Broadcast", "Accepted", "Sent", "SendFailed"}
    OBVIOUS
  <2>1. ready[i] \in Handler
    BY ElementOfSeq DEF Types
  <2> QED BY <2>1, HandlerFacts
<1>2. ASSUME NEW c \in Client, NEW f \in {stream[c], read_buf_[c], latest_buffer_[c], view[c]},
             NEW i \in 1 .. Len(f)
      PROVE  f[i][1] \in Version /\ f[i][2] \in 0 .. Size[f[i][1]]
  <2>1. f \in Seq(Unit)
    BY DEF Types
  <2>2. f[i] \in Unit
    BY <2>1, ElementOfSeq
  <2> QED BY <2>2, UnitFacts
<1> QED BY <1>1, <1>2 DEF Types, TypeOK

(* What travels between the host's text and a client's screen is always    *)
(* made of units of texts the host has, and a connection never holds more  *)
(* than it has room for (send_buffer, network_models.cpp:29).               *)
THEOREM NetworkTypes == Spec => []TypeOK
<1>1. Init => Types
  BY TypesInit
<1>2. Types /\ [Next]_nvars => Types'
  BY TypesStep
<1>3. Types => TypeOK
  BY UnitsTyped
<1> QED BY <1>1, <1>2, <1>3, PTL DEF Spec

-----------------------------------------------------------------------------
(* The queue of handlers.                                                  *)

LEMMA ReadyFacts ==
  ASSUME Types
  PROVE  /\ Ready = { ready[i] : i \in 1 .. Len(ready) } /\ Ready \subseteq Handler
         /\ Len(ready) \in Nat
         /\ version \in Nat /\ latest_data_ \in Nat
BY RangeFacts, LenProperties, NetworkAssumption DEF Types, Ready, Version

(* A handler of another kind joins the queue.                              *)
LEMMA QueueAdd ==
  ASSUME Types, Types', Queue, NEW h \in Handler, ready' = Append(ready, h),
         UNCHANGED <<version, latest_data_>>, h.kind # "Broadcast",
         h.kind = "Accepted" => \A i \in 1 .. Len(ready) : ready[i].kind # "Accepted"
  PROVE  Queue'
<1>1. /\ Len(ready') = Len(ready) + 1 /\ Len(ready) \in Nat /\ Ready' = Ready \cup {h}
      /\ \A i \in 1 .. Len(ready) : ready'[i] = ready[i]
      /\ ready'[Len(ready) + 1] = h
  BY AddFacts
<1>2. \A i \in 1 .. Len(ready') : i \in 1 .. Len(ready) \/ i = Len(ready) + 1
  BY <1>1
<1>3. OneAccepted'
  BY <1>1, <1>2 DEF OneAccepted, Queue
<1>4. \A i \in 1 .. Len(ready') :
        ready'[i].kind = "Broadcast" => i \in 1 .. Len(ready) /\ ready'[i] = ready[i]
  BY <1>1, <1>2
<1>5. BroadcastInv'
  BY <1>1, <1>4 DEF BroadcastInv, Queue
<1> QED BY <1>3, <1>5 DEF Queue

(* A handler of another kind leaves it.                                    *)
LEMMA QueueRun ==
  ASSUME NEW kind, Types, Types', Queue, Run(kind), kind # "Broadcast",
         UNCHANGED <<version, latest_data_>>
  PROVE  Queue'
<1>1. /\ Ready = Ready' \cup {Head(ready)} /\ Head(ready).kind = kind
      /\ Len(ready') = Len(ready) - 1 /\ Len(ready) \in Nat
      /\ \A i \in 1 .. Len(ready') : ready'[i] = ready[i + 1]
  BY RunFacts
<1>2. \A i \in 1 .. Len(ready') : i + 1 \in 1 .. Len(ready)
  BY <1>1
<1>3. OneAccepted'
  <2> SUFFICES ASSUME NEW i \in 1 .. Len(ready'), NEW j \in 1 .. Len(ready'),
                      ready'[i].kind = "Accepted", ready'[j].kind = "Accepted"
               PROVE  i = j
    BY DEF OneAccepted
  <2>1. i + 1 = j + 1
    BY <1>1, <1>2 DEF OneAccepted, Queue
  <2> QED BY <2>1, <1>1
<1>4. \A v \in Version : BroadcastOf(v) \in Ready => BroadcastOf(v) \in Ready'
  BY <1>1 DEF BroadcastOf
<1>5. BroadcastInv'
  <2>1. latest_data_' <= version'
    BY DEF BroadcastInv, Queue
  <2>2. ASSUME NEW i \in 1 .. Len(ready'), ready'[i].kind = "Broadcast"
        PROVE  ready'[i].version \in latest_data_' + 1 .. version'
    BY <1>1, <1>2, <2>2 DEF BroadcastInv, Queue
  <2>3. ASSUME NEW i \in 1 .. Len(ready'), NEW j \in 1 .. Len(ready'), i < j,
               ready'[i].kind = "Broadcast", ready'[j].kind = "Broadcast"
        PROVE  ready'[i].version < ready'[j].version
    <3>1. i + 1 < j + 1 /\ i + 1 \in 1 .. Len(ready) /\ j + 1 \in 1 .. Len(ready)
      BY <1>1, <1>2, <2>3
    <3> QED BY <1>1, <2>3, <3>1 DEF BroadcastInv, Queue
  <2>4. ASSUME NEW v \in latest_data_' + 1 .. version'
        PROVE  BroadcastOf(v) \in Ready'
    <3>1. v \in Version
      BY ReadyFacts, NetworkAssumption DEF Version, Types
    <3> QED BY <1>4, <3>1 DEF BroadcastInv, Queue
  <2> QED BY <2>1, <2>2, <2>3, <2>4 DEF BroadcastInv
<1> QED BY <1>3, <1>5 DEF Queue

LEMMA QueuePost ==
  ASSUME Types, Types', Queue, Post
  PROVE  Queue'
<1> DEFINE h == BroadcastOf(version + 1)
<1>1. h \in Handler /\ h.kind = "Broadcast" /\ h.version = version + 1
  BY HandlerFacts DEF Types, Post, BroadcastOf
<1>2. ready' = Append(ready, h) /\ version' = version + 1 /\ latest_data_' = latest_data_
  BY DEF Post
<1>3. /\ Len(ready') = Len(ready) + 1 /\ Len(ready) \in Nat /\ Ready' = Ready \cup {h}
      /\ \A i \in 1 .. Len(ready) : ready'[i] = ready[i]
      /\ ready'[Len(ready) + 1] = h
  BY <1>1, <1>2, AddFacts
<1>4. h = BroadcastOf(version + 1)
  OBVIOUS
<1> HIDE DEF h
<1>5. \A i \in 1 .. Len(ready') : i \in 1 .. Len(ready) \/ i = Len(ready) + 1
  BY <1>3
<1>6. version \in Nat /\ latest_data_ \in Nat /\ latest_data_ <= version
  BY ReadyFacts DEF BroadcastInv, Queue
<1>7. OneAccepted'
  BY <1>1, <1>3, <1>5 DEF OneAccepted, Queue
<1>8. ASSUME NEW i \in 1 .. Len(ready'), ready'[i].kind = "Broadcast"
      PROVE  ready'[i].version \in latest_data_' + 1 .. version'
  <2>1. CASE i \in 1 .. Len(ready)
    <3>1. ready'[i].version \in latest_data_ + 1 .. version
      BY <1>3, <1>8, <2>1 DEF BroadcastInv, Queue
    <3> QED BY <1>2, <1>6, <3>1
  <2>2. CASE i = Len(ready) + 1
    BY <1>1, <1>2, <1>3, <1>6, <2>2
  <2> QED BY <1>5, <2>1, <2>2
<1>9. ASSUME NEW i \in 1 .. Len(ready'), NEW j \in 1 .. Len(ready'), i < j,
             ready'[i].kind = "Broadcast", ready'[j].kind = "Broadcast"
      PROVE  ready'[i].version < ready'[j].version
  <2>1. i \in 1 .. Len(ready) /\ ready'[i] = ready[i]
    BY <1>3, <1>9
  <2>2. ready[i].version \in latest_data_ + 1 .. version
    BY <2>1, <1>9 DEF BroadcastInv, Queue
  <2>3. CASE j \in 1 .. Len(ready)
    BY <1>3, <1>9, <2>1, <2>3 DEF BroadcastInv, Queue
  <2>4. CASE j = Len(ready) + 1
    <3>1. ready'[j].version = version + 1
      BY <1>1, <1>3, <2>4
    <3> QED BY <1>6, <2>1, <2>2, <3>1
  <2> QED BY <1>5, <2>3, <2>4
<1>10. ASSUME NEW v \in latest_data_' + 1 .. version'
       PROVE  BroadcastOf(v) \in Ready'
  <2>1. v \in latest_data_ + 1 .. version \/ v = version + 1
    BY <1>2, <1>6
  <2> QED BY <1>3, <1>4, <2>1 DEF BroadcastInv, Queue
<1>11. latest_data_' <= version'
  BY <1>2, <1>6
<1> QED BY <1>7, <1>8, <1>9, <1>10, <1>11 DEF Queue, BroadcastInv

(* The broadcast that runs is that of the next text.                       *)
LEMMA QueueBroadcast ==
  ASSUME Types, Types', Queue, RunBroadcast
  PROVE  Queue' /\ latest_data_' = latest_data_ + 1 /\ latest_data_' \in Nat /\ latest_data_ \in Nat
<1> DEFINE v == Head(ready).version
<1>1. /\ Ready = Ready' \cup {Head(ready)} /\ Head(ready).kind = "Broadcast"
      /\ Head(ready) \in Handler
      /\ Len(ready') = Len(ready) - 1 /\ Len(ready) \in Nat
      /\ \A i \in 1 .. Len(ready') : ready'[i] = ready[i + 1]
      /\ Head(ready) = ready[1] /\ 1 \in 1 .. Len(ready)
  BY RunFacts DEF RunBroadcast
<1>2. latest_data_' = v /\ version' = version
  BY DEF RunBroadcast
<1>3. /\ version \in Nat /\ latest_data_ \in Nat
      /\ Ready = { ready[i] : i \in 1 .. Len(ready) }
  BY ReadyFacts
<1>4. v \in latest_data_ + 1 .. version
  BY <1>1 DEF BroadcastInv, Queue
<1>5. v = latest_data_ + 1
  <2>1. latest_data_ + 1 \in latest_data_ + 1 .. version
    BY <1>3, <1>4
  <2>2. BroadcastOf(latest_data_ + 1) \in Ready
    BY <2>1 DEF BroadcastInv, Queue
  <2>3. PICK i \in 1 .. Len(ready) : ready[i] = BroadcastOf(latest_data_ + 1)
    BY <1>3, <2>2
  <2>4. ready[i].kind = "Broadcast" /\ ready[i].version = latest_data_ + 1
    BY <2>3 DEF BroadcastOf
  <2>5. CASE i = 1
    BY <1>1, <2>4, <2>5
  <2>6. CASE i # 1
    <3>1. 1 < i
      BY <1>1, <2>6
    <3>2. v < latest_data_ + 1
      BY <1>1, <2>4, <3>1 DEF BroadcastInv, Queue
    <3> QED BY <1>3, <1>4, <3>2
  <2> QED BY <2>5, <2>6
<1> HIDE DEF v
<1>6. \A i \in 1 .. Len(ready') : i + 1 \in 1 .. Len(ready) /\ 1 < i + 1
  BY <1>1
<1>7. OneAccepted'
  <2> SUFFICES ASSUME NEW i \in 1 .. Len(ready'), NEW j \in 1 .. Len(ready'),
                      ready'[i].kind = "Accepted", ready'[j].kind = "Accepted"
               PROVE  i = j
    BY DEF OneAccepted
  <2>1. i + 1 = j + 1
    BY <1>1, <1>6 DEF OneAccepted, Queue
  <2> QED BY <2>1, <1>1
<1>8. ASSUME NEW i \in 1 .. Len(ready'), ready'[i].kind = "Broadcast"
      PROVE  ready'[i].version \in latest_data_' + 1 .. version'
  <2>1. ready[i + 1].version \in latest_data_ + 1 .. version
    BY <1>1, <1>6, <1>8 DEF BroadcastInv, Queue
  <2>2. v < ready[i + 1].version
    BY <1>1, <1>6, <1>8 DEF BroadcastInv, Queue, v
  <2> QED BY <1>1, <1>2, <1>3, <1>5, <2>1, <2>2
<1>9. ASSUME NEW i \in 1 .. Len(ready'), NEW j \in 1 .. Len(ready'), i < j,
             ready'[i].kind = "Broadcast", ready'[j].kind = "Broadcast"
      PROVE  ready'[i].version < ready'[j].version
  <2>1. i + 1 < j + 1
    BY <1>1, <1>9
  <2> QED BY <1>1, <1>6, <1>9, <2>1 DEF BroadcastInv, Queue
<1>10. ASSUME NEW w \in latest_data_' + 1 .. version'
       PROVE  BroadcastOf(w) \in Ready'
  <2>1. w \in latest_data_ + 1 .. version /\ w # v
    BY <1>2, <1>3, <1>5
  <2>2. BroadcastOf(w) \in Ready
    BY <2>1 DEF BroadcastInv, Queue
  <2>3. BroadcastOf(w) # Head(ready)
    BY <2>1 DEF BroadcastOf, v
  <2> QED BY <1>1, <2>2, <2>3
<1>11. latest_data_' <= version'
  BY <1>2, <1>3, <1>4
<1> QED BY <1>2, <1>3, <1>5, <1>7, <1>8, <1>9, <1>10, <1>11 DEF Queue, BroadcastInv

(* No step disturbs the queue, and none goes back to an older text.        *)
LEMMA QueueStep ==
  ASSUME Types, Types', Queue, [Next]_nvars
  PROVE  Queue' /\ latest_data_ <= latest_data_'
<1>1. latest_data_ \in Nat
  BY ReadyFacts
<1>2. CASE Post
  BY <1>1, <1>2, QueuePost DEF Post
<1>3. CASE RunBroadcast
  BY <1>1, <1>3, QueueBroadcast
<1>4. CASE RunSent
  BY <1>1, <1>4, QueueRun DEF RunSent, host
<1>5. CASE RunSendFailed
  BY <1>1, <1>5, QueueRun DEF RunSendFailed
<1>6. CASE RunAccepted
  BY <1>1, <1>6, QueueRun DEF RunAccepted
<1>7. ASSUME NEW c \in Client, AcceptConnection(c) PROVE Queue' /\ latest_data_ <= latest_data_'
  <2>1. AcceptedOf(c) \in Handler /\ AcceptedOf(c).kind = "Accepted"
    BY HandlerFacts DEF AcceptedOf
  <2> QED BY <1>1, <1>7, <2>1, QueueAdd DEF AcceptConnection, host
<1>8. ASSUME NEW c \in Client, WriteSome(c) PROVE Queue' /\ latest_data_ <= latest_data_'
  <2> DEFINE r == Rest(Head(writes[c]), Least(Len(Head(writes[c])),
                        Least(MaxTransfer, SockBuf - Len(stream[c]))))
  <2>1. r \in Seq(Unit)
    BY <1>8, WriteTypes
  <2>2. ready' = Append(ready, SentOf(c, r)) /\ UNCHANGED <<version, latest_data_>>
    BY <1>8 DEF WriteSome, host
  <2> HIDE DEF r
  <2>3. SentOf(c, r) \in Handler /\ SentOf(c, r).kind = "Sent"
    BY <2>1, HandlerFacts DEF SentOf
  <2> QED BY <1>1, <2>2, <2>3, QueueAdd
<1>9. ASSUME NEW c \in Client, WriteToNobody(c) PROVE Queue' /\ latest_data_ <= latest_data_'
  <2>1. PICK h \in {SendFailedOf(c), SentOf(c, << >>)} : ready' = Append(ready, h)
    BY <1>9 DEF WriteToNobody
  <2>2. h \in Handler /\ h.kind \in {"Sent", "SendFailed"}
    <3>1. SendFailedOf(c) \in Handler /\ SentOf(c, << >>) \in Handler
      BY HandlerFacts, EmptySeq
    <3>2. SendFailedOf(c).kind = "SendFailed" /\ SentOf(c, << >>).kind = "Sent"
      BY DEF SendFailedOf, SentOf
    <3> QED BY <3>1, <3>2
  <2>3. UNCHANGED <<version, latest_data_>>
    BY <1>9 DEF WriteToNobody, host
  <2> QED BY <1>1, <2>1, <2>2, <2>3, QueueAdd
<1>10. ASSUME UNCHANGED <<ready, version, latest_data_>> PROVE Queue' /\ latest_data_ <= latest_data_'
  BY <1>1, <1>10 DEF Queue, BroadcastInv, OneAccepted, Ready
<1>11. CASE HostStop
  BY <1>10, <1>11 DEF HostStop
<1>12. ASSUME NEW c \in Client,
              \/ Connect(c) \/ LoseConnection(c) \/ ReadHeader(c) \/ ReadBody(c)
              \/ HasNewData(c) \/ GetLatestBuffer(c) \/ ClientStop(c)
       PROVE  UNCHANGED <<ready, version, latest_data_>>
  BY <1>12 DEF Connect, LoseConnection, ReadHeader, ReadBody, HasNewData, GetLatestBuffer,
               ClientStop, host
<1>13. CASE UNCHANGED nvars
  BY <1>10, <1>13 DEF nvars, host
<1> QED BY <1>2, <1>3, <1>4, <1>5, <1>6, <1>7, <1>8, <1>9, <1>10, <1>11, <1>12, <1>13
        DEF Next, HostNetworkThread

-----------------------------------------------------------------------------
(* What a client's invariant looks at, and steps that leave it alone.      *)

LEMMA ClientTypes ==
  ASSUME Types, NEW c \in Client
  PROVE  /\ read_buf_[c] \in Seq(Unit) /\ stream[c] \in Seq(Unit) /\ Wire(c) \in Seq(Unit)
         /\ latest_buffer_[c] \in Seq(Unit) /\ view[c] \in Seq(Unit)
         /\ writes[c] \in Seq(Seq(Unit) \ {<< >>})
         /\ Received(c) \in Version /\ Received(c) \in Nat
         /\ VersionOf(view[c]) \in Version /\ VersionOf(view[c]) \in Nat
         /\ End(c) \in Unit
<1>1. /\ read_buf_[c] \in Seq(Unit) /\ stream[c] \in Seq(Unit)
      /\ latest_buffer_[c] \in Seq(Unit) /\ view[c] \in Seq(Unit)
      /\ writes[c] \in Seq(Seq(Unit) \ {<< >>})
  BY DEF Types
<1>2. Wire(c) \in Seq(Unit)
  BY <1>1, ConcatProperties DEF Wire
<1>3. ASSUME NEW f \in Seq(Unit), f # << >>
      PROVE  f[1] \in Unit /\ f[Len(f)] \in Unit
  <2>1. 1 \in 1 .. Len(f) /\ Len(f) \in 1 .. Len(f)
    BY <1>3, LenProperties, EmptySeq
  <2> QED BY <2>1, ElementOfSeq
<1>4. 0 \in Version /\ Version \subseteq Nat
  BY NetworkAssumption DEF Version
<1>5. ASSUME NEW f \in Seq(Unit)
      PROVE  VersionOf(f) \in Version
  BY <1>3, <1>4, UnitFacts DEF VersionOf
<1>6. ASSUME NEW v \in Version
      PROVE  LastOf(v) \in Unit
  BY NetworkAssumption DEF LastOf, Unit
<1>7. End(c) \in Unit
  BY <1>1, <1>2, <1>3, <1>5, <1>6 DEF End, Received
<1> QED BY <1>1, <1>2, <1>4, <1>5, <1>7 DEF Received

LEMMA HandlersRun ==
  ASSUME NEW kind, Types, Run(kind)
  PROVE  \A c \in Client :
           Handlers(c) = Handlers(c)' \cup
             { h \in {Head(ready)} : h.kind # "Broadcast" /\ h.client = c }
<1>1. Ready = Ready' \cup {Head(ready)}
  BY RunFacts
<1> QED BY <1>1 DEF Handlers

LEMMA HandlersAdd ==
  ASSUME Types, NEW h \in Handler, ready' = Append(ready, h)
  PROVE  \A c \in Client :
           Handlers(c)' = Handlers(c) \cup { g \in {h} : g.kind # "Broadcast" /\ g.client = c }
<1>1. Ready' = Ready \cup {h}
  BY AddFacts
<1> QED BY <1>1 DEF Handlers

(* The client's end of client c does not change, nor what is on the way.   *)
SameEnd(c) ==
  /\ read_buf_'[c] = read_buf_[c] /\ stream'[c] = stream[c]
  /\ latest_buffer_'[c] = latest_buffer_[c] /\ view'[c] = view[c]
  /\ new_data_'[c] = new_data_[c]

LEMMA SameEndFacts ==
  ASSUME Types, NEW c \in Client, SameEnd(c), latest_data_ <= latest_data_', latest_data_' \in Nat,
         ClientInv(c), WireInv(c)
  PROVE  /\ ClientInv(c)' /\ WireInv(c)'
         /\ Wire(c)' = Wire(c) /\ End(c)' = End(c) /\ Received(c)' = Received(c)
<1>1. Wire(c)' = Wire(c) /\ End(c)' = End(c) /\ Received(c)' = Received(c)
  BY DEF SameEnd, Wire, End, Received
<1>2. /\ Received(c) \in Nat /\ latest_data_ \in Nat
      /\ Wire(c) \in Seq(Unit)
  BY ClientTypes, ReadyFacts
<1>3. ClientInv(c)'
  BY <1>1, <1>2 DEF ClientInv, SameEnd
<1>4. \A i \in 1 .. Len(Wire(c)) : Wire(c)[i][1] <= latest_data_'
  <2> SUFFICES ASSUME NEW i \in 1 .. Len(Wire(c)) PROVE Wire(c)[i][1] <= latest_data_'
    OBVIOUS
  <2>1. Wire(c)[i][1] \in Nat /\ Wire(c)[i][1] <= latest_data_
    BY <1>2, ElementOfSeq, UnitFacts DEF WireInv
  <2> QED BY <1>2, <2>1
<1>5. WireInv(c)'
  BY <1>1, <1>4 DEF WireInv, SameEnd
<1> QED BY <1>1, <1>3, <1>5

(* A step that does not concern the host's end of client c.                *)
LEMMA HostSame ==
  ASSUME NEW c \in Client, Part(c), ClientInv(c)', WireInv(c)', End(c)' = End(c),
         Untouched(c) => Untouched(c)',
         UNCHANGED <<hostUp, latest_data_, Handlers(c)>>,
         writes'[c] = writes[c], link'[c] = link[c], quit'[c] = quit[c],
         c \in sessions_' <=> c \in sessions_, c \in open' <=> c \in open
  PROVE  Part(c)'
<1>1. /\ Flowing(c)' = Flowing(c) /\ Cut(c)' = Cut(c) /\ Pending(c)' = Pending(c)
      /\ Waiting(c)' = Waiting(c)
  BY DEF Flowing, Cut, Pending, Writes, Waiting
<1>2. SessionInv(c)'
  BY <1>1 DEF SessionInv, Part, AcceptedOf, SendFailedOf
<1>3. SendInv(c)'
  BY <1>1 DEF SendInv, Part, IsPiece, Firsts
<1>4. NewestInv(c)'
  BY <1>1 DEF NewestInv, Part
<1> QED BY <1>2, <1>3, <1>4 DEF Part

(* A step that does not concern client c at all.                           *)
LEMMA Apart ==
  ASSUME Types, Types', NEW c \in Client, Part(c), SameEnd(c),
         UNCHANGED <<hostUp, latest_data_, Handlers(c)>>,
         writes'[c] = writes[c], link'[c] = link[c], quit'[c] = quit[c],
         c \in sessions_' <=> c \in sessions_, c \in open' <=> c \in open
  PROVE  Part(c)'
<1>1. latest_data_ <= latest_data_' /\ latest_data_' \in Nat
  BY ReadyFacts
<1>2. /\ ClientInv(c)' /\ WireInv(c)' /\ End(c)' = End(c)
  BY <1>1, SameEndFacts DEF Part
<1>3. Untouched(c) => Untouched(c)'
  BY DEF Untouched, SameEnd
<1> QED BY <1>2, <1>3, HostSame

(* A step after which nothing written for client c gets to it.             *)
LEMMA Stopped ==
  ASSUME Types, Types', NEW c \in Client, Part(c), SameEnd(c), ~ Flowing(c)',
         latest_data_' = latest_data_,
         Waiting(c)' => Waiting(c),
         AcceptedOf(c) \in Handlers(c)' => AcceptedOf(c) \in Handlers(c),
         Untouched(c) => Untouched(c)'
  PROVE  Part(c)'
<1>1. latest_data_ <= latest_data_' /\ latest_data_' \in Nat
  BY ReadyFacts
<1>2. /\ ClientInv(c)' /\ WireInv(c)'
  BY <1>1, SameEndFacts DEF Part
<1>3. SessionInv(c)'
  BY DEF SessionInv, Part, AcceptedOf
<1>4. SendInv(c)' /\ NewestInv(c)'
  BY DEF SendInv, NewestInv
<1> QED BY <1>2, <1>3, <1>4 DEF Part

-----------------------------------------------------------------------------
(* The client's steps.                                                     *)

LEMMA HeadAndTail ==
  ASSUME NEW s \in Seq(Unit), s # << >>
  PROVE  <<Head(s)>> \o Tail(s) = s
<1> DEFINE h == <<Head(s)>>
           t == Tail(s)
           r == h \o t
<1>1. /\ t \in Seq(Unit) /\ Len(t) = Len(s) - 1 /\ Len(s) \in Nat \ {0}
      /\ \A i \in 1 .. Len(s) - 1 : t[i] = s[i + 1]
      /\ Head(s) = s[1] /\ Head(s) \in Unit
  BY RangeOfTail
<1>2. h \in Seq(Unit) /\ Len(h) = 1 /\ h[1] = s[1]
  BY <1>1
<1> HIDE DEF h, t
<1>3. /\ r \in Seq(Unit) /\ Len(r) = Len(h) + Len(t)
      /\ \A i \in 1 .. Len(r) : r[i] = IF i <= Len(h) THEN h[i] ELSE t[i - Len(h)]
  BY <1>1, <1>2, JoinFacts
<1> HIDE DEF r
<1>4. Len(r) = Len(s)
  BY <1>1, <1>2, <1>3
<1>5. ASSUME NEW i \in 1 .. Len(r) PROVE r[i] = s[i]
  <2>1. CASE i = 1
    BY <1>2, <1>3, <2>1
  <2>2. CASE i # 1
    <3>1. i - 1 \in 1 .. Len(s) - 1 /\ (i - 1) + 1 = i /\ ~ (i <= 1)
      BY <1>1, <1>4, <2>2
    <3> QED BY <1>1, <1>2, <1>3, <3>1
  <2> QED BY <2>1, <2>2
<1> QED BY <1>3, <1>4, <1>5, SeqEqual DEF r, h, t

LEMMA ReadHeaderPart ==
  ASSUME Types, Types', NEW c \in Client, Part(c), ReadHeader(c)
  PROVE  Part(c)'
<1>1. /\ stream[c] \in Seq(Unit) /\ stream[c] # << >> /\ read_buf_[c] = << >>
      /\ read_buf_'[c] = <<Head(stream[c])>> /\ stream'[c] = Tail(stream[c])
      /\ latest_buffer_' = latest_buffer_ /\ view' = view /\ new_data_' = new_data_
      /\ UNCHANGED <<hostUp, ready, writes, link, host, quit>>
  BY DEF ReadHeader, Types
<1>2. Wire(c)' = Wire(c)
  <2>1. Wire(c) = stream[c]
    BY <1>1, ConcatEmptySeq DEF Wire
  <2>2. Wire(c)' = <<Head(stream[c])>> \o Tail(stream[c])
    BY <1>1 DEF Wire
  <2> QED BY <1>1, <2>1, <2>2, HeadAndTail
<1>3. End(c)' = End(c) /\ Received(c)' = Received(c)
  BY <1>1, <1>2 DEF End, Received
<1>4. ClientInv(c)'
  BY <1>1, <1>3 DEF ClientInv, Part, host
<1>5. WireInv(c)'
  <2>1. Head(stream[c]) \in Unit
    BY <1>1, RangeOfTail
  <2>2. Len(read_buf_'[c]) <= Size[read_buf_'[c][1][1]] + 1
    BY <1>1, <2>1, UnitFacts
  <2> QED BY <1>1, <1>2, <1>3, <2>2 DEF WireInv, Part, host
<1>6. ~ Untouched(c)
  BY <1>1 DEF Untouched
<1>7. UNCHANGED Handlers(c)
  BY <1>1 DEF Handlers, Ready
<1> QED BY <1>1, <1>3, <1>4, <1>5, <1>6, <1>7, HostSame DEF host

(* The body that is read is that of the header before it, so the frame     *)
(* published is the next whole frame.                                      *)
LEMMA ReadBodyPart ==
  ASSUME Types, Types', NEW c \in Client, Part(c), ReadBody(c)
  PROVE  Part(c)'
<1> DEFINE missing == BodyLength(read_buf_[c][1]) + 1 - Len(read_buf_[c])
           n       == Least(missing, Len(stream[c]))
           got     == read_buf_[c] \o Prefix(stream[c], n)
           rest    == Rest(stream[c], n)
           W       == Wire(c)
           v       == W[1][1]
           Z       == Size[v]
<1>1. /\ read_buf_[c] # << >>
      /\ stream'[c] = rest
      /\ n = missing => /\ latest_buffer_'[c] = got /\ new_data_'[c] = TRUE
                        /\ read_buf_'[c] = << >>
      /\ n # missing => /\ read_buf_'[c] = got
                        /\ UNCHANGED <<latest_buffer_, new_data_>>
      /\ UNCHANGED <<hostUp, ready, writes, link, host, view, quit>>
  BY ZenonT(60) DEF ReadBody, Types
<1>2. /\ read_buf_[c] \in Seq(Unit) /\ stream[c] \in Seq(Unit)
      /\ missing \in Int /\ n \in 0 .. Len(stream[c]) /\ n <= missing
      /\ Prefix(stream[c], n) \in Seq(Unit)
      /\ got \in Seq(Unit) /\ Len(got) = Len(read_buf_[c]) + n
      /\ rest \in Seq(Unit) /\ Len(rest) = Len(stream[c]) - n
      /\ Len(read_buf_[c]) \in Nat \ {0} /\ Len(stream[c]) \in Nat
  BY ReadTypes
<1>3. W = got \o rest
  <2>1. Prefix(stream[c], n) \o rest = stream[c]
    BY <1>2, SplitFacts
  <2> DEFINE b == read_buf_[c]
             p == Prefix(stream[c], n)
  <2>2. b \in Seq(Unit) /\ p \in Seq(Unit) /\ rest \in Seq(Unit)
    BY <1>2
  <2> HIDE DEF b, p, rest
  <2>3. (b \o p) \o rest = b \o (p \o rest)
    BY <2>2, ConcatAssociative
  <2> QED BY <2>1, <2>3 DEF Wire, b, p, rest
<1>4. n = Least(missing, Len(stream[c])) /\ missing = BodyLength(read_buf_[c][1]) + 1 - Len(read_buf_[c])
  OBVIOUS
<1> HIDE DEF missing, n, got, rest, W
<1>5. /\ W \in Seq(Unit) /\ Len(W) = Len(got) + Len(rest) /\ Len(got) \in Nat \ {0}
      /\ \A i \in 1 .. Len(W) : W[i] = IF i <= Len(got) THEN got[i] ELSE rest[i - Len(got)]
      /\ Len(rest) \in Nat
  <2>1. Len(got) \in Nat \ {0} /\ got \in Seq(Unit) /\ rest \in Seq(Unit)
    BY <1>2
  <2>2. /\ got \o rest \in Seq(Unit) /\ Len(got \o rest) = Len(got) + Len(rest)
        /\ \A i \in 1 .. Len(got \o rest) :
             (got \o rest)[i] = IF i <= Len(got) THEN got[i] ELSE rest[i - Len(got)]
        /\ Len(rest) \in Nat
    BY <2>1, JoinFacts
  <2> QED BY <1>3, <2>1, <2>2
<1>6. W # << >> /\ InOrder(W) /\ Follows(LastOf(Received(c)), W[1]) /\ W[1] = read_buf_[c][1]
  <2>1. W # << >>
    BY <1>5, EmptySeq
  <2>2. W[1] = read_buf_[c][1]
    BY <1>1, <1>2, JoinFacts DEF Wire, W
  <2> QED BY <2>1, <2>2 DEF WireInv, Part, W
<1>7. Received(c) \in Version /\ Received(c) \in Nat /\ latest_data_ \in Nat
  BY ClientTypes, ReadyFacts
<1>8. W[1][2] = 0 /\ Received(c) < v /\ v \in Nat
  <2>1. W[1] \in Unit
    BY <1>5, <1>6, ElementOfSeq, EmptySeq
  <2> QED BY <1>6, <1>7, <2>1, UnitFacts, NetworkAssumption DEF Follows, LastOf
<1>9. /\ v \in Version /\ Z \in Nat
      /\ \A i \in 1 .. Len(W) : i <= Z + 1 => W[i] = <<v, i - 1>>
      /\ Z + 1 < Len(W) => Follows(LastOf(v), W[Z + 2])
  BY <1>5, <1>6, <1>8, FrameInOrder
<1>10. missing = Z + 1 - Len(read_buf_[c]) /\ Len(got) <= Z + 1
  BY <1>2, <1>4, <1>6, <1>8, <1>9, SMTT(30) DEF BodyLength
<1>11. v <= latest_data_ /\ \A i \in 1 .. Len(W) : W[i][1] <= latest_data_
  <2>1. 1 \in 1 .. Len(W)
    BY <1>5
  <2> QED BY <2>1 DEF WireInv, Part, W
<1> HIDE DEF v, Z
<1>12. UNCHANGED Handlers(c) /\ latest_data_' = latest_data_
  BY <1>1 DEF Handlers, Ready, host
<1>13. ~ Untouched(c)
  BY <1>1 DEF Untouched
<1>14. CASE n # missing
  <2>1. rest = << >>
    BY <1>2, <1>4, <1>14, EmptySeq DEF Least
  <2>2. Wire(c)' = W
    BY <1>1, <1>3, <1>14, <2>1 DEF Wire
  <2>3. Received(c)' = Received(c) /\ End(c)' = End(c)
    BY <1>1, <1>14, <2>2 DEF Received, End, W
  <2>4. ClientInv(c)'
    BY <1>1, <1>12, <1>14, <2>3 DEF ClientInv, Part
  <2>5. got[1] = W[1]
    <3>1. 1 \in 1 .. Len(W) /\ 1 <= Len(got)
      BY <1>5
    <3> QED BY <1>5, <3>1
  <2>6. WireInv(c)'
    <3>1. Len(read_buf_'[c]) <= Size[read_buf_'[c][1][1]] + 1
      BY <1>1, <1>10, <1>14, <2>5 DEF v, Z
    <3> QED BY <1>12, <2>2, <2>3, <3>1 DEF WireInv, Part, W
  <2> QED BY <1>1, <1>12, <1>13, <2>3, <2>4, <2>6, HostSame DEF host
<1>15. CASE n = missing
  <2>1. Len(got) = Z + 1
    BY <1>2, <1>9, <1>10, <1>15
  <2>2. got = Frame(v)
    <3>1. ASSUME NEW i \in 1 .. Z + 1 PROVE got[i] = <<v, i - 1>>
      <4>1. i \in 1 .. Len(W) /\ i <= Len(got) /\ i <= Z + 1
        BY <1>5, <2>1, <1>9
      <4> QED BY <1>5, <1>9, <4>1
    <3>2. Frame(v) = Piece(v, 0) /\ 0 \in 0 .. Size[v]
      BY <1>9, FrameIsPiece
    <3>3. /\ Frame(v) \in Seq(Unit) /\ Len(Frame(v)) = Z + 1 - 0
          /\ \A i \in 1 .. Len(Frame(v)) : Frame(v)[i] = <<v, 0 + i - 1>>
      BY <1>9, <3>2, PieceFacts DEF Z
    <3>4. Len(Frame(v)) = Len(got) /\ \A i \in 1 .. Len(got) : 0 + i - 1 = i - 1
      BY <1>9, <2>1, <3>3
    <3>5. \A i \in 1 .. Len(got) : got[i] = Frame(v)[i]
      BY <2>1, <3>1, <3>3, <3>4
    <3> QED BY <1>2, <3>3, <3>4, <3>5, SeqEqual
  <2>3. Received(c)' = v /\ got # << >>
    <3>1. got # << >>
      BY <1>5, EmptySeq
    <3>2. got[1] = W[1]
      <4>1. 1 \in 1 .. Len(W) /\ 1 <= Len(got)
        BY <1>5
      <4> QED BY <1>5, <4>1
    <3> QED BY <1>1, <1>15, <3>1, <3>2 DEF Received, VersionOf, v
  <2>4. Wire(c)' = rest
    BY <1>1, <1>2, <1>15, ConcatEmptySeq DEF Wire
  <2>5. Z + 1 \in Nat /\ Len(rest) <= Len(W) - (Z + 1)
        /\ \A i \in 1 .. Len(rest) : rest[i] = W[(Z + 1) + i]
    <3>1. \A i \in 1 .. Len(rest) : (Z + 1) + i \in 1 .. Len(W) /\ ~ ((Z + 1) + i <= Z + 1)
                                     /\ ((Z + 1) + i) - (Z + 1) = i
      BY <1>5, <1>9, <2>1
    <3> QED BY <1>5, <1>9, <2>1, <3>1
  <2>6. InOrder(rest) /\ Range(rest) \subseteq Range(W)
    BY <1>2, <1>5, <1>6, <2>5, PartInOrder DEF W
  <2>7. rest # << >> => Follows(LastOf(v), rest[1]) /\ Len(rest) \in Nat \ {0}
    <3> SUFFICES ASSUME rest # << >> PROVE Follows(LastOf(v), rest[1]) /\ Len(rest) \in Nat \ {0}
      OBVIOUS
    <3>1. Len(rest) \in Nat \ {0}
      BY <1>2, <1>5, EmptySeq
    <3>2. 1 \in 1 .. Len(rest) /\ Z + 1 < Len(W) /\ (Z + 1) + 1 = Z + 2
      BY <1>5, <1>9, <2>1, <3>1
    <3> QED BY <1>9, <2>5, <3>1, <3>2
  <2>8. End(c)' = End(c)
    <3>1. CASE rest = << >>
      <4>1. Len(W) = Z + 1 /\ Len(W) \in 1 .. Len(W) /\ (Z + 1) - 1 = Z
        BY <1>5, <1>9, <2>1, <3>1, EmptySeq
      <4>2. W[Len(W)] = <<v, Z>>
        BY <1>9, <4>1
      <4> QED BY <1>6, <2>3, <2>4, <3>1, <4>2 DEF End, LastOf, W, Z
    <3>2. CASE rest # << >>
      <4>1. Len(rest) \in 1 .. Len(rest) /\ (Z + 1) + Len(rest) = Len(W)
        BY <1>5, <1>9, <2>1, <2>7, <3>2
      <4>2. rest[Len(rest)] = W[Len(W)]
        BY <2>5, <4>1
      <4> QED BY <1>6, <2>4, <3>2, <4>2 DEF End, W
    <3> QED BY <3>1, <3>2
  <2>9. ClientInv(c)'
    <3>1. IsFrame(got) /\ VersionOf(got) = v
      <4>1. VersionOf(got) = v
        BY <1>1, <1>15, <2>3 DEF Received
      <4>2. v > 0
        BY <1>7, <1>8
      <4> QED BY <2>2, <4>1, <4>2 DEF IsFrame
    <3>2. view'[c] = view[c] /\ latest_buffer_'[c] = got /\ new_data_'[c]
      BY <1>1, <1>15
    <3>3. VersionOf(view[c]) <= v
      BY <1>7, <1>8, ClientTypes DEF ClientInv, Part
    <3> QED BY <1>11, <1>12, <2>3, <3>1, <3>2, <3>3 DEF ClientInv, Part
  <2>10. \A i \in 1 .. Len(rest) : rest[i][1] <= latest_data_
    <3> SUFFICES ASSUME NEW i \in 1 .. Len(rest) PROVE rest[i][1] <= latest_data_
      OBVIOUS
    <3>1. (Z + 1) + i \in 1 .. Len(W)
      BY <1>5, <1>9, <2>1
    <3> QED BY <1>11, <2>5, <3>1
  <2>11. WireInv(c)'
    <3>1. read_buf_'[c] = << >>
      BY <1>1, <1>15
    <3> QED BY <1>12, <2>3, <2>4, <2>6, <2>7, <2>10, <3>1 DEF WireInv
  <2> QED BY <1>1, <1>12, <1>13, <2>8, <2>9, <2>11, HostSame DEF host
<1> QED BY <1>14, <1>15

LEMMA GetLatestBufferPart ==
  ASSUME Types, Types', NEW c \in Client, Part(c), GetLatestBuffer(c)
  PROVE  Part(c)'
<1>1. /\ view'[c] = latest_buffer_[c] /\ latest_buffer_' = latest_buffer_
      /\ read_buf_' = read_buf_ /\ stream' = stream
      /\ UNCHANGED <<hostUp, ready, writes, link, host, quit>>
  BY DEF GetLatestBuffer, Types
<1>2. Wire(c)' = Wire(c) /\ End(c)' = End(c) /\ Received(c)' = Received(c)
  BY <1>1 DEF Wire, End, Received
<1>3. Received(c) \in Nat /\ VersionOf(view'[c]) = Received(c)
  BY <1>1, ClientTypes DEF Received
<1>4. ClientInv(c)'
  BY <1>1, <1>2, <1>3 DEF ClientInv, Part, host
<1>5. WireInv(c)'
  BY <1>1, <1>2 DEF WireInv, Part, host
<1>6. UNCHANGED Handlers(c)
  BY <1>1 DEF Handlers, Ready
<1>7. Untouched(c) => Untouched(c)'
  BY <1>1, <1>6 DEF Untouched, host
<1> QED BY <1>1, <1>2, <1>4, <1>5, <1>6, <1>7, HostSame DEF host

-----------------------------------------------------------------------------
(* Writing to the connection.                                              *)

LEMMA FirstsPending ==
  ASSUME Types', NEW c \in Client
  PROVE  \A q \in Firsts(c)' : q \in Pending(c)'
<1>1. PICK t \in Seq(Seq(Unit) \ {<< >>}) : t = writes'[c]
  BY DEF Types
<1>2. t # << >> => Head(t) \in Writes(c)'
  BY <1>1, RangeOfTail DEF Writes
<1> QED BY <1>1, <1>2 DEF Firsts, Pending

(* What the first waiting write looks like.                                *)
LEMMA FirstWrite ==
  ASSUME Types, NEW c \in Client, Alone(c), Part(c), Flowing(c), writes[c] # << >>
  PROVE  /\ Cut(c) = {} /\ Pending(c) = Writes(c)
         /\ \E v \in 1 .. latest_data_ : \E j \in 0 .. Size[v] :
              /\ Head(writes[c]) = Piece(v, j) /\ v \in Version /\ Follows(End(c), <<v, j>>)
              /\ \A op \in Range(Tail(writes[c])) :
                   op \in Writes(c) /\ IsPiece(op) /\ Follows(LastOf(v), op[1])
<1>1. Cut(c) = {} /\ Pending(c) = Writes(c)
  BY DEF Alone, Pending
<1>2. /\ writes[c] \in Seq(Seq(Unit) \ {<< >>}) /\ latest_data_ \in Version /\ latest_data_ \in Nat
  BY ClientTypes, ReadyFacts DEF Types
<1>3. /\ Writes(c) = Range(Tail(writes[c])) \cup {Head(writes[c])}
      /\ Tail(writes[c]) \in Seq(Seq(Unit) \ {<< >>})
      /\ Len(Tail(writes[c])) = Len(writes[c]) - 1 /\ Len(writes[c]) \in Nat \ {0}
      /\ \A i \in 1 .. Len(writes[c]) - 1 : Tail(writes[c])[i] = writes[c][i + 1]
      /\ Head(writes[c]) = writes[c][1]
  BY <1>2, RangeOfTail DEF Writes
<1>4. (\A op \in Writes(c) : IsPiece(op)) /\ Follows(End(c), Head(writes[c])[1])
  BY <1>1 DEF SendInv, Part, Firsts
<1>v. PICK v \in 1 .. latest_data_ : \E j \in 0 .. Size[v] : Head(writes[c]) = Piece(v, j)
  BY <1>3, <1>4 DEF IsPiece
<1>5. PICK j \in 0 .. Size[v] : Head(writes[c]) = Piece(v, j)
  BY <1>v
<1>6. v \in Version /\ v \in Nat /\ Size[v] \in Nat
  BY <1>2, NetworkAssumption DEF Version
<1>7. Piece(v, j)[1] = <<v, j>>
  <2>1. /\ Len(Piece(v, j)) \in Nat \ {0}
        /\ \A i \in 1 .. Len(Piece(v, j)) : Piece(v, j)[i] = <<v, j + i - 1>>
    BY <1>5, <1>6, PieceFacts
  <2>2. 1 \in 1 .. Len(Piece(v, j)) /\ j + 1 - 1 = j
    BY <1>5, <1>6, <2>1
  <2> QED BY <2>1, <2>2
<1>8. Follows(End(c), <<v, j>>)
  BY <1>4, <1>5, <1>7
<1>9. ASSUME NEW op \in Range(Tail(writes[c]))
      PROVE  Follows(LastOf(v), op[1])
  <2> DEFINE t == Tail(writes[c])
  <2>a. t \in Seq(Seq(Unit) \ {<< >>})
    BY <1>3
  <2> HIDE DEF t
  <2>b. Range(t) = { t[i] : i \in 1 .. Len(t) }
    BY <2>a, RangeFacts
  <2>1. PICK k \in 1 .. Len(writes[c]) - 1 : op = writes[c][k + 1]
    BY <1>3, <1>9, <2>b DEF t
  <2>2. 1 \in 1 .. Len(writes[c]) /\ k + 1 \in 1 .. Len(writes[c]) /\ 1 < k + 1
    BY <1>3
  <2>3. writes[c][1][1][1] < op[1][1] /\ op[1][2] = 0
    BY <2>1, <2>2 DEF SendInv, Part
  <2>4. v < op[1][1]
    BY <1>3, <1>5, <1>7, <2>3
  <2> QED BY <2>3, <2>4 DEF Follows, LastOf
<1> QED BY <1>1, <1>3, <1>4, <1>5, <1>6, <1>8, <1>9

LEMMA WriteSomePart ==
  ASSUME Types, Types', NEW c \in Client, Alone(c), Alone(c)', Part(c), WriteSome(c)
  PROVE  Part(c)'
<1> DEFINE op == Head(writes[c])
           n  == Least(Len(op), Least(MaxTransfer, SockBuf - Len(stream[c])))
           p  == Prefix(op, n)
           r  == Rest(op, n)
<1>1. /\ hostUp /\ writes[c] # << >> /\ link[c] = "Up" /\ ~ quit[c]
      /\ UNCHANGED <<hostUp, host, link, clients>>
      /\ ready' = Append(ready, SentOf(c, r))
  BY DEF WriteSome
<1>2. Flowing(c) /\ Flowing(c)'
  BY <1>1 DEF Flowing, clients
<1>3. /\ Cut(c) = {} /\ Pending(c) = Writes(c)
      /\ \E v \in 1 .. latest_data_ : \E j \in 0 .. Size[v] :
           /\ op = Piece(v, j) /\ v \in Version /\ Follows(End(c), <<v, j>>)
           /\ \A q \in Range(Tail(writes[c])) :
                q \in Writes(c) /\ IsPiece(q) /\ Follows(LastOf(v), q[1])
  BY <1>1, <1>2, FirstWrite
<1>v. PICK v \in 1 .. latest_data_ :
      \E j \in 0 .. Size[v] :
        /\ op = Piece(v, j) /\ v \in Version /\ Follows(End(c), <<v, j>>)
        /\ \A q \in Range(Tail(writes[c])) :
             q \in Writes(c) /\ IsPiece(q) /\ Follows(LastOf(v), q[1])
  BY <1>3
<1>4. PICK j \in 0 .. Size[v] :
        /\ op = Piece(v, j) /\ v \in Version /\ Follows(End(c), <<v, j>>)
        /\ \A q \in Range(Tail(writes[c])) :
             q \in Writes(c) /\ IsPiece(q) /\ Follows(LastOf(v), q[1])
  BY <1>v
<1>5. /\ n \in 1 .. Len(op) /\ Len(op) \in Nat /\ r \in Seq(Unit) /\ op \in Writes(c)
      /\ stream[c] \in Seq(Unit) /\ stream'[c] = stream[c] \o p
      /\ writes'[c] = Tail(writes[c]) /\ writes'[c] \in Seq(Seq(Unit) \ {<< >>})
  BY WriteTypes
<1>6. Size[v] \in Nat /\ Len(op) = Size[v] + 1 - j /\ latest_data_ \in Nat
  BY <1>4, PieceFacts, ReadyFacts, NetworkAssumption
<1> HIDE DEF n, op
<1>7. /\ p \in Seq(Unit) /\ Len(p) = n /\ InOrder(p)
      /\ \A i \in 1 .. n : p[i] = <<v, j + i - 1>>
      /\ n = Len(op) => r = << >>
      /\ n < Len(op) => j + n \in 0 .. Size[v] /\ r = Piece(v, j + n)
  <2>1. n \in 1 .. Len(Piece(v, j)) /\ v \in Version /\ j \in 0 .. Size[v]
    BY <1>4, <1>5
  <2>2. /\ Prefix(Piece(v, j), n) \in Seq(Unit)
        /\ Len(Prefix(Piece(v, j), n)) = n
        /\ \A i \in 1 .. n : Prefix(Piece(v, j), n)[i] = <<v, j + i - 1>>
        /\ InOrder(Prefix(Piece(v, j), n))
        /\ n = Len(Piece(v, j)) => Rest(Piece(v, j), n) = << >>
        /\ n < Len(Piece(v, j)) =>
             j + n \in 0 .. Size[v] /\ Rest(Piece(v, j), n) = Piece(v, j + n)
    BY <2>1, CutPiece
  <2> QED BY <1>4, <2>2
<1>8. op[1] = <<v, j>>
  <2>1. /\ Len(Piece(v, j)) \in Nat \ {0}
        /\ \A i \in 1 .. Len(Piece(v, j)) : Piece(v, j)[i] = <<v, j + i - 1>>
    BY <1>4, PieceFacts
  <2>2. 1 \in 1 .. Len(Piece(v, j)) /\ j + 1 - 1 = j
    BY <1>4, <1>6, <2>1
  <2> QED BY <1>4, <2>1, <2>2
<1> HIDE DEF p, r
<1>9. p # << >> /\ p[1] = <<v, j>> /\ p[Len(p)] = <<v, j + n - 1>>
  <2>1. 1 \in 1 .. n /\ n \in 1 .. n /\ j + 1 - 1 = j /\ n # 0
    BY <1>5, <1>6
  <2> QED BY <1>7, <2>1, EmptySeq
<1>10. /\ Wire(c) \in Seq(Unit) /\ read_buf_[c] \in Seq(Unit)
  BY ClientTypes
<1>11. Wire(c)' = Wire(c) \o p
  <2> DEFINE b == read_buf_[c]
             s == stream[c]
  <2>1. b \in Seq(Unit) /\ s \in Seq(Unit) /\ p \in Seq(Unit)
    BY <1>5, <1>7, <1>10
  <2> HIDE DEF b, s
  <2>2. (b \o s) \o p = b \o (s \o p)
    BY <2>1, ConcatAssociative, SMTT(30)
  <2> QED BY <1>1, <1>5, <2>2 DEF Wire, clients, b, s
<1>12. /\ InOrder(Wire(c)) /\ (Wire(c) # << >> => Follows(Wire(c)[Len(Wire(c))], p[1]))
       /\ (Wire(c) = << >> => Follows(LastOf(Received(c)), p[1]))
  BY <1>4, <1>9 DEF WireInv, Part, End
<1>13. /\ InOrder(Wire(c)') /\ Wire(c)' # << >> /\ Wire(c)'[Len(Wire(c)')] = <<v, j + n - 1>>
       /\ Wire(c)'[1] = IF Wire(c) = << >> THEN p[1] ELSE Wire(c)[1]
       /\ Range(Wire(c)') = Range(Wire(c)) \cup Range(p) /\ Wire(c)' \in Seq(Unit)
  <2> DEFINE W == Wire(c)
  <2>1. /\ W \in Seq(Unit) /\ p \in Seq(Unit) /\ InOrder(W) /\ InOrder(p) /\ p # << >>
        /\ (W # << >> => Follows(W[Len(W)], p[1]))
    BY <1>7, <1>9, <1>10, <1>12
  <2> HIDE DEF W
  <2>2. /\ InOrder(W \o p) /\ W \o p # << >> /\ W \o p \in Seq(Unit)
        /\ (W \o p)[Len(W \o p)] = p[Len(p)]
        /\ (W \o p)[1] = IF W = << >> THEN p[1] ELSE W[1]
        /\ Range(W \o p) = Range(W) \cup Range(p)
    BY <2>1, JoinInOrder
  <2> QED BY <1>9, <1>11, <2>2 DEF W
<1>14. Received(c)' = Received(c) /\ End(c)' = <<v, j + n - 1>>
  BY <1>1, <1>13 DEF Received, End, clients
<1>15. ClientInv(c)'
  BY <1>1, <1>14 DEF ClientInv, Part, clients, host
<1>16. WireInv(c)'
  <2>1. Wire(c)' # << >> => Follows(LastOf(Received(c))', Wire(c)'[1])
    BY <1>12, <1>13, <1>14 DEF WireInv, Part, LastOf
  <2>2. ASSUME NEW i \in 1 .. Len(Wire(c)') PROVE Wire(c)'[i][1] <= latest_data_'
    <3>1. Wire(c)'[i] \in Range(Wire(c)')
      BY <1>13, RangeFacts
    <3>2. CASE Wire(c)'[i] \in Range(Wire(c))
      <4>1. PICK k \in 1 .. Len(Wire(c)) : Wire(c)'[i] = Wire(c)[k]
        BY <1>10, <3>2, RangeFacts
      <4> QED BY <1>1, <4>1 DEF WireInv, Part, host
    <3>3. CASE Wire(c)'[i] \in Range(p)
      <4>1. PICK k \in 1 .. Len(p) : Wire(c)'[i] = p[k]
        BY <1>7, <3>3, RangeFacts
      <4>2. Wire(c)'[i] = <<v, j + k - 1>>
        BY <1>7, <4>1
      <4> QED BY <1>1, <1>6, <4>2 DEF host
    <3> QED BY <1>13, <3>1, <3>2, <3>3
  <2> QED BY <1>1, <1>13, <2>1, <2>2 DEF WireInv, Part, clients
<1>17. SentOf(c, r) \in Handler
  BY <1>5, HandlerFacts
<1>18. Handlers(c)' = Handlers(c) \cup {SentOf(c, r)}
  BY <1>1, <1>17, HandlersAdd DEF SentOf
<1>19. SessionInv(c)'
  <2>1. AcceptedOf(c) \notin Handlers(c)' /\ (SendFailedOf(c) \notin Handlers(c)')
    BY <1>1, <1>2, <1>18 DEF SessionInv, Part, Untouched, AcceptedOf, SendFailedOf, SentOf
  <2>2. c \in sessions_' /\ c \in open'
    BY <1>1, <1>2, <1>18, <2>1 DEF SessionInv, Part, host
  <2> QED BY <1>1, <2>1, <2>2 DEF SessionInv, Waiting, AcceptedOf, SendFailedOf
<1>20. Cut(c)' = IF r = << >> THEN {} ELSE {SentOf(c, r)}
  BY <1>3, <1>18 DEF Cut, SentOf
<1>21. CASE n = Len(op)
  <2>1. r = << >> /\ Pending(c)' = Range(Tail(writes[c]))
    BY <1>5, <1>7, <1>20, <1>21 DEF Pending, Writes
  <2>2. End(c)' = LastOf(v)
    <3>1. j + n - 1 = Size[v]
      BY <1>6, <1>21
    <3> QED BY <1>14, <3>1 DEF LastOf
  <2>3. SendInv(c)'
    <3>1. \A q \in Pending(c)' : IsPiece(q)' /\ Follows(End(c)', q[1])
      BY <1>1, <1>4, <2>1, <2>2 DEF IsPiece, host
    <3>2. ASSUME NEW k \in 1 .. Len(writes'[c]), NEW l \in 1 .. Len(writes'[c]), k < l
          PROVE  writes'[c][k][1][1] < writes'[c][l][1][1] /\ writes'[c][l][1][2] = 0
      <4>1. /\ Len(writes'[c]) = Len(writes[c]) - 1 /\ Len(writes[c]) \in Nat
            /\ \A i \in 1 .. Len(writes[c]) - 1 : writes'[c][i] = writes[c][i + 1]
        BY <1>1, <1>5, ClientTypes, RangeOfTail, SMTT(30)
      <4>2. k + 1 \in 1 .. Len(writes[c]) /\ l + 1 \in 1 .. Len(writes[c]) /\ k + 1 < l + 1
        BY <3>2, <4>1
      <4>3. writes[c][k + 1][1][1] < writes[c][l + 1][1][1] /\ writes[c][l + 1][1][2] = 0
        BY <1>2, <4>2 DEF SendInv, Part
      <4>4. writes'[c][k] = writes[c][k + 1] /\ writes'[c][l] = writes[c][l + 1]
        BY <4>1
      <4> QED BY <4>3, <4>4
    <3>3. ~ (End(c)'[2] < Size[End(c)'[1]])
      BY <1>6, <2>2 DEF LastOf
    <3>4. \A q \in Firsts(c)' : q \in Pending(c)'
      BY FirstsPending
    <3> QED BY <3>1, <3>2, <3>3, <3>4 DEF SendInv
  <2>4. NewestInv(c)'
    <3>1. CASE \E q \in Pending(c) : q[1][1] = latest_data_
      <4>1. PICK q \in Writes(c) : q[1][1] = latest_data_
        BY <1>3, <3>1
      <4>2. Writes(c) = Range(Tail(writes[c])) \cup {op}
        BY <1>1, ClientTypes, RangeOfTail DEF Writes, op
      <4>3. CASE q = op
        BY <1>1, <1>8, <2>2, <4>1, <4>3 DEF NewestInv, LastOf, host
      <4>4. CASE q # op
        BY <1>1, <2>1, <4>1, <4>2, <4>4 DEF NewestInv, host
      <4> QED BY <4>3, <4>4
    <3>2. CASE End(c)[1] = latest_data_
      <4>1. v = latest_data_
        BY <1>4, <1>6, <3>2 DEF Follows
      <4> QED BY <1>1, <2>2, <4>1 DEF NewestInv, LastOf, host
    <3>3. Pending(c) # {}
      BY <1>3, <1>5
    <3> QED BY <1>1, <1>2, <3>1, <3>2, <3>3 DEF NewestInv, Part, host
  <2> QED BY <1>15, <1>16, <1>19, <2>3, <2>4 DEF Part
<1>22. CASE n < Len(op)
  <2>1. j + n \in 0 .. Size[v] /\ r = Piece(v, j + n)
    BY <1>7, <1>22
  <2>2. r # << >> /\ r[1] = <<v, j + n>>
    <3>1. /\ r # << >> /\ Len(r) \in Nat \ {0}
          /\ \A i \in 1 .. Len(r) : r[i] = <<v, (j + n) + i - 1>>
      BY <1>4, <2>1, PieceFacts
    <3>2. 1 \in 1 .. Len(r) /\ (j + n) + 1 - 1 = j + n
      BY <2>1, <3>1, <1>6
    <3> QED BY <3>1, <3>2
  <2>3. writes'[c] = << >>
    BY <1>20, <2>2 DEF Alone
  <2>4. Pending(c)' = {r}
    BY <1>20, <2>2, <2>3, RangeOfNil DEF Pending, Writes, SentOf
  <2>5. Follows(End(c)', r[1])
    <3>1. j + n - 1 < Size[v] /\ (j + n - 1) + 1 = j + n
      BY <1>5, <1>6, <2>1, SMTT(30)
    <3> QED BY <1>14, <2>2, <3>1 DEF Follows
  <2>6. SendInv(c)'
    <3>1. IsPiece(r)
      <4> DEFINE m == j + n
      <4>1. m \in 0 .. Size[v] /\ r = Piece(v, m)
        BY <2>1
      <4> HIDE DEF m
      <4> QED BY <1>v, <4>1 DEF IsPiece
    <3>2. 1 .. Len(writes'[c]) = {}
      <4>1. Len(writes'[c]) = 0
        BY <2>3, EmptySeq
      <4> QED BY <4>1
    <3>3. \A q \in Pending(c)' : IsPiece(q)' /\ Follows(End(c)', q[1])
      <4>1. \A q : IsPiece(q)' = IsPiece(q)
        BY <1>1 DEF IsPiece, host
      <4> QED BY <2>4, <2>5, <3>1, <4>1
    <3>4. Pending(c)' # {}
      BY <2>4
    <3>5. \A q \in Firsts(c)' : q \in Pending(c)'
      BY FirstsPending
    <3> QED BY <3>2, <3>3, <3>4, <3>5 DEF SendInv
  <2>7. v = latest_data_
    <3>1. CASE \E q \in Pending(c) : q[1][1] = latest_data_
      <4>1. PICK q \in Writes(c) : q[1][1] = latest_data_
        BY <1>3, <3>1
      <4>2. Writes(c) = Range(Tail(writes[c])) \cup {op}
        BY <1>1, ClientTypes, RangeOfTail DEF Writes, op
      <4>3. Range(Tail(writes[c])) = {}
        BY <1>5, <2>3, RangeOfNil
      <4> QED BY <1>8, <4>1, <4>2, <4>3
    <3>2. CASE End(c)[1] = latest_data_
      BY <1>4, <1>6, <3>2 DEF Follows
    <3>3. Pending(c) # {}
      BY <1>3, <1>5
    <3>4. c \in sessions_
      BY <1>2, <1>1 DEF SessionInv, Part, Untouched
    <3> QED BY <1>2, <3>1, <3>2, <3>3, <3>4 DEF NewestInv, Part
  <2>8. NewestInv(c)'
    BY <1>1, <2>2, <2>4, <2>7 DEF NewestInv, host
  <2> QED BY <1>15, <1>16, <1>19, <2>6, <2>8 DEF Part
<1> QED BY <1>5, <1>21, <1>22

-----------------------------------------------------------------------------
(* The handlers.                                                           *)

LEMMA UntouchedFacts ==
  ASSUME NEW c \in Client, Untouched(c)
  PROVE  Cut(c) = {} /\ Pending(c) = {} /\ Received(c) = 0 /\ End(c) = LastOf(0)
<1>1. Cut(c) = {}
  BY DEF Untouched, Cut
<1>2. Pending(c) = {}
  BY <1>1, RangeOfNil DEF Untouched, Pending, Writes
<1>3. Wire(c) = << >>
  BY ConcatEmptySeq, EmptySeq DEF Untouched, Wire
<1>4. Received(c) = 0
  BY DEF Untouched, Received, VersionOf
<1> QED BY <1>1, <1>2, <1>3, <1>4 DEF End

LEMMA EndIsKnown ==
  ASSUME Types, NEW c \in Client, Part(c)
  PROVE  End(c)[1] <= latest_data_
<1>1. CASE Wire(c) = << >>
  BY <1>1 DEF End, LastOf, ClientInv, Part
<1>2. CASE Wire(c) # << >>
  <2>1. Len(Wire(c)) \in 1 .. Len(Wire(c))
    BY <1>2, ClientTypes, LenProperties, EmptySeq
  <2> QED BY <1>2, <2>1 DEF End, WireInv, Part
<1> QED BY <1>1, <1>2

LEMMA PieceStays ==
  ASSUME Types, latest_data_' \in Nat, latest_data_ <= latest_data_', NEW q, IsPiece(q)
  PROVE  IsPiece(q)'
<1>1. PICK v \in 1 .. latest_data_ : \E j \in 0 .. Size[v] : q = Piece(v, j)
  BY DEF IsPiece
<1>2. v \in 1 .. latest_data_'
  BY <1>1, ReadyFacts
<1> QED BY <1>1, <1>2 DEF IsPiece

LEMMA PieceStart ==
  ASSUME Types, NEW q, IsPiece(q)
  PROVE  \E v \in 1 .. latest_data_ : \E j \in 0 .. Size[v] :
           /\ q = Piece(v, j) /\ q[1] = <<v, j>> /\ q[1][1] <= latest_data_ /\ q[1][1] \in Nat
           /\ v \in Version
<1>v. PICK v \in 1 .. latest_data_ : \E j \in 0 .. Size[v] : q = Piece(v, j)
  BY DEF IsPiece
<1>1. PICK j \in 0 .. Size[v] : q = Piece(v, j)
  BY <1>v
<1>2. v \in Version /\ v \in Nat /\ v <= latest_data_ /\ Size[v] \in Nat
  BY <1>v, ReadyFacts, NetworkAssumption DEF Types, Version
<1>3. /\ Len(q) \in Nat \ {0} /\ \A i \in 1 .. Len(q) : q[i] = <<v, j + i - 1>>
  BY <1>1, <1>2, PieceFacts
<1>4. 1 \in 1 .. Len(q) /\ j + 1 - 1 = j
  BY <1>1, <1>2, <1>3
<1>5. q[1] = <<v, j>>
  BY <1>3, <1>4
<1> QED BY <1>v, <1>1, <1>2, <1>5

LEMMA RunBroadcastPart ==
  ASSUME Types, Types', NEW c \in Client, Queue, Alone(c)', Part(c), RunBroadcast
  PROVE  Part(c)'
<1> DEFINE joined == c \in sessions_ \cap open
<1>v. PICK v \in Nat : v = latest_data_ + 1
  BY ReadyFacts
<1>1. /\ latest_data_' = v /\ v = latest_data_ + 1 /\ v \in Nat /\ latest_data_ \in Nat /\ latest_data_ <= latest_data_'
      /\ v \in Version /\ Head(ready).version = v
  <2>1. latest_data_' = v /\ v = latest_data_ + 1 /\ v \in Nat /\ latest_data_ \in Nat
    BY <1>v, QueueBroadcast
  <2> QED BY <2>1 DEF Types, RunBroadcast
<1>2. /\ sessions_' = sessions_ \cap open
      /\ writes'[c] = IF joined THEN Append(writes[c], Frame(v)) ELSE writes[c]
      /\ UNCHANGED <<hostUp, version, open, link, stream, clients>>
  BY <1>1 DEF RunBroadcast
<1>3. SameEnd(c)
  BY <1>2 DEF SameEnd, clients
<1>4. ClientInv(c)' /\ WireInv(c)' /\ End(c)' = End(c)
  BY <1>1, <1>3, SameEndFacts DEF Part
<1>5. Handlers(c)' = Handlers(c) /\ Cut(c)' = Cut(c)
  <2>1. Head(ready).kind = "Broadcast" /\ Run("Broadcast")
    BY RunFacts DEF RunBroadcast
  <2>2. Handlers(c) = Handlers(c)'
    BY <2>1, HandlersRun
  <2> QED BY <2>2 DEF Cut
<1>6. Flowing(c)' = Flowing(c) /\ Waiting(c)' = Waiting(c)
  BY <1>2 DEF Flowing, Waiting, clients
<1>7. Untouched(c) => Untouched(c)'
  BY <1>2, <1>3, <1>5 DEF Untouched, SameEnd
<1>8. SessionInv(c)'
  BY <1>2, <1>5, <1>6, <1>7 DEF SessionInv, Part, AcceptedOf, SendFailedOf
<1>9. Flowing(c) => \A q \in Pending(c) : IsPiece(q)'
  BY <1>1, PieceStays DEF SendInv, Part
<1>10. CASE ~ Flowing(c)
  BY <1>4, <1>6, <1>8, <1>10 DEF Part, SendInv, NewestInv
<1>11. CASE Flowing(c) /\ ~ joined
  <2>1. Pending(c)' = Pending(c)
    BY <1>2, <1>5, <1>11 DEF Pending, Writes
  <2>2. SendInv(c)'
    <3>1. Firsts(c)' = Firsts(c)
      BY <1>2, <1>5, <1>11 DEF Firsts
    <3> QED BY <1>2, <1>4, <1>9, <1>11, <2>1, <3>1 DEF SendInv, Part
  <2>3. NewestInv(c)'
    BY <1>2, <1>11 DEF NewestInv
  <2> QED BY <1>4, <1>8, <2>2, <2>3 DEF Part
<1>12. CASE Flowing(c) /\ joined
  <2>1. /\ writes[c] \in Seq(Seq(Unit) \ {<< >>}) /\ Frame(v) \in Seq(Unit) \ {<< >>}
        /\ writes'[c] = Append(writes[c], Frame(v))
    BY <1>1, <1>2, <1>12, ClientTypes, FrameType
  <2>2. /\ Len(writes'[c]) = Len(writes[c]) + 1 /\ Len(writes[c]) \in Nat
        /\ \A i \in 1 .. Len(writes[c]) : writes'[c][i] = writes[c][i]
        /\ writes'[c][Len(writes[c]) + 1] = Frame(v)
        /\ Writes(c)' = Writes(c) \cup {Frame(v)} /\ writes'[c] # << >>
    <3>1. /\ Len(writes'[c]) = Len(writes[c]) + 1 /\ Len(writes[c]) \in Nat
          /\ \A i \in 1 .. Len(writes[c]) : writes'[c][i] = writes[c][i]
          /\ writes'[c][Len(writes[c]) + 1] = Frame(v)
      BY <2>1, AppendProperties, LenProperties
    <3>2. Range(Append(writes[c], Frame(v))) = Range(writes[c]) \cup {Frame(v)}
      BY <2>1, RangeOfAppend
    <3>3. writes'[c] # << >>
      BY <3>1, EmptySeq
    <3> QED BY <2>1, <3>1, <3>2, <3>3 DEF Writes
  <2>3. Cut(c) = {} /\ Pending(c) = Writes(c) /\ Pending(c)' = Writes(c) \cup {Frame(v)}
    <3>1. Cut(c)' = {}
      BY <2>2 DEF Alone
    <3> QED BY <1>5, <2>2, <3>1 DEF Pending
  <2>4. Frame(v)[1] = <<v, 0>>
    <3>1. Frame(v) = Piece(v, 0) /\ 0 \in 0 .. Size[v]
      BY <1>1, FrameIsPiece
    <3>2. /\ Len(Piece(v, 0)) \in Nat \ {0}
          /\ \A i \in 1 .. Len(Piece(v, 0)) : Piece(v, 0)[i] = <<v, 0 + i - 1>>
      BY <1>1, <3>1, PieceFacts
    <3>3. 1 \in 1 .. Len(Piece(v, 0)) /\ 0 + 1 - 1 = 0
      BY <3>2
    <3> QED BY <3>1, <3>2, <3>3
  <2>5. IsPiece(Frame(v))'
    <3>1. Frame(v) = Piece(v, 0) /\ 0 \in 0 .. Size[v] /\ v \in 1 .. v
      BY <1>1, FrameIsPiece
    <3>2. \E w \in 1 .. v : \E j \in 0 .. Size[w] : Frame(v) = Piece(w, j)
      BY <3>1
    <3>3. \A q : IsPiece(q)' <=> \E w \in 1 .. v : \E j \in 0 .. Size[w] : q = Piece(w, j)
      BY <1>1 DEF IsPiece
    <3> QED BY <3>2, <3>3
  <2>6. /\ End(c) \in Unit /\ End(c)[1] < v /\ End(c)[1] \in Nat /\ End(c)[2] \in Nat
        /\ Size[End(c)[1]] \in Nat /\ End(c)[2] <= Size[End(c)[1]]
    BY <1>1, ClientTypes, EndIsKnown, UnitFacts
  <2>7. ASSUME writes[c] = << >>
        PROVE  Firsts(c)' = {Frame(v)} /\ Follows(End(c), Frame(v)[1])
    <3>1. Pending(c) = {}
      BY <2>3, <2>7, RangeOfNil DEF Writes
    <3>2. ~ (End(c)[2] < Size[End(c)[1]])
      BY <1>12, <3>1 DEF SendInv, Part
    <3>3. Head(writes'[c]) = Frame(v)
      BY <2>1, <2>7
    <3> QED BY <1>5, <2>2, <2>3, <2>4, <2>6, <3>2, <3>3 DEF Follows, Firsts
  <2>8. ASSUME writes[c] # << >>
        PROVE  Firsts(c)' = Firsts(c)
    <3>1. Head(writes'[c]) = Head(writes[c])
      <4>1. 1 \in 1 .. Len(writes[c])
        BY <2>1, <2>2, <2>8, EmptySeq
      <4>2. writes'[c][1] = writes[c][1]
        BY <2>2, <4>1
      <4>3. PICK t \in Seq(Seq(Unit) \ {<< >>}) : t = writes'[c]
        BY DEF Types
      <4>4. Head(t) = t[1] /\ Head(writes[c]) = writes[c][1]
        BY <2>1, <2>2, <2>8, <4>3, RangeOfTail
      <4> QED BY <4>2, <4>3, <4>4
    <3> QED BY <1>5, <2>2, <2>8, <3>1 DEF Firsts
  <2>9. /\ \A q \in Pending(c)' : IsPiece(q)'
        /\ \A q \in Firsts(c)' : Follows(End(c)', q[1])
    BY <1>4, <1>9, <1>12, <2>3, <2>5, <2>7, <2>8 DEF SendInv, Part
  <2>10. ASSUME NEW k \in 1 .. Len(writes'[c]), NEW l \in 1 .. Len(writes'[c]), k < l
         PROVE  writes'[c][k][1][1] < writes'[c][l][1][1] /\ writes'[c][l][1][2] = 0
    <3>1. k \in 1 .. Len(writes[c]) /\ writes'[c][k] = writes[c][k]
      BY <2>2, <2>10
    <3>2. CASE l \in 1 .. Len(writes[c])
      <4>1. writes'[c][l] = writes[c][l]
        BY <2>2, <3>2
      <4>2. writes[c][k][1][1] < writes[c][l][1][1] /\ writes[c][l][1][2] = 0
        BY <1>12, <2>10, <3>1, <3>2 DEF SendInv, Part
      <4> QED BY <3>1, <4>1, <4>2
    <3>3. CASE l = Len(writes[c]) + 1
      <4>1. writes'[c][l][1][1] = v /\ writes'[c][l][1][2] = 0
        BY <2>2, <2>4, <3>3
      <4>2. writes[c][k] \in Writes(c)
        BY <2>1, <3>1, RangeFacts, SMTT(30) DEF Writes
      <4>3. IsPiece(writes[c][k])
        BY <1>12, <2>3, <4>2 DEF SendInv, Part
      <4>4. writes[c][k][1][1] <= latest_data_ /\ writes[c][k][1][1] \in Nat
        BY <4>3, PieceStart
      <4> QED BY <1>1, <3>1, <4>1, <4>4
    <3> QED BY <2>2, <3>2, <3>3
  <2>11. SendInv(c)'
    <3>1. Pending(c)' # {}
      BY <2>3
    <3> QED BY <2>9, <2>10, <3>1 DEF SendInv
  <2>12. NewestInv(c)'
    BY <1>1, <2>3, <2>4 DEF NewestInv
  <2> QED BY <1>4, <1>8, <2>11, <2>12 DEF Part
<1> QED BY <1>10, <1>11, <1>12

(* What is left of a write goes from the handler back to the session.      *)
LEMMA RunSentPart ==
  ASSUME Types, Types', NEW c \in Client, Alone(c), Part(c), RunSent, Head(ready).client = c
  PROVE  Part(c)'
<1>h. PICK h \in Handler : h = Head(ready)
  BY RunFacts DEF RunSent
<1>1. /\ h.kind = "Sent" /\ h.client = c /\ h.rest \in Seq(Unit) /\ Run("Sent")
      /\ writes' = IF h.rest # << >> /\ c \in open
                   THEN [writes EXCEPT ![c] = Append(@, h.rest)] ELSE writes
      /\ UNCHANGED <<hostUp, host, link, stream, clients>>
  BY <1>h, RunFacts, HandlerFacts DEF RunSent
<1>2. Handlers(c) = Handlers(c)' \cup {h}
  BY <1>h, <1>1, HandlersRun
<1>3. ~ Untouched(c) /\ AcceptedOf(c) \notin Handlers(c) /\ ~ Waiting(c)
  BY <1>1, <1>2 DEF Untouched, SessionInv, Part
<1>4. SameEnd(c) /\ latest_data_' = latest_data_ /\ Flowing(c)' = Flowing(c) /\ Waiting(c)' = Waiting(c)
  BY <1>1 DEF SameEnd, clients, host, Flowing, Waiting
<1>5. CASE ~ Flowing(c)
  BY <1>2, <1>3, <1>4, <1>5, Stopped
<1>6. CASE Flowing(c)
  <2>1. c \in open
    BY <1>3, <1>6 DEF SessionInv, Part
  <2>2. ClientInv(c)' /\ WireInv(c)' /\ End(c)' = End(c)
    BY <1>4, ReadyFacts, SameEndFacts DEF Part
  <2>3. SessionInv(c)'
    BY <1>1, <1>2, <1>3, <1>4 DEF SessionInv, Part, AcceptedOf, SendFailedOf, host
  <2>4. /\ Pending(c)' = Pending(c) /\ Firsts(c)' = Firsts(c)
        /\ writes'[c] = writes[c] \/ Len(writes'[c]) = 1
    <3>1. CASE h.rest = << >>
      <4>1. Cut(c)' = Cut(c)
        BY <1>2, <3>1 DEF Cut
      <4> QED BY <1>1, <3>1, <4>1 DEF Pending, Writes, Firsts
    <3>2. CASE h.rest # << >>
      <4>1. Cut(c) = Cut(c)' \cup {h}
        BY <1>1, <1>2, <3>2 DEF Cut
      <4>2. writes[c] = << >>
        BY <4>1 DEF Alone
      <4>3. writes'[c] = Append(<< >>, h.rest)
        BY <1>1, <2>1, <3>2, <4>2 DEF Types
      <4>4. /\ Writes(c)' = {h.rest} /\ Writes(c) = {} /\ Len(writes'[c]) = 1
            /\ writes'[c] # << >> /\ Head(writes'[c]) = h.rest
        <5>1. Range(Append(<< >>, h.rest)) = Range(<< >>) \cup {h.rest}
          BY <1>1, EmptySeq, RangeOfAppend
        <5>2. Len(Append(<< >>, h.rest)) = 1 /\ Head(Append(<< >>, h.rest)) = h.rest
          BY <1>1, EmptySeq, AppendProperties
        <5> QED BY <4>2, <4>3, <5>1, <5>2, RangeOfNil, EmptySeq DEF Writes
      <4> QED BY <4>1, <4>2, <4>4 DEF Pending, Firsts
    <3> QED BY <3>1, <3>2
  <2>5. SendInv(c)'
    <3>1. \A q : IsPiece(q)' = IsPiece(q)
      BY <1>4 DEF IsPiece
    <3>2. CASE writes'[c] = writes[c]
      BY <1>4, <2>2, <2>4, <3>1, <3>2 DEF SendInv, Part
    <3>3. CASE Len(writes'[c]) = 1
      <4>1. \A k, l \in 1 .. Len(writes'[c]) : ~ (k < l)
        BY <3>3
      <4> QED BY <1>4, <2>2, <2>4, <3>1, <4>1 DEF SendInv, Part
    <3> QED BY <2>4, <3>2, <3>3
  <2>6. NewestInv(c)'
    BY <1>1, <1>4, <2>2, <2>4 DEF NewestInv, Part, host
  <2> QED BY <2>2, <2>3, <2>5, <2>6 DEF Part
<1> QED BY <1>5, <1>6

LEMMA RunSendFailedPart ==
  ASSUME Types, Types', NEW c \in Client, Part(c), RunSendFailed, Head(ready).client = c
  PROVE  Part(c)'
<1>h. PICK h \in Handler : h = Head(ready)
  BY RunFacts DEF RunSendFailed
<1>1. /\ h = SendFailedOf(c) /\ h.kind = "SendFailed" /\ h.client = c /\ Run("SendFailed")
      /\ UNCHANGED <<hostUp, version, latest_data_, sessions_, link, stream, clients>>
  BY <1>h, RunFacts, HandlerFacts DEF RunSendFailed
<1>2. Handlers(c) = Handlers(c)' \cup {h}
  BY <1>h, <1>1, HandlersRun
<1>3. ~ Untouched(c) /\ ~ Flowing(c)
  BY <1>1, <1>2 DEF Untouched, SessionInv, Part
<1>4. SameEnd(c) /\ ~ Flowing(c)' /\ Waiting(c)' = Waiting(c)
  BY <1>1, <1>3 DEF SameEnd, clients, Flowing, Waiting
<1> QED BY <1>1, <1>2, <1>3, <1>4, Stopped

(* A newcomer's first frame is that of the last text broadcast.            *)
LEMMA RunAcceptedPart ==
  ASSUME Types, Types', NEW c \in Client, Queue, Part(c), RunAccepted, Head(ready).client = c
  PROVE  Part(c)'
<1>h. PICK h \in Handler : h = Head(ready)
  BY RunFacts DEF RunAccepted
<1>1. /\ h = AcceptedOf(c) /\ h.kind = "Accepted" /\ h.client = c /\ Run("Accepted")
      /\ c \in sessions_' /\ c \in open'
      /\ writes' = IF latest_data_ # 0 /\ Size[latest_data_] # 0
                   THEN [writes EXCEPT ![c] = Append(@, Frame(latest_data_))]
                   ELSE writes
      /\ UNCHANGED <<hostUp, version, latest_data_, link, stream, clients>>
  BY <1>h, RunFacts, HandlerFacts DEF RunAccepted
<1>2. Handlers(c) = Handlers(c)' \cup {h}
  BY <1>h, <1>1, HandlersRun
<1>3. Untouched(c) /\ ~ Waiting(c)
  BY <1>1, <1>2 DEF SessionInv, Part
<1>4. AcceptedOf(c) \notin Handlers(c)'
  <2>1. /\ Len(ready') = Len(ready) - 1 /\ Len(ready) \in Nat
        /\ \A i \in 1 .. Len(ready') : ready'[i] = ready[i + 1]
        /\ ready[1].kind = "Accepted" /\ 1 \in 1 .. Len(ready)
        /\ ready' \in Seq(Handler)
    BY <1>1, RunFacts
  <2> SUFFICES ASSUME AcceptedOf(c) \in Range(ready') PROVE FALSE
    BY DEF Handlers, Ready, AcceptedOf
  <2>2. PICK i \in 1 .. Len(ready') : ready'[i] = AcceptedOf(c)
    BY <2>1, RangeFacts
  <2>3. i + 1 \in 1 .. Len(ready) /\ i + 1 # 1 /\ ready[i + 1].kind = "Accepted"
    BY <2>1, <2>2 DEF AcceptedOf
  <2> QED BY <2>1, <2>3 DEF Queue, OneAccepted
<1>5. SameEnd(c) /\ Flowing(c)' = Flowing(c) /\ Waiting(c)' = Waiting(c)
  BY <1>1 DEF SameEnd, clients, Flowing, Waiting
<1>6. ClientInv(c)' /\ WireInv(c)' /\ End(c)' = LastOf(0)
  BY <1>1, <1>3, <1>5, ReadyFacts, SameEndFacts, UntouchedFacts DEF Part
<1>7. SessionInv(c)'
  BY <1>1, <1>2, <1>3, <1>4, <1>5 DEF SessionInv, Untouched, AcceptedOf, SendFailedOf
<1>8. Cut(c)' = {}
  BY <1>2, <1>3 DEF Cut, Untouched
<1>9. /\ latest_data_ \in Version /\ latest_data_ \in Nat
      /\ End(c)'[2] = Size[End(c)'[1]] /\ End(c)'[1] = 0 /\ Size[0] \in Nat
  BY <1>6, ReadyFacts, NetworkAssumption DEF LastOf, Types, Version
<1>10. CASE latest_data_ # 0 /\ Size[latest_data_] # 0
  <2>f. PICK f \in Seq(Unit) \ {<< >>} : f = Frame(latest_data_)
    BY <1>9, FrameType
  <2>1. writes'[c] = Append(<< >>, f)
    BY <1>1, <1>3, <1>10, <2>f DEF Types, Untouched
  <2>2. Writes(c)' = {f} /\ Len(writes'[c]) = 1
    <3>1. Range(Append(<< >>, f)) = Range(<< >>) \cup {f}
      BY EmptySeq, RangeOfAppend
    <3>2. Len(Append(<< >>, f)) = 1
      BY EmptySeq, AppendProperties
    <3> QED BY <2>1, <3>1, <3>2, RangeOfNil DEF Writes
  <2>3. Pending(c)' = {f}
    BY <1>8, <2>2 DEF Pending
  <2>4. IsPiece(f) /\ f[1] = <<latest_data_, 0>>
    <3>1. f = Piece(latest_data_, 0) /\ 0 \in 0 .. Size[latest_data_]
      BY <1>9, <2>f, FrameIsPiece
    <3>2. latest_data_ \in 1 .. latest_data_
      BY <1>9, <1>10
    <3>3. /\ Len(f) \in Nat \ {0}
          /\ \A i \in 1 .. Len(f) : f[i] = <<latest_data_, 0 + i - 1>>
      BY <1>9, <3>1, PieceFacts
    <3>4. 1 \in 1 .. Len(f) /\ 0 + 1 - 1 = 0
      BY <3>3
    <3>5. f[1] = <<latest_data_, 0>>
      BY <3>3, <3>4
    <3> QED BY <3>1, <3>2, <3>5 DEF IsPiece
  <2>5. Follows(End(c)', f[1])
    BY <1>9, <1>10, <2>4 DEF Follows
  <2>6. SendInv(c)'
    <3>1. \A q : IsPiece(q)' = IsPiece(q)
      BY <1>1 DEF IsPiece
    <3>2. \A k, l \in 1 .. Len(writes'[c]) : ~ (k < l)
      BY <2>2
    <3>3. \A q \in Pending(c)' : IsPiece(q)' /\ Follows(End(c)', q[1])
      BY <2>3, <2>4, <2>5, <3>1
    <3>4. Pending(c)' # {}
      BY <2>3
    <3>5. \A q \in Firsts(c)' : q \in Pending(c)'
      BY FirstsPending
    <3> QED BY <3>2, <3>3, <3>4, <3>5 DEF SendInv
  <2>7. NewestInv(c)'
    BY <1>1, <2>3, <2>4 DEF NewestInv
  <2> QED BY <1>6, <1>7, <2>6, <2>7 DEF Part
<1>11. CASE latest_data_ = 0 \/ Size[latest_data_] = 0
  <2>1. writes'[c] = << >>
    BY <1>1, <1>3, <1>11 DEF Untouched
  <2>2. Pending(c)' = {}
    BY <1>8, <2>1, RangeOfNil DEF Pending, Writes
  <2>3. SendInv(c)'
    <3>1. 1 .. Len(writes'[c]) = {}
      <4>1. Len(writes'[c]) = 0
        BY <2>1, EmptySeq
      <4> QED BY <4>1
    <3>2. ~ (End(c)'[2] < Size[End(c)'[1]])
      BY <1>9
    <3>3. \A q \in Firsts(c)' : q \in Pending(c)'
      BY FirstsPending
    <3> QED BY <2>2, <3>1, <3>2, <3>3 DEF SendInv
  <2>4. NewestInv(c)'
    BY <1>1, <1>9, <1>11, <2>2 DEF NewestInv
  <2> QED BY <1>6, <1>7, <2>3, <2>4 DEF Part
<1> QED BY <1>10, <1>11

-----------------------------------------------------------------------------
(* Connections that come and go.                                           *)

LEMMA AcceptConnectionPart ==
  ASSUME Types, Types', NEW c \in Client, Part(c), AcceptConnection(c)
  PROVE  Part(c)'
<1>1. /\ link[c] = "Backlog" /\ link'[c] = "Up" /\ ready' = Append(ready, AcceptedOf(c))
      /\ UNCHANGED <<hostUp, host, writes, stream, clients>>
  BY DEF AcceptConnection, Types
<1>2. Waiting(c) /\ ~ Waiting(c)' /\ Untouched(c)
  BY <1>1 DEF Waiting, SessionInv, Part
<1>3. Handlers(c)' = Handlers(c) \cup {AcceptedOf(c)}
  <2>1. AcceptedOf(c) \in Handler
    BY HandlerFacts
  <2> QED BY <1>1, <2>1, HandlersAdd DEF AcceptedOf
<1>4. Untouched(c)'
  BY <1>1, <1>2, <1>3 DEF Untouched, AcceptedOf, host, clients
<1>5. SessionInv(c)'
  BY <1>2, <1>3, <1>4 DEF SessionInv, Untouched, AcceptedOf, SendFailedOf
<1>6. SameEnd(c) /\ latest_data_' = latest_data_
  BY <1>1 DEF SameEnd, clients, host
<1>7. ClientInv(c)' /\ WireInv(c)' /\ End(c)' = LastOf(0)
  BY <1>2, <1>6, ReadyFacts, SameEndFacts, UntouchedFacts DEF Part
<1>8. Pending(c)' = {} /\ c \notin sessions_'
  <2>1. Cut(c)' = {}
    BY <1>4 DEF Cut, Untouched
  <2>2. Writes(c)' = {}
    BY <1>4, RangeOfNil DEF Writes, Untouched
  <2> QED BY <1>4, <2>1, <2>2 DEF Pending, Untouched
<1>9. SendInv(c)'
  <2>1. 1 .. Len(writes'[c]) = {}
    <3>1. writes'[c] = << >>
      BY <1>4 DEF Untouched
    <3>2. Len(writes'[c]) = 0
      BY <3>1, EmptySeq
    <3> QED BY <3>2
  <2>2. ~ (End(c)'[2] < Size[End(c)'[1]])
    BY <1>7, NetworkAssumption DEF LastOf, Version
  <2>3. \A q \in Firsts(c)' : q \in Pending(c)'
    BY FirstsPending
  <2> QED BY <1>8, <2>1, <2>2, <2>3 DEF SendInv
<1>10. NewestInv(c)'
  BY <1>8 DEF NewestInv
<1> QED BY <1>5, <1>7, <1>9, <1>10 DEF Part

LEMMA WriteToNobodyPart ==
  ASSUME Types, Types', NEW c \in Client, Part(c), WriteToNobody(c)
  PROVE  Part(c)'
<1>1. /\ writes[c] # << >> /\ (link[c] = "Lost" \/ quit[c])
      /\ UNCHANGED <<hostUp, host, link, stream, clients>>
  BY DEF WriteToNobody
<1>h. PICK h \in {SendFailedOf(c), SentOf(c, << >>)} : ready' = Append(ready, h)
  BY DEF WriteToNobody
<1>2. h \in Handler /\ h.kind \in {"Sent", "SendFailed"}
  <2>1. SendFailedOf(c) \in Handler /\ SentOf(c, << >>) \in Handler
    BY HandlerFacts, EmptySeq
  <2>2. SendFailedOf(c).kind = "SendFailed" /\ SentOf(c, << >>).kind = "Sent"
    BY DEF SendFailedOf, SentOf
  <2> QED BY <2>1, <2>2
<1>3. AcceptedOf(c) \in Handlers(c)' => AcceptedOf(c) \in Handlers(c)
  BY <1>h, <1>2, HandlersAdd DEF AcceptedOf
<1>4. SameEnd(c) /\ ~ Flowing(c)' /\ Waiting(c)' = Waiting(c) /\ ~ Untouched(c)
      /\ latest_data_' = latest_data_
  BY <1>1 DEF SameEnd, clients, host, Flowing, Waiting, Untouched
<1> QED BY <1>3, <1>4, Stopped

LEMMA ConnectPart ==
  ASSUME Types, Types', NEW c \in Client, Part(c), Connect(c)
  PROVE  Part(c)'
<1>1. /\ link[c] = "None" /\ link'[c] = "Backlog"
      /\ UNCHANGED <<hostUp, ready, writes, stream, host, clients>>
  BY DEF Connect, Types
<1>2. SameEnd(c) /\ ~ Flowing(c)' /\ Waiting(c) /\ latest_data_' = latest_data_
  BY <1>1 DEF SameEnd, clients, host, Flowing, Waiting
<1>3. UNCHANGED Handlers(c)
  BY <1>1 DEF Handlers, Ready
<1>4. Untouched(c) => Untouched(c)'
  BY <1>1, <1>3 DEF Untouched, clients, host
<1> QED BY <1>2, <1>3, <1>4, Stopped

(* What still arrives of a lost connection is the beginning of what was on *)
(* the way.                                                                *)
LEMMA LoseConnectionPart ==
  ASSUME Types, Types', NEW c \in Client, Part(c), LoseConnection(c)
  PROVE  Part(c)'
<1>1. /\ link[c] = "Up" /\ link'[c] = "Lost"
      /\ UNCHANGED <<hostUp, ready, writes, host, clients>>
  BY DEF LoseConnection, Types
<1>2. PICK n \in 0 .. Len(stream[c]) : stream'[c] = Prefix(stream[c], n)
  BY DEF LoseConnection, Types
<1>3. /\ read_buf_[c] \in Seq(Unit) /\ stream[c] \in Seq(Unit) /\ Wire(c) \in Seq(Unit)
      /\ stream'[c] \in Seq(Unit) /\ Wire(c)' \in Seq(Unit)
  <2>1. stream'[c] \in Seq(Unit) /\ read_buf_'[c] \in Seq(Unit)
    BY DEF Types
  <2>2. read_buf_'[c] \o stream'[c] \in Seq(Unit)
    BY <2>1, ConcatProperties
  <2> QED BY <2>1, <2>2, ClientTypes DEF Wire
<1>4. Len(stream'[c]) = n /\ \A i \in 1 .. n : stream'[c][i] = stream[c][i]
  BY <1>2, <1>3, SplitFacts, ZenonT(60)
<1>5. ~ Flowing(c)' /\ ~ Waiting(c)' /\ latest_data_' = latest_data_
      /\ read_buf_'[c] = read_buf_[c] /\ Received(c)' = Received(c)
  BY <1>1 DEF Flowing, Waiting, host, clients, Received
<1>6. UNCHANGED Handlers(c)
  BY <1>1 DEF Handlers, Ready
<1>7. Untouched(c) => Untouched(c)'
  <2> SUFFICES ASSUME Untouched(c) PROVE Untouched(c)'
    OBVIOUS
  <2>1. Len(stream[c]) = 0
    BY EmptySeq DEF Untouched
  <2>2. stream'[c] = << >>
    BY <1>2, <1>3, <1>4, <2>1, EmptySeq
  <2> QED BY <1>1, <1>6, <2>2 DEF Untouched, clients, host
<1>8. SessionInv(c)'
  BY <1>5, <1>6, <1>7 DEF SessionInv, Part, AcceptedOf
<1>9. ClientInv(c)'
  BY <1>1, <1>5 DEF ClientInv, Part, clients
<1>10. /\ Len(Wire(c)') <= Len(Wire(c)) - 0 /\ \A i \in 1 .. Len(Wire(c)') : Wire(c)'[i] = Wire(c)[0 + i]
       /\ Len(Wire(c)) \in Nat /\ Len(Wire(c)') \in Nat
  <2> DEFINE b == read_buf_[c]
             s == stream[c]
  <2>t. PICK t \in Seq(Unit) : t = stream'[c]
    BY <1>3
  <2>1. /\ b \in Seq(Unit) /\ s \in Seq(Unit) /\ n \in 0 .. Len(s)
        /\ Len(t) = n /\ \A i \in 1 .. n : t[i] = s[i]
    BY <1>3, <1>4, <2>t
  <2>2. Wire(c) = b \o s /\ Wire(c)' = b \o t
    BY <1>5, <2>t DEF Wire
  <2> HIDE DEF b, s
  <2>3. /\ Len(b \o s) = Len(b) + Len(s) /\ Len(b) \in Nat /\ Len(s) \in Nat
        /\ \A i \in 1 .. Len(b \o s) : (b \o s)[i] = IF i <= Len(b) THEN b[i] ELSE s[i - Len(b)]
    BY <2>1, JoinFacts
  <2>4. /\ Len(b \o t) = Len(b) + n
        /\ \A i \in 1 .. Len(b \o t) : (b \o t)[i] = IF i <= Len(b) THEN b[i] ELSE t[i - Len(b)]
    BY <2>1, JoinFacts
  <2>5. ASSUME NEW i \in 1 .. Len(b \o t) PROVE (b \o t)[i] = (b \o s)[0 + i]
    <3>1. i \in 1 .. Len(b \o s) /\ 0 + i = i
      BY <2>1, <2>3, <2>4
    <3>2. CASE i <= Len(b)
      BY <2>3, <2>4, <3>1, <3>2
    <3>3. CASE ~ (i <= Len(b))
      <4>1. i - Len(b) \in 1 .. n
        BY <2>1, <2>3, <2>4, <3>3
      <4>2. t[i - Len(b)] = s[i - Len(b)]
        BY <2>1, <4>1
      <4> QED BY <2>3, <2>4, <3>1, <3>3, <4>2
    <3> QED BY <3>2, <3>3
  <2>6. Len(b \o t) <= Len(b \o s) - 0 /\ Len(b \o s) \in Nat /\ Len(b \o t) \in Nat
    BY <2>1, <2>3, <2>4
  <2> QED BY <2>2, <2>5, <2>6
<1>11. WireInv(c)'
  <2>W. PICK W \in Seq(Unit) : W = Wire(c)
    BY <1>3
  <2>V. PICK V \in Seq(Unit) : V = Wire(c)'
    BY <1>3
  <2>1. /\ Len(V) <= Len(W) - 0 /\ \A i \in 1 .. Len(V) : V[i] = W[0 + i]
        /\ Len(W) \in Nat /\ Len(V) \in Nat /\ InOrder(W)
    BY <1>10, <2>W, <2>V DEF WireInv, Part
  <2>2. InOrder(V)
    BY <2>1, PartInOrder
  <2>3. \A i \in 1 .. Len(V) : V[i] = W[i] /\ i \in 1 .. Len(W)
    BY <2>1
  <2>4. V # << >> => W # << >> /\ V[1] = W[1]
    <3> SUFFICES ASSUME V # << >> PROVE W # << >> /\ V[1] = W[1]
      OBVIOUS
    <3>1. Len(V) # 0
      BY EmptySeq
    <3>2. 1 \in 1 .. Len(V) /\ Len(W) # 0
      BY <2>1, <3>1
    <3> QED BY <2>3, <3>2, EmptySeq
  <2> QED BY <1>5, <2>W, <2>V, <2>2, <2>3, <2>4 DEF WireInv, Part, LastOf
<1>12. SendInv(c)' /\ NewestInv(c)'
  BY <1>5 DEF SendInv, NewestInv
<1> QED BY <1>8, <1>9, <1>11, <1>12 DEF Part

LEMMA ClientStopPart ==
  ASSUME Types, Types', NEW c \in Client, Part(c), ClientStop(c)
  PROVE  Part(c)'
<1>1. /\ quit'[c]
      /\ UNCHANGED <<hostUp, ready, writes, link, stream, host,
                     read_buf_, latest_buffer_, new_data_, fetching, view>>
  BY DEF ClientStop, Types
<1>2. SameEnd(c) /\ ~ Flowing(c)' /\ Waiting(c)' = Waiting(c) /\ latest_data_' = latest_data_
  BY <1>1 DEF SameEnd, host, Flowing, Waiting
<1>3. UNCHANGED Handlers(c)
  BY <1>1 DEF Handlers, Ready
<1>4. Untouched(c) => Untouched(c)'
  BY <1>1, <1>3 DEF Untouched, host
<1> QED BY <1>2, <1>3, <1>4, Stopped

LEMMA HostStopPart ==
  ASSUME Types, Types', NEW c \in Client, Part(c), HostStop
  PROVE  Part(c)'
<1>1. /\ ~ hostUp' /\ sessions_' = {} /\ open' = {} /\ writes'[c] = << >>
      /\ UNCHANGED <<version, ready, latest_data_, link, stream, clients>>
  BY DEF HostStop
<1>2. SameEnd(c) /\ ~ Flowing(c)' /\ Waiting(c)' = Waiting(c)
  BY <1>1 DEF SameEnd, clients, Flowing, Waiting
<1>3. UNCHANGED Handlers(c)
  BY <1>1 DEF Handlers, Ready
<1>4. Untouched(c) => Untouched(c)'
  BY <1>1, <1>3 DEF Untouched, clients
<1> QED BY <1>1, <1>2, <1>3, <1>4, Stopped

-----------------------------------------------------------------------------
(* Every step.                                                             *)

(* A step about one client does not concern another.                       *)
LEMMA OtherClient ==
  ASSUME Types, Types', NEW d \in Client, NEW c \in Client \ {d}, Part(c),
         \/ AcceptConnection(d) \/ WriteSome(d) \/ WriteToNobody(d)
         \/ Connect(d) \/ LoseConnection(d)
         \/ ReadHeader(d) \/ ReadBody(d)
         \/ HasNewData(d) \/ GetLatestBuffer(d) \/ ClientStop(d)
  PROVE  Part(c)'
<1>1. ASSUME NEW h \in Handler, h.client = d, h.kind # "Broadcast", ready' = Append(ready, h)
      PROVE  UNCHANGED Handlers(c)
  <2>1. Handlers(c)' = Handlers(c) \cup { g \in {h} : g.kind # "Broadcast" /\ g.client = c }
    BY <1>1, HandlersAdd
  <2>2. { g \in {h} : g.kind # "Broadcast" /\ g.client = c } = {}
    BY <1>1
  <2> QED BY <2>1, <2>2
<1>2. ASSUME UNCHANGED ready PROVE UNCHANGED Handlers(c)
  BY <1>2 DEF Handlers, Ready
<1>3. CASE AcceptConnection(d)
  <2>1. AcceptedOf(d) \in Handler /\ AcceptedOf(d).client = d /\ AcceptedOf(d).kind # "Broadcast"
    BY HandlerFacts DEF AcceptedOf
  <2>2. UNCHANGED Handlers(c)
    BY <1>1, <1>3, <2>1 DEF AcceptConnection
  <2>3. SameEnd(c) /\ link'[c] = link[c]
    BY <1>3 DEF AcceptConnection, SameEnd, clients, Types
  <2> QED BY <1>3, <2>2, <2>3, Apart DEF AcceptConnection, host, clients
<1>4. CASE WriteSome(d)
  <2>r. PICK r \in Seq(Unit) : ready' = Append(ready, SentOf(d, r))
    BY <1>4, WriteTypes DEF WriteSome
  <2>1. SentOf(d, r) \in Handler /\ SentOf(d, r).client = d /\ SentOf(d, r).kind # "Broadcast"
    BY HandlerFacts DEF SentOf
  <2>2. UNCHANGED Handlers(c)
    BY <1>1, <2>r, <2>1
  <2>3. SameEnd(c) /\ writes'[c] = writes[c]
    BY <1>4 DEF WriteSome, SameEnd, clients, Types
  <2> QED BY <1>4, <2>2, <2>3, Apart DEF WriteSome, host, clients
<1>5. CASE WriteToNobody(d)
  <2>h. PICK h \in {SendFailedOf(d), SentOf(d, << >>)} : ready' = Append(ready, h)
    BY <1>5 DEF WriteToNobody
  <2>1. h \in Handler /\ h.client = d /\ h.kind # "Broadcast"
    <3>1. SendFailedOf(d) \in Handler /\ SentOf(d, << >>) \in Handler
      BY HandlerFacts, EmptySeq
    <3>2. /\ SendFailedOf(d).kind = "SendFailed" /\ SentOf(d, << >>).kind = "Sent"
          /\ SendFailedOf(d).client = d /\ SentOf(d, << >>).client = d
      BY DEF SendFailedOf, SentOf
    <3> QED BY <3>1, <3>2
  <2>2. UNCHANGED Handlers(c)
    BY <1>1, <2>h, <2>1
  <2>3. SameEnd(c) /\ writes'[c] = writes[c]
    BY <1>5 DEF WriteToNobody, SameEnd, clients, Types
  <2> QED BY <1>5, <2>2, <2>3, Apart DEF WriteToNobody, host, clients
<1>6. CASE Connect(d)
  <2>1. SameEnd(c) /\ link'[c] = link[c]
    BY <1>6 DEF Connect, SameEnd, clients, Types
  <2> QED BY <1>2, <1>6, <2>1, Apart DEF Connect, host, clients
<1>7. CASE LoseConnection(d)
  <2>1. SameEnd(c) /\ link'[c] = link[c]
    BY <1>7 DEF LoseConnection, SameEnd, clients, Types
  <2> QED BY <1>2, <1>7, <2>1, Apart DEF LoseConnection, host, clients
<1>8. CASE ReadHeader(d)
  <2>1. SameEnd(c)
    BY <1>8 DEF ReadHeader, SameEnd, Types
  <2> QED BY <1>2, <1>8, <2>1, Apart DEF ReadHeader, host
<1>9. CASE ReadBody(d)
  <2>1. /\ UNCHANGED <<hostUp, ready, writes, link, host, view, quit>>
        /\ stream' = [stream EXCEPT ![d] = stream'[d]]
        /\ read_buf_' = [read_buf_ EXCEPT ![d] = read_buf_'[d]]
        /\ latest_buffer_' = [latest_buffer_ EXCEPT ![d] = latest_buffer_'[d]]
        /\ new_data_' = [new_data_ EXCEPT ![d] = new_data_'[d]]
    BY <1>9, ZenonT(60) DEF ReadBody, Types
  <2>2. SameEnd(c)
    BY <2>1 DEF SameEnd, Types
  <2> QED BY <1>2, <2>1, <2>2, Apart DEF host
<1>10. CASE HasNewData(d)
  <2>1. SameEnd(c)
    BY <1>10 DEF HasNewData, SameEnd
  <2> QED BY <1>2, <1>10, <2>1, Apart DEF HasNewData, host
<1>11. CASE GetLatestBuffer(d)
  <2>1. SameEnd(c)
    BY <1>11 DEF GetLatestBuffer, SameEnd, Types
  <2> QED BY <1>2, <1>11, <2>1, Apart DEF GetLatestBuffer, host
<1>12. CASE ClientStop(d)
  <2>1. SameEnd(c) /\ quit'[c] = quit[c]
    BY <1>12 DEF ClientStop, SameEnd, Types
  <2> QED BY <1>2, <1>12, <2>1, Apart DEF ClientStop, host
<1> QED BY <1>3, <1>4, <1>5, <1>6, <1>7, <1>8, <1>9, <1>10, <1>11, <1>12

LEMMA HandlerOfOther ==
  ASSUME Types, Types', NEW c \in Client, Part(c),
         RunSent \/ RunSendFailed \/ RunAccepted, Head(ready).client # c
  PROVE  Part(c)'
<1>h. PICK h \in Handler : h = Head(ready)
  BY RunFacts DEF RunSent, RunSendFailed, RunAccepted
<1>1. /\ h.client \in Client /\ h.client # c
      /\ UNCHANGED <<hostUp, version, latest_data_, link, stream, clients>>
      /\ writes'[c] = writes[c] /\ (c \in sessions_' <=> c \in sessions_)
      /\ (c \in open' <=> c \in open)
  <2>1. h.client \in Client
    BY <1>h, RunFacts, HandlerFacts DEF RunSent, RunSendFailed, RunAccepted
  <2>2. CASE RunSent
    BY <1>h, <2>1, <2>2 DEF RunSent, host, Types
  <2>3. CASE RunSendFailed
    BY <1>h, <2>1, <2>3 DEF RunSendFailed, Types
  <2>4. CASE RunAccepted
    BY <1>h, <2>1, <2>4 DEF RunAccepted, Types
  <2> QED BY <2>2, <2>3, <2>4
<1>2. UNCHANGED Handlers(c)
  <2>1. Run("Sent") \/ Run("SendFailed") \/ Run("Accepted")
    BY DEF RunSent, RunSendFailed, RunAccepted
  <2>2. Handlers(c) = Handlers(c)' \cup { g \in {Head(ready)} : g.kind # "Broadcast" /\ g.client = c }
    BY <2>1, HandlersRun
  <2> QED BY <1>h, <1>1, <2>2
<1>3. SameEnd(c) /\ quit'[c] = quit[c]
  BY <1>1 DEF SameEnd, clients
<1> QED BY <1>1, <1>2, <1>3, Apart

LEMMA NetworkStep ==
  ASSUME Types, Types', Queue, NEW c \in Client, Part(c), Alone(c), Alone(c)', [Next]_nvars
  PROVE  Part(c)'
<1>2. CASE Post
  <2>1. Handlers(c)' = Handlers(c)
    <3>1. BroadcastOf(version + 1) \in Handler /\ BroadcastOf(version + 1).kind = "Broadcast"
      BY <1>2, HandlerFacts DEF Post, Types, BroadcastOf
    <3> QED BY <1>2, <3>1, HandlersAdd, ZenonT(60) DEF Post
  <2>2. SameEnd(c)
    BY <1>2 DEF Post, SameEnd, clients
  <2> QED BY <1>2, <2>1, <2>2, Apart DEF Post, clients
<1>3. CASE HostStop
  BY <1>3, HostStopPart
<1>4. CASE HostNetworkThread
  <2>1. CASE RunBroadcast
    BY <2>1, RunBroadcastPart
  <2>2. CASE Head(ready).client = c /\ (RunSent \/ RunSendFailed \/ RunAccepted)
    BY <2>2, RunSentPart, RunSendFailedPart, RunAcceptedPart
  <2>3. CASE Head(ready).client # c /\ (RunSent \/ RunSendFailed \/ RunAccepted)
    BY <2>3, HandlerOfOther
  <2> QED BY <1>4, <2>1, <2>2, <2>3 DEF HostNetworkThread
<1>5. ASSUME NEW d \in Client,
             \/ AcceptConnection(d) \/ WriteSome(d) \/ WriteToNobody(d)
             \/ Connect(d) \/ LoseConnection(d)
             \/ ReadHeader(d) \/ ReadBody(d)
             \/ HasNewData(d) \/ GetLatestBuffer(d) \/ ClientStop(d)
      PROVE  Part(c)'
  <2>1. CASE c # d
    <3>1. c \in Client \ {d}
      BY <2>1
    <3> QED BY <1>5, <3>1, OtherClient
  <2>2. CASE c = d
    <3>1. CASE HasNewData(c)
      <4>1. SameEnd(c) /\ UNCHANGED Handlers(c)
        BY <3>1 DEF HasNewData, SameEnd, Handlers, Ready
      <4> QED BY <3>1, <4>1, Apart DEF HasNewData, host
    <3> QED BY <1>5, <2>2, <3>1, AcceptConnectionPart, WriteSomePart, WriteToNobodyPart,
               ConnectPart, LoseConnectionPart, ReadHeaderPart, ReadBodyPart,
               GetLatestBufferPart, ClientStopPart
  <2> QED BY <2>1, <2>2
<1>6. CASE UNCHANGED nvars
  <2>1. SameEnd(c) /\ UNCHANGED Handlers(c)
    BY <1>6 DEF nvars, clients, SameEnd, Handlers, Ready
  <2> QED BY <1>6, <2>1, Apart DEF nvars, host, clients
<1> QED BY <1>2, <1>3, <1>4, <1>5, <1>6 DEF Next

LEMMA NetworkInit ==
  ASSUME HistoryInit
  PROVE  NInv
<1>0. Init
  BY DEF HistoryInit
<1>1. /\ Types /\ Len(ready) = 0 /\ ready = << >> /\ version = 0 /\ latest_data_ = 0
  BY <1>0, TypesInit, EmptySeq DEF Init
<1>2. 1 .. Len(ready) = {} /\ latest_data_ + 1 .. version = {}
  BY <1>1
<1>3. Queue
  BY <1>1, <1>2 DEF Queue, BroadcastInv, OneAccepted
<1> SUFFICES ASSUME NEW c \in Client PROVE ~ Overtaken(c) /\ Part(c)
  BY <1>3 DEF NInv, HistoryInit
<1>4. Handlers(c) = {}
  BY <1>1, RangeOfNil DEF Handlers, Ready
<1>5. ~ Flowing(c) /\ Untouched(c)
  BY <1>0, <1>4 DEF Init, Flowing, Untouched
<1>6. Wire(c) = << >> /\ Len(Wire(c)) = 0 /\ Received(c) = 0 /\ VersionOf(view[c]) = 0
  BY <1>5, ConcatEmptySeq, EmptySeq DEF Untouched, Wire, Received, VersionOf
<1>7. ClientInv(c)
  BY <1>1, <1>5, <1>6 DEF ClientInv, Untouched, IsFrame
<1>8. WireInv(c)
  <2>1. 1 .. Len(Wire(c)) = {} /\ 1 .. Len(Wire(c)) - 1 = {}
    BY <1>6
  <2> QED BY <1>5, <1>6, <2>1 DEF WireInv, InOrder, Untouched
<1>9. ~ Overtaken(c)
  BY <1>5 DEF Untouched, Overtaken
<1> QED BY <1>4, <1>5, <1>7, <1>8, <1>9 DEF Part, SessionInv, SendInv, NewestInv

-----------------------------------------------------------------------------
(* What follows.                                                           *)

LEMMA FramesShown ==
  ASSUME Types, NInv
  PROVE  ViewIsSnapshot
<1> SUFFICES ASSUME NEW c \in Client \ overtaken, view[c] # << >>
             PROVE  \E v \in 1 .. version : view[c] = Frame(v)
  BY DEF ViewIsSnapshot
<1>1. /\ VersionOf(view[c]) > 0 /\ view[c] = Frame(VersionOf(view[c]))
      /\ VersionOf(view[c]) <= Received(c) /\ Received(c) <= latest_data_
  BY DEF NInv, Part, ClientInv, IsFrame
<1>2. latest_data_ <= version
  BY DEF NInv, Queue, BroadcastInv
<1>3. VersionOf(view[c]) \in 1 .. version
  BY <1>1, <1>2, ClientTypes, ReadyFacts
<1> QED BY <1>1, <1>3

LEMMA NewestShown ==
  ASSUME Types, NInv
  PROVE  NoUpdateLost
<1> SUFFICES ASSUME NEW c \in Client \ overtaken, Connected(c), Quiet(c), version > 0
             PROVE  Shown(c) = Tail(Frame(version))
  BY DEF NoUpdateLost
<1>1. Flowing(c) /\ c \in sessions_ /\ view[c] = latest_buffer_[c] /\ writes[c] = << >>
      /\ read_buf_[c] = << >> /\ stream[c] = << >>
  BY DEF Connected, Flowing, Quiet, NInv, Part, ClientInv
<1>2. Part(c) /\ Queue /\ version \in Nat /\ latest_data_ \in Nat /\ version \in Version
  BY ReadyFacts DEF NInv, Types
<1>3. \A h \in Ready : h.kind = "Broadcast" \/ h.client = c
                     => h.kind = "Accepted" \/ (h.kind = "Sent" /\ h.rest = << >>)
  BY ReadyFacts DEF Quiet
<1>4. latest_data_ = version
  <2> SUFFICES ASSUME latest_data_ # version PROVE FALSE
    OBVIOUS
  <2>1. version \in latest_data_ + 1 .. version
    BY <1>2 DEF Queue, BroadcastInv
  <2>2. BroadcastOf(version) \in Ready
    BY <1>2, <2>1 DEF Queue, BroadcastInv
  <2> QED BY <1>3, <2>2 DEF BroadcastOf
<1>5. Pending(c) = {}
  <2>1. Cut(c) = {}
    BY <1>3 DEF Cut, Handlers
  <2> QED BY <1>1, <2>1, RangeOfNil DEF Pending, Writes
<1>6. End(c) = LastOf(Received(c))
  <2>1. Wire(c) = << >>
    BY <1>1, ConcatEmptySeq, EmptySeq DEF Wire
  <2> QED BY <2>1 DEF End
<1>7. Received(c) = version \/ (Received(c) = 0 /\ Size[version] = 0)
  BY <1>1, <1>2, <1>4, <1>5, <1>6 DEF Part, NewestInv, LastOf
<1>8. latest_buffer_[c] = << >> \/ latest_buffer_[c] = Frame(Received(c))
  BY <1>2 DEF Part, ClientInv, IsFrame, Received
<1>9. CASE Received(c) = version
  <2>1. latest_buffer_[c] # << >>
    BY <1>2, <1>9 DEF Received, VersionOf
  <2> QED BY <1>1, <1>8, <1>9, <2>1 DEF Shown
<1>10. CASE Received(c) = 0 /\ Size[version] = 0
  <2>1. latest_buffer_[c] = << >>
    BY <1>2, <1>10 DEF Part, ClientInv, IsFrame, Received
  <2>2. /\ Frame(version) \in Seq(Unit) /\ Frame(version) # << >> /\ Len(Frame(version)) = 1
    <3>1. Frame(version) = Piece(version, 0) /\ 0 \in 0 .. Size[version]
      BY <1>2, FrameIsPiece
    <3>2. Size[version] + 1 - 0 = 1
      BY <1>10
    <3> QED BY <1>2, <3>1, <3>2, PieceFacts
  <2>3. Tail(Frame(version)) = << >>
    <3>1. PICK t \in Seq(Unit) : t = Tail(Frame(version)) /\ Len(t) = 1 - 1
      BY <2>2, RangeOfTail
    <3>2. Len(t) = 0
      BY <3>1
    <3>3. t = << >>
      BY <3>1, <3>2, EmptySeq
    <3> QED BY <3>1, <3>3
  <2> QED BY <1>1, <2>1, <2>3 DEF Shown
<1> QED BY <1>7, <1>9, <1>10

(* A short write is cut when its handler is ready.                         *)
LEMMA CutIsShort ==
  ASSUME Types, NEW c \in Client
  PROVE  CutShort(c) <=> Cut(c) # {}
BY ReadyFacts DEF CutShort, Cut, Handlers

LEMMA CutIsShortNext ==
  ASSUME Types', NEW c \in Client
  PROVE  CutShort(c)' <=> Cut(c)' # {}
<1>1. PICK t \in Seq(Handler) : t = ready'
  BY DEF Types
<1>2. Range(t) = { t[i] : i \in 1 .. Len(t) }
  BY RangeFacts
<1> QED BY <1>1, <1>2 DEF CutShort, Cut, Handlers, Ready

LEMMA NotOvertaken ==
  ASSUME Types, NEW c \in Client, ~ Overtaken(c)
  PROVE  Alone(c)
BY CutIsShort DEF Overtaken, Alone

LEMMA HistoryStep ==
  ASSUME Types, Types', NInv, [HistoryNext]_hvars
  PROVE  NInv'
<1>1. [Next]_nvars
  BY DEF HistoryNext, hvars
<1>2. Queue'
  BY <1>1, QueueStep DEF NInv
<1>0. overtaken' \subseteq Client
  BY DEF HistoryNext, hvars, NInv
<1> SUFFICES ASSUME NEW c \in Client \ overtaken' PROVE ~ Overtaken(c)' /\ Part(c)'
  BY <1>0, <1>2 DEF NInv
<1>3. c \notin overtaken /\ ~ Overtaken(c)'
  <2>1. CASE HistoryNext
    BY <2>1 DEF HistoryNext
  <2>2. CASE UNCHANGED hvars
    <3>1. c \notin overtaken
      BY <2>2 DEF hvars
    <3>2. ~ Overtaken(c)
      BY <3>1 DEF NInv
    <3>3. Overtaken(c)' = Overtaken(c)
      BY <2>2 DEF hvars, nvars, Overtaken, CutShort
    <3> QED BY <3>1, <3>2, <3>3
  <2> QED BY <2>1, <2>2
<1>4. Queue /\ Part(c) /\ ~ Overtaken(c)
  BY <1>3 DEF NInv
<1>5. Alone(c) /\ Alone(c)'
  <2>1. Alone(c)
    BY <1>4, NotOvertaken
  <2>2. CutShort(c)' <=> Cut(c)' # {}
    BY CutIsShortNext
  <2> QED BY <1>3, <2>1, <2>2 DEF Overtaken, Alone
<1>6. Part(c)'
  BY <1>1, <1>4, <1>5, NetworkStep
<1> QED BY <1>3, <1>6

LEMMA SameOvertaken ==
  ASSUME Types, Types', NInv, HistoryNext, writes' = writes,
         \A c \in Client : Handlers(c)' = Handlers(c)
  PROVE  overtaken' = overtaken
<1>1. ASSUME NEW c \in Client, Overtaken(c)' PROVE Overtaken(c)
  <2>1. CutShort(c)' <=> Cut(c)' # {}
    BY CutIsShortNext
  <2>2. Cut(c)' = Cut(c)
    BY DEF Cut
  <2> QED BY <1>1, <2>1, <2>2, CutIsShort DEF Overtaken
<1> QED BY <1>1 DEF HistoryNext, NInv

(* A step of the network is a step of the mirror, or none.                 *)
LEMMA MirrorStep ==
  ASSUME Types, Types', NInv, [HistoryNext]_hvars
  PROVE  [Mirrored!Next]_(Mirrored!mvars)
<1> DEFINE shown == [c \in Client |-> IF view[c] = << >> THEN 0 ELSE view[c][1][1]]
<1>1. CASE HistoryNext /\ Post
  <2>1. version' = version + 1 /\ view' = view
    BY <1>1 DEF Post, clients
  <2>2. overtaken' = overtaken
    <3>1. BroadcastOf(version + 1) \in Handler /\ BroadcastOf(version + 1).kind = "Broadcast"
      BY <1>1, HandlerFacts DEF Post, Types, BroadcastOf
    <3>2. ASSUME NEW c \in Client PROVE Handlers(c)' = Handlers(c)
      BY <1>1, <3>1, HandlersAdd, ZenonT(60) DEF Post
    <3> QED BY <1>1, <3>2, SameOvertaken DEF Post
  <2>3. Mirrored!Edit
    BY <2>1, <2>2 DEF Mirrored!Edit
  <2> QED BY <2>3 DEF Mirrored!Next
<1>2. ASSUME HistoryNext, NEW c \in Client, GetLatestBuffer(c)
      PROVE  [Mirrored!Next]_(Mirrored!mvars)
  <2>1. version' = version /\ view' = [view EXCEPT ![c] = latest_buffer_[c]]
    BY <1>2 DEF GetLatestBuffer, host
  <2>2. shown' = [shown EXCEPT ![c] = Received(c)]
    <3>1. view \in [Client -> Seq(Unit)]
      BY DEF Types
    <3> QED BY <2>1, <3>1 DEF Received, VersionOf
  <2>3. overtaken' = overtaken
    <3>1. UNCHANGED <<ready, writes>>
      BY <1>2 DEF GetLatestBuffer
    <3>2. ASSUME NEW d \in Client PROVE Handlers(d)' = Handlers(d)
      BY <3>1 DEF Handlers, Ready
    <3> QED BY <1>2, <3>1, <3>2, SameOvertaken
  <2>4. CASE c \in overtaken
    <3>1. shown' = [shown EXCEPT ![c] = shown'[c]]
      BY <2>2
    <3>2. Mirrored!ShowAnything(c)
      BY <2>1, <2>3, <2>4, <3>1 DEF Mirrored!ShowAnything
    <3> QED BY <3>2 DEF Mirrored!Next
  <2>5. CASE c \notin overtaken
    <3>1. Received(c) \in shown[c] .. version
      <4>1. /\ VersionOf(view[c]) <= Received(c) /\ Received(c) <= latest_data_
            /\ latest_data_ <= version
        BY <2>5 DEF NInv, Part, ClientInv, Queue, BroadcastInv
      <4>2. shown[c] = VersionOf(view[c])
        BY DEF VersionOf
      <4> QED BY <4>1, <4>2, ClientTypes, ReadyFacts
    <3>2. Mirrored!Refresh(c)
      BY <2>1, <2>2, <2>3, <2>5, <3>1 DEF Mirrored!Refresh
    <3> QED BY <3>2 DEF Mirrored!Next
  <2> QED BY <2>4, <2>5
<1>3. ASSUME HistoryNext, UNCHANGED <<version, view>> PROVE [Mirrored!Next]_(Mirrored!mvars)
  <2>1. overtaken \subseteq overtaken' /\ overtaken' \subseteq overtaken \cup Client
    BY <1>3 DEF HistoryNext
  <2>2. overtaken \subseteq Client
    BY DEF NInv
  <2>3. Mirrored!Break
    BY <1>3, <2>1, <2>2 DEF Mirrored!Break
  <2> QED BY <2>3 DEF Mirrored!Next
<1>4. CASE HistoryNext /\ (HostStop \/ HostNetworkThread)
  <2>1. UNCHANGED <<version, view>>
    BY <1>4 DEF HostStop, HostNetworkThread, RunBroadcast, RunSent, RunSendFailed, RunAccepted,
                host, clients
  <2> QED BY <1>3, <1>4, <2>1
<1>5. ASSUME HistoryNext, NEW c \in Client,
             \/ AcceptConnection(c) \/ WriteSome(c) \/ WriteToNobody(c)
             \/ Connect(c) \/ LoseConnection(c)
             \/ ReadHeader(c) \/ ReadBody(c) \/ HasNewData(c) \/ ClientStop(c)
      PROVE  [Mirrored!Next]_(Mirrored!mvars)
  <2>1. UNCHANGED <<version, view>>
    BY <1>5 DEF AcceptConnection, WriteSome, WriteToNobody, Connect, LoseConnection,
                ReadHeader, ReadBody, HasNewData, ClientStop, host, clients
  <2> QED BY <1>3, <1>5, <2>1
<1>6. CASE UNCHANGED hvars
  <2>1. UNCHANGED <<version, view, overtaken>>
    BY <1>6 DEF hvars, nvars, host, clients
  <2> QED BY <2>1 DEF Mirrored!mvars
<1> QED BY <1>1, <1>2, <1>4, <1>5, <1>6 DEF HistoryNext, Next

LEMMA MirrorInit ==
  ASSUME HistoryInit
  PROVE  Mirrored!Init
BY DEF HistoryInit, Init, Mirrored!Init

LEMMA NetworkInvariant == HistorySpec => [](Types /\ NInv)
<1>1. HistoryInit => Types /\ NInv
  BY TypesInit, NetworkInit DEF HistoryInit
<1>2. Types /\ [HistoryNext]_hvars => Types'
  BY TypesStep DEF HistoryNext, hvars
<1>3. Types /\ Types' /\ NInv /\ [HistoryNext]_hvars => NInv'
  BY HistoryStep
<1> QED BY <1>1, <1>2, <1>3, PTL DEF HistorySpec

(* Until a short write to it is overtaken, a client shows only texts the   *)
(* host had, whole (send_buffer, network_models.cpp:29, and do_read_body,  *)
(* :122), whatever the lengths of the texts, the room of the connections   *)
(* and the other clients, whose own short writes may be overtaken ...      *)
THEOREM WholeFrames == HistorySpec => []ViewIsSnapshot
<1>1. Types /\ NInv => ViewIsSnapshot
  BY FramesShown
<1> QED BY <1>1, NetworkInvariant, PTL

(* ... the host's text, once nothing is under way to it in any queue       *)
(* between broadcast_buffer and get_latest_buffer, also when sessions of   *)
(* others fail and are erased (broadcast, network_models.cpp:77) ...       *)
THEOREM NewestText == HistorySpec => []NoUpdateLost
<1>1. Types /\ NInv => NoUpdateLost
  BY NewestShown
<1> QED BY <1>1, NetworkInvariant, PTL

(* ... and the texts it shows in the order they were posted: the network   *)
(* is a mirror (get_latest_buffer, network_models.cpp:145) that can only   *)
(* break for one client at a time.                                         *)
THEOREM NetworkIsMirror == HistorySpec => ImplementsMirror
<1>1. HistoryInit => Mirrored!Init
  BY MirrorInit
<1>2. /\ Types /\ Types' /\ NInv /\ [HistoryNext]_hvars
      => [Mirrored!Next]_(Mirrored!mvars)
  BY MirrorStep
<1> QED BY <1>1, <1>2, NetworkInvariant, PTL DEF HistorySpec, ImplementsMirror, Mirrored!Spec
=============================================================================
