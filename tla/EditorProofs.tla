----------------------------- MODULE EditorProofs -----------------------------
(***************************************************************************)
(* What the operations of module GapBuffer do to the text a buffer holds,  *)
(* and theorems about module Editor, for every set of characters, paths    *)
(* and inputs, every gap size and text area, and texts of any length.      *)
(***************************************************************************)
EXTENDS EditorProperties, CursorProofs

-----------------------------------------------------------------------------
(* Buffers.                                                                *)

(* The parts of a buffer, as numbers and functions.                        *)
LEMMA BufferFacts ==
  ASSUME NEW b \in Buffer
  PROVE  /\ b.data \in Seq(Char)
         /\ Len(b.data) \in Nat
         /\ b.gap_start \in Nat /\ b.gap_end \in Nat
         /\ b.gap_start <= b.gap_end /\ b.gap_end <= Len(b.data)
         /\ GapLen(b) \in Nat
         /\ TextLen(b) \in Nat
         /\ \A i \in 1 .. Len(b.data) : b.data[i] \in Char
         /\ b.gap_start <= TextLen(b)
<1>1. b.data \in Seq(Char) /\ Len(b.data) \in Nat
  BY LenProperties DEF Buffer
<1>2. \A i \in 1 .. Len(b.data) : b.data[i] \in Char
  BY <1>1, ElementOfSeq
<1> QED BY <1>1, <1>2 DEF Buffer, GapLen, TextLen

(* A record with a function on 1 .. n as its data and a well placed gap is *)
(* a buffer.                                                               *)
LEMMA MakeBuffer ==
  ASSUME NEW n \in Nat, NEW d \in [1 .. n -> Char], NEW s \in Nat, NEW e \in Nat,
         s <= e, e <= n
  PROVE  /\ [data |-> d, gap_start |-> s, gap_end |-> e] \in Buffer
         /\ Len(d) = n
<1>1. d \in Seq(Char) /\ Len(d) = n
  BY FunctionIsSeq
<1> QED BY <1>1 DEF Buffer

(* The text of a buffer.                                                   *)
LEMMA TextFacts ==
  ASSUME NEW b \in Buffer
  PROVE  /\ serialize_buffer(b) \in Seq(Char)
         /\ Len(serialize_buffer(b)) = TextLen(b)
         /\ \A i \in 1 .. TextLen(b) :
              serialize_buffer(b)[i] =
                IF i <= b.gap_start THEN b.data[i] ELSE b.data[i + GapLen(b)]
<1>1. serialize_buffer(b) \in [1 .. TextLen(b) -> Char]
  <2> SUFFICES ASSUME NEW i \in 1 .. TextLen(b)
               PROVE  (IF i <= b.gap_start THEN b.data[i] ELSE b.data[i + GapLen(b)]) \in Char
    BY DEF serialize_buffer
  <2>1. i \in 1 .. Len(b.data)
    BY BufferFacts DEF TextLen, GapLen
  <2>2. i + GapLen(b) \in 1 .. Len(b.data)
    BY BufferFacts DEF TextLen, GapLen
  <2> QED BY <2>1, <2>2, BufferFacts
<1>2. TextLen(b) \in Nat
  BY BufferFacts
<1> QED BY <1>1, <1>2, FunctionIsSeq DEF serialize_buffer

(* Two buffers hold the same text if they agree position by position.      *)
LEMMA SameText ==
  ASSUME NEW b \in Buffer, NEW x \in Buffer, TextLen(x) = TextLen(b),
         \A i \in 1 .. TextLen(b) : serialize_buffer(x)[i] = serialize_buffer(b)[i]
  PROVE  serialize_buffer(x) = serialize_buffer(b)
BY TextFacts, SeqEqual

-----------------------------------------------------------------------------
(* Construction.                                                           *)

(* A new buffer, a loaded file and a received message are buffers that     *)
(* hold what they should.                                                  *)
LEMMA NewBuffer ==
  /\ create_gap_buffer \in Buffer
  /\ serialize_buffer(create_gap_buffer) = << >>
  /\ create_gap_buffer.gap_start = 0
<1>1. [i \in 1 .. GapSize |-> Nul] \in [1 .. GapSize -> Char]
  BY GapAssumption
<1>2. create_gap_buffer \in Buffer /\ Len([i \in 1 .. GapSize |-> Nul]) = GapSize
  BY <1>1, MakeBuffer, GapAssumption DEF create_gap_buffer
<1>3. TextLen(create_gap_buffer) = 0
  BY <1>2, GapAssumption DEF create_gap_buffer, TextLen, GapLen
<1>4. serialize_buffer(create_gap_buffer) = << >>
  BY <1>2, <1>3, TextFacts, EmptySeq
<1> QED BY <1>2, <1>4 DEF create_gap_buffer

LEMMA FileBuffer ==
  ASSUME NEW t \in Seq(Char)
  PROVE  /\ BufferOfFile(t) \in Buffer
         /\ serialize_buffer(BufferOfFile(t)) = t
         /\ BufferOfFile(t).gap_start = 0
<1> DEFINE d == [i \in 1 .. GapSize + Len(t) |->
                   IF i <= GapSize THEN Nul ELSE t[i - GapSize]]
           b == BufferOfFile(t)
<1>1. Len(t) \in Nat /\ GapSize \in Nat /\ \A i \in 1 .. Len(t) : t[i] \in Char
  BY LenProperties, ElementOfSeq, GapAssumption
<1>2. d \in [1 .. GapSize + Len(t) -> Char]
  BY <1>1, GapAssumption
<1>3. b \in Buffer /\ Len(d) = GapSize + Len(t)
  <2>1. b = [data |-> d, gap_start |-> 0, gap_end |-> GapSize]
    BY DEF BufferOfFile
  <2>2. GapSize + Len(t) \in Nat /\ GapSize <= GapSize + Len(t)
    BY <1>1
  <2> HIDE DEF d, b
  <2> QED BY <1>1, <1>2, <2>1, <2>2, MakeBuffer
<1>4. b.data = d /\ b.gap_start = 0 /\ b.gap_end = GapSize
  BY DEF BufferOfFile
<1>5. GapLen(b) = GapSize /\ TextLen(b) = Len(t)
  BY <1>1, <1>3, <1>4 DEF TextLen, GapLen
<1>6. \A i \in 1 .. Len(t) : serialize_buffer(b)[i] = t[i]
  <2> SUFFICES ASSUME NEW i \in 1 .. Len(t) PROVE serialize_buffer(b)[i] = t[i]
    OBVIOUS
  <2>1. serialize_buffer(b)[i] = d[i + GapSize]
    BY <1>1, <1>3, <1>4, <1>5, TextFacts
  <2>2. i + GapSize \in 1 .. GapSize + Len(t) /\ ~ (i + GapSize <= GapSize)
    BY <1>1
  <2> QED BY <2>1, <2>2, <1>1
<1>7. serialize_buffer(b) = t
  BY <1>3, <1>5, <1>6, TextFacts, SeqEqual
<1> QED BY <1>3, <1>4, <1>7

LEMMA MessageBuffer ==
  ASSUME NEW t \in Seq(Char), NEW c \in Nat
  PROVE  /\ BufferOfMessage(t, c) \in Buffer
         /\ serialize_buffer(BufferOfMessage(t, c)) = t
         /\ BufferOfMessage(t, c).gap_start = IF c > Len(t) THEN Len(t) ELSE c
<1> DEFINE b == BufferOfMessage(t, c)
           p == IF c > Len(t) THEN Len(t) ELSE c
<1>1. Len(t) \in Nat /\ p \in Nat /\ p <= Len(t)
  BY LenProperties
<1>2. b = [data |-> t, gap_start |-> p, gap_end |-> p]
  BY DEF BufferOfMessage
<1> HIDE DEF p
<1>3. b \in Buffer
  BY <1>1, <1>2 DEF Buffer
<1>4. GapLen(b) = 0 /\ TextLen(b) = Len(t)
  BY <1>1, <1>2 DEF GapLen, TextLen
<1>5. \A i \in 1 .. Len(t) : serialize_buffer(b)[i] = t[i]
  BY <1>2, <1>3, <1>4, TextFacts
<1>6. serialize_buffer(b) = t
  BY <1>3, <1>4, <1>5, TextFacts, SeqEqual
<1> QED BY <1>2, <1>3, <1>6 DEF p

-----------------------------------------------------------------------------
(* Moving the gap.                                                         *)

(* The cells of a moved buffer.                                            *)
LEMMA MoveToCells ==
  ASSUME NEW b \in Buffer, NEW p \in 0 .. TextLen(b)
  PROVE  /\ MoveTo(b, p) \in Buffer
         /\ MoveTo(b, p).gap_start = p
         /\ MoveTo(b, p).gap_end = p + GapLen(b)
         /\ GapLen(MoveTo(b, p)) = GapLen(b)
         /\ Len(MoveTo(b, p).data) = Len(b.data)
         /\ TextLen(MoveTo(b, p)) = TextLen(b)
         /\ \A i \in 1 .. Len(b.data) :
              MoveTo(b, p).data[i] =
                IF b.gap_start < i /\ i <= p THEN b.data[i + GapLen(b)]
                ELSE IF p + GapLen(b) < i /\ i <= b.gap_end THEN b.data[i - GapLen(b)]
                ELSE b.data[i]
<1> DEFINE d == [i \in 1 .. Len(b.data) |->
                   IF b.gap_start < i /\ i <= p THEN b.data[i + GapLen(b)]
                   ELSE IF p + GapLen(b) < i /\ i <= b.gap_end THEN b.data[i - GapLen(b)]
                   ELSE b.data[i]]
<1>1. d \in [1 .. Len(b.data) -> Char]
  <2> SUFFICES ASSUME NEW i \in 1 .. Len(b.data) PROVE d[i] \in Char
    OBVIOUS
  <2>1. CASE b.gap_start < i /\ i <= p
    <3>1. i + GapLen(b) \in 1 .. Len(b.data)
      BY <2>1, BufferFacts DEF TextLen, GapLen
    <3> QED BY <2>1, <3>1, BufferFacts
  <2>2. CASE p + GapLen(b) < i /\ i <= b.gap_end /\ ~ (b.gap_start < i /\ i <= p)
    <3>1. i - GapLen(b) \in 1 .. Len(b.data)
      BY <2>2, BufferFacts DEF TextLen, GapLen
    <3> QED BY <2>2, <3>1, BufferFacts
  <2> QED BY <2>1, <2>2, BufferFacts
<1>2. p + GapLen(b) \in Nat /\ p <= p + GapLen(b) /\ p + GapLen(b) <= Len(b.data)
  BY BufferFacts DEF TextLen, GapLen
<1>3. MoveTo(b, p) = [data |-> d, gap_start |-> p, gap_end |-> p + GapLen(b)]
  BY DEF MoveTo
<1>4. \A i \in 1 .. Len(b.data) :
        d[i] = IF b.gap_start < i /\ i <= p THEN b.data[i + GapLen(b)]
               ELSE IF p + GapLen(b) < i /\ i <= b.gap_end THEN b.data[i - GapLen(b)]
               ELSE b.data[i]
  OBVIOUS
<1> HIDE DEF d
<1>5. MoveTo(b, p) \in Buffer /\ Len(d) = Len(b.data)
  BY <1>1, <1>2, <1>3, MakeBuffer, BufferFacts, SMTT(30)
<1>6. GapLen(MoveTo(b, p)) = GapLen(b)
  BY <1>2, <1>3, BufferFacts DEF GapLen
<1> QED BY <1>3, <1>4, <1>5, <1>6 DEF TextLen

(* Moving the cursor, to any position, does not change the text.           *)
LEMMA MoveToKeepsText ==
  ASSUME NEW b \in Buffer, NEW p \in 0 .. TextLen(b)
  PROVE  serialize_buffer(MoveTo(b, p)) = serialize_buffer(b)
<1> DEFINE m == MoveTo(b, p)
           g == GapLen(b)
<1>1. /\ m \in Buffer /\ TextLen(m) = TextLen(b) /\ GapLen(m) = g /\ m.gap_start = p
      /\ \A i \in 1 .. Len(b.data) :
           m.data[i] = IF b.gap_start < i /\ i <= p THEN b.data[i + g]
                       ELSE IF p + g < i /\ i <= b.gap_end THEN b.data[i - g]
                       ELSE b.data[i]
  BY MoveToCells
<1>2. /\ g \in Nat /\ b.gap_start \in Nat /\ TextLen(b) \in Nat /\ Len(b.data) \in Nat
      /\ b.gap_end = b.gap_start + g /\ Len(b.data) = TextLen(b) + g
      /\ b.gap_start <= TextLen(b)
  BY BufferFacts DEF GapLen, TextLen
<1> HIDE DEF m, g
<1>3. ASSUME NEW i \in 1 .. TextLen(b)
      PROVE  serialize_buffer(m)[i] = serialize_buffer(b)[i]
  <2>1. serialize_buffer(b)[i] = IF i <= b.gap_start THEN b.data[i] ELSE b.data[i + g]
    BY TextFacts DEF g
  <2>2. serialize_buffer(m)[i] = IF i <= p THEN m.data[i] ELSE m.data[i + g]
    BY <1>1, TextFacts
  <2>3. i \in 1 .. Len(b.data) /\ i + g \in 1 .. Len(b.data)
    BY <1>2
  <2>4. CASE i <= p
    <3>1. ~ (p + g < i)
      BY <1>2, <2>4
    <3>2. m.data[i] = IF b.gap_start < i THEN b.data[i + g] ELSE b.data[i]
      BY <1>1, <2>3, <2>4, <3>1
    <3> QED BY <1>2, <2>1, <2>2, <2>4, <3>2
  <2>5. CASE ~ (i <= p) /\ i <= b.gap_start
    <3>1. p + g < i + g /\ i + g <= b.gap_end /\ (i + g) - g = i /\ ~ (i + g <= p)
      BY <1>2, <2>5
    <3> QED BY <1>1, <2>1, <2>2, <2>3, <2>5, <3>1
  <2>6. CASE ~ (i <= p) /\ ~ (i <= b.gap_start)
    <3>1. ~ (i + g <= b.gap_end) /\ ~ (i + g <= p)
      BY <1>2, <2>6
    <3> QED BY <1>1, <2>1, <2>2, <2>3, <2>6, <3>1
  <2> QED BY <2>4, <2>5, <2>6
<1> QED BY <1>1, <1>3, SameText DEF m

(* MoveTo is what repeated steps compute: no step stays, one step left or  *)
(* right is a MoveTo, and steps in one direction add up.                   *)
LEMMA MoveNowhere ==
  ASSUME NEW b \in Buffer
  PROVE  MoveTo(b, b.gap_start) = b
<1> DEFINE m == MoveTo(b, b.gap_start)
<1>1. b.gap_start \in 0 .. TextLen(b)
  BY BufferFacts
<1>2. /\ m \in Buffer /\ m.gap_start = b.gap_start /\ m.gap_end = b.gap_end
      /\ Len(m.data) = Len(b.data)
      /\ \A i \in 1 .. Len(b.data) : m.data[i] = b.data[i]
  BY <1>1, MoveToCells, BufferFacts DEF GapLen
<1>3. m.data = b.data
  BY <1>2, BufferFacts, SeqEqual
<1> QED BY <1>2, <1>3 DEF Buffer

LEMMA StepIsMove ==
  ASSUME NEW b \in Buffer
  PROVE  /\ b.gap_start > 0 => move_cursor_left(b) = MoveTo(b, b.gap_start - 1)
         /\ b.gap_end < Len(b.data) => move_cursor_right(b) = MoveTo(b, b.gap_start + 1)
<1> DEFINE n == Len(b.data)
           g == GapLen(b)
<1>1. /\ g \in Nat /\ n \in Nat /\ b.gap_start \in Nat /\ b.gap_end \in Nat
      /\ b.gap_end = b.gap_start + g /\ b.gap_end <= n
      /\ b.data \in Seq(Char) /\ \A i \in 1 .. n : b.data[i] \in Char
      /\ TextLen(b) = n - g
  BY BufferFacts DEF GapLen, TextLen
<1>2. ASSUME b.gap_start > 0
      PROVE  move_cursor_left(b) = MoveTo(b, b.gap_start - 1)
  <2> DEFINE m == MoveTo(b, b.gap_start - 1)
             d == [b.data EXCEPT ![b.gap_end] = b.data[b.gap_start]]
  <2>1. /\ m \in Buffer /\ m.gap_start = b.gap_start - 1 /\ m.gap_end = (b.gap_start - 1) + g
        /\ Len(m.data) = n
        /\ \A i \in 1 .. n :
             m.data[i] = IF b.gap_start < i /\ i <= b.gap_start - 1 THEN b.data[i + g]
                         ELSE IF (b.gap_start - 1) + g < i /\ i <= b.gap_end
                         THEN b.data[i - g] ELSE b.data[i]
    <3>1. b.gap_start - 1 \in 0 .. TextLen(b)
      BY <1>1, <1>2
    <3> QED BY <3>1, MoveToCells
  <2>2. b.gap_end \in 1 .. n /\ b.gap_start \in 1 .. n
    BY <1>1, <1>2
  <2>3. /\ d \in Seq(Char) /\ Len(d) = n
        /\ \A i \in 1 .. n : d[i] = IF i = b.gap_end THEN b.data[b.gap_start] ELSE b.data[i]
    BY <1>1, <2>2, ExceptSeq
  <2>4. move_cursor_left(b) = [data |-> d, gap_start |-> b.gap_start - 1,
                               gap_end |-> b.gap_end - 1]
    BY <1>1, <1>2 DEF move_cursor_left
  <2> HIDE DEF m, d, n, g
  <2>5. ASSUME NEW i \in 1 .. n PROVE m.data[i] = d[i]
    <3>1. CASE i = b.gap_end
      <4>1. i - g = b.gap_start /\ (b.gap_start - 1) + g < i /\ ~ (i <= b.gap_start - 1)
        BY <1>1, <3>1
      <4>2. m.data[i] = b.data[i - g]
        BY <2>1, <3>1, <4>1
      <4>3. d[i] = b.data[b.gap_start]
        BY <2>3, <3>1
      <4> QED BY <4>1, <4>2, <4>3
    <3>2. CASE i # b.gap_end
      <4>1. ~ ((b.gap_start - 1) + g < i /\ i <= b.gap_end)
            /\ ~ (b.gap_start < i /\ i <= b.gap_start - 1)
        BY <1>1, <3>2
      <4> QED BY <2>1, <2>3, <3>2, <4>1
    <3> QED BY <3>1, <3>2
  <2>6. m.data = d
    <3>1. m.data \in Seq(Char)
      BY <2>1, BufferFacts
    <3> QED BY <2>1, <2>3, <2>5, <3>1, SeqEqual
  <2>7. m.gap_end = b.gap_end - 1
    BY <1>1, <2>1
  <2>8. m = [data |-> m.data, gap_start |-> m.gap_start, gap_end |-> m.gap_end]
    BY <2>1 DEF Buffer
  <2> QED BY <2>1, <2>4, <2>6, <2>7, <2>8 DEF m
<1>3. ASSUME b.gap_end < Len(b.data)
      PROVE  move_cursor_right(b) = MoveTo(b, b.gap_start + 1)
  <2> DEFINE m == MoveTo(b, b.gap_start + 1)
             d == [b.data EXCEPT ![b.gap_start + 1] = b.data[b.gap_end + 1]]
  <2>1. /\ m \in Buffer /\ m.gap_start = b.gap_start + 1 /\ m.gap_end = (b.gap_start + 1) + g
        /\ Len(m.data) = n
        /\ \A i \in 1 .. n :
             m.data[i] = IF b.gap_start < i /\ i <= b.gap_start + 1 THEN b.data[i + g]
                         ELSE IF (b.gap_start + 1) + g < i /\ i <= b.gap_end
                         THEN b.data[i - g] ELSE b.data[i]
    <3>1. b.gap_start + 1 \in 0 .. TextLen(b)
      BY <1>1, <1>3
    <3> QED BY <3>1, MoveToCells
  <2>2. b.gap_start + 1 \in 1 .. n /\ b.data[b.gap_end + 1] \in Char
    BY <1>1, <1>3, SMTT(30)
  <2>3. /\ d \in Seq(Char) /\ Len(d) = n
        /\ \A i \in 1 .. n :
             d[i] = IF i = b.gap_start + 1 THEN b.data[b.gap_end + 1] ELSE b.data[i]
    BY <1>1, <2>2, ExceptSeq
  <2>4. move_cursor_right(b) = [data |-> d, gap_start |-> b.gap_start + 1,
                                gap_end |-> b.gap_end + 1]
    BY <1>1, <1>3 DEF move_cursor_right
  <2> HIDE DEF m, d, n, g
  <2>5. ASSUME NEW i \in 1 .. n PROVE m.data[i] = d[i]
    <3>1. CASE i = b.gap_start + 1
      <4>1. i + g = b.gap_end + 1 /\ b.gap_start < i /\ i <= b.gap_start + 1
        BY <1>1, <3>1
      <4> QED BY <2>1, <2>3, <3>1, <4>1
    <3>2. CASE i # b.gap_start + 1
      <4>1. ~ ((b.gap_start + 1) + g < i /\ i <= b.gap_end)
            /\ ~ (b.gap_start < i /\ i <= b.gap_start + 1)
        BY <1>1, <3>2
      <4> QED BY <2>1, <2>3, <3>2, <4>1
    <3> QED BY <3>1, <3>2
  <2>6. m.data = d
    <3>1. m.data \in Seq(Char)
      BY <2>1, BufferFacts
    <3> QED BY <2>1, <2>3, <2>5, <3>1, SeqEqual
  <2>7. m.gap_end = b.gap_end + 1
    BY <1>1, <2>1
  <2>8. m = [data |-> m.data, gap_start |-> m.gap_start, gap_end |-> m.gap_end]
    BY <2>1 DEF Buffer
  <2> QED BY <2>1, <2>4, <2>6, <2>7, <2>8 DEF m
<1> QED BY <1>2, <1>3

LEMMA MovesAdd ==
  ASSUME NEW b \in Buffer, NEW p \in 0 .. TextLen(b), NEW q \in 0 .. TextLen(b),
         \/ b.gap_start <= p /\ p <= q
         \/ q <= p /\ p <= b.gap_start
  PROVE  MoveTo(MoveTo(b, p), q) = MoveTo(b, q)
<1> DEFINE m == MoveTo(b, p)
           x == MoveTo(m, q)
           y == MoveTo(b, q)
           g == GapLen(b)
           n == Len(b.data)
<1>1. /\ m \in Buffer /\ m.gap_start = p /\ m.gap_end = p + g /\ GapLen(m) = g
      /\ Len(m.data) = n /\ TextLen(m) = TextLen(b)
      /\ \A i \in 1 .. n : m.data[i] = IF b.gap_start < i /\ i <= p THEN b.data[i + g]
                                        ELSE IF p + g < i /\ i <= b.gap_end THEN b.data[i - g]
                                        ELSE b.data[i]
  BY MoveToCells
<1>2. /\ x \in Buffer /\ x.gap_start = q /\ x.gap_end = q + g /\ Len(x.data) = n
      /\ \A i \in 1 .. n : x.data[i] = IF p < i /\ i <= q THEN m.data[i + g]
                                        ELSE IF q + g < i /\ i <= p + g THEN m.data[i - g]
                                        ELSE m.data[i]
  BY <1>1, MoveToCells
<1>3. /\ y \in Buffer /\ y.gap_start = q /\ y.gap_end = q + g /\ Len(y.data) = n
      /\ \A i \in 1 .. n : y.data[i] = IF b.gap_start < i /\ i <= q THEN b.data[i + g]
                                        ELSE IF q + g < i /\ i <= b.gap_end THEN b.data[i - g]
                                        ELSE b.data[i]
  BY MoveToCells
<1>4. /\ g \in Nat /\ n \in Nat /\ b.gap_start \in Nat /\ p \in Nat /\ q \in Nat
      /\ b.gap_end = b.gap_start + g /\ p + g <= n /\ q + g <= n
  BY BufferFacts, SMTT(30) DEF GapLen, TextLen
<1> HIDE DEF m, x, y, g, n
<1>5. ASSUME NEW i \in 1 .. n PROVE x.data[i] = y.data[i]
  <2>1. CASE b.gap_start <= p /\ p <= q
    <3>1. CASE p < i /\ i <= q
      <4>1. i + g \in 1 .. n /\ ~ (b.gap_start < i + g /\ i + g <= p) /\ ~ (i + g <= b.gap_end)
        BY <1>4, <2>1, <3>1
      <4>2. x.data[i] = b.data[i + g]
        BY <1>1, <1>2, <3>1, <4>1
      <4>3. b.gap_start < i /\ i <= q
        BY <1>4, <2>1, <3>1
      <4> QED BY <1>3, <4>2, <4>3
    <3>2. CASE ~ (p < i /\ i <= q)
      <4>1. /\ ~ (q + g < i /\ i <= p + g) /\ ~ (q + g < i /\ i <= b.gap_end)
            /\ ~ (p + g < i /\ i <= b.gap_end)
            /\ (b.gap_start < i /\ i <= p) <=> (b.gap_start < i /\ i <= q)
        BY <1>4, <2>1, <3>2
      <4> QED BY <1>1, <1>2, <1>3, <3>2, <4>1
    <3> QED BY <3>1, <3>2
  <2>2. CASE q <= p /\ p <= b.gap_start
    <3>1. CASE q + g < i /\ i <= p + g
      <4>1. /\ i - g \in 1 .. n
            /\ ~ (b.gap_start < i - g) /\ ~ (p < i /\ i <= q) /\ ~ (b.gap_start < i /\ i <= q)
            /\ i <= b.gap_end /\ ~ (p + g < i - g)
        BY <1>4, <2>2, <3>1
      <4>2. i - g \in 1 .. n
        BY <1>4, <2>2, <3>1
      <4>3. m.data[i - g] = b.data[i - g]
        BY <1>1, <4>1, <4>2
      <4> QED BY <1>2, <1>3, <3>1, <4>1, <4>3
    <3>2. CASE ~ (q + g < i /\ i <= p + g)
      <4>1. /\ ~ (p < i /\ i <= q) /\ ~ (b.gap_start < i /\ i <= q)
            /\ ~ (b.gap_start < i /\ i <= p)
            /\ (p + g < i /\ i <= b.gap_end) <=> (q + g < i /\ i <= b.gap_end)
        BY <1>4, <2>2, <3>2
      <4> QED BY <1>1, <1>2, <1>3, <3>2, <4>1
    <3> QED BY <3>1, <3>2
  <2> QED BY <2>1, <2>2
<1>6. x.data = y.data
  <2>1. x.data \in Seq(Char) /\ y.data \in Seq(Char)
    BY <1>2, <1>3, BufferFacts
  <2> QED BY <1>2, <1>3, <1>5, <2>1, SeqEqual
<1>7. x = y
  BY <1>2, <1>3, <1>6, SMTT(30) DEF Buffer
<1> QED BY <1>7 DEF x, y, m

-----------------------------------------------------------------------------
(* Editing.                                                                *)

(* Growing the gap keeps the text and leaves the gap with free cells.      *)
LEMMA GrowGap ==
  ASSUME NEW b \in Buffer, NEW a \in Nat
  PROVE  /\ grow_gap(b, a) \in Buffer
         /\ grow_gap(b, a).gap_start = b.gap_start
         /\ grow_gap(b, a).gap_end = b.gap_end + a
         /\ Len(grow_gap(b, a).data) = Len(b.data) + a
         /\ serialize_buffer(grow_gap(b, a)) = serialize_buffer(b)
<1> DEFINE n == Len(b.data)
           d == [i \in 1 .. n + a |->
                   IF i > b.gap_end + a THEN b.data[i - a]
                   ELSE IF i <= n THEN b.data[i] ELSE Nul]
           x == grow_gap(b, a)
<1>1. /\ n \in Nat /\ b.gap_start \in Nat /\ b.gap_end \in Nat
      /\ b.gap_start <= b.gap_end /\ b.gap_end <= n
      /\ \A i \in 1 .. n : b.data[i] \in Char
      /\ GapLen(b) = b.gap_end - b.gap_start /\ TextLen(b) = n - GapLen(b)
      /\ n + a \in Nat /\ b.gap_end + a \in Nat
  BY BufferFacts DEF GapLen, TextLen
<1>2. d \in [1 .. n + a -> Char]
  <2> SUFFICES ASSUME NEW i \in 1 .. n + a PROVE d[i] \in Char
    OBVIOUS
  <2>1. CASE i > b.gap_end + a
    <3>1. i - a \in 1 .. n
      BY <1>1, <2>1
    <3> QED BY <1>1, <2>1, <3>1
  <2>2. CASE ~ (i > b.gap_end + a) /\ i <= n
    BY <1>1, <2>2
  <2>3. CASE ~ (i > b.gap_end + a) /\ ~ (i <= n)
    BY <2>3, GapAssumption
  <2> QED BY <2>1, <2>2, <2>3
<1>3. x = [data |-> d, gap_start |-> b.gap_start, gap_end |-> b.gap_end + a]
  BY DEF grow_gap
<1>4. \A i \in 1 .. n + a : d[i] = IF i > b.gap_end + a THEN b.data[i - a]
                                  ELSE IF i <= n THEN b.data[i] ELSE Nul
  OBVIOUS
<1> HIDE DEF d, x, n
<1>5. x \in Buffer /\ Len(d) = n + a
  <2>1. b.gap_start <= b.gap_end + a /\ b.gap_end + a <= n + a
    BY <1>1
  <2> QED BY <1>1, <1>2, <1>3, <2>1, MakeBuffer
<1>6. GapLen(x) = GapLen(b) + a /\ TextLen(x) = TextLen(b)
  BY <1>1, <1>3, <1>5 DEF GapLen, TextLen
<1>7. ASSUME NEW i \in 1 .. TextLen(b)
      PROVE  serialize_buffer(x)[i] = serialize_buffer(b)[i]
  <2>1. serialize_buffer(b)[i] = IF i <= b.gap_start THEN b.data[i] ELSE b.data[i + GapLen(b)]
    BY TextFacts
  <2>2. serialize_buffer(x)[i] = IF i <= b.gap_start THEN d[i] ELSE d[i + (GapLen(b) + a)]
    BY <1>3, <1>5, <1>6, TextFacts
  <2>3. CASE i <= b.gap_start
    <3>1. i \in 1 .. n + a /\ ~ (i > b.gap_end + a) /\ i <= n
      BY <1>1, <2>3
    <3> QED BY <1>4, <2>1, <2>2, <2>3, <3>1
  <2>4. CASE ~ (i <= b.gap_start)
    <3> DEFINE j == i + (GapLen(b) + a)
    <3>1. j \in 1 .. n + a /\ j > b.gap_end + a /\ j - a = i + GapLen(b)
      BY <1>1, <2>4
    <3>2. d[j] = b.data[j - a]
      BY <1>4, <3>1
    <3> QED BY <2>1, <2>2, <2>4, <3>1, <3>2
  <2> QED BY <2>3, <2>4
<1>8. serialize_buffer(x) = serialize_buffer(b)
  BY <1>5, <1>6, <1>7, SameText
<1> QED BY <1>3, <1>5, <1>8 DEF x, n

(* x is b with some characters inserted at the cursor: the text on both    *)
(* sides of it is intact, the cursor is after them, and the vector has not *)
(* become shorter.                                                         *)
Inserted(b, x) ==
  /\ x \in Buffer
  /\ b.gap_start <= x.gap_start
  /\ TextLen(x) = TextLen(b) + (x.gap_start - b.gap_start)
  /\ Len(b.data) <= Len(x.data)
  /\ \A i \in 1 .. TextLen(b) :
       serialize_buffer(b)[i] =
         IF i <= b.gap_start THEN serialize_buffer(x)[i]
         ELSE serialize_buffer(x)[i + (x.gap_start - b.gap_start)]

LEMMA InsertedReflexive ==
  ASSUME NEW b \in Buffer
  PROVE  Inserted(b, b)
BY BufferFacts DEF Inserted

LEMMA InsertedTransitive ==
  ASSUME NEW b \in Buffer, NEW x, NEW y, Inserted(b, x), Inserted(x, y)
  PROVE  Inserted(b, y)
<1>1. x \in Buffer /\ y \in Buffer
  BY DEF Inserted
<1>2. /\ b.gap_start \in Nat /\ x.gap_start \in Nat /\ y.gap_start \in Nat
      /\ TextLen(b) \in Nat /\ TextLen(x) \in Nat
      /\ Len(b.data) \in Nat /\ Len(x.data) \in Nat /\ Len(y.data) \in Nat
  BY <1>1, BufferFacts
<1>3. /\ b.gap_start <= x.gap_start /\ x.gap_start <= y.gap_start
      /\ TextLen(x) = TextLen(b) + (x.gap_start - b.gap_start)
      /\ TextLen(y) = TextLen(x) + (y.gap_start - x.gap_start)
      /\ Len(b.data) <= Len(x.data) /\ Len(x.data) <= Len(y.data)
  BY DEF Inserted
<1>4. /\ b.gap_start <= y.gap_start
      /\ TextLen(y) = TextLen(b) + (y.gap_start - b.gap_start)
      /\ Len(b.data) <= Len(y.data)
  BY <1>2, <1>3, SMTT(30)
<1>5. ASSUME NEW i \in 1 .. TextLen(b)
      PROVE  serialize_buffer(b)[i] =
               IF i <= b.gap_start THEN serialize_buffer(y)[i]
               ELSE serialize_buffer(y)[i + (y.gap_start - b.gap_start)]
  <2>1. CASE i <= b.gap_start
    <3>1. i \in 1 .. TextLen(x) /\ i <= x.gap_start
      BY <1>2, <1>3, <2>1
    <3> QED BY <2>1, <3>1 DEF Inserted
  <2>2. CASE ~ (i <= b.gap_start)
    <3> DEFINE j == i + (x.gap_start - b.gap_start)
    <3>1. /\ j \in 1 .. TextLen(x) /\ ~ (j <= x.gap_start)
          /\ j + (y.gap_start - x.gap_start) = i + (y.gap_start - b.gap_start)
      <4>1. ASSUME NEW B \in Nat, NEW X \in Nat, NEW Y \in Nat, NEW m \in Nat, NEW n \in Nat,
                   NEW k \in 1 .. m, ~ (k <= B), B <= X, n = m + (X - B)
            PROVE  /\ k + (X - B) \in 1 .. n /\ ~ (k + (X - B) <= X)
                   /\ (k + (X - B)) + (Y - X) = k + (Y - B)
        BY <4>1
      <4>2. b.gap_start <= x.gap_start /\ TextLen(x) = TextLen(b) + (x.gap_start - b.gap_start)
        BY <1>3
      <4> HIDE DEF j
      <4> QED BY <1>2, <2>2, <4>1, <4>2, SMTT(30) DEF j
    <3>2. serialize_buffer(b)[i] = serialize_buffer(x)[j]
      BY <2>2 DEF Inserted
    <3>3. serialize_buffer(x)[j] = serialize_buffer(y)[j + (y.gap_start - x.gap_start)]
      BY <3>1 DEF Inserted
    <3> QED BY <2>2, <3>1, <3>2, <3>3
  <2> QED BY <2>1, <2>2
<1> QED BY <1>1, <1>4, <1>5 DEF Inserted

(* Typing a character inserts it.                                          *)
LEMMA InsertChar ==
  ASSUME NEW b \in Buffer, NEW c \in Char
  PROVE  /\ Inserted(b, insert_char(b, c))
         /\ insert_char(b, c).gap_start = b.gap_start + 1
<1> DEFINE room == IF b.gap_start = b.gap_end THEN grow_gap(b, GapSize) ELSE b
           n == Len(room.data)
           s == b.gap_start
           e == IF c = Return THEN Newline ELSE c
           d == [room.data EXCEPT ![s + 1] = e]
           x == insert_char(b, c)
<1>1. /\ room \in Buffer /\ room.gap_start = s /\ s < room.gap_end
      /\ serialize_buffer(room) = serialize_buffer(b)
      /\ Len(b.data) <= n
  BY GrowGap, BufferFacts, GapAssumption
<1>2. e \in Char
  BY CursorAssumption
<1>3. x = [room EXCEPT !.data[s + 1] = e, !.gap_start = s + 1]
  BY DEF insert_char
<1> HIDE DEF room, x, e
<1>4. x = [data |-> d, gap_start |-> s + 1, gap_end |-> room.gap_end]
  BY <1>1, <1>3 DEF Buffer
<1>5. /\ s \in Nat /\ n \in Nat /\ room.gap_end \in Nat /\ room.gap_end <= n
      /\ room.data \in Seq(Char) /\ GapLen(room) = room.gap_end - s
      /\ TextLen(room) = n - GapLen(room) /\ TextLen(room) \in Nat
      /\ Len(b.data) \in Nat
  BY <1>1, BufferFacts DEF GapLen, TextLen
<1>6. s + 1 \in 1 .. n
  BY <1>1, <1>5
<1>7. /\ d \in Seq(Char) /\ Len(d) = n
      /\ \A i \in 1 .. n : d[i] = IF i = s + 1 THEN e ELSE room.data[i]
  BY <1>2, <1>5, <1>6, ExceptSeq
<1> HIDE DEF d, n
<1>8. x \in Buffer
  BY <1>1, <1>4, <1>5, <1>7 DEF Buffer
<1>9. /\ x.gap_start = s + 1 /\ x.gap_end = room.gap_end /\ x.data = d
      /\ GapLen(x) = GapLen(room) - 1 /\ TextLen(x) = TextLen(room) + 1
  BY <1>4, <1>5, <1>7, SMTT(30) DEF GapLen, TextLen
<1>10. TextLen(b) = TextLen(room)
  BY <1>1, TextFacts
<1>11. ASSUME NEW i \in 1 .. TextLen(b)
       PROVE  serialize_buffer(b)[i] = IF i <= s THEN serialize_buffer(x)[i]
                                       ELSE serialize_buffer(x)[i + 1]
  <2>1. serialize_buffer(b)[i] = IF i <= s THEN room.data[i] ELSE room.data[i + GapLen(room)]
    BY <1>1, <1>10, TextFacts
  <2>2. CASE i <= s
    <3>1. i \in 1 .. TextLen(x) /\ i <= s + 1 /\ i \in 1 .. n /\ i # s + 1
      BY <1>1, <1>5, <1>9, <1>10, <2>2, SMTT(30)
    <3>2. serialize_buffer(x)[i] = d[i]
      BY <1>8, <1>9, <3>1, TextFacts
    <3> QED BY <1>7, <2>1, <2>2, <3>1, <3>2
  <2>3. CASE ~ (i <= s)
    <3> DEFINE j == i + GapLen(room)
    <3> DEFINE g == GapLen(room)
    <3>0. g \in Nat \ {0} /\ TextLen(room) = n - g /\ i \in 1 .. n - g /\ TextLen(x) = (n - g) + 1
      BY <1>1, <1>5, <1>9, <1>10
    <3> HIDE DEF g
    <3>1. /\ i + 1 \in 1 .. TextLen(x) /\ ~ (i + 1 <= s + 1) /\ i + g \in 1 .. n /\ i + g # s + 1
          /\ (i + 1) + (g - 1) = i + g
      BY <1>5, <2>3, <3>0
    <3> USE DEF g
    <3>2. serialize_buffer(x)[i + 1] = d[(i + 1) + (GapLen(room) - 1)]
      BY <1>8, <1>9, <3>1, TextFacts
    <3>3. serialize_buffer(x)[i + 1] = d[j]
      BY <3>1, <3>2
    <3>4. d[j] = room.data[j]
      BY <1>7, <3>1
    <3> QED BY <2>1, <2>3, <3>3, <3>4
  <2> QED BY <2>2, <2>3
<1>12. x.gap_start - b.gap_start = 1 /\ b.gap_start <= x.gap_start
  BY <1>5, <1>9
<1>13. Inserted(b, x)
  BY <1>1, <1>7, <1>8, <1>9, <1>10, <1>11, <1>12 DEF Inserted
<1> QED BY <1>9, <1>13 DEF x

(* Erasing removes the character before the cursor and no other.           *)
LEMMA EraseChar ==
  ASSUME NEW b \in Buffer, b.gap_start > 0
  PROVE  LET x == erase_char(b)
             t == serialize_buffer(b)
         IN  /\ x \in Buffer
             /\ x.gap_start = b.gap_start - 1
             /\ x.data = b.data
             /\ serialize_buffer(x) = [i \in 1 .. Len(t) - 1 |->
                                         IF i < b.gap_start THEN t[i] ELSE t[i + 1]]
<1> DEFINE x == erase_char(b)
           t == serialize_buffer(b)
           u == [i \in 1 .. Len(t) - 1 |-> IF i < b.gap_start THEN t[i] ELSE t[i + 1]]
<1>1. x = [data |-> b.data, gap_start |-> b.gap_start - 1, gap_end |-> b.gap_end]
  BY DEF erase_char, Buffer
<1>2. /\ b.gap_start \in Nat /\ b.gap_end \in Nat /\ GapLen(b) \in Nat
      /\ TextLen(b) \in Nat /\ b.gap_start <= TextLen(b) /\ Len(t) = TextLen(b)
      /\ t \in Seq(Char)
  BY BufferFacts, TextFacts
<1>3. x \in Buffer
  BY <1>1, <1>2, BufferFacts DEF Buffer
<1>4. GapLen(x) = GapLen(b) + 1 /\ TextLen(x) = TextLen(b) - 1
  BY <1>1, <1>2, BufferFacts, SMTT(30) DEF GapLen, TextLen
<1>5. serialize_buffer(x) = [i \in 1 .. TextLen(x) |->
                               IF i <= x.gap_start THEN x.data[i] ELSE x.data[i + GapLen(x)]]
  BY DEF serialize_buffer
<1>6. ASSUME NEW i \in 1 .. TextLen(b) - 1
      PROVE  (IF i <= x.gap_start THEN x.data[i] ELSE x.data[i + GapLen(x)])
               = IF i < b.gap_start THEN t[i] ELSE t[i + 1]
  <2>1. CASE i < b.gap_start
    <3>1. i \in 1 .. TextLen(b) /\ i <= b.gap_start /\ i <= b.gap_start - 1
      BY <1>2, <2>1
    <3>2. t[i] = b.data[i]
      BY <3>1, TextFacts
    <3> QED BY <1>1, <2>1, <3>1, <3>2
  <2>2. CASE ~ (i < b.gap_start)
    <3>1. /\ i + 1 \in 1 .. TextLen(b) /\ ~ (i + 1 <= b.gap_start) /\ ~ (i <= b.gap_start - 1)
          /\ (i + 1) + GapLen(b) = i + (GapLen(b) + 1)
      BY <1>2, <2>2
    <3>2. t[i + 1] = b.data[(i + 1) + GapLen(b)]
      BY <3>1, TextFacts
    <3> QED BY <1>1, <1>4, <2>2, <3>1, <3>2
  <2> QED BY <2>1, <2>2
<1>7. serialize_buffer(x) = u
  BY <1>2, <1>4, <1>5, <1>6
<1> QED BY <1>1, <1>3, <1>7

(* LoopExists for loops that transform a buffer.                           *)
LEMMA BufferLoop ==
  ASSUME NEW b \in Buffer, NEW n \in Nat, NEW body \in [1 .. n -> [Buffer -> Buffer]]
  PROVE  \E f \in [0 .. n -> Buffer] :
           f[0] = b /\ \A k \in 1 .. n : f[k] = body[k][f[k - 1]]
BY LoopExists

(* Pasting inserts at the cursor, however often the gap has to grow.       *)
LEMMA InsertText ==
  ASSUME NEW b \in Buffer, NEW s \in Seq(Char)
  PROVE  Inserted(b, insert_text(b, s))
<1> DEFINE n == Len(s)
           Step(x, k) == IF s[k] = Return THEN x ELSE insert_char(x, s[k])
           ins[k \in 0 .. n] == IF k = 0 THEN b
                                ELSE IF s[k] = Return THEN ins[k - 1]
                                ELSE insert_char(ins[k - 1], s[k])
           body == [k \in 1 .. n |-> [x \in Buffer |-> Step(x, k)]]
<1>1. n \in Nat /\ \A k \in 1 .. n : s[k] \in Char
  BY LenProperties, ElementOfSeq
<1>2. ASSUME NEW k \in 1 .. n, NEW x \in Buffer
      PROVE  Step(x, k) \in Buffer /\ Inserted(x, Step(x, k))
  <2>1. CASE s[k] = Return
    BY <2>1, InsertedReflexive
  <2>2. CASE s[k] # Return
    <3>1. Inserted(x, insert_char(x, s[k]))
      BY <1>1, InsertChar
    <3>2. insert_char(x, s[k]) \in Buffer
      BY <3>1 DEF Inserted
    <3> QED BY <2>2, <3>1, <3>2
  <2> QED BY <2>1, <2>2
<1> HIDE DEF Step
<1>3. body \in [1 .. n -> [Buffer -> Buffer]]
  BY <1>2
<1>4. PICK f \in [0 .. n -> Buffer] :
        f[0] = b /\ \A k \in 1 .. n : f[k] = body[k][f[k - 1]]
  <2> HIDE DEF body, n, ins
  <2> QED BY <1>1, <1>3, BufferLoop
<1>5. \A k \in 1 .. n : f[k] = Step(f[k - 1], k)
  <2> SUFFICES ASSUME NEW k \in 1 .. n PROVE f[k] = Step(f[k - 1], k)
    OBVIOUS
  <2>1. k - 1 \in 0 .. n
    BY <1>1
  <2>2. f[k - 1] \in Buffer
    BY <2>1
  <2> QED BY <1>4, <2>2
<1>6. f = [k \in 0 .. n |-> IF k = 0 THEN b
                            ELSE IF s[k] = Return THEN f[k - 1]
                            ELSE insert_char(f[k - 1], s[k])]
  <2>1. \A k \in 0 .. n : f[k] = IF k = 0 THEN b
                                  ELSE IF s[k] = Return THEN f[k - 1]
                                  ELSE insert_char(f[k - 1], s[k])
    <3> SUFFICES ASSUME NEW k \in 0 .. n, k # 0 PROVE f[k] = Step(f[k - 1], k)
      BY <1>4 DEF Step
    <3>1. k \in 1 .. n
      BY <1>1
    <3> QED BY <3>1, <1>5
  <2> QED BY <2>1
<1>7. ins = [k \in 0 .. n |-> IF k = 0 THEN b
                              ELSE IF s[k] = Return THEN ins[k - 1]
                              ELSE insert_char(ins[k - 1], s[k])]
  BY <1>6
<1> HIDE DEF ins
<1>8. ins[0] = b /\ \A k \in 1 .. n : ins[k] = Step(ins[k - 1], k)
  <2> HIDE DEF n
  <2>1. 0 \in 0 .. n /\ \A k \in 1 .. n : k \in 0 .. n /\ k # 0
    BY <1>1 DEF n
  <2>2. ins[0] = b
    BY <1>7, <2>1
  <2>3. ASSUME NEW k \in 1 .. n PROVE ins[k] = Step(ins[k - 1], k)
    BY <1>7, <2>1 DEF Step
  <2> QED BY <2>2, <2>3
<1> DEFINE S == { k \in Nat : k <= n => Inserted(b, ins[k]) }
<1>9. 0 \in S
  BY <1>8, InsertedReflexive
<1>10. ASSUME NEW k \in Nat, k \in S PROVE k + 1 \in S
  <2> SUFFICES ASSUME k + 1 <= n PROVE Inserted(b, ins[k + 1])
    OBVIOUS
  <2>1. Inserted(b, ins[k])
    BY <1>1, <1>10
  <2>2. k + 1 \in 1 .. n /\ (k + 1) - 1 = k
    BY <1>1
  <2>3. ins[k + 1] = Step(ins[k], k + 1)
    BY <1>8, <2>2
  <2>4. ins[k] \in Buffer
    BY <2>1 DEF Inserted
  <2>5. Inserted(ins[k], ins[k + 1])
    BY <1>2, <2>2, <2>3, <2>4
  <2> QED BY <2>1, <2>5, InsertedTransitive
<1> HIDE DEF S
<1>11. n \in S
  BY <1>1, <1>9, <1>10, SetInduction
<1>12. insert_text(b, s) = ins[n]
  BY DEF insert_text, ins
<1> QED BY <1>11, <1>12 DEF S

-----------------------------------------------------------------------------
(* The types of Editor's variables.                                       *)

Highlights == [active : BOOLEAN, start : Nat, end : Nat]
FileSystems == [Path -> Text \cup {Absent}]

-----------------------------------------------------------------------------
(* Files.                                                                  *)

(* Whatever is loaded is a buffer, with the cursor at its start.           *)
LEMMA LoadFacts ==
  ASSUME NEW d \in FileSystems, NEW p \in Path
  PROVE  /\ LoadedBuffer(d, p) \in Buffer
         /\ LoadedBuffer(d, p).gap_start = 0
         /\ DiskAfterLoad(d, p) \in FileSystems
<1>1. CASE CanRead(d, p)
  <2>1. d[p] \in Seq(Char)
    BY <1>1 DEF CanRead, FileSystems, Text
  <2>2. LoadedBuffer(d, p) = BufferOfFile(d[p]) /\ DiskAfterLoad(d, p) = d
    BY <1>1 DEF LoadedBuffer, DiskAfterLoad
  <2> QED BY <2>1, <2>2, FileBuffer
<1>2. CASE ~ CanRead(d, p)
  <2>1. LoadedBuffer(d, p) = create_gap_buffer
    BY <1>2 DEF LoadedBuffer
  <2>2. DiskAfterLoad(d, p) \in FileSystems
    <3>1. << >> \in Text
      BY EmptySeq DEF Text
    <3> QED BY <3>1 DEF DiskAfterLoad, FileSystems
  <2> QED BY <2>1, <2>2, NewBuffer
<1> QED BY <1>1, <1>2

LEMMA SaveFacts ==
  ASSUME NEW d \in FileSystems, NEW p \in Path, NEW b \in Buffer
  PROVE  /\ DiskAfterSave(d, b, p) \in FileSystems
         /\ p \in Writable => DiskAfterSave(d, b, p)[p] = serialize_buffer(b)
         /\ p \notin Writable => DiskAfterSave(d, b, p) = d
<1>1. serialize_buffer(b) \in Text
  BY TextFacts DEF Text
<1> QED BY <1>1 DEF DiskAfterSave, FileSystems

-----------------------------------------------------------------------------
(* The selection before the handler runs.                                  *)
LEMMA HighlightFacts ==
  ASSUME TypeOK, CopyStaysInBuffer, NEW key, NEW shift \in BOOLEAN
  PROVE  LET h == HighlightBefore(key, shift)
         IN  /\ h \in Highlights
             /\ mode_ # "Client" /\ h.active => /\ h.start <= Len(gap_buffer.data)
                                                /\ h.end <= Len(gap_buffer.data)
             /\ ~ shift /\ key \notin KeepsSelection => h = NoHighlight
<1>1. NoHighlight \in Highlights /\ ~ NoHighlight.active
  BY DEF NoHighlight, Highlights
<1>2. highligter \in Highlights
  BY DEF TypeOK, Highlights
<1>3. cursor \in Nat /\ cursor <= Len(gap_buffer.data)
  BY BufferFacts DEF TypeOK, cursor
<1> DEFINE s == [active |-> TRUE, start |-> cursor, end |-> cursor]
<1>4. s \in Highlights /\ s.start = cursor /\ s.end = cursor
  BY <1>3 DEF Highlights
<1>5. CASE shift /\ highligter.active
  <2>1. HighlightBefore(key, shift) = highligter
    BY <1>5 DEF HighlightBefore
  <2> QED BY <1>2, <1>5, <2>1 DEF CopyStaysInBuffer
<1>6. CASE shift /\ ~ highligter.active
  <2>1. HighlightBefore(key, shift) = s
    BY <1>6 DEF HighlightBefore
  <2> HIDE DEF s
  <2> QED BY <1>3, <1>4, <1>6, <2>1
<1>7. CASE ~ shift /\ key \in KeepsSelection
  <2>1. HighlightBefore(key, shift) = highligter
    BY <1>7 DEF HighlightBefore
  <2> QED BY <1>2, <1>7, <2>1 DEF CopyStaysInBuffer
<1>8. CASE ~ shift /\ key \notin KeepsSelection
  <2>1. HighlightBefore(key, shift) = NoHighlight
    BY <1>8 DEF HighlightBefore
  <2> QED BY <1>1, <2>1
<1> QED BY <1>5, <1>6, <1>7, <1>8

-----------------------------------------------------------------------------
(* The initial states satisfy the invariant.                               *)
LEMMA InitInvariant == Init => EditorInvariant
<1> SUFFICES ASSUME Init PROVE EditorInvariant
  OBVIOUS
<1>1. path \in Path /\ mode_ \in Modes
  BY EditorAssumption DEF Init
<1>2. PICK d \in Disks : gap_buffer = LoadedBuffer(d, path) /\ disk = DiskAfterLoad(d, path)
  BY DEF Init
<1>3. d \in FileSystems
  BY EditorAssumption DEF FileSystems
<1>4. gap_buffer \in Buffer /\ disk \in FileSystems
  BY <1>1, <1>2, <1>3, LoadFacts
<1>5. /\ highligter \in Highlights /\ ~ highligter.active
      /\ modal \in [active : BOOLEAN, confirmed : BOOLEAN, path : Path] /\ ~ modal.active
  BY EditorAssumption DEF Init, NoHighlight, Highlights
<1>6. clipboard \in Text /\ posted = None /\ running_ = TRUE
  BY EmptySeq DEF Init, Text
<1>7. TypeOK
  BY <1>1, <1>4, <1>5, <1>6 DEF TypeOK, Highlights, FileSystems
<1>8. ClientHasNoPath
  BY DEF Init, ClientHasNoPath
<1> QED BY <1>5, <1>6, <1>7, <1>8 DEF EditorInvariant, CopyStaysInBuffer,
           ModalExcludesSelection, HostPostsCurrentText, QuitSavesWritable

-----------------------------------------------------------------------------
(* What all keys given to the handler have in common: the buffer is well   *)
(* formed and its vector not shorter, a selection lies inside it, and the  *)
(* host posts the new text.                                                *)
HandlerStep ==
  /\ running_ /\ ~ modal.active
  /\ gap_buffer' \in Buffer
  /\ Len(gap_buffer.data) <= Len(gap_buffer'.data)
  /\ highligter' \in Highlights
  /\ mode_ # "Client" /\ highligter'.active =>
       /\ highligter'.start <= Len(gap_buffer'.data)
       /\ highligter'.end <= Len(gap_buffer'.data)
  /\ posted' = IF mode_ = "Host" THEN serialize_buffer(gap_buffer') ELSE posted
  /\ mode_' = mode_ /\ path' = path

(* A step that only gives the handler a key, and neither quits, copies nor *)
(* opens the modal, preserves the invariant.                               *)
LEMMA HandlerStepInvariant ==
  ASSUME EditorInvariant, HandlerStep,
         running_' \in BOOLEAN, disk' \in FileSystems, clipboard' \in Text,
         modal' \in [active : BOOLEAN, confirmed : BOOLEAN, path : Path],
         modal'.active => mode_ = "Offline" /\ ~ highligter'.active,
         ~ running_' /\ mode_ # "Client" /\ path \in Writable
           => disk'[path] = serialize_buffer(gap_buffer')
  PROVE  EditorInvariant'
<1>1. text' = serialize_buffer(gap_buffer')
  BY DEF text
<1>2. serialize_buffer(gap_buffer') \in Text
  BY TextFacts DEF HandlerStep, Text
<1>3. posted' \in Text \cup {None}
  BY <1>2 DEF HandlerStep, EditorInvariant, TypeOK
<1>4. TypeOK'
  BY <1>3 DEF HandlerStep, EditorInvariant, TypeOK, Highlights, FileSystems
<1>5. CopyStaysInBuffer'
  BY DEF HandlerStep, CopyStaysInBuffer
<1>6. ModalExcludesSelection'
  BY DEF HandlerStep, ModalExcludesSelection
<1>7. ClientHasNoPath'
  BY DEF HandlerStep, EditorInvariant, ClientHasNoPath
<1>8. HostPostsCurrentText'
  BY <1>1 DEF HandlerStep, HostPostsCurrentText
<1>9. QuitSavesWritable'
  BY <1>1 DEF HandlerStep, QuitSavesWritable
<1> QED BY <1>4, <1>5, <1>6, <1>7, <1>8, <1>9 DEF EditorInvariant

(* Positions in the old vector are positions in a longer one.              *)
LEMMA HighlightKept ==
  ASSUME EditorInvariant, gap_buffer' \in Buffer,
         Len(gap_buffer.data) <= Len(gap_buffer'.data),
         NEW key, NEW shift \in BOOLEAN,
         highligter' = HighlightBefore(key, shift)
  PROVE  /\ highligter' \in Highlights
         /\ mode_ # "Client" /\ highligter'.active =>
              /\ highligter'.start <= Len(gap_buffer'.data)
              /\ highligter'.end <= Len(gap_buffer'.data)
<1>1. TypeOK /\ CopyStaysInBuffer
  BY DEF EditorInvariant
<1>2. gap_buffer \in Buffer
  BY <1>1 DEF TypeOK
<1>3. Len(gap_buffer.data) \in Nat /\ Len(gap_buffer'.data) \in Nat
  BY <1>2, BufferFacts
<1>4. /\ highligter' \in Highlights
      /\ mode_ # "Client" /\ highligter'.active =>
           /\ highligter'.start <= Len(gap_buffer.data)
           /\ highligter'.end <= Len(gap_buffer.data)
  BY <1>1, HighlightFacts
<1>5. highligter'.start \in Nat /\ highligter'.end \in Nat
  BY <1>4 DEF Highlights
<1> QED BY <1>3, <1>4, <1>5

-----------------------------------------------------------------------------
(* The text and the cursor of a buffer.                                    *)
LEMMA TextAndCursor ==
  ASSUME TypeOK
  PROVE  /\ gap_buffer \in Buffer
         /\ text \in Seq(Char)
         /\ Len(text) = TextLen(gap_buffer)
         /\ cursor \in 0 .. Len(text)
         /\ cursor \in Nat /\ Len(text) \in Nat
         /\ cursor <= Len(gap_buffer.data)
         /\ Len(gap_buffer.data) \in Nat
BY BufferFacts, TextFacts, SMTT(30) DEF TypeOK, text, cursor

(* What each key does to the buffer.                                       *)
LEMMA ArrowStep ==
  ASSUME EditorInvariant, NEW key \in Arrows, NEW shift \in BOOLEAN, NEW ctrl \in BOOLEAN,
         Arrow(key, shift, ctrl)
  PROVE  /\ HandlerStep
         /\ text' = text
         /\ cursor' \in 0 .. Len(text)
<1> DEFINE p == ArrowTarget(key, ctrl, text, cursor)
           q == TurnsAt(key, text, cursor)
           b == MoveTo(gap_buffer, q)
<1>1. /\ TypeOK /\ gap_buffer \in Buffer /\ text \in Seq(Char)
      /\ Len(text) = TextLen(gap_buffer) /\ cursor \in 0 .. Len(text)
  BY TextAndCursor DEF EditorInvariant
<1>2. p \in 0 .. Len(text) /\ q \in 0 .. Len(text)
  BY <1>1, ArrowTargetInText, TurnsInText
<1>3. gap_buffer' = MoveTo(b, p)
  BY DEF Arrow
<1> HIDE DEF p, q
<1>10. /\ b \in Buffer /\ Len(b.data) = Len(gap_buffer.data)
       /\ serialize_buffer(b) = serialize_buffer(gap_buffer)
       /\ TextLen(b) = Len(text)
  BY <1>1, <1>2, MoveToCells, MoveToKeepsText
<1> HIDE DEF b
<1>4. /\ gap_buffer' \in Buffer /\ gap_buffer'.gap_start = p
      /\ Len(gap_buffer'.data) = Len(gap_buffer.data)
      /\ serialize_buffer(gap_buffer') = serialize_buffer(gap_buffer)
  BY <1>1, <1>2, <1>3, <1>10, MoveToCells, MoveToKeepsText
<1>5. /\ Len(gap_buffer.data) \in Nat /\ gap_buffer'.gap_start \in Nat
      /\ gap_buffer'.gap_start <= Len(gap_buffer'.data)
  BY <1>1, <1>4, BufferFacts
<1> DEFINE h == HighlightBefore(key, shift)
<1>6. /\ h \in Highlights
      /\ mode_ # "Client" /\ h.active => /\ h.start <= Len(gap_buffer.data)
                                         /\ h.end <= Len(gap_buffer.data)
  BY <1>1, HighlightFacts DEF EditorInvariant
<1>7. highligter' = IF shift THEN [h EXCEPT !.end = gap_buffer'.gap_start] ELSE h
  BY DEF Arrow
<1> HIDE DEF h
<1>8. /\ highligter' \in Highlights
      /\ mode_ # "Client" /\ highligter'.active =>
           /\ highligter'.start <= Len(gap_buffer'.data)
           /\ highligter'.end <= Len(gap_buffer'.data)
  <2>1. CASE ~ shift
    BY <1>4, <1>6, <1>7, <2>1
  <2>2. CASE shift
    <3>1. highligter' = [active |-> h.active, start |-> h.start, end |-> gap_buffer'.gap_start]
      BY <1>6, <1>7, <2>2 DEF Highlights
    <3> QED BY <1>4, <1>5, <1>6, <3>1 DEF Highlights
  <2> QED BY <2>1, <2>2
<1>9. HandlerStep
  BY <1>4, <1>5, <1>8 DEF HandlerStep, Arrow, KeyToHandler, Broadcast
<1> QED BY <1>2, <1>4, <1>9 DEF text, cursor

(* A character is inserted by the host's and the offline handler.          *)
LEMMA InsertStep ==
  ASSUME EditorInvariant, NEW key, NEW c \in Char, Insert(key, c)
  PROVE  /\ HandlerStep
         /\ IF mode_ = "Client" THEN gap_buffer' = gap_buffer
            ELSE Inserted(gap_buffer, gap_buffer')
<1>1. TypeOK /\ gap_buffer \in Buffer /\ Len(gap_buffer.data) \in Nat
  BY TextAndCursor DEF EditorInvariant
<1>2. IF mode_ = "Client" THEN gap_buffer' = gap_buffer ELSE Inserted(gap_buffer, gap_buffer')
  BY <1>1, InsertChar DEF Insert
<1>3. gap_buffer' \in Buffer /\ Len(gap_buffer.data) <= Len(gap_buffer'.data)
  BY <1>1, <1>2 DEF Inserted
<1>4. highligter' = HighlightBefore(key, FALSE)
  BY DEF Insert
<1>5. /\ highligter' \in Highlights
      /\ mode_ # "Client" /\ highligter'.active =>
           /\ highligter'.start <= Len(gap_buffer'.data)
           /\ highligter'.end <= Len(gap_buffer'.data)
  BY <1>3, <1>4, HighlightKept
<1>6. HandlerStep
  BY <1>3, <1>5 DEF HandlerStep, Insert, KeyToHandler, Broadcast
<1> QED BY <1>2, <1>6

LEMMA BackspaceStep ==
  ASSUME EditorInvariant, Backspace
  PROVE  /\ HandlerStep
         /\ \/ gap_buffer' = gap_buffer
            \/ /\ mode_ # "Client" /\ cursor > 0
               /\ gap_buffer' = erase_char(gap_buffer)
<1>1. TypeOK /\ gap_buffer \in Buffer /\ Len(gap_buffer.data) \in Nat /\ cursor \in Nat
  BY TextAndCursor DEF EditorInvariant
<1>2. \/ gap_buffer' = gap_buffer
      \/ /\ mode_ # "Client" /\ cursor > 0
         /\ gap_buffer' = erase_char(gap_buffer)
  BY DEF Backspace, erase_char, cursor
<1>3. gap_buffer' \in Buffer /\ gap_buffer'.data = gap_buffer.data
  BY <1>1, <1>2, EraseChar DEF cursor
<1>4. highligter' = HighlightBefore("Backspace", FALSE)
  BY DEF Backspace, HighlightBefore, KeepsSelection
<1>5. /\ highligter' \in Highlights
      /\ mode_ # "Client" /\ highligter'.active =>
           /\ highligter'.start <= Len(gap_buffer'.data)
           /\ highligter'.end <= Len(gap_buffer'.data)
  <2>1. Len(gap_buffer.data) <= Len(gap_buffer'.data)
    BY <1>1, <1>3
  <2> QED BY <1>3, <1>4, <2>1, HighlightKept
<1>6. HandlerStep
  BY <1>1, <1>3, <1>5 DEF HandlerStep, Backspace, KeyToHandler, Broadcast
<1> QED BY <1>2, <1>6

LEMMA PasteStep ==
  ASSUME EditorInvariant, NEW s \in Clips, Paste(s)
  PROVE  /\ HandlerStep
         /\ IF mode_ = "Client" THEN gap_buffer' = gap_buffer
            ELSE Inserted(gap_buffer, gap_buffer')
<1>1. TypeOK /\ gap_buffer \in Buffer /\ Len(gap_buffer.data) \in Nat
  BY TextAndCursor DEF EditorInvariant
<1>2. s \in Seq(Char)
  BY EditorAssumption DEF Text
<1>3. IF mode_ = "Client" THEN gap_buffer' = gap_buffer ELSE Inserted(gap_buffer, gap_buffer')
  BY <1>1, <1>2, InsertText DEF Paste
<1>4. gap_buffer' \in Buffer /\ Len(gap_buffer.data) <= Len(gap_buffer'.data)
  BY <1>1, <1>3 DEF Inserted
<1>5. highligter' = IF mode_ = "Client" THEN HighlightBefore("Paste", FALSE) ELSE NoHighlight
  BY DEF Paste, HighlightBefore, KeepsSelection
<1>6. /\ highligter' \in Highlights
      /\ mode_ # "Client" /\ highligter'.active =>
           /\ highligter'.start <= Len(gap_buffer'.data)
           /\ highligter'.end <= Len(gap_buffer'.data)
  <2>1. CASE mode_ = "Client"
    BY <1>4, <1>5, <2>1, HighlightKept
  <2>2. CASE mode_ # "Client"
    BY <1>5, <2>2 DEF NoHighlight, Highlights
  <2> QED BY <2>1, <2>2
<1>7. HandlerStep
  BY <1>4, <1>6 DEF HandlerStep, Paste, KeyToHandler, Broadcast
<1> QED BY <1>3, <1>7

(* Keys that leave the buffer alone.                                       *)
LEMMA IdleStep ==
  ASSUME EditorInvariant, NEW key, highligter' = HighlightBefore(key, FALSE),
         KeyToHandler, Broadcast, gap_buffer' = gap_buffer, mode_' = mode_, path' = path
  PROVE  HandlerStep
<1>1. gap_buffer' \in Buffer /\ Len(gap_buffer.data) <= Len(gap_buffer'.data)
  BY TextAndCursor DEF EditorInvariant
<1>2. /\ highligter' \in Highlights
      /\ mode_ # "Client" /\ highligter'.active =>
           /\ highligter'.start <= Len(gap_buffer'.data)
           /\ highligter'.end <= Len(gap_buffer'.data)
  BY <1>1, HighlightKept
<1> QED BY <1>1, <1>2 DEF HandlerStep, KeyToHandler, Broadcast

(* The copy loop reads cells of the vector only.                           *)
LEMMA CopyStep ==
  ASSUME EditorInvariant, Copy
  PROVE  clipboard' \in Text
<1> DEFINE s == highligter.start
           e == highligter.end
<1>1. TypeOK /\ gap_buffer \in Buffer /\ s \in Nat /\ e \in Nat
  BY DEF EditorInvariant, TypeOK
<1>2. CASE mode_ # "Client" /\ highligter.active
  <2>1. s <= Len(gap_buffer.data) /\ e <= Len(gap_buffer.data)
    BY <1>2 DEF EditorInvariant, CopyStaysInBuffer
  <2>2. ASSUME NEW m \in Nat, NEW n \in Nat, n <= Len(gap_buffer.data)
        PROVE  CopyCells(gap_buffer, m, n) \in Text
    <3>1. \A i \in m + 1 .. n : gap_buffer.data[i] \in Char
      BY <1>1, <2>2, BufferFacts
    <3>2. SubSeq(gap_buffer.data, m + 1, n) \in Seq(Char)
      BY <3>1, SubSeqProperties
    <3> QED BY <3>2 DEF CopyCells, Text
  <2> QED BY <1>1, <1>2, <2>1, <2>2 DEF Copy
<1>3. CASE ~ (mode_ # "Client" /\ highligter.active)
  BY <1>1, <1>3 DEF Copy, TypeOK
<1> QED BY <1>2, <1>3

-----------------------------------------------------------------------------
(* Every step preserves the invariant.                                     *)
LEMMA NextInvariant == EditorInvariant /\ [Next]_vars => EditorInvariant'
<1> SUFFICES ASSUME EditorInvariant, [Next]_vars PROVE EditorInvariant'
  OBVIOUS
<1>1. /\ TypeOK /\ gap_buffer \in Buffer /\ disk \in FileSystems /\ path \in Path
      /\ clipboard \in Text /\ running_ \in BOOLEAN
      /\ modal \in [active : BOOLEAN, confirmed : BOOLEAN, path : Path]
  BY DEF EditorInvariant, TypeOK, FileSystems
<1>2. ASSUME HandlerStep, UNCHANGED <<modal, running_, disk>>, clipboard' \in Text
      PROVE  EditorInvariant'
  BY <1>1, <1>2, HandlerStepInvariant DEF HandlerStep
<1>3. ASSUME NEW key \in Arrows, NEW shift \in BOOLEAN, NEW ctrl \in BOOLEAN,
             Arrow(key, shift, ctrl)
      PROVE  EditorInvariant'
  BY <1>1, <1>2, <1>3, ArrowStep DEF Arrow
<1>4. ASSUME NEW c \in Typed, Insert("Char", c) PROVE EditorInvariant'
  BY <1>1, <1>2, <1>4, InsertStep, EditorAssumption DEF Insert
<1>5. ASSUME Insert("Enter", Newline) PROVE EditorInvariant'
  BY <1>1, <1>2, <1>5, InsertStep, CursorAssumption DEF Insert
<1>6. ASSUME Backspace PROVE EditorInvariant'
  BY <1>1, <1>2, <1>6, BackspaceStep DEF Backspace
<1>7. ASSUME Copy PROVE EditorInvariant'
  <2>1. highligter' = HighlightBefore("Copy", FALSE)
    BY <1>7 DEF Copy, HighlightBefore, KeepsSelection
  <2>2. HandlerStep
    BY <1>7, <2>1, IdleStep DEF Copy
  <2> QED BY <1>2, <1>7, <2>2, CopyStep DEF Copy
<1>8. ASSUME NEW s \in Clips, Paste(s) PROVE EditorInvariant'
  BY <1>1, <1>2, <1>8, PasteStep DEF Paste
<1>9. ASSUME ChangeFile PROVE EditorInvariant'
  <2>1. HandlerStep
    BY <1>9, IdleStep DEF ChangeFile
  <2>2. highligter' = NoHighlight /\ ~ highligter'.active
    BY <1>9 DEF ChangeFile, HighlightBefore, KeepsSelection, NoHighlight
  <2>3. /\ modal' \in [active : BOOLEAN, confirmed : BOOLEAN, path : Path]
        /\ modal'.active => mode_ = "Offline" /\ ~ highligter'.active
    BY <1>1, <1>9, <2>1, <2>2, EditorAssumption DEF ChangeFile, HandlerStep
  <2> QED BY <1>1, <1>9, <2>1, <2>3, HandlerStepInvariant DEF ChangeFile, HandlerStep
<1>10. ASSUME Quit PROVE EditorInvariant'
  <2>1. HandlerStep
    BY <1>10, IdleStep DEF Quit
  <2>2. /\ disk' \in FileSystems
        /\ path \in Writable => disk'[path] = serialize_buffer(gap_buffer')
    BY <1>1, <1>10, SaveFacts DEF Quit
  <2>3. modal' = modal /\ ~ modal.active /\ clipboard' = clipboard /\ running_' \in BOOLEAN
    BY <1>10 DEF Quit, KeyToHandler
  <2> QED BY <1>1, <2>1, <2>2, <2>3, HandlerStepInvariant
<1>11. ASSUME OtherKey PROVE EditorInvariant'
  <2>1. HandlerStep
    BY <1>11, IdleStep DEF OtherKey
  <2> QED BY <1>1, <1>2, <1>11, <2>1 DEF OtherKey
<1>12. ASSUME ModalEdit PROVE EditorInvariant'
  <2>1. modal' \in [active : BOOLEAN, confirmed : BOOLEAN, path : Path]
        /\ modal'.active = modal.active
    <3>1. PICK p \in Path : modal' = [modal EXCEPT !.path = p]
      BY <1>12 DEF ModalEdit
    <3> QED BY <1>1, <3>1
  <2> QED BY <1>12, <2>1 DEF ModalEdit, EditorInvariant, TypeOK, CopyStaysInBuffer,
          ModalExcludesSelection, ClientHasNoPath, HostPostsCurrentText, QuitSavesWritable, text
<1>13. ASSUME ModalConfirm PROVE EditorInvariant'
  <2> DEFINE saved == DiskAfterSave(disk, gap_buffer, path)
  <2>1. modal.active /\ running_ /\ mode_ = "Offline" /\ ~ highligter.active
    BY <1>13 DEF ModalConfirm, ModalKey, EditorInvariant, ModalExcludesSelection
  <2>2. saved \in FileSystems /\ modal.path \in Path
    BY <1>1, SaveFacts
  <2>3. gap_buffer' = LoadedBuffer(saved, modal.path) /\ disk' = DiskAfterLoad(saved, modal.path)
    BY <1>13 DEF ModalConfirm
  <2> HIDE DEF saved
  <2>4. gap_buffer' \in Buffer /\ disk' \in FileSystems /\ path' \in Path
    BY <1>13, <2>2, <2>3, LoadFacts DEF ModalConfirm
  <2>5. /\ modal' \in [active : BOOLEAN, confirmed : BOOLEAN, path : Path] /\ ~ modal'.active
        /\ UNCHANGED <<mode_, highligter, running_, clipboard, posted>>
    BY <1>1, <1>13 DEF ModalConfirm
  <2>6. TypeOK'
    BY <1>1, <2>4, <2>5 DEF TypeOK, FileSystems
  <2> QED BY <2>1, <2>5, <2>6 DEF EditorInvariant, CopyStaysInBuffer,
          ModalExcludesSelection, ClientHasNoPath, HostPostsCurrentText, QuitSavesWritable
<1>14. ASSUME ModalCancel PROVE EditorInvariant'
  <2>1. modal' \in [active : BOOLEAN, confirmed : BOOLEAN, path : Path] /\ ~ modal'.active
    BY <1>1, <1>14 DEF ModalCancel
  <2> QED BY <1>14, <2>1 DEF ModalCancel, EditorInvariant, TypeOK, CopyStaysInBuffer,
          ModalExcludesSelection, ClientHasNoPath, HostPostsCurrentText, QuitSavesWritable, text
<1>15. ASSUME NEW t \in Messages, PollNetwork(t) PROVE EditorInvariant'
  <2>1. mode_ = "Client" /\ running_ /\ cursor \in Nat /\ t \in Seq(Char)
    BY <1>1, <1>15, TextAndCursor, EditorAssumption DEF PollNetwork, Text
  <2>2. gap_buffer' \in Buffer
    BY <1>15, <2>1, MessageBuffer DEF PollNetwork
  <2> QED BY <1>15, <2>1, <2>2 DEF PollNetwork, EditorInvariant, TypeOK, CopyStaysInBuffer,
          ModalExcludesSelection, ClientHasNoPath, HostPostsCurrentText, QuitSavesWritable
<1>16. ASSUME UNCHANGED vars PROVE EditorInvariant'
  BY <1>16 DEF vars, EditorInvariant, TypeOK, CopyStaysInBuffer,
     ModalExcludesSelection, ClientHasNoPath, HostPostsCurrentText, QuitSavesWritable, text
<1> QED BY <1>3, <1>4, <1>5, <1>6, <1>7, <1>8, <1>9, <1>10, <1>11, <1>12, <1>13, <1>14,
       <1>15, <1>16 DEF Next

(* The invariant holds in every reachable state, and with it its parts:    *)
(* the gap is always well placed (no operation of buffer_service.cpp       *)
(* indexes outside the vector), the copy loop stays inside the vector, the *)
(* host has always posted its current text, quitting saves.                *)
THEOREM Invariance == Spec => []EditorInvariant
BY InitInvariant, NextInvariant, PTL DEF Spec

(* The type invariant.                                                     *)
THEOREM TypeCorrect == Spec => []TypeOK
<1>1. EditorInvariant => TypeOK
  BY DEF EditorInvariant
<1> QED BY <1>1, Invariance, PTL

(* The positions of a selection are always positions in the vector.        *)
THEOREM CopyInBounds == Spec => []CopyStaysInBuffer
<1>1. EditorInvariant => CopyStaysInBuffer
  BY DEF EditorInvariant
<1> QED BY <1>1, Invariance, PTL

(* No key changes a host's text without a broadcast after the change.      *)
THEOREM HostPosts == Spec => []HostPostsCurrentText
<1>1. EditorInvariant => HostPostsCurrentText
  BY DEF EditorInvariant
<1> QED BY <1>1, Invariance, PTL

(* Quit leaves the text in the file, if it can be written.                 *)
THEOREM QuitSavesText == Spec => []QuitSavesWritable
<1>1. EditorInvariant => QuitSavesWritable
  BY DEF EditorInvariant
<1> QED BY <1>1, Invariance, PTL

(* The modal is open only offline and never over a selection.              *)
THEOREM ModalAlone == Spec => []ModalExcludesSelection
<1>1. EditorInvariant => ModalExcludesSelection
  BY DEF EditorInvariant
<1> QED BY <1>1, Invariance, PTL

-----------------------------------------------------------------------------
(***************************************************************************)
(* Refinement, and what the steps of the editor never do: each step is a   *)
(* step of TextEditor on the text and the cursor the gap buffer stands     *)
(* for, or leaves both alone.                                              *)
(***************************************************************************)

(* A key that leaves the buffer alone is a stutter.                        *)
LEMMA IdleRefines ==
  ASSUME gap_buffer' = gap_buffer, mode_' = mode_
  PROVE  [Abstract!Next]_(Abstract!tvars)
BY DEF text, cursor, Abstract!tvars

LEMMA InitRefines == Init => Abstract!Init
<1> SUFFICES ASSUME Init PROVE Abstract!Init
  OBVIOUS
<1>1. PICK d \in Disks : gap_buffer = LoadedBuffer(d, path)
  BY DEF Init
<1>2. path \in Path /\ mode_ \in Modes /\ d \in FileSystems
  BY EditorAssumption DEF Init, FileSystems
<1>3. gap_buffer \in Buffer /\ gap_buffer.gap_start = 0
  BY <1>1, <1>2, LoadFacts
<1> QED BY <1>2, <1>3, TextFacts DEF Abstract!Init, text, cursor, Modes

(* Inserting some characters, one by one and with the gap growing, is      *)
(* inserting them at the cursor.                                           *)
LEMMA InsertedRefines ==
  ASSUME TypeOK, Inserted(gap_buffer, gap_buffer'), mode_ # "Client", mode_' = mode_
  PROVE  Abstract!InsertAtCursor
<1>1. gap_buffer \in Buffer /\ gap_buffer' \in Buffer
  BY DEF TypeOK, Inserted
<1>2. /\ text = serialize_buffer(gap_buffer) /\ text' = serialize_buffer(gap_buffer')
      /\ cursor = gap_buffer.gap_start /\ cursor' = gap_buffer'.gap_start
  BY DEF text, cursor
<1>3. /\ text' \in Seq(Char)
      /\ Len(text) = TextLen(gap_buffer) /\ Len(text') = TextLen(gap_buffer')
      /\ Len(text) \in Nat /\ cursor \in Nat /\ cursor' \in Nat
  BY <1>1, <1>2, TextFacts, BufferFacts
<1>4. cursor <= cursor' /\ Len(text') = Len(text) + (cursor' - cursor)
  BY <1>2, <1>3 DEF Inserted
<1>5. Len(text') >= Len(text) /\ Len(text') - Len(text) = cursor' - cursor
  BY <1>3, <1>4
<1>6. cursor' = cursor + (Len(text') - Len(text))
  BY <1>3, <1>5
<1>7. ASSUME NEW i \in 1 .. Len(text)
      PROVE  IF i <= cursor THEN text'[i] = text[i]
             ELSE text'[i + (Len(text') - Len(text))] = text[i]
  <2>1. text[i] = IF i <= cursor THEN text'[i] ELSE text'[i + (cursor' - cursor)]
    BY <1>2, <1>3 DEF Inserted
  <2> QED BY <1>5, <2>1
<1>8. Abstract!CanEdit
  BY DEF Abstract!CanEdit, TypeOK, Modes
<1> QED BY <1>3, <1>5, <1>6, <1>7, <1>8 DEF Abstract!InsertAtCursor

(* The backspace key deletes one character.                                *)
LEMMA EraseRefines ==
  ASSUME TypeOK, mode_ # "Client", cursor > 0, gap_buffer' = erase_char(gap_buffer),
         mode_' = mode_
  PROVE  Abstract!DeleteBeforeCursor
<1>1. gap_buffer \in Buffer /\ gap_buffer.gap_start > 0
  BY DEF TypeOK, cursor
<1>2. cursor' = cursor - 1
      /\ text' = [i \in 1 .. Len(text) - 1 |-> IF i < cursor THEN text[i] ELSE text[i + 1]]
  BY <1>1, EraseChar DEF text, cursor
<1>3. Abstract!CanEdit
  BY DEF Abstract!CanEdit, TypeOK, Modes
<1> QED BY <1>2, <1>3 DEF Abstract!DeleteBeforeCursor

LEMMA NextRefines == EditorInvariant /\ [Next]_vars => [Abstract!Next]_(Abstract!tvars)
<1> SUFFICES ASSUME EditorInvariant, [Next]_vars PROVE [Abstract!Next]_(Abstract!tvars)
  OBVIOUS
<1>1. TypeOK /\ gap_buffer \in Buffer /\ disk \in FileSystems /\ path \in Path
  BY DEF EditorInvariant, TypeOK, FileSystems
<1>2. ASSUME NEW key \in Arrows, NEW shift \in BOOLEAN, NEW ctrl \in BOOLEAN,
             Arrow(key, shift, ctrl)
      PROVE  Abstract!Move
  BY <1>2, ArrowStep DEF Abstract!Move, Arrow
<1>3. ASSUME IF mode_ = "Client" THEN gap_buffer' = gap_buffer
             ELSE Inserted(gap_buffer, gap_buffer'),
             mode_' = mode_
      PROVE  [Abstract!Next]_(Abstract!tvars)
  BY <1>1, <1>3, IdleRefines, InsertedRefines DEF Abstract!Next
<1>4. ASSUME NEW c \in Typed, Insert("Char", c) PROVE [Abstract!Next]_(Abstract!tvars)
  BY <1>3, <1>4, InsertStep, EditorAssumption DEF Insert
<1>5. ASSUME Insert("Enter", Newline) PROVE [Abstract!Next]_(Abstract!tvars)
  BY <1>3, <1>5, InsertStep, CursorAssumption DEF Insert
<1>6. ASSUME NEW s \in Clips, Paste(s) PROVE [Abstract!Next]_(Abstract!tvars)
  BY <1>3, <1>6, PasteStep DEF Paste
<1>7. ASSUME Backspace PROVE [Abstract!Next]_(Abstract!tvars)
  <2>1. mode_' = mode_
    BY <1>7 DEF Backspace
  <2> QED BY <1>1, <1>7, <2>1, BackspaceStep, IdleRefines, EraseRefines DEF Abstract!Next
<1>8. ASSUME Copy \/ ChangeFile \/ Quit \/ OtherKey \/ ModalEdit \/ ModalCancel
      PROVE  [Abstract!Next]_(Abstract!tvars)
  BY <1>8, IdleRefines DEF Copy, ChangeFile, Quit, OtherKey, ModalEdit, ModalCancel
<1>9. ASSUME ModalConfirm PROVE Abstract!OpenFile
  <2> DEFINE saved == DiskAfterSave(disk, gap_buffer, path)
  <2>1. mode_ = "Offline" /\ mode_' = mode_
    BY <1>9 DEF ModalConfirm, ModalKey, EditorInvariant, ModalExcludesSelection
  <2>2. saved \in FileSystems /\ modal.path \in Path
    BY <1>1, SaveFacts DEF TypeOK
  <2>3. gap_buffer' = LoadedBuffer(saved, modal.path)
    BY <1>9 DEF ModalConfirm
  <2> HIDE DEF saved
  <2>4. gap_buffer' \in Buffer /\ gap_buffer'.gap_start = 0
    BY <2>2, <2>3, LoadFacts
  <2>5. text' \in Seq(Char) /\ cursor' = 0
    BY <2>4, TextFacts DEF text, cursor
  <2> QED BY <2>1, <2>5 DEF Abstract!OpenFile
<1>10. ASSUME NEW t \in Messages, PollNetwork(t) PROVE Abstract!ReceiveText
  <2>1. mode_ = "Client" /\ mode_' = mode_ /\ cursor \in Nat /\ t \in Seq(Char)
    BY <1>1, <1>10, TextAndCursor, EditorAssumption DEF PollNetwork, Text
  <2>2. text' = t /\ cursor' = IF cursor > Len(t) THEN Len(t) ELSE cursor
    BY <1>10, <2>1, MessageBuffer DEF PollNetwork, text, cursor
  <2> QED BY <2>1, <2>2 DEF Abstract!ReceiveText
<1>11. ASSUME UNCHANGED vars PROVE [Abstract!Next]_(Abstract!tvars)
  BY <1>11, IdleRefines DEF vars
<1> QED BY <1>2, <1>4, <1>5, <1>6, <1>7, <1>8, <1>9, <1>10, <1>11 DEF Next, Abstract!Next

(* The editor implements TextEditor: whatever keys are pressed and texts   *)
(* received, moving changes no character, typing and pasting insert at the *)
(* cursor, Backspace deletes one character before it, and nothing else     *)
(* touches the text (process_input and poll_network, editor.cpp).          *)
THEOREM Refinement == Spec => ImplementsTextEditor
<1>1. Init => Abstract!Init
  BY InitRefines
<1>2. EditorInvariant /\ [Next]_vars => [Abstract!Next]_(Abstract!tvars)
  BY NextRefines
<1> QED BY <1>1, <1>2, Invariance, PTL DEF Spec, ImplementsTextEditor, Abstract!Spec

-----------------------------------------------------------------------------
(* What steps do to the files.                                             *)

(* Only Quit and confirming the modal write anything.                      *)
LEMMA DiskSteps ==
  ASSUME [Next]_vars
  PROVE  disk' = disk \/ Quit \/ ModalConfirm
<1>1. ASSUME Next, ~ Quit, ~ ModalConfirm PROVE disk' = disk
  BY <1>1 DEF Next, Arrow, Insert, Backspace, Copy, Paste, ChangeFile, OtherKey,
     ModalEdit, ModalCancel, PollNetwork
<1> QED BY <1>1 DEF vars

(* Confirming the modal saves to the old path, then opens the new one.     *)
LEMMA ConfirmSaves ==
  ASSUME EditorInvariant, ModalConfirm
  PROVE  /\ path \in Writable \cap Readable => disk'[path] = text
         /\ \A p \in Path : disk'[p] # disk[p] =>
              \/ p = path /\ disk'[p] = text
              \/ p = modal.path /\ ~ CanRead(disk, p) /\ disk'[p] = << >>
<1> DEFINE saved == DiskAfterSave(disk, gap_buffer, path)
           new   == modal.path
<1>2. /\ gap_buffer \in Buffer /\ disk \in [Path -> Text \cup {Absent}]
      /\ path \in Path /\ new \in Path /\ text \in Text
  BY TextAndCursor DEF EditorInvariant, TypeOK, Text
<1>3. disk' = DiskAfterLoad(saved, new)
  BY DEF ModalConfirm
<1>4. saved = IF path \in Writable THEN [disk EXCEPT ![path] = text] ELSE disk
  BY DEF DiskAfterSave, text
<1>5. saved \in [Path -> Text \cup {Absent}]
  BY <1>2, <1>4
<1>6. \A p \in Path : p # path => saved[p] = disk[p]
  BY <1>2, <1>4
<1>7. path \in Writable => saved[path] = text
  BY <1>2, <1>4
<1> HIDE DEF saved, new
<1>8. /\ \A p \in Path : p # new => disk'[p] = saved[p]
      /\ CanRead(saved, new) => disk' = saved
  BY <1>2, <1>3, <1>5 DEF DiskAfterLoad
<1>9. path \in Writable \cap Readable => disk'[path] = text
  <2> SUFFICES ASSUME path \in Writable \cap Readable PROVE disk'[path] = text
    OBVIOUS
  <2>1. saved[path] = text /\ text # Absent
    BY <1>2, <1>7, EditorAssumption
  <2>2. CASE new = path
    BY <1>8, <2>1, <2>2 DEF CanRead
  <2>3. CASE new # path
    BY <1>2, <1>8, <2>1, <2>3
  <2> QED BY <2>2, <2>3
<1>10. ASSUME NEW p \in Path, disk'[p] # disk[p]
       PROVE  \/ p = path /\ disk'[p] = text
              \/ p = new /\ ~ CanRead(disk, p) /\ disk'[p] = << >>
  <2>1. CASE disk'[p] = saved[p]
    BY <1>4, <1>6, <1>7, <1>10, <2>1
  <2>2. CASE disk'[p] # saved[p]
    <3>1. p = new /\ ~ CanRead(saved, new) /\ disk'[p] = << >>
      BY <1>2, <1>3, <1>5, <2>2 DEF DiskAfterLoad
    <3>2. CanRead(disk, new) => saved[new] # Absent
      BY <1>2, <1>4, <1>6, EditorAssumption DEF CanRead
    <3> QED BY <3>1, <3>2 DEF CanRead
  <2> QED BY <2>1, <2>2
<1> QED BY <1>9, <1>10 DEF new

(* Changing file leaves the old text in the old file.                      *)
THEOREM OldFileKept == Spec => ChangeFileKeepsText
<1>1. EditorInvariant /\ [Next]_vars =>
        [ModalConfirm /\ path \in Writable \cap Readable => disk'[path] = text]_vars
  BY ConfirmSaves
<1> QED BY <1>1, Invariance, PTL DEF Spec, ChangeFileKeepsText

(* A key writes the open text to the open file, or empties the file it     *)
(* opens if that cannot be read (load_file, file_io.cpp:10), and no other. *)
THEOREM OnlyOpenFiles == Spec => OnlyOpenFilesChange
<1>1. ASSUME EditorInvariant, [Next]_vars, NEW p \in Path, disk'[p] # disk[p]
      PROVE  \/ p = path /\ disk'[p] = text
             \/ p = path' /\ ~ CanRead(disk, p) /\ disk'[p] = << >>
  <2>1. CASE Quit
    <3>1. disk' = IF path \in Writable
                  THEN [disk EXCEPT ![path] = serialize_buffer(gap_buffer)] ELSE disk
      BY <2>1 DEF Quit, DiskAfterSave
    <3> QED BY <1>1, <3>1 DEF EditorInvariant, TypeOK, text
  <2>2. CASE ModalConfirm
    <3>1. path' = modal.path
      BY <2>2 DEF ModalConfirm
    <3> QED BY <1>1, <2>2, <3>1, ConfirmSaves
  <2> QED BY <1>1, <2>1, <2>2, DiskSteps
<1>2. EditorInvariant /\ [Next]_vars =>
        [\A p \in Path : disk'[p] # disk[p] =>
           \/ p = path /\ disk'[p] = text
           \/ p = path' /\ ~ CanRead(disk, p) /\ disk'[p] = << >>]_vars
  BY <1>1
<1> QED BY <1>2, Invariance, PTL DEF Spec, OnlyOpenFilesChange

-----------------------------------------------------------------------------
(* Copying.                                                                *)

(* Before the cursor the vector and the text are the same.                 *)
LEMMA CellsBeforeCursor ==
  ASSUME NEW b \in Buffer, NEW m \in Nat, NEW n \in Nat, n <= b.gap_start
  PROVE  CopyCells(b, m, n) = SubSeq(serialize_buffer(b), m + 1, n)
<1> DEFINE t == serialize_buffer(b)
<1>1. /\ b.data \in Seq(Char) /\ Len(b.data) \in Nat /\ b.gap_start \in Nat
      /\ b.gap_start <= Len(b.data) /\ b.gap_start <= TextLen(b) /\ TextLen(b) \in Nat
      /\ \A i \in 1 .. Len(b.data) : b.data[i] \in Char
  BY BufferFacts
<1>2. /\ t \in Seq(Char) /\ Len(t) = TextLen(b)
      /\ \A i \in 1 .. n : t[i] = b.data[i]
  BY <1>1, TextFacts
<1> HIDE DEF t
<1>3. \A i \in m + 1 .. n : t[i] = b.data[i] /\ b.data[i] \in Char
  BY <1>1, <1>2
<1> DEFINE u == SubSeq(b.data, m + 1, n)
           v == SubSeq(t, m + 1, n)
           k == IF m + 1 <= n THEN n - m ELSE 0
<1>4. /\ u \in Seq(Char) /\ Len(u) = k /\ \A i \in 1 .. k : u[i] = b.data[m + i]
  BY <1>3, SubSeqProperties
<1>5. /\ v \in Seq(Char) /\ Len(v) = k /\ \A i \in 1 .. k : v[i] = t[m + i]
  BY <1>3, SubSeqProperties
<1>6. \A i \in 1 .. k : m + i \in m + 1 .. n
  OBVIOUS
<1> HIDE DEF u, v
<1>7. \A i \in 1 .. k : u[i] = v[i]
  BY <1>3, <1>4, <1>5, <1>6
<1>8. u = v
  BY <1>4, <1>5, <1>7, SeqEqual
<1> QED BY <1>8 DEF CopyCells, t, u, v

(* A selection before the cursor is copied exactly as it is shown.         *)
THEOREM CopyExact == Spec => CopyBeforeCursorIsExact
<1> DEFINE A == CopyTakesEffect /\ Selected.to <= cursor /\ highligter.start <= cursor
                  /\ highligter.end <= cursor
                => clipboard' = SubSeq(text, Selected.from + 1, Selected.to)
<1>1. ASSUME EditorInvariant, CopyTakesEffect, highligter.start <= cursor,
             highligter.end <= cursor
      PROVE  clipboard' = SubSeq(text, Selected.from + 1, Selected.to)
  <2> DEFINE s == highligter.start
             e == highligter.end
             lo == IF s <= e THEN s ELSE e
             hi == IF s <= e THEN e ELSE s
  <2>1. gap_buffer \in Buffer /\ s \in Nat /\ e \in Nat /\ cursor \in 0 .. Len(text)
        /\ Len(text) \in Nat
    BY <1>1, TextAndCursor DEF EditorInvariant, TypeOK
  <2>2. lo \in Nat /\ hi \in Nat /\ hi <= cursor /\ ~ (hi > Len(text))
    BY <1>1, <2>1
  <2>3. clipboard' = CopyCells(gap_buffer, lo, hi)
    BY <1>1 DEF CopyTakesEffect, Copy
  <2>4. Selected.from = lo /\ Selected.to = IF hi > Len(text) THEN Len(text) ELSE hi
    BY DEF Selected
  <2> HIDE DEF lo, hi
  <2>5. CopyCells(gap_buffer, lo, hi) = SubSeq(text, lo + 1, hi)
    BY <2>1, <2>2, CellsBeforeCursor DEF text, cursor
  <2> QED BY <2>2, <2>3, <2>4, <2>5
<1>2. EditorInvariant /\ [Next]_vars => [A]_vars
  BY <1>1
<1> QED BY <1>2, Invariance, PTL DEF Spec, CopyBeforeCursorIsExact
=============================================================================
