--------------------------- MODULE TerminalProofs ---------------------------
(***************************************************************************)
(* read_input understands every key it should, for every keyboard, however *)
(* many keys are waiting and for every buffer of six bytes or more.        *)
(***************************************************************************)
EXTENDS Terminal, SequenceTheorems, TLAPS

(* The parameter of an arrow's modifiers, and what the code sees in it.    *)
LEMMA ModifierFacts ==
  ASSUME NEW shift \in BOOLEAN, NEW alt \in BOOLEAN, NEW ctrl \in BOOLEAN,
         shift \/ alt \/ ctrl
  PROVE  /\ Modifier(shift, alt, ctrl) \in {"2", "3", "4", "5", "6", "7", "8"}
         /\ (Modifier(shift, alt, ctrl) \in {"2", "6"}) = (shift /\ ~ alt)
         /\ (Modifier(shift, alt, ctrl) \in {"5", "6"}) = (ctrl /\ ~ alt)
<1> DEFINE m == <<"2", "3", "4", "5", "6", "7", "8">>
<1>m. /\ m[1] = "2" /\ m[2] = "3" /\ m[3] = "4" /\ m[4] = "5"
      /\ m[5] = "6" /\ m[6] = "7" /\ m[7] = "8"
  OBVIOUS
<1>1. Modifier(shift, alt, ctrl) =
        m[(IF shift THEN 1 ELSE 0) + 2 * (IF alt THEN 1 ELSE 0) + 4 * (IF ctrl THEN 1 ELSE 0)]
  BY DEF Modifier
<1> HIDE DEF m
<1>2. CASE shift /\ alt /\ ctrl
  BY <1>1, <1>2, <1>m
<1>3. CASE shift /\ alt /\ ~ ctrl
  BY <1>1, <1>3, <1>m
<1>4. CASE shift /\ ~ alt /\ ctrl
  BY <1>1, <1>4, <1>m
<1>5. CASE shift /\ ~ alt /\ ~ ctrl
  BY <1>1, <1>5, <1>m
<1>6. CASE ~ shift /\ alt /\ ctrl
  BY <1>1, <1>6, <1>m
<1>7. CASE ~ shift /\ alt /\ ~ ctrl
  BY <1>1, <1>7, <1>m
<1>8. CASE ~ shift /\ ~ alt /\ ctrl
  BY <1>1, <1>8, <1>m
<1> QED BY <1>2, <1>3, <1>4, <1>5, <1>6, <1>7, <1>8

(* What is known of a key and the bytes it sends.                          *)
LEMMA PlainFacts ==
  ASSUME NEW k \in Plain
  PROVE  /\ k.bytes \in Seq(Printable \cup DOMAIN CommandOf \cup {"ESC", "lead"})
         /\ Len(k.bytes) \in Nat \ {0}
         /\ \A i \in 2 .. Len(k.bytes) : k.bytes[i] \in Printable
<1> DEFINE Byte == Printable \cup DOMAIN CommandOf \cup {"ESC", "lead"}
<1>1. CASE \E c \in Printable : k = CharKey(c)
  <2>1. PICK c \in Printable : k.bytes = <<c>>
    BY <1>1 DEF CharKey
  <2> QED BY <2>1
<1>2. CASE \E b \in DOMAIN CommandOf : k = CommandKey(b)
  BY <1>2 DEF CommandKey
<1>3. CASE k = EscapeKey
  BY <1>3 DEF EscapeKey
<1>4. CASE \E l \in DOMAIN ArrowOf, shift, alt, ctrl \in BOOLEAN :
             k = ArrowKey(l, shift, alt, ctrl)
  <2>1. PICK l \in DOMAIN ArrowOf, shift \in BOOLEAN, alt \in BOOLEAN, ctrl \in BOOLEAN :
          k = ArrowKey(l, shift, alt, ctrl)
    BY <1>4
  <2>2. PICK m \in {"2", "3", "4", "5", "6", "7", "8"} :
          k.bytes \in {<<"ESC", "bracket", "1", "semi", m, l>>, <<"ESC", "bracket", l>>}
    <3>1. CASE shift \/ alt \/ ctrl
      BY <2>1, <3>1, ModifierFacts DEF ArrowKey
    <3>2. CASE ~ (shift \/ alt \/ ctrl)
      BY <2>1, <3>2 DEF ArrowKey
    <3> QED BY <3>1, <3>2
  <2>3. {"bracket", "1", "semi", m, l} \subseteq Printable
    BY ByteAssumption
  <2>4. {"ESC", "bracket", "1", "semi", m, l} \subseteq Byte
    BY <2>3
  <2> HIDE DEF Byte
  <2>5. CASE k.bytes = <<"ESC", "bracket", l>>
    BY <2>3, <2>4, <2>5 DEF Byte
  <2>6. CASE k.bytes = <<"ESC", "bracket", "1", "semi", m, l>>
    <3>1. k.bytes \in Seq(Byte) /\ Len(k.bytes) = 6
      BY <2>4, <2>6
    <3>2. /\ k.bytes[2] = "bracket" /\ k.bytes[3] = "1" /\ k.bytes[4] = "semi"
          /\ k.bytes[5] = m /\ k.bytes[6] = l
      BY <2>6
    <3>3. \A i \in 2 .. 6 : i \in {2, 3, 4, 5, 6}
      OBVIOUS
    <3> QED BY <2>3, <3>1, <3>2, <3>3 DEF Byte
  <2> QED BY <2>2, <2>5, <2>6
<1>5. CASE \E b \in Unknown : k = OtherKey(b)
  <2>1. PICK b \in Unknown : k = OtherKey(b)
    BY <1>5
  <2>2. b \in Seq(Byte) /\ Len(b) \in Nat
    BY UnknownAssumption, SeqMonotonic, LenProperties
  <2>3. k.bytes = b
    BY <2>1 DEF OtherKey
  <2> QED BY <2>2, <2>3, UnknownAssumption
<1> QED BY <1>1, <1>2, <1>3, <1>4, <1>5, KeyAssumption

LEMMA AltFacts ==
  ASSUME NEW k \in Plain
  PROVE  /\ Len(AltKey(k).bytes) = Len(k.bytes) + 1
         /\ AltKey(k).bytes[1] = "ESC"
         /\ \A i \in 1 .. Len(k.bytes) : AltKey(k).bytes[i + 1] = k.bytes[i]
         /\ AltKey(k).event.key = "None"
<1> DEFINE Byte == Printable \cup DOMAIN CommandOf \cup {"ESC", "lead"}
           esc  == <<"ESC">>
           b    == k.bytes
<1>1. b \in Seq(Byte) /\ Len(b) \in Nat /\ esc \in Seq(Byte) /\ Len(esc) = 1 /\ esc[1] = "ESC"
  BY PlainFacts
<1>2. AltKey(k).bytes = esc \o b /\ AltKey(k).event.key = "None"
  BY DEF AltKey, OtherKey, Event, ArrowEvent
<1> HIDE DEF Byte, esc, b
<1>3. /\ Len(esc \o b) = Len(esc) + Len(b)
      /\ \A i \in 1 .. Len(esc) + Len(b) :
           (esc \o b)[i] = IF i <= Len(esc) THEN esc[i] ELSE b[i - Len(esc)]
  BY <1>1, ConcatProperties, Zenon
<1>4. (esc \o b)[1] = "ESC"
  BY <1>1, <1>3
<1>5. \A i \in 1 .. Len(b) : (esc \o b)[i + 1] = b[i]
  BY <1>1, <1>3
<1> QED BY <1>1, <1>2, <1>3, <1>4, <1>5 DEF b

(* Every key sends something.                                              *)
LEMMA KeyFacts ==
  ASSUME NEW k \in Key
  PROVE  Len(k.bytes) \in Nat \ {0}
<1>1. CASE k \in Plain
  BY <1>1, PlainFacts
<1>2. CASE k \in { AltKey(q) : q \in Meta }
  <2>1. PICK q \in Plain : k = AltKey(q)
    BY <1>2, KeyAssumption
  <2>2. Len(q.bytes) \in Nat
    BY PlainFacts
  <2>3. Len(k.bytes) = Len(q.bytes) + 1
    BY <2>1, AltFacts
  <2> QED BY <2>2, <2>3
<1> QED BY <1>1, <1>2 DEF Key

(* The only key whose first byte is [ is that character.                   *)
LEMMA BracketAlone ==
  ASSUME NEW k \in Plain, k.bytes[1] = "bracket"
  PROVE  Len(k.bytes) = 1
<1>b. "bracket" \in Printable /\ "bracket" \notin DOMAIN CommandOf
  BY ByteAssumption
<1>1. ASSUME NEW c \in Printable, k = CharKey(c)
      PROVE  Len(k.bytes) = 1
  BY <1>1 DEF CharKey
<1>2. ASSUME NEW c \in DOMAIN CommandOf, k = CommandKey(c)
      PROVE  Len(k.bytes) = 1
  BY <1>2 DEF CommandKey
<1>3. CASE k = EscapeKey
  BY <1>3 DEF EscapeKey
<1>4. ASSUME NEW l \in DOMAIN ArrowOf, NEW shift \in BOOLEAN, NEW alt \in BOOLEAN,
             NEW ctrl \in BOOLEAN, k = ArrowKey(l, shift, alt, ctrl)
      PROVE  FALSE
  <2>1. k.bytes[1] = "ESC"
    BY <1>4 DEF ArrowKey
  <2> QED BY <2>1
<1>5. ASSUME NEW u \in Unknown, k = OtherKey(u)
      PROVE  FALSE
  <2>1. k.bytes[1] \in {"ESC", "lead"}
    BY <1>5, UnknownAssumption DEF OtherKey
  <2> QED BY <2>1
<1> QED BY <1>1, <1>2, <1>3, <1>4, <1>5, KeyAssumption

LEMMA AltBracket ==
  ASSUME NEW k \in Plain, k.bytes[1] = "bracket"
  PROVE  Extensible(AltKey(k))
<1>1. Len(k.bytes) = 1 /\ k.bytes \in Seq(Printable \cup DOMAIN CommandOf \cup {"ESC", "lead"})
  BY BracketAlone, PlainFacts
<1> DEFINE v == AltKey(k).bytes
           Byte == Printable \cup DOMAIN CommandOf \cup {"ESC", "lead"}
<1>2. v \in Seq(Byte)
  <2>1. v = <<"ESC">> \o k.bytes
    BY DEF AltKey, OtherKey
  <2>2. <<"ESC">> \in Seq(Byte)
    OBVIOUS
  <2> QED BY <1>1, <2>1, <2>2, ConcatProperties, Zenon
<1>3. v = <<"ESC", "bracket">>
  <2>1. Len(v) = 2 /\ v[1] = "ESC" /\ v[2] = "bracket"
    <3>1. 1 \in 1 .. Len(k.bytes) /\ Len(k.bytes) = 1
      BY <1>1
    <3>2. v[1 + 1] = k.bytes[1] /\ Len(v) = Len(k.bytes) + 1 /\ v[1] = "ESC"
      BY <3>1, AltFacts, Zenon
    <3> HIDE DEF v
    <3> QED BY <3>1, <3>2
  <2> HIDE DEF v, Byte
  <2>2. v = <<v[1], v[2]>>
    BY <1>2, <2>1
  <2> QED BY <2>1, <2>2
<1> QED BY <1>3 DEF Extensible

-----------------------------------------------------------------------------
(* Keys arrive whole: a byte that is not its key's last is followed by the *)
(* next one.                                                               *)
Bytes(i) == tty[i][1].bytes

TtyInv ==
  /\ tty \in Seq(Key \X Nat)
  /\ \A i \in 1 .. Len(tty) : tty[i][2] \in 1 .. Len(Bytes(i))
  /\ \A i \in 1 .. Len(tty) : tty[i][2] # Len(Bytes(i)) =>
       i < Len(tty) /\ tty[i + 1] = <<tty[i][1], tty[i][2] + 1>>

LEMMA BytesReadFacts ==
  ASSUME TtyInv
  PROVE  /\ Len(tty) \in Nat
         /\ BytesRead \in Nat /\ BytesRead <= Len(tty) /\ BytesRead <= BufferSize
         /\ BytesRead < Len(tty) => BytesRead >= 6
         /\ DOMAIN buf = 1 .. BytesRead
         /\ Len(buf) = BytesRead
         /\ \A i \in 1 .. BytesRead : buf[i] = tty[i][1].bytes[tty[i][2]]
<1>1. Len(tty) \in Nat
  BY LenProperties DEF TtyInv
<1>2. BytesRead \in Nat /\ BytesRead <= Len(tty) /\ BytesRead <= BufferSize
      /\ (BytesRead < Len(tty) => BytesRead >= 6)
  <2>1. BufferSize \in Nat /\ BufferSize >= 6
    BY ByteAssumption
  <2>2. BytesRead = IF Len(tty) < BufferSize THEN Len(tty) ELSE BufferSize
    BY DEF BytesRead
  <2> HIDE DEF BytesRead
  <2> QED BY <1>1, <2>1, <2>2
<1>3. DOMAIN buf = 1 .. BytesRead /\ \A i \in 1 .. BytesRead : buf[i] = tty[i][1].bytes[tty[i][2]]
  BY DEF buf
<1>4. buf = [i \in 1 .. BytesRead |-> buf[i]]
  BY DEF buf
<1>5. Len(buf) = BytesRead
  BY <1>2, <1>4
<1> QED BY <1>1, <1>2, <1>3, <1>5

LEMMA TtyInit == Init => TtyInv
BY EmptySeq DEF Init, TtyInv, Bytes

LEMMA TtyStep == TtyInv /\ [Next]_tvars => TtyInv'
<1> SUFFICES ASSUME TtyInv, [Next]_tvars PROVE TtyInv'
  OBVIOUS
<1>t. Len(tty) \in Nat /\ tty \in Seq(Key \X Nat)
  BY LenProperties DEF TtyInv
<1>1. ASSUME NEW k \in Key, Press(k)
      PROVE  TtyInv'
  <2> DEFINE n == Len(k.bytes)
             new == [i \in 1 .. n |-> <<k, i>>]
  <2>0. n \in Nat \ {0}
    BY KeyFacts
  <2>1. new \in Seq(Key \X Nat) /\ Len(new) = n /\ \A i \in 1 .. n : new[i] = <<k, i>>
    BY <2>0
  <2> HIDE DEF new
  <2>s. tty \in Seq(Key \X Nat) /\ new \in Seq(Key \X Nat)
    BY <1>t, <2>1
  <2>2. /\ tty \o new \in Seq(Key \X Nat)
        /\ Len(tty \o new) = Len(tty) + Len(new)
        /\ \A i \in 1 .. Len(tty) + Len(new) :
             (tty \o new)[i] = IF i <= Len(tty) THEN tty[i] ELSE new[i - Len(tty)]
    BY <2>s, ConcatProperties, Zenon
  <2>3. tty' = tty \o new
    BY <1>1 DEF Press, new
  <2> HIDE DEF n
  <2>4. /\ tty' \in Seq(Key \X Nat) /\ Len(tty') = Len(tty) + n
        /\ \A i \in 1 .. Len(tty) : tty'[i] = tty[i]
        /\ \A i \in 1 .. n : tty'[Len(tty) + i] = <<k, i>>
    BY <1>t, <2>0, <2>1, <2>2, <2>3
  <2>5. ASSUME NEW i \in 1 .. Len(tty')
        PROVE  /\ tty'[i][2] \in 1 .. Len(tty'[i][1].bytes)
               /\ tty'[i][2] # Len(tty'[i][1].bytes) =>
                    i < Len(tty') /\ tty'[i + 1] = <<tty'[i][1], tty'[i][2] + 1>>
    <3>1. CASE i <= Len(tty)
      <4>1. i \in 1 .. Len(tty) /\ tty'[i] = tty[i]
        BY <1>t, <2>4, <3>1
      <4>2. /\ tty[i][2] \in 1 .. Len(tty[i][1].bytes)
            /\ tty[i][2] # Len(tty[i][1].bytes) =>
                 i < Len(tty) /\ tty[i + 1] = <<tty[i][1], tty[i][2] + 1>>
        BY <4>1 DEF TtyInv, Bytes
      <4>3. i < Len(tty) => i < Len(tty') /\ tty'[i + 1] = tty[i + 1]
        <5> SUFFICES ASSUME i < Len(tty)
                     PROVE  i < Len(tty') /\ tty'[i + 1] = tty[i + 1]
          OBVIOUS
        <5>1. i + 1 \in 1 .. Len(tty)
          BY <1>t, <4>1
        <5>2. i < Len(tty')
          BY <1>t, <2>0, <2>4, <4>1
        <5> QED BY <2>4, <5>1, <5>2
      <4> QED BY <4>1, <4>2, <4>3
    <3>2. CASE i > Len(tty)
      <4>1. PICK m \in 1 .. n : i = Len(tty) + m /\ tty'[i] = <<k, m>>
        <5>1. i - Len(tty) \in 1 .. n /\ i = Len(tty) + (i - Len(tty))
          BY <1>t, <2>0, <2>4, <3>2
        <5> QED BY <2>4, <5>1
      <4>2. Len(tty'[i][1].bytes) = n /\ tty'[i][2] = m /\ tty'[i][1] = k
        BY <4>1 DEF n
      <4>3. m # n => i < Len(tty') /\ tty'[i + 1] = <<k, m + 1>>
        <5> SUFFICES ASSUME m # n
                     PROVE  i < Len(tty') /\ tty'[i + 1] = <<k, m + 1>>
          OBVIOUS
        <5>1. m + 1 \in 1 .. n /\ i + 1 = Len(tty) + (m + 1)
          BY <1>t, <2>0, <4>1
        <5>2. tty'[Len(tty) + (m + 1)] = <<k, m + 1>>
          BY <2>4, <5>1
        <5>3. i < Len(tty')
          BY <1>t, <2>0, <2>4, <4>1, <5>1
        <5> QED BY <5>1, <5>2, <5>3
      <4> QED BY <4>1, <4>2, <4>3
    <3>3. i <= Len(tty) \/ i > Len(tty)
      BY <1>t, <2>0, <2>4
    <3> QED BY <3>1, <3>2, <3>3
  <2> QED BY <2>4, <2>5 DEF TtyInv, Bytes
<1>2. CASE ReadInput
  <2> DEFINE n == BytesRead
  <2>0. n \in Nat /\ n <= Len(tty)
    BY BytesReadFacts
  <2> HIDE DEF n
  <2>1. tty' = SubSeq(tty, n + 1, Len(tty))
    BY <1>2 DEF ReadInput, n
  <2>2. \A i \in n + 1 .. Len(tty) : tty[i] \in Key \X Nat
    BY <1>t, <2>0, ElementOfSeq
  <2>3. /\ tty' \in Seq(Key \X Nat) /\ Len(tty') = Len(tty) - n
        /\ \A i \in 1 .. Len(tty) - n : tty'[i] = tty[n + i]
    BY <1>t, <2>0, <2>1, <2>2, SubSeqProperties
  <2>4. ASSUME NEW i \in 1 .. Len(tty')
        PROVE  /\ tty'[i][2] \in 1 .. Len(tty'[i][1].bytes)
               /\ tty'[i][2] # Len(tty'[i][1].bytes) =>
                    i < Len(tty') /\ tty'[i + 1] = <<tty'[i][1], tty'[i][2] + 1>>
    <3>1. n + i \in 1 .. Len(tty) /\ tty'[i] = tty[n + i]
      BY <1>t, <2>0, <2>3, SMTT(30)
    <3>2. /\ tty[n + i][2] \in 1 .. Len(tty[n + i][1].bytes)
          /\ tty[n + i][2] # Len(tty[n + i][1].bytes) =>
               /\ n + i < Len(tty)
               /\ tty[(n + i) + 1] = <<tty[n + i][1], tty[n + i][2] + 1>>
      BY <3>1 DEF TtyInv, Bytes
    <3>3. n + i < Len(tty) => i < Len(tty') /\ tty'[i + 1] = tty[(n + i) + 1]
      <4> SUFFICES ASSUME n + i < Len(tty)
                   PROVE  i < Len(tty') /\ tty'[i + 1] = tty[(n + i) + 1]
        OBVIOUS
      <4>1. i + 1 \in 1 .. Len(tty) - n /\ n + (i + 1) = (n + i) + 1
        BY <1>t, <2>0, <2>3
      <4>2. tty'[i + 1] = tty[n + (i + 1)]
        BY <2>3, <4>1
      <4>3. i < Len(tty')
        BY <1>t, <2>0, <2>3, <4>1
      <4> QED BY <4>1, <4>2, <4>3
    <3> QED BY <3>1, <3>2, <3>3
  <2> QED BY <2>3, <2>4 DEF TtyInv, Bytes
<1>3. CASE NothingToRead \/ UNCHANGED tvars
  <2>1. tty' = tty
    BY <1>3 DEF NothingToRead, tvars
  <2> QED BY <2>1 DEF TtyInv, Bytes
<1> QED BY <1>1, <1>2, <1>3 DEF Next

-----------------------------------------------------------------------------
(* What the buffer holds when the byte behind q bytes of a key is next:    *)
(* the following ones, as far as six, are in it.                           *)
LEMMA NextByte ==
  ASSUME TtyInv, NEW i \in 1 .. Len(tty), NEW k \in Key, NEW p \in Nat,
         tty[i] = <<k, p>>, p # Len(k.bytes)
  PROVE  i + 1 \in 1 .. Len(tty) /\ tty[i + 1] = <<k, p + 1>>
<1>1. Len(tty) \in Nat
  BY LenProperties DEF TtyInv
<1>2. tty[i][1] = k /\ tty[i][2] = p /\ Bytes(i) = k.bytes
  BY DEF Bytes
<1>3. tty[i][2] # Len(Bytes(i)) => i < Len(tty) /\ tty[i + 1] = <<tty[i][1], tty[i][2] + 1>>
  BY DEF TtyInv
<1> QED BY <1>1, <1>2, <1>3

LEMMA BufferHoldsKey ==
  ASSUME TtyInv, tty # << >>, NEW k \in Key, NEW q \in Nat, tty[1] = <<k, q + 1>>
  PROVE  /\ Len(buf) \in Nat \ {0} /\ Len(buf) <= Len(tty) /\ Len(tty) \in Nat
         /\ Len(buf) < Len(tty) => Len(buf) >= 6
         /\ \A j \in 1 .. 6 : q + j <= Len(k.bytes) =>
              j <= Len(buf) /\ buf[j] = k.bytes[q + j]
<1> DEFINE n == Len(k.bytes)
           Holds(j) == j \in 1 .. Len(tty) /\ tty[j] = <<k, q + j>>
<1>1. Len(tty) \in Nat \ {0}
  BY EmptySeq, LenProperties DEF TtyInv
<1>2. Holds(1)
  BY <1>1
<1>3. n \in Nat \ {0}
  BY KeyFacts
<1>s. ASSUME NEW j \in Nat, Holds(j), q + j + 1 <= n
      PROVE  Holds(j + 1)
  <2>1. q + j \in Nat /\ q + j # n /\ (q + j) + 1 = q + (j + 1)
    BY <1>3, <1>s
  <2> QED BY <1>s, <2>1, NextByte
<1> HIDE DEF n, Holds
<1>4. /\ q + 2 <= n => Holds(2)
      /\ q + 3 <= n => Holds(3)
      /\ q + 4 <= n => Holds(4)
      /\ q + 5 <= n => Holds(5)
      /\ q + 6 <= n => Holds(6)
  <2>1. q + 2 <= n => Holds(2)
    BY <1>2, <1>3, <1>s
  <2>2. q + 3 <= n => Holds(3)
    BY <1>3, <1>s, <2>1
  <2>3. q + 4 <= n => Holds(4)
    BY <1>3, <1>s, <2>2
  <2>4. q + 5 <= n => Holds(5)
    BY <1>3, <1>s, <2>3
  <2>5. q + 6 <= n => Holds(6)
    BY <1>3, <1>s, <2>4
  <2> QED BY <2>1, <2>2, <2>3, <2>4, <2>5
<1>6. /\ BytesRead \in Nat /\ BytesRead <= Len(tty) /\ Len(buf) = BytesRead
      /\ BytesRead < Len(tty) => BytesRead >= 6
      /\ \A i \in 1 .. BytesRead : buf[i] = tty[i][1].bytes[tty[i][2]]
  BY BytesReadFacts
<1>7. ASSUME NEW j \in 1 .. 6, q + j <= n
      PROVE  j <= Len(buf) /\ buf[j] = k.bytes[q + j]
  <2>0. j \in {1, 2, 3, 4, 5, 6}
    OBVIOUS
  <2>1. Holds(j)
    BY <1>2, <1>4, <1>7, <2>0
  <2>2. j \in 1 .. Len(tty) /\ tty[j] = <<k, q + j>>
    BY <2>1 DEF Holds
  <2>3. j \in 1 .. BytesRead
    BY <1>1, <1>6, <2>2
  <2> QED BY <1>6, <2>2, <2>3
<1>8. Len(buf) # 0
  BY <1>1, <1>6
<1> QED BY <1>1, <1>6, <1>7, <1>8 DEF n

-----------------------------------------------------------------------------
(* Decoding.                                                               *)

(* Whatever follows an ESC gives an arrow, an Escape or nothing.           *)
LEMMA SequenceFacts ==
  ASSUME NEW b
  PROVE  /\ DecodeSequence(b).key \in Arrows \cup {"Escape", "None"}
         /\ DecodeSequence(b).shift => DecodeSequence(b).key \in Arrows \cup {"None"}
BY DEF DecodeSequence, Modified, ArrowEvent, Event, ArrowOf, Arrows

LEMMA DecodeCases ==
  ASSUME NEW b
  PROVE  /\ b[1] = "ESC" => Decode(b) = DecodeSequence(b)
         /\ b[1] = "lead" => Decode(b) = Event("None")
         /\ b[1] \in DOMAIN CommandOf => Decode(b) = Event(CommandOf[b[1]])
         /\ b[1] \in Printable => Decode(b) = CharEvent(b[1])
<1>1. "ESC" \notin DOMAIN CommandOf /\ "lead" \notin DOMAIN CommandOf
  BY DEF CommandOf
<1>2. \A c \in Printable : c \notin DOMAIN CommandOf /\ c # "ESC" /\ c # "lead"
  BY ByteAssumption
<1> QED BY <1>1, <1>2 DEF Decode

(* An arrow key is decoded with its modifiers.                             *)
LEMMA ArrowDecoded ==
  ASSUME NEW b, NEW l \in DOMAIN ArrowOf,
         NEW shift \in BOOLEAN, NEW alt \in BOOLEAN, NEW ctrl \in BOOLEAN,
         Len(b) \in Nat,
         \A j \in 1 .. 6 : j <= Len(ArrowKey(l, shift, alt, ctrl).bytes) =>
           j <= Len(b) /\ b[j] = ArrowKey(l, shift, alt, ctrl).bytes[j]
  PROVE  Decode(b) = ArrowKey(l, shift, alt, ctrl).event
<1> DEFINE k == ArrowKey(l, shift, alt, ctrl).bytes
           m == Modifier(shift, alt, ctrl)
<1>e. ArrowKey(l, shift, alt, ctrl).event = ArrowEvent(ArrowOf[l], shift /\ ~ alt, ctrl /\ ~ alt)
  BY Zenon DEF ArrowKey
<1>l. "1" \notin DOMAIN ArrowOf
  BY DEF ArrowOf
<1>1. CASE shift \/ alt \/ ctrl
  <2>1. k = <<"ESC", "bracket", "1", "semi", m, l>>
    BY <1>1 DEF ArrowKey
  <2> HIDE DEF m
  <2>2. /\ Len(b) >= 6
        /\ b[1] = "ESC" /\ b[2] = "bracket" /\ b[3] = "1"
        /\ b[5] = m /\ b[6] = l
    BY <2>1
  <2>3. Decode(b) = Modified(m, l)
    BY <1>l, <2>2, DecodeCases DEF DecodeSequence
  <2>4. /\ (m \in {"2", "6"}) = (shift /\ ~ alt)
        /\ (m \in {"5", "6"}) = (ctrl /\ ~ alt)
    BY <1>1, ModifierFacts DEF m
  <2> QED BY <1>e, <2>3, <2>4, Zenon DEF Modified
<1>2. CASE ~ shift /\ ~ alt /\ ~ ctrl
  <2>1. k = <<"ESC", "bracket", l>>
    BY <1>2 DEF ArrowKey
  <2>2. Len(b) >= 3 /\ b[1] = "ESC" /\ b[2] = "bracket" /\ b[3] = l
    BY <2>1
  <2>3. Decode(b) = Event(ArrowOf[l])
    BY <2>2, DecodeCases DEF DecodeSequence
  <2>4. (shift /\ ~ alt) = FALSE /\ (ctrl /\ ~ alt) = FALSE
    BY <1>2
  <2> QED BY <1>e, <2>3, <2>4, Zenon DEF Event
<1> QED BY <1>1, <1>2

(* A key the editor has no use for, when enough of it was read.            *)
LEMMA OtherDecoded ==
  ASSUME NEW b, NEW u \in Unknown, Len(b) \in Nat,
         \A j \in 1 .. 6 : j <= Len(u) => j <= Len(b) /\ b[j] = u[j],
         Extensible(OtherKey(u)) => Len(b) = Len(u)
  PROVE  Decode(b).key \in {"Escape", "None"}
<1>1. /\ Len(u) \in Nat /\ Len(u) >= 2 /\ u[1] \in {"ESC", "lead"}
      /\ u \in Seq(Printable \cup {"ESC", "lead"})
  BY UnknownAssumption, LenProperties
<1>2. b[1] = u[1] /\ b[2] = u[2] /\ Len(b) >= 2
  BY <1>1
<1>e. Event("Escape").key = "Escape" /\ Event("None").key = "None"
  BY DEF Event, ArrowEvent
<1>3. CASE b[1] = "lead"
  BY <1>3, <1>e, DecodeCases
<1>4. CASE b[1] = "ESC"
  <2> SUFFICES ASSUME Len(b) >= 3, b[2] = "bracket"
               PROVE  DecodeSequence(b).key \in {"Escape", "None"}
    BY <1>4, <1>e, <1>2, DecodeCases DEF DecodeSequence
  <2>1. Len(u) # 2
    <3> SUFFICES ASSUME Len(u) = 2 PROVE FALSE
      OBVIOUS
    <3>1. u = <<"ESC", "bracket">>
      <4>1. u[1] = "ESC" /\ u[2] = "bracket"
        BY <1>2, <1>4
      <4>2. u = << u[1], u[2] >>
        BY <1>1
      <4> QED BY <4>1, <4>2
    <3>2. Extensible(OtherKey(u))
      BY <3>1 DEF Extensible, OtherKey
    <3>3. Len(b) = Len(u)
      BY <3>2
    <3> HIDE DEF Extensible
    <3>4. Len(b) = 2
      BY <3>3
    <3> QED BY <1>1, <3>4
  <2>2. Len(u) >= 3 /\ b[3] = u[3]
    <3>0. \A n \in Nat : n >= 2 /\ n # 2 => n >= 3
      OBVIOUS
    <3>1. Len(u) >= 3
      BY <1>1, <2>1, <3>0, Zenon
    <3>2. 3 \in 1 .. 6
      OBVIOUS
    <3> QED BY <3>1, <3>2
  <2>3. b[3] \notin DOMAIN ArrowOf /\ (b[3] = "1" /\ Len(u) >= 6 => u[6] \notin DOMAIN ArrowOf)
    BY <1>2, <2>2, UnknownAssumption
  <2>4. CASE b[3] = "1" /\ Len(b) >= 6
    <3>1. Len(u) >= 6
      <4> SUFFICES ASSUME ~ (Len(u) >= 6) PROVE FALSE
        OBVIOUS
      <4>a. \A n \in Nat : n >= 3 /\ ~ (n >= 6) => n \in 3 .. 5
        OBVIOUS
      <4>0. Len(u) \in 3 .. 5
        BY <1>1, <2>2, <4>a, Zenon
      <4>1. u[1] = "ESC" /\ u[2] = "bracket" /\ u[3] = "1" /\ Len(u) \in 3 .. 5
        BY <1>2, <1>4, <2>2, <2>4, <4>0
      <4>2. SubSeq(u, 1, 3) = <<"ESC", "bracket", "1">>
        <5>1. \A i \in 1 .. 3 : u[i] \in {"ESC", "bracket", "1"}
          <6>1. \A i \in 1 .. 3 : i \in {1, 2, 3}
            OBVIOUS
          <6> QED BY <4>1, <6>1
        <5>2. /\ SubSeq(u, 1, 3) \in Seq({"ESC", "bracket", "1"})
              /\ Len(SubSeq(u, 1, 3)) = 3
              /\ \A i \in 1 .. 3 : SubSeq(u, 1, 3)[i] = u[i]
          BY <5>1, SubSeqProperties
        <5> DEFINE v == SubSeq(u, 1, 3)
        <5>3. v[1] = "ESC" /\ v[2] = "bracket" /\ v[3] = "1"
          BY <4>1, <5>2
        <5> HIDE DEF v
        <5>4. v \in Seq({"ESC", "bracket", "1"}) /\ Len(v) = 3
          BY <5>2 DEF v
        <5>5. v = <<v[1], v[2], v[3]>>
          BY <5>4
        <5> QED BY <5>3, <5>5 DEF v
      <4>3. Extensible(OtherKey(u))
        BY <4>1, <4>2 DEF Extensible, OtherKey
      <4> QED BY <2>4, <4>1, <4>3
    <3>2. b[6] \notin DOMAIN ArrowOf
      BY <2>3, <2>4, <3>1
    <3>3. Modified(b[5], b[6]).key = "None"
      BY <3>2 DEF Modified, ArrowEvent
    <3> QED BY <2>3, <2>4, <3>3 DEF DecodeSequence
  <2>5. CASE ~ (b[3] = "1" /\ Len(b) >= 6)
    BY <1>e, <2>3, <2>5 DEF DecodeSequence
  <2> QED BY <2>4, <2>5
<1> QED BY <1>1, <1>2, <1>3, <1>4

-----------------------------------------------------------------------------
(* One read.                                                               *)

(* A key whose bytes are the first in the buffer.                          *)
LEMMA DecodeStep ==
  ASSUME NEW k \in Plain, event' = Decode(buf),
         Len(buf) \in Nat \ {0}, Len(buf) <= Len(tty), Len(tty) \in Nat,
         Len(buf) < Len(tty) => Len(buf) >= 6,
         \A j \in 1 .. 6 : j <= Len(k.bytes) => j <= Len(buf) /\ buf[j] = k.bytes[j]
  PROVE  DecodedAs(k)
<1>1. /\ Len(buf) \in Nat \ {0} /\ Len(buf) <= Len(tty) /\ Len(tty) \in Nat
      /\ Len(buf) < Len(tty) => Len(buf) >= 6
      /\ \A j \in 1 .. 6 : j <= Len(k.bytes) => j <= Len(buf) /\ buf[j] = k.bytes[j]
  OBVIOUS
<1>2. buf[1] = k.bytes[1] /\ Len(k.bytes) \in Nat \ {0}
  BY <1>1, PlainFacts
<1>3. CASE Extensible(k) /\ Len(tty) > Len(k.bytes)
  <2>1. k.bytes[1] = "ESC"
    <3>1. CASE k.bytes \in {<<"ESC">>, <<"ESC", "bracket">>}
      BY <3>1
    <3>2. CASE Len(k.bytes) \in 3 .. 5 /\ SubSeq(k.bytes, 1, 3) = <<"ESC", "bracket", "1">>
      <4>1. k.bytes \in Seq(Printable \cup DOMAIN CommandOf \cup {"ESC", "lead"})
        BY PlainFacts
      <4>2. \A i \in 1 .. 3 : k.bytes[i] \in Printable \cup DOMAIN CommandOf \cup {"ESC", "lead"}
        BY <3>2, <4>1, ElementOfSeq
      <4> DEFINE v == SubSeq(k.bytes, 1, 3)
      <4>3. v[1] = k.bytes[1]
        BY <4>2, SubSeqProperties
      <4>4. v = <<"ESC", "bracket", "1">>
        BY <3>2
      <4> HIDE DEF v
      <4>5. v[1] = "ESC"
        BY <4>4
      <4> QED BY <4>3, <4>5
    <3> QED BY <1>3, <3>1, <3>2 DEF Extensible
  <2>2. Decode(buf).key \in Arrows \cup {"Escape", "None"}
    BY <1>2, <2>1, DecodeCases, SequenceFacts
  <2> QED BY <1>3, <2>2 DEF DecodedAs
<1>4. CASE ~ (Extensible(k) /\ Len(tty) > Len(k.bytes))
  <2> SUFFICES IF k.event.key = "None" THEN Decode(buf).key \in {"Escape", "None"}
               ELSE Decode(buf) = k.event
    BY <1>4 DEF DecodedAs
  <2>1. ASSUME NEW c \in Printable, k = CharKey(c)
        PROVE  Decode(buf) = k.event /\ k.event.key # "None"
    <3>1. buf[1] = c /\ k.event = CharEvent(c)
      BY <1>2, <2>1 DEF CharKey
    <3>2. CharEvent(c).key = "Char"
      BY DEF CharEvent, Event, ArrowEvent
    <3> QED BY <3>1, <3>2, DecodeCases
  <2>2. ASSUME NEW b \in DOMAIN CommandOf, k = CommandKey(b)
        PROVE  Decode(buf) = k.event /\ k.event.key # "None"
    <3>1. buf[1] = b /\ k.event = Event(CommandOf[b])
      BY <1>2, <2>2 DEF CommandKey
    <3>2. Event(CommandOf[b]).key # "None"
      BY DEF CommandOf, Event, ArrowEvent
    <3> QED BY <3>1, <3>2, DecodeCases
  <2>3. CASE k = EscapeKey
    <3>1. k.bytes = <<"ESC">> /\ k.event = Event("Escape")
      BY <2>3 DEF EscapeKey
    <3>2. Len(buf) < 3 /\ buf[1] = "ESC"
      BY <1>1, <1>2, <1>4, <3>1 DEF Extensible
    <3>3. Decode(buf) = Event("Escape")
      BY <3>2, DecodeCases DEF DecodeSequence
    <3>4. Event("Escape").key = "Escape"
      BY DEF Event, ArrowEvent
    <3> QED BY <3>1, <3>3, <3>4
  <2>4. ASSUME NEW l \in DOMAIN ArrowOf,
               NEW shift \in BOOLEAN, NEW alt \in BOOLEAN, NEW ctrl \in BOOLEAN,
               k = ArrowKey(l, shift, alt, ctrl)
        PROVE  Decode(buf) = k.event /\ k.event.key # "None"
    <3>1. Decode(buf) = k.event
      BY <1>1, <2>4, ArrowDecoded, SMTT(30)
    <3>2. k.event.key = ArrowOf[l]
      BY <2>4 DEF ArrowKey, ArrowEvent
    <3>3. ArrowOf[l] # "None"
      BY DEF ArrowOf
    <3> QED BY <3>1, <3>2, <3>3
  <2>5. ASSUME NEW u \in Unknown, k = OtherKey(u)
        PROVE  Decode(buf).key \in {"Escape", "None"} /\ k.event.key = "None"
    <3>1. k.bytes = u /\ k.event = Event("None")
      BY <2>5 DEF OtherKey
    <3>2. ASSUME Extensible(k)
          PROVE  Len(buf) = Len(u)
      <4>1. Len(u) <= 5
        <5>1. Len(u) \in Nat
          BY <1>2, <3>1
        <5>2. \/ u = <<"ESC">> \/ u = <<"ESC", "bracket">>
              \/ Len(u) \in 3 .. 5
          BY <3>1, <3>2 DEF Extensible
        <5>3. \A n \in 3 .. 5 : n <= 5
          OBVIOUS
        <5>4. CASE Len(u) \in 3 .. 5
          BY <5>3, <5>4, Zenon
        <5>5. CASE u = <<"ESC">>
          BY <5>5
        <5>6. CASE u = <<"ESC", "bracket">>
          BY <5>6
        <5> QED BY <5>2, <5>4, <5>5, <5>6
      <4>2. Len(tty) <= Len(u)
        BY <1>1, <1>2, <1>4, <3>1, <3>2
      <4> QED BY <1>1, <1>2, <3>1, <4>1, <4>2
    <3>3. Decode(buf).key \in {"Escape", "None"}
      BY <1>1, <2>5, <3>1, <3>2, OtherDecoded
    <3> QED BY <3>1, <3>3 DEF Event, ArrowEvent
  <2> QED BY <1>1, <2>1, <2>2, <2>3, <2>4, <2>5, KeyAssumption
<1> QED BY <1>3, <1>4

LEMMA LeadingStep ==
  ASSUME TtyInv, ReadInput, AtKeyStart
  PROVE  DecodedAs(Leading)
<1>1. Len(tty) \in Nat \ {0} /\ tty[1] \in Key \X Nat
  BY EmptySeq, LenProperties, ElementOfSeq DEF TtyInv, AtKeyStart
<1>2. PICK k \in Key : tty[1] = <<k, 0 + 1>> /\ Leading = k /\ tty # << >>
  BY <1>1 DEF AtKeyStart, Leading
<1>3. /\ Len(buf) \in Nat \ {0} /\ Len(buf) <= Len(tty) /\ Len(tty) \in Nat
      /\ Len(buf) < Len(tty) => Len(buf) >= 6
      /\ \A j \in 1 .. 6 : 0 + j <= Len(k.bytes) =>
           j <= Len(buf) /\ buf[j] = k.bytes[0 + j]
  BY <1>2, BufferHoldsKey
<1>4. \A j \in 1 .. 6 : j <= Len(k.bytes) => j <= Len(buf) /\ buf[j] = k.bytes[j]
  BY <1>3
<1>5. event' = Decode(buf)
  BY DEF ReadInput
<1>6. CASE k \in Plain
  BY <1>2, <1>3, <1>4, <1>5, <1>6, DecodeStep
<1>7. CASE k \in { AltKey(q) : q \in Meta }
  <2>1. PICK q \in Plain : k = AltKey(q)
    BY <1>7, KeyAssumption
  <2>2. Len(q.bytes) \in Nat \ {0} /\ q.bytes \in Seq(Printable \cup DOMAIN CommandOf \cup {"ESC", "lead"})
    BY PlainFacts
  <2>3. /\ Len(k.bytes) = Len(q.bytes) + 1
        /\ k.bytes[1] = "ESC" /\ k.bytes[2] = q.bytes[1]
        /\ k.event.key = "None"
    BY <2>1, <2>2, AltFacts
  <2>4. Len(buf) >= 2 /\ buf[1] = "ESC" /\ buf[2] = q.bytes[1]
    BY <1>3, <1>4, <2>2, <2>3
  <2>5. Decode(buf) = DecodeSequence(buf)
    BY <2>4, DecodeCases
  <2>6. Event("Escape").key = "Escape"
    BY DEF Event, ArrowEvent
  <2>7. CASE q.bytes[1] # "bracket"
    <3>1. Decode(buf).key = "Escape"
      BY <2>4, <2>5, <2>6, <2>7 DEF DecodeSequence
    <3> QED BY <1>2, <1>5, <2>3, <3>1 DEF DecodedAs
  <2>8. CASE q.bytes[1] = "bracket"
    <3>1. Len(q.bytes) = 1
      BY <2>8, BracketAlone
    <3>2. Extensible(k)
      BY <2>1, <2>8, <3>1, AltBracket
    <3>3. CASE Len(tty) > Len(k.bytes)
      BY <1>2, <1>5, <2>5, <3>2, <3>3, SequenceFacts DEF DecodedAs
    <3>4. CASE ~ (Len(tty) > Len(k.bytes))
      <4>1. Len(buf) < 3
        BY <1>3, <2>3, <3>1, <3>4
      <4>2. Decode(buf).key = "Escape"
        BY <2>5, <2>6, <4>1 DEF DecodeSequence
      <4> QED BY <1>2, <1>5, <2>3, <4>2 DEF DecodedAs
    <3> QED BY <3>3, <3>4
  <2> QED BY <2>7, <2>8
<1> QED BY <1>6, <1>7 DEF Key

(* The rest of a key that was cut is printable, or the key to which Alt    *)
(* has added an ESC.                                                       *)
LEMMA CutStep ==
  ASSUME TtyInv, ReadInput, InsideKey
  PROVE  \/ event'.key = "Char"
         \/ \E k \in Meta : tty[1] = <<AltKey(k), 2>> /\ DecodedAs(k)
<1>1. Len(tty) \in Nat \ {0} /\ tty[1] \in Key \X Nat /\ tty # << >>
  BY EmptySeq, LenProperties, ElementOfSeq DEF TtyInv, InsideKey
<1>2. PICK k \in Key, p \in Nat : tty[1] = <<k, p>> /\ p > 1 /\ p <= Len(k.bytes)
  <2>1. tty[1][2] \in 1 .. Len(tty[1][1].bytes) /\ tty[1][2] > 1
    BY <1>1 DEF TtyInv, Bytes, InsideKey
  <2>2. PICK k \in Key, p \in Nat : tty[1] = <<k, p>>
    BY <1>1
  <2>3. Len(k.bytes) \in Nat /\ p \in 1 .. Len(k.bytes) /\ p > 1
    BY <2>1, <2>2, KeyFacts
  <2> QED BY <2>2, <2>3
<1> DEFINE q == p - 1
<1>3. q \in Nat /\ tty[1] = <<k, q + 1>> /\ Len(k.bytes) \in Nat
  BY <1>2, KeyFacts
<1>4. /\ Len(buf) \in Nat \ {0} /\ Len(buf) <= Len(tty) /\ Len(tty) \in Nat
      /\ Len(buf) < Len(tty) => Len(buf) >= 6
      /\ \A j \in 1 .. 6 : q + j <= Len(k.bytes) =>
           j <= Len(buf) /\ buf[j] = k.bytes[q + j]
  BY <1>1, <1>3, BufferHoldsKey
<1>5. buf[1] = k.bytes[p]
  BY <1>2, <1>3, <1>4
<1>6. event' = Decode(buf)
  BY DEF ReadInput
<1>7. ASSUME buf[1] \in Printable
      PROVE  event'.key = "Char"
  BY <1>6, <1>7, DecodeCases DEF CharEvent, Event, ArrowEvent
<1> HIDE DEF q
<1>8. CASE k \in Plain
  <2>1. p \in 2 .. Len(k.bytes)
    BY <1>2, <1>3
  <2> QED BY <1>5, <1>7, <1>8, <2>1, PlainFacts
<1>9. CASE k \in { AltKey(m) : m \in Meta }
  <2>1. PICK m \in Meta : k = AltKey(m)
    BY <1>9
  <2>2. m \in Plain
    BY KeyAssumption
  <2>3. /\ Len(m.bytes) \in Nat /\ Len(k.bytes) = Len(m.bytes) + 1
        /\ \A i \in 1 .. Len(m.bytes) : k.bytes[i + 1] = m.bytes[i]
    BY <2>1, <2>2, AltFacts, PlainFacts
  <2>4. CASE p = 2
    <3>1. \A j \in 1 .. 6 : j <= Len(m.bytes) => j <= Len(buf) /\ buf[j] = m.bytes[j]
      <4> SUFFICES ASSUME NEW j \in 1 .. 6, j <= Len(m.bytes)
                   PROVE  j <= Len(buf) /\ buf[j] = m.bytes[j]
        OBVIOUS
      <4>1. q + j = j + 1 /\ j + 1 <= Len(k.bytes) /\ j \in 1 .. Len(m.bytes)
        BY <2>3, <2>4 DEF q
      <4> QED BY <1>4, <2>3, <4>1
    <3>2. DecodedAs(m)
      BY <1>4, <1>6, <2>2, <3>1, DecodeStep
    <3> QED BY <1>2, <2>1, <2>4, <3>2
  <2>5. CASE p # 2
    <3>1. p - 1 \in 2 .. Len(m.bytes) /\ (p - 1) + 1 = p
      BY <1>2, <2>3, <2>5
    <3>2. k.bytes[p] = m.bytes[p - 1]
      BY <2>3, <3>1
    <3> QED BY <1>5, <1>7, <2>2, <3>1, <3>2, PlainFacts
  <2> QED BY <2>4, <2>5
<1> QED BY <1>8, <1>9 DEF Key

-----------------------------------------------------------------------------
LEMMA TtyAlways == Spec => []TtyInv
BY TtyInit, TtyStep, PTL DEF Spec

(* The first key of a read is decoded as what it is, whatever is behind it *)
(* in the buffer and wherever the read ends, for every keyboard.           *)
THEOREM LeadingKeyIsDecoded == Spec => LeadingKeyDecoded
<1>1. TtyInv /\ [Next]_tvars => [ReadInput /\ AtKeyStart => DecodedAs(Leading)]_tvars
  BY LeadingStep
<1> QED BY <1>1, TtyAlways, PTL DEF Spec, LeadingKeyDecoded

(* What is left of a key that a read has cut is typed, unless it is all    *)
(* but the ESC of a key pressed with Alt: then it is the key without Alt.  *)
THEOREM CutKeysLoseAlt == Spec => CutKeyLosesAlt
<1>1. TtyInv /\ [Next]_tvars =>
        [ReadInput /\ InsideKey =>
           \/ event'.key = "Char"
           \/ \E k \in Meta : tty[1] = <<AltKey(k), 2>> /\ DecodedAs(k)]_tvars
  BY CutStep
<1> QED BY <1>1, TtyAlways, PTL DEF Spec, CutKeyLosesAlt
=============================================================================
