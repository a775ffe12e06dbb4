------------------------------ MODULE Terminal ------------------------------
(***************************************************************************)
(* From key presses to the events the main loop handles: read_input of     *)
(* src/src/terminal_manager.cpp (POSIX).                                   *)
(*                                                                         *)
(* The terminal turns a key into one or more bytes, which wait in the tty  *)
(* until the main loop comes round.  A read takes at most BufferSize of    *)
(* them, whatever keys they belong to, and makes one event of the first.   *)
(* Bytes are named by their ASCII names; "lead" and "cont" are the two     *)
(* bytes of a character outside ASCII.                                     *)
(***************************************************************************)
EXTENDS Naturals, Sequences, FiniteSets

CONSTANTS
  Plain,      \* the keys of the keyboard: what they mean and the bytes they send
  Meta,       \* those of them for which Alt sends an ESC first
  Printable,  \* the bytes that are neither commands nor the start of a longer key
  Unknown,    \* the byte sequences of keys the editor has no use for
  BufferSize, \* bytes read at once: sizeof(b)
  MaxWaiting  \* bound on the keys of which bytes are waiting

VARIABLES
  tty,        \* the bytes waiting, as <<k, i>>: the i-th byte of key k
  event       \* the last InputEvent

tvars == <<tty, event>>

-----------------------------------------------------------------------------
(* InputEvent.                                                             *)

NoValue == "NUL"

ArrowEvent(key, shift, ctrl) ==
  [key |-> key, value |-> NoValue, shift |-> shift, ctrl |-> ctrl]

Event(key) == ArrowEvent(key, FALSE, FALSE)

CharEvent(c) == [Event("Char") EXCEPT !.value = c]

(* The single bytes that are commands. *)
CommandOf ==
  [DEL |-> "Backspace", BS |-> "Backspace", CR |-> "Enter", LF |-> "Enter",
   DC1 |-> "Quit", ETX |-> "Copy", SYN |-> "Paste", CAN |-> "AqLock",
   DC3 |-> "Save", SO |-> "ChangeFile"]

ArrowOf == [A |-> "Up", B |-> "Down", C |-> "Right", D |-> "Left"]

-----------------------------------------------------------------------------
(* The keyboard, as xterm and its like encode it.                          *)

CharKey(c)       == [event |-> CharEvent(c), bytes |-> <<c>>]
CommandKey(byte) == [event |-> Event(CommandOf[byte]), bytes |-> <<byte>>]
EscapeKey        == [event |-> Event("Escape"), bytes |-> <<"ESC">>]

(* The parameter that stands for the modifiers of a key.                   *)
Modifier(shift, alt, ctrl) ==
  LET bit(held) == IF held THEN 1 ELSE 0
  IN  <<"2", "3", "4", "5", "6", "7", "8">>[bit(shift) + 2 * bit(alt) + 4 * bit(ctrl)]

(* The editor does not know Alt: with it, an arrow is one without          *)
(* modifiers.                                                              *)
ArrowKey(letter, shift, alt, ctrl) ==
  [event |-> ArrowEvent(ArrowOf[letter], shift /\ ~ alt, ctrl /\ ~ alt),
   bytes |-> IF shift \/ alt \/ ctrl
             THEN <<"ESC", "bracket", "1", "semi", Modifier(shift, alt, ctrl), letter>>
             ELSE <<"ESC", "bracket", letter>>]

(* A key the editor has no use for. *)
OtherKey(bytes) == [event |-> Event("None"), bytes |-> bytes]

AltKey(k) == OtherKey(<<"ESC">> \o k.bytes)

Key == Plain \cup { AltKey(k) : k \in Meta }

ASSUME KeyAssumption ==
  /\ Meta \subseteq Plain
  /\ \A k \in Plain :
       \/ \E c \in Printable : k = CharKey(c)
       \/ \E b \in DOMAIN CommandOf : k = CommandKey(b)
       \/ k = EscapeKey
       \/ \E l \in DOMAIN ArrowOf, shift, alt, ctrl \in BOOLEAN :
            k = ArrowKey(l, shift, alt, ctrl)
       \/ \E b \in Unknown : k = OtherKey(b)

ASSUME ByteAssumption ==
  /\ {"bracket", "1", "2", "3", "4", "5", "6", "7", "8", "semi"} \cup DOMAIN ArrowOf
       \subseteq Printable
  /\ Printable \cap (DOMAIN CommandOf \cup {"ESC", "lead"}) = {}
  /\ BufferSize \in Nat /\ BufferSize >= 6

(* A key the editor has no use for is a character outside ASCII or a       *)
(* control sequence, all of which is printable but its ESC (ECMA-48), and  *)
(* not an arrow.                                                           *)
ASSUME UnknownAssumption ==
  \A b \in Unknown :
    /\ b \in Seq(Printable \cup {"ESC", "lead"}) /\ Len(b) >= 2
    /\ b[1] \in {"ESC", "lead"}
    /\ \A i \in 2 .. Len(b) : b[i] \in Printable
    /\ b[2] = "bracket" /\ Len(b) >= 3 =>
         /\ b[3] \notin DOMAIN ArrowOf
         /\ b[3] = "1" /\ Len(b) >= 6 => b[6] \notin DOMAIN ArrowOf

-----------------------------------------------------------------------------
(* read_input.                                                             *)

Modified(mod, letter) ==
  ArrowEvent(IF letter \in DOMAIN ArrowOf THEN ArrowOf[letter] ELSE "None",
             mod \in {"2", "6"}, mod \in {"5", "6"})

(* Mutant of DecodeSequence: a modified arrow must be all there is.        *)
DecodeSequenceAlone(b) ==
  IF Len(b) < 3 \/ b[2] # "bracket" THEN Event("Escape")
  ELSE IF b[3] \in DOMAIN ArrowOf THEN Event(ArrowOf[b[3]])
  ELSE IF b[3] = "1" /\ Len(b) = 6 THEN Modified(b[5], b[6])
  ELSE Event("Escape")

(* What follows an ESC; whatever is not an arrow is an Escape. *)
DecodeSequence(b) ==
  IF Len(b) < 3 \/ b[2] # "bracket" THEN Event("Escape")
  ELSE IF b[3] \in DOMAIN ArrowOf THEN Event(ArrowOf[b[3]])
  ELSE IF b[3] = "1" /\ Len(b) >= 6 THEN Modified(b[5], b[6])
  ELSE Event("Escape")

(* Mutant of Decode: a sequence whose ESC was read before is decoded too.  *)
DecodeWithoutEsc(b) ==
  IF b[1] \in DOMAIN CommandOf THEN Event(CommandOf[b[1]])
  ELSE IF b[1] = "ESC" THEN DecodeSequence(b)
  ELSE IF b[1] = "bracket" THEN DecodeSequence(<<"ESC">> \o b)
  ELSE IF b[1] = "lead" THEN Event("None")
  ELSE CharEvent(b[1])

(* The event of the first key in buf, whatever else is in it. *)
Decode(b) ==
  IF b[1] \in DOMAIN CommandOf THEN Event(CommandOf[b[1]])
  ELSE IF b[1] = "ESC" THEN DecodeSequence(b)
  ELSE IF b[1] = "lead" THEN Event("None")
  ELSE CharEvent(b[1])

-----------------------------------------------------------------------------
Init == tty = << >> /\ event = Event("None")

KeysWaiting == Cardinality({ i \in 1 .. Len(tty) : i = 1 \/ tty[i][2] = 1 })

(* The bytes of a key reach the tty together. *)
Press(k) ==
  /\ KeysWaiting < MaxWaiting
  /\ tty' = tty \o [i \in 1 .. Len(k.bytes) |-> <<k, i>>]
  /\ UNCHANGED event

BytesRead == IF Len(tty) < BufferSize THEN Len(tty) ELSE BufferSize

buf == [i \in 1 .. BytesRead |-> tty[i][1].bytes[tty[i][2]]]

(* read_input_non_blocking, when something is waiting. *)
ReadInput ==
  /\ tty # << >>
  /\ event' = Decode(buf)
  /\ tty' = SubSeq(tty, BytesRead + 1, Len(tty))

(* ... and when nothing is. *)
NothingToRead ==
  /\ tty = << >>
  /\ event' = Event("None")
  /\ UNCHANGED tty

Next == ReadInput \/ NothingToRead \/ \E k \in Key : Press(k)

Spec == Init /\ [][Next]_tvars

-----------------------------------------------------------------------------
(* Properties.                                                             *)

Arrows == {"Up", "Down", "Left", "Right"}

Leading == tty[1][1]

(* The next byte is the first, or a later one, of the key it belongs to.   *)
AtKeyStart == tty # << >> /\ tty[1][2] = 1
InsideKey  == tty # << >> /\ tty[1][2] > 1

(* A key whose bytes, with others behind them, may be those of an arrow:   *)
(* ESC itself, Alt-[, and F5 to F8 (ESC [ 1 5 ~), of which the code looks  *)
(* at what comes after the tilde.                                          *)
Extensible(k) ==
  \/ k.bytes \in {<<"ESC">>, <<"ESC", "bracket">>}
  \/ Len(k.bytes) \in 3 .. 5 /\ SubSeq(k.bytes, 1, 3) = <<"ESC", "bracket", "1">>

(* What the read makes of key k when its bytes are the first in the tty,   *)
(* whatever was typed behind it and wherever the read cuts that: a key the *)
(* editor has no use for is at most taken for Escape, and the three kinds  *)
(* above at most for an arrow.                                             *)
DecodedAs(k) ==
  IF Extensible(k) /\ Len(tty) > Len(k.bytes)
  THEN event'.key \in Arrows \cup {"Escape", "None"}
  ELSE IF k.event.key = "None"
  THEN event'.key \in {"Escape", "None"}
  ELSE event' = k.event

(* terminal_manager.cpp:100: the key that leads is decoded as what it is,  *)
(* however many keys the editor was too busy to read wait behind it.       *)
LeadingKeyDecoded == [][ReadInput /\ AtKeyStart => DecodedAs(Leading)]_tvars

(* A read of eight bytes may end inside a key, although the code says of a *)
(* character that it is "consumed in the single read"                      *)
(* (terminal_manager.cpp:166) and of a key that "the longest sequence we   *)
(* can get is 8" (:100).  What is left of the key is then typed into the   *)
(* text; only when the read has taken the ESC that Alt sends is it obeyed, *)
(* as the key without Alt: Alt-Backspace, cut, erases.                     *)
CutKeyLosesAlt ==
  [][ReadInput /\ InsideKey =>
       \/ event'.key = "Char"
       \/ \E k \in Meta : tty[1] = <<AltKey(k), 2>> /\ DecodedAs(k)]_tvars
=============================================================================
