----------------------------- MODULE ScreenProofs -----------------------------
(***************************************************************************)
(* What the user sees of the editor, for every buffer, text area, padding  *)
(* and tab stop, and texts of any length: the loop of print_buffer (module *)
(* Screen) against the layout of the text (module View).                   *)
(***************************************************************************)
EXTENDS ScreenProperties, EditorProofs

Places == [row : Nat, col : Nat]
Cells  == [char : Char, at : Places, lit : BOOLEAN]

(* What the loop carries along. *)
Screens ==
  [at : RowsAndColumns, needs_left_pad : BOOLEAN, terminal : Places,
   cursor : [row : Int, col : Nat], cells : SUBSET Cells]

LayoutOf(b) == Layout(serialize_buffer(b))

-----------------------------------------------------------------------------
(* Rows shown.                                                             *)

LEMMA LayoutOfFacts ==
  ASSUME NEW b \in Buffer
  PROVE  /\ LayoutOf(b) \in [0 .. TextLen(b) -> RowsAndColumns]
         /\ LayoutOf(b)[0] = Place(0, 0)
         /\ \A k \in 1 .. TextLen(b) :
              LayoutOf(b)[k] = After(LayoutOf(b)[k - 1], serialize_buffer(b)[k])
<1> DEFINE t == serialize_buffer(b)
<1>1. t \in Seq(Char) /\ Len(t) = TextLen(b)
  BY TextFacts
<1> HIDE DEF t
<1>2. /\ Layout(t) \in [0 .. Len(t) -> RowsAndColumns]
      /\ Layout(t)[0] = [row |-> 0, col |-> 0]
      /\ \A k \in 1 .. Len(t) : Layout(t)[k] = After(Layout(t)[k - 1], t[k])
  BY <1>1, LayoutFacts
<1> QED BY <1>1, <1>2 DEF LayoutOf, Place, t

LEMMA PlaceFacts ==
  ASSUME NEW p \in RowsAndColumns
  PROVE  /\ p.row \in Nat /\ p.col \in Nat /\ p.col < TerEndX
         /\ p = Place(p.row, p.col) /\ p \in Places
BY CursorAssumption DEF RowsAndColumns, Place, Places

(* Scrolling keeps the row of the cursor in the area.                      *)
LEMMA StartRow ==
  ASSUME NEW b \in Buffer
  PROVE  /\ start_row(b) \in Nat
         /\ LayoutOf(b)[b.gap_start] \in RowsAndColumns
         /\ Visible(b, LayoutOf(b)[b.gap_start].row)
<1> DEFINE row == LayoutOf(b)[b.gap_start].row
           half == TerEndY \div 2
<1>1. b.gap_start \in 0 .. TextLen(b)
  BY BufferFacts
<1>2. LayoutOf(b)[b.gap_start] \in RowsAndColumns /\ row \in Nat
  BY <1>1, LayoutOfFacts, PlaceFacts
<1>3. half \in Nat /\ half < TerEndY /\ TerEndY \in Nat
  BY ScreenAssumption
<1>4. start_row(b) = IF row >= half THEN row - half ELSE 0
  BY DEF start_row, LayoutOf
<1> HIDE DEF row, half
<1>5. start_row(b) \in Nat /\ start_row(b) <= row /\ row < start_row(b) + TerEndY
  BY <1>2, <1>3, <1>4
<1> QED BY <1>2, <1>5 DEF Visible, row

(* A tab goes as far on the terminal as in the layout when the text area   *)
(* starts at a tab stop.                                                   *)
LEMMA TabStops ==
  ASSUME LeftPad % TabStop = 0, NEW c \in Nat
  PROVE  ((LeftPad + c) \div TabStop + 1) * TabStop = LeftPad + (c + (TabStop - (c % TabStop)))
<1>1. LeftPad \in Nat /\ TabStop \in Nat \ {0}
  BY ScreenAssumption, CursorAssumption
<1>a. PICK a \in Nat : a = LeftPad \div TabStop
  BY <1>1, Division
<1>q. PICK q \in Nat : q = c \div TabStop
  BY <1>1, Division
<1>r. PICK r \in 0 .. TabStop - 1 : r = c % TabStop
  BY <1>1, Division
<1>i. PICK i \in Nat : i = LeftPad + c
  BY <1>1
<1>2. LeftPad = a * TabStop + 0 /\ c = q * TabStop + r
  BY <1>1, <1>a, <1>q, <1>r, Division
<1>3. /\ a * TabStop \in Nat /\ q * TabStop \in Nat /\ a + q \in Nat
      /\ (a + q) * TabStop = a * TabStop + q * TabStop
      /\ (a + q + 1) * TabStop = a * TabStop + q * TabStop + TabStop
  BY <1>1
<1>4. i = (a + q) * TabStop + r
  BY <1>1, <1>2, <1>3, <1>i
<1>5. i \div TabStop = a + q
  BY <1>1, <1>3, <1>4, DivisionUnique
<1>6. (i \div TabStop + 1) * TabStop = a * TabStop + q * TabStop + TabStop
  BY <1>3, <1>5
<1>7. LeftPad + (c + (TabStop - r)) = a * TabStop + q * TabStop + TabStop
  BY <1>1, <1>2, <1>3
<1> QED BY <1>i, <1>r, <1>6, <1>7

-----------------------------------------------------------------------------
(* One turn of the loop.                                                   *)

(* Where the terminal puts the next character.                             *)
Put(s) == IF s.needs_left_pad
          THEN Place(s.terminal.row, s.terminal.col + LeftPad) ELSE s.terminal

Cell(b, hl, i, s) ==
  [char |-> b.data[i + 1], at |-> Put(s),
   lit |-> IsHighlighted(hl, logical_index(b, i))]

LEMMA EchoFacts ==
  ASSUME NEW p \in Places, NEW ch
  PROVE  Echo(p, ch) \in Places
<1>1. p.row \in Nat /\ p.col \in Nat /\ TabStop \in Nat \ {0}
  BY CursorAssumption DEF Places
<1>2. (p.col \div TabStop + 1) * TabStop \in Nat
  <2>1. PICK q \in Nat : q = p.col \div TabStop
    BY <1>1, Division
  <2> QED BY <1>1, <2>1
<1> QED BY <1>1, <1>2 DEF Echo, Place, Places

LEMMA PutFacts ==
  ASSUME NEW s \in Screens
  PROVE  /\ Put(s) \in Places
         /\ s.at \in RowsAndColumns /\ s.terminal \in Places
         /\ s.needs_left_pad \in BOOLEAN /\ s.cells \subseteq Cells
         /\ s.cursor \in [row : Int, col : Nat]
BY ScreenAssumption DEF Put, Place, Places, Screens

(* What is sent for one character, from s to r.                            *)
Sends(b, hl, i, s, r) ==
  LET ch   == b.data[i + 1]
      next == After(s.at, ch)
  IN  /\ Visible(b, s.at.row) =>
           /\ r.needs_left_pad <=> next.row # s.at.row
           /\ next.row # s.at.row => r.terminal = Place(Put(s).row + 1, 0)
           /\ next.row = s.at.row => ch # Newline /\ r.terminal = Echo(Put(s), ch)
           /\ r.cells = s.cells \cup {Cell(b, hl, i, s)}
      /\ ~ Visible(b, s.at.row) =>
           /\ r.needs_left_pad = s.needs_left_pad
           /\ r.terminal = s.terminal
           /\ r.cells = s.cells

(* What one character does to the frame.                                   *)
LEMMA DrawFacts ==
  ASSUME NEW b \in Buffer, NEW hl, NEW i \in 0 .. Len(b.data) - 1, NEW s \in Screens
  PROVE  LET r == DrawCharacter(b, hl, i, s)
         IN  /\ r \in Screens
             /\ r.at = After(s.at, b.data[i + 1])
             /\ r.cursor = s.cursor
             /\ Sends(b, hl, i, s, r)
<1> DEFINE r    == DrawCharacter(b, hl, i, s)
           ch   == b.data[i + 1]
           next == After(s.at, ch)
           seen == Visible(b, s.at.row)
           col  == IF ch = Newline THEN 0
                   ELSE IF ch = Tab THEN s.at.col + (TabStop - (s.at.col % TabStop))
                   ELSE s.at.col + 1
           wrap == col >= TerEndX /\ ch # Newline
           at   == IF ch = Newline \/ wrap THEN Place(s.at.row + 1, 0) ELSE Place(s.at.row, col)
           pad  == IF seen THEN PadDue(ch, wrap) ELSE s.needs_left_pad
           term == IF ~ seen THEN s.terminal
                   ELSE IF wrap THEN Place(Put(s).row + 1, 0) ELSE Echo(Put(s), ch)
           cells == IF ~ seen THEN s.cells ELSE s.cells \cup {Cell(b, hl, i, s)}
<1>1. /\ s.at \in RowsAndColumns /\ s.at.row \in Nat /\ Put(s) \in Places
      /\ s.terminal \in Places /\ s.needs_left_pad \in BOOLEAN /\ s.cells \subseteq Cells
      /\ s.cursor \in [row : Int, col : Nat]
  BY PutFacts, PlaceFacts
<1>2. r = [s EXCEPT !.at = at, !.needs_left_pad = pad, !.terminal = term, !.cells = cells]
  BY DEF DrawCharacter, Put, Cell
<1>3. at = next
  BY DEF After, Wrapped, Place
<1>4. next \in RowsAndColumns /\ next.row \in {s.at.row, s.at.row + 1}
  BY <1>1, AfterFacts
<1>5. next.row # s.at.row <=> ch = Newline \/ wrap
  BY <1>1, <1>3 DEF Place
<1>6. Place(Put(s).row + 1, 0) \in Places
  BY <1>1 DEF Place, Places
<1>7. term \in Places
  BY <1>1, <1>6, EchoFacts
<1>8. pad \in BOOLEAN /\ (seen => (pad <=> next.row # s.at.row))
  BY <1>1, <1>5 DEF PadDue
<1>9. Cell(b, hl, i, s) \in Cells
  <2>1. ch \in Char
    BY BufferFacts
  <2> QED BY <1>1, <2>1 DEF Cell, Cells, IsHighlighted
<1>10. cells \subseteq Cells
  BY <1>1, <1>9
<1>11. /\ seen /\ next.row # s.at.row => term = Place(Put(s).row + 1, 0)
       /\ seen /\ next.row = s.at.row => ch # Newline /\ term = Echo(Put(s), ch)
  BY <1>5 DEF Echo
<1>12. (seen => cells = s.cells \cup {Cell(b, hl, i, s)}) /\ (~ seen => cells = s.cells)
  OBVIOUS
<1>13. ~ seen => pad = s.needs_left_pad /\ term = s.terminal
  OBVIOUS
<1> HIDE DEF at, pad, term, cells, next, seen, col, wrap, ch, r
<1>14. /\ r \in Screens /\ r.at = at /\ r.needs_left_pad = pad /\ r.terminal = term
       /\ r.cells = cells /\ r.cursor = s.cursor
  BY <1>1, <1>2, <1>3, <1>4, <1>7, <1>8, <1>10 DEF Screens
<1>15. /\ r \in Screens
       /\ r.at = next
       /\ r.cursor = s.cursor
       /\ seen =>
            /\ r.needs_left_pad <=> next.row # s.at.row
            /\ next.row # s.at.row => r.terminal = Place(Put(s).row + 1, 0)
            /\ next.row = s.at.row => ch # Newline /\ r.terminal = Echo(Put(s), ch)
            /\ r.cells = s.cells \cup {Cell(b, hl, i, s)}
       /\ ~ seen =>
            /\ r.needs_left_pad = s.needs_left_pad
            /\ r.terminal = s.terminal
            /\ r.cells = s.cells
  BY <1>3, <1>8, <1>11, <1>12, <1>13, <1>14
<1> QED BY <1>15 DEF r, ch, next, seen, Sends

LEMMA TrackFacts ==
  ASSUME NEW b \in Buffer, NEW i \in 0 .. Len(b.data) - 1, NEW s \in Screens
  PROVE  LET r == TrackCursor(b, i, s)
         IN  /\ r \in Screens
             /\ r.at = s.at /\ r.needs_left_pad = s.needs_left_pad
             /\ r.terminal = s.terminal /\ r.cells = s.cells
             /\ r.cursor = IF i = b.gap_start
                           THEN Place(s.at.row - start_row(b), s.at.col) ELSE s.cursor
<1> DEFINE c == Place(s.at.row - start_row(b), s.at.col)
<1>1. s.at.row \in Nat /\ s.at.col \in Nat /\ start_row(b) \in Nat
  BY PutFacts, PlaceFacts, StartRow
<1>2. c \in [row : Int, col : Nat]
  BY <1>1 DEF Place
<1>3. TrackCursor(b, i, s) = IF i = b.gap_start THEN [s EXCEPT !.cursor = c] ELSE s
  BY DEF TrackCursor
<1> HIDE DEF c
<1>4. CASE i = b.gap_start
  BY <1>2, <1>3, <1>4 DEF Screens, c
<1>5. CASE i # b.gap_start
  BY <1>3, <1>5
<1> QED BY <1>4, <1>5

(* The frame, one index of the vector after another.                       *)
Turn(b, hl, i, s) ==
  IF InGap(b, i) THEN TrackCursor(b, i, s) ELSE DrawCharacter(b, hl, i, TrackCursor(b, i, s))

LEMMA FrameFacts ==
  ASSUME NEW b \in Buffer, NEW hl
  PROVE  \E f \in [0 .. Len(b.data) -> Screens] :
           /\ f[0] = Blank
           /\ \A k \in 1 .. Len(b.data) : f[k] = Turn(b, hl, k - 1, f[k - 1])
           /\ print_buffer(b, hl) = f[Len(b.data)]
<1> DEFINE n == Len(b.data)
           frame[k \in 0 .. n] ==
             IF k = 0 THEN Blank
             ELSE LET i == k - 1
                      tracked == TrackCursor(b, i, frame[i])
                  IN  IF InGap(b, i) THEN tracked ELSE DrawCharacter(b, hl, i, tracked)
           body == [k \in 1 .. n |-> [s \in Screens |-> Turn(b, hl, k - 1, s)]]
<1>1. n \in Nat
  BY BufferFacts
<1>2. Blank \in Screens
  BY CursorAssumption, ScreenAssumption DEF Blank, Screens, Place, Places, RowsAndColumns
<1>3. ASSUME NEW k \in 1 .. n, NEW s \in Screens PROVE Turn(b, hl, k - 1, s) \in Screens
  <2>1. k - 1 \in 0 .. Len(b.data) - 1
    BY <1>1
  <2> QED BY <2>1, TrackFacts, DrawFacts DEF Turn
<1>4. body \in [1 .. n -> [Screens -> Screens]]
  BY <1>3
<1>5. PICK f \in [0 .. n -> Screens] :
        f[0] = Blank /\ \A k \in 1 .. n : f[k] = body[k][f[k - 1]]
  <2> HIDE DEF body, n
  <2> QED BY <1>1, <1>2, <1>4, LoopExists
<1>6. ASSUME NEW k \in 1 .. n PROVE f[k] = Turn(b, hl, k - 1, f[k - 1])
  <2>1. k - 1 \in 0 .. n
    BY <1>1
  <2> QED BY <1>5, <2>1
<1>7. f = [k \in 0 .. n |->
             IF k = 0 THEN Blank
             ELSE LET i == k - 1
                      tracked == TrackCursor(b, i, f[i])
                  IN  IF InGap(b, i) THEN tracked ELSE DrawCharacter(b, hl, i, tracked)]
  <2>1. ASSUME NEW k \in 0 .. n, k # 0
        PROVE  f[k] = Turn(b, hl, k - 1, f[k - 1])
    <3>1. k \in 1 .. n
      BY <1>1, <2>1
    <3> QED BY <3>1, <1>6
  <2> QED BY <1>5, <2>1 DEF Turn
<1>8. frame = [k \in 0 .. n |->
             IF k = 0 THEN Blank
             ELSE LET i == k - 1
                      tracked == TrackCursor(b, i, frame[i])
                  IN  IF InGap(b, i) THEN tracked ELSE DrawCharacter(b, hl, i, tracked)]
  BY <1>7
<1>9. print_buffer(b, hl) = frame[n]
  BY DEF print_buffer
<1> HIDE DEF frame
<1>10. frame[0] = Blank /\ \A k \in 1 .. n : frame[k] = Turn(b, hl, k - 1, frame[k - 1])
  <2>1. 0 \in 0 .. n /\ \A k \in 1 .. n : k \in 0 .. n /\ k # 0
    BY <1>1
  <2> QED BY <1>8, <2>1 DEF Turn
<1> DEFINE S == { k \in Nat : k <= n => frame[k] \in Screens }
<1>11. 0 \in S
  BY <1>2, <1>10
<1>12. ASSUME NEW k \in Nat, k \in S PROVE k + 1 \in S
  <2> SUFFICES ASSUME k + 1 <= n PROVE frame[k + 1] \in Screens
    OBVIOUS
  <2>1. k + 1 \in 1 .. n /\ (k + 1) - 1 = k /\ k <= n
    BY <1>1
  <2>2. frame[k + 1] = Turn(b, hl, (k + 1) - 1, frame[(k + 1) - 1])
    BY <1>10, <2>1
  <2>3. frame[(k + 1) - 1] \in Screens
    BY <1>12, <2>1
  <2> QED BY <1>3, <2>1, <2>2, <2>3
<1>13. \A k \in 0 .. n : frame[k] \in Screens
  <2>1. Nat \subseteq S
    <3> HIDE DEF S
    <3> QED BY <1>11, <1>12, SetInduction
  <2> QED BY <1>1, <2>1
<1>14. DOMAIN frame = 0 .. n /\ frame = [k \in 0 .. n |-> frame[k]]
  BY <1>8
<1> QED BY <1>9, <1>10, <1>13, <1>14

-----------------------------------------------------------------------------
(* The loop against the layout.                                            *)

(* The characters of the text before index n of the vector.                *)
Before(b, n) ==
  IF n <= b.gap_start THEN n
  ELSE IF n <= b.gap_end THEN b.gap_start ELSE n - GapLen(b)

LEMMA BeforeFacts ==
  ASSUME NEW b \in Buffer, NEW n \in 0 .. Len(b.data) - 1
  PROVE  /\ n \in Nat /\ Len(b.data) \in Nat
         /\ Before(b, n) \in 0 .. TextLen(b) /\ Before(b, n + 1) \in 0 .. TextLen(b)
         /\ n = b.gap_start => Before(b, n) = b.gap_start
         /\ InGap(b, n) => Before(b, n + 1) = Before(b, n)
         /\ ~ InGap(b, n) =>
              /\ logical_index(b, n) = Before(b, n)
              /\ Before(b, n + 1) = Before(b, n) + 1
              /\ serialize_buffer(b)[Before(b, n) + 1] = b.data[n + 1]
              /\ LayoutOf(b)[Before(b, n) + 1] =
                   After(LayoutOf(b)[Before(b, n)], b.data[n + 1])
<1> DEFINE k == Before(b, n)
<1>1. /\ b.gap_start \in Nat /\ b.gap_end \in Nat /\ b.gap_start <= b.gap_end
      /\ b.gap_end <= Len(b.data) /\ Len(b.data) \in Nat /\ TextLen(b) \in Nat
      /\ GapLen(b) = b.gap_end - b.gap_start /\ TextLen(b) = Len(b.data) - GapLen(b)
  BY BufferFacts DEF GapLen, TextLen
<1>2. n \in Nat /\ n < Len(b.data)
  BY <1>1
<1>3. k \in 0 .. TextLen(b) /\ Before(b, n + 1) \in 0 .. TextLen(b)
  <2>1. \A m \in 0 .. Len(b.data) : Before(b, m) \in 0 .. TextLen(b)
    BY <1>1 DEF Before
  <2> QED BY <1>2, <2>1
<1>4. n = b.gap_start => k = b.gap_start
  BY DEF Before
<1>5. InGap(b, n) => Before(b, n + 1) = k
  BY <1>1, <1>2 DEF Before, InGap
<1>6. ASSUME ~ InGap(b, n)
      PROVE  /\ logical_index(b, n) = k
             /\ Before(b, n + 1) = k + 1
             /\ serialize_buffer(b)[k + 1] = b.data[n + 1]
             /\ LayoutOf(b)[k + 1] = After(LayoutOf(b)[k], b.data[n + 1])
  <2>1. /\ logical_index(b, n) = k
        /\ Before(b, n + 1) = k + 1
        /\ k + 1 <= b.gap_start => n = k
        /\ ~ (k + 1 <= b.gap_start) => n + 1 = (k + 1) + GapLen(b)
    BY <1>1, <1>2, <1>6 DEF Before, InGap, logical_index
  <2>2. k + 1 \in 1 .. TextLen(b) /\ (k + 1) - 1 = k
    BY <1>1, <1>3, <2>1
  <2> HIDE DEF k
  <2>3. serialize_buffer(b)[k + 1] =
          IF k + 1 <= b.gap_start THEN b.data[k + 1] ELSE b.data[(k + 1) + GapLen(b)]
    BY <2>2, TextFacts
  <2>4. serialize_buffer(b)[k + 1] = b.data[n + 1]
    BY <2>1, <2>3
  <2>5. LayoutOf(b)[k + 1] = After(LayoutOf(b)[k], serialize_buffer(b)[k + 1])
    BY <2>2, LayoutOfFacts
  <2> QED BY <2>1, <2>4, <2>5
<1> QED BY <1>1, <1>2, <1>3, <1>4, <1>5, <1>6

LEMMA BeforeEnds ==
  ASSUME NEW b \in Buffer
  PROVE  Before(b, 0) = 0 /\ Before(b, Len(b.data)) = TextLen(b)
BY BufferFacts DEF Before, GapLen, TextLen

(* What the loop has counted before index n.                               *)
Counted(b, n, s) ==
  /\ s.at = LayoutOf(b)[Before(b, n)]
  /\ s.cursor = IF n > b.gap_start
                THEN Place(LayoutOf(b)[b.gap_start].row - start_row(b),
                           LayoutOf(b)[b.gap_start].col)
                ELSE Place(0, 0)

LEMMA TurnCounts ==
  ASSUME NEW b \in Buffer, NEW hl, NEW n \in 0 .. Len(b.data) - 1, NEW s \in Screens,
         Counted(b, n, s)
  PROVE  Counted(b, n + 1, Turn(b, hl, n, s))
<1> DEFINE u == TrackCursor(b, n, s)
           r == Turn(b, hl, n, s)
           L == LayoutOf(b)
           c == Place(L[b.gap_start].row - start_row(b), L[b.gap_start].col)
<1>1. /\ n \in Nat /\ b.gap_start \in Nat /\ Before(b, n) \in Nat
      /\ n = b.gap_start => Before(b, n) = b.gap_start
      /\ InGap(b, n) => Before(b, n + 1) = Before(b, n)
      /\ ~ InGap(b, n) =>
           /\ logical_index(b, n) = Before(b, n)
           /\ Before(b, n + 1) = Before(b, n) + 1
           /\ L[Before(b, n) + 1] = After(L[Before(b, n)], b.data[n + 1])
  BY BeforeFacts, BufferFacts
<1>2. /\ u \in Screens /\ u.at = s.at /\ u.cells = s.cells
      /\ u.cursor = IF n = b.gap_start
                    THEN Place(s.at.row - start_row(b), s.at.col) ELSE s.cursor
  BY TrackFacts
<1>3. InGap(b, n) => r = u
  BY DEF Turn
<1>4. ~ InGap(b, n) =>
        r.at = After(u.at, b.data[n + 1]) /\ r.cursor = u.cursor
  BY <1>2, DrawFacts DEF Turn
<1>5. /\ s.at = L[Before(b, n)]
      /\ s.cursor = IF n > b.gap_start THEN c ELSE Place(0, 0)
  BY DEF Counted
<1> HIDE DEF u, r, L
<1>6. r.at = L[Before(b, n + 1)]
  BY <1>1, <1>2, <1>3, <1>4, <1>5
<1>7. r.cursor = IF n + 1 > b.gap_start THEN c ELSE Place(0, 0)
  <2>1. r.cursor = u.cursor
    BY <1>3, <1>4
  <2>2. CASE n = b.gap_start
    BY <1>1, <1>2, <1>5, <2>1, <2>2
  <2>3. CASE n # b.gap_start
    <3>1. n + 1 > b.gap_start <=> n > b.gap_start
      BY <1>1, <2>3
    <3> QED BY <1>2, <1>5, <2>1, <2>3, <3>1
  <2> QED BY <2>2, <2>3
<1> QED BY <1>6, <1>7 DEF Counted, r, L

(* A tab goes to the next tab stop of the text area.                       *)
Aligned(t) == LeftPad % TabStop = 0 \/ \A i \in 1 .. Len(t) : t[i] # Tab

(* Where the terminal's cursor is before index n, once the first row shown *)
(* is near.                                                                *)
Padded(b, n, s) ==
  LET at == LayoutOf(b)[Before(b, n)]
  IN  /\ at.row < start_row(b) => s.needs_left_pad /\ s.terminal = Place(TopPad, 0)
      /\ Visible(b, at.row) =>
           /\ s.needs_left_pad <=> at.col = 0
           /\ s.terminal = Place(TopPad + at.row - start_row(b),
                                 IF s.needs_left_pad THEN 0 ELSE LeftPad + at.col)

(* A character of a visible row is sent to where the layout has it.        *)
LaidOutAt(b, p) ==
  Place(TopPad + LayoutOf(b)[p].row - start_row(b), LeftPad + LayoutOf(b)[p].col)

LEMMA PutWhereLaidOut ==
  ASSUME NEW b \in Buffer, NEW n \in 0 .. Len(b.data) - 1, NEW s \in Screens,
         Padded(b, n, s), Visible(b, LayoutOf(b)[Before(b, n)].row)
  PROVE  Put(s) = LaidOutAt(b, Before(b, n))
<1> DEFINE at == LayoutOf(b)[Before(b, n)]
           row == TopPad + at.row - start_row(b)
<1>1. at.col \in Nat /\ LeftPad \in Nat
  BY BeforeFacts, LayoutOfFacts, PlaceFacts, ScreenAssumption
<1>2. /\ s.needs_left_pad <=> at.col = 0
      /\ s.terminal = Place(row, IF s.needs_left_pad THEN 0 ELSE LeftPad + at.col)
  BY DEF Padded
<1>3. Put(s) = Place(row, LeftPad + at.col)
  <2> HIDE DEF at, row
  <2> QED BY <1>1, <1>2 DEF Put, Place
<1> QED BY <1>3 DEF LaidOutAt

(* The column the terminal goes to is the one the loop counts.             *)
LEMMA EchoWhereLaidOut ==
  ASSUME NEW at \in RowsAndColumns, NEW ch, NEW row, ch # Newline,
         ch = Tab => LeftPad % TabStop = 0, After(at, ch).row = at.row
  PROVE  Echo(Place(row, LeftPad + at.col), ch) = Place(row, LeftPad + After(at, ch).col)
<1>1. at.col \in Nat /\ at.row \in Nat /\ LeftPad \in Nat /\ TabStop \in Nat \ {0}
  BY PlaceFacts, ScreenAssumption, CursorAssumption
<1>2. CASE ch = Tab
  <2> DEFINE col == at.col + (TabStop - (at.col % TabStop))
  <2>1. ((LeftPad + at.col) \div TabStop + 1) * TabStop = LeftPad + col
    BY <1>1, <1>2, TabStops
  <2>2. After(at, ch) = Wrapped(at.row, col)
    BY <1>2 DEF After
  <2> HIDE DEF col
  <2>3. After(at, ch).col = col
    BY <1>1, <2>2 DEF Wrapped
  <2> QED BY <1>2, <2>1, <2>3 DEF Echo, Place
<1>3. CASE ch # Tab
  <2>1. After(at, ch) = Wrapped(at.row, at.col + 1)
    BY <1>3 DEF After
  <2>2. After(at, ch).col = at.col + 1
    BY <1>1, <2>1 DEF Wrapped
  <2>3. (LeftPad + at.col) + 1 = LeftPad + (at.col + 1)
    BY <1>1
  <2> QED BY <1>3, <2>2, <2>3 DEF Echo, Place
<1> QED BY <1>2, <1>3

LEMMA TurnPads ==
  ASSUME NEW b \in Buffer, NEW hl, NEW n \in 0 .. Len(b.data) - 1, NEW s \in Screens,
         Aligned(serialize_buffer(b)), Counted(b, n, s), Padded(b, n, s)
  PROVE  Padded(b, n + 1, Turn(b, hl, n, s))
<1> DEFINE u == TrackCursor(b, n, s)
           r == Turn(b, hl, n, s)
           at == LayoutOf(b)[Before(b, n)]
           next == LayoutOf(b)[Before(b, n + 1)]
           ch == b.data[n + 1]
           k == Before(b, n)
<1>1. /\ u \in Screens /\ u.at = at /\ u.needs_left_pad = s.needs_left_pad
      /\ u.terminal = s.terminal
  BY TrackFacts DEF Counted
<1>2. CASE InGap(b, n)
  <2>1. Before(b, n + 1) = Before(b, n) /\ r = u
    BY <1>2, BeforeFacts DEF Turn
  <2> QED BY <1>1, <2>1 DEF Padded
<1>3. CASE ~ InGap(b, n)
  <2>1. next = After(at, ch) /\ at \in RowsAndColumns
    BY <1>3, BeforeFacts, LayoutOfFacts
  <2>2. at.row \in Nat /\ at.col \in Nat /\ start_row(b) \in Nat /\ TopPad \in Nat
        /\ TerEndY \in Nat \ {0}
    BY <2>1, PlaceFacts, StartRow, ScreenAssumption
  <2>3. next \in RowsAndColumns /\ next.row \in {at.row, at.row + 1}
        /\ (next.row = at.row + 1 => next.col = 0) /\ (next.row = at.row => next.col > at.col)
        /\ next.col \in Nat
    BY <2>1, AfterFacts, PlaceFacts
  <2>4. Padded(b, n, u) /\ (Visible(b, at.row) => Put(u) = LaidOutAt(b, Before(b, n)))
    <3>1. Padded(b, n, u)
      BY <1>1 DEF Padded
    <3> QED BY <1>1, <3>1, PutWhereLaidOut
  <2>5. ch = Tab => LeftPad % TabStop = 0
    <3>1. k \in 0 .. TextLen(b) /\ Before(b, n + 1) = k + 1 /\ k + 1 \in 0 .. TextLen(b)
          /\ serialize_buffer(b)[k + 1] = ch
      BY <1>3, BeforeFacts
    <3>2. k + 1 \in 1 .. Len(serialize_buffer(b))
      <4> HIDE DEF k
      <4> QED BY <3>1, TextFacts, BufferFacts
    <3> QED BY <3>1, <3>2 DEF Aligned
  <2>6. r = DrawCharacter(b, hl, n, u)
    BY <1>3 DEF Turn
  <2> HIDE DEF u, r, at, next, ch
  <2>7. /\ Visible(b, at.row) =>
             /\ r.needs_left_pad <=> next.row # at.row
             /\ next.row # at.row => r.terminal = Place(Put(u).row + 1, 0)
             /\ next.row = at.row => ch # Newline /\ r.terminal = Echo(Put(u), ch)
        /\ ~ Visible(b, at.row) =>
             /\ r.needs_left_pad = u.needs_left_pad
             /\ r.terminal = u.terminal
    <3> DEFINE after == After(u.at, b.data[n + 1])
    <3>1. /\ Visible(b, u.at.row) =>
               /\ r.needs_left_pad <=> after.row # u.at.row
               /\ after.row # u.at.row => r.terminal = Place(Put(u).row + 1, 0)
               /\ after.row = u.at.row =>
                    b.data[n + 1] # Newline /\ r.terminal = Echo(Put(u), b.data[n + 1])
          /\ ~ Visible(b, u.at.row) =>
               /\ r.needs_left_pad = u.needs_left_pad
               /\ r.terminal = u.terminal
      <4>1. Sends(b, hl, n, u, r)
        BY <1>1, <2>6, DrawFacts
      <4> QED BY <4>1 DEF Sends
    <3> QED BY <1>1, <2>1, <3>1 DEF ch
  <2>8. /\ at.row < start_row(b) => u.needs_left_pad /\ u.terminal = Place(TopPad, 0)
        /\ Visible(b, at.row) =>
             Put(u) = Place(TopPad + at.row - start_row(b), LeftPad + at.col)
    BY <2>4 DEF Padded, LaidOutAt, at
  <2>9. ASSUME next.row < start_row(b)
        PROVE  r.needs_left_pad /\ r.terminal = Place(TopPad, 0)
    <3>1. at.row < start_row(b) /\ ~ Visible(b, at.row)
      BY <2>2, <2>3, <2>9 DEF Visible
    <3> QED BY <2>7, <2>8, <3>1
  <2>10. ASSUME Visible(b, next.row)
         PROVE  /\ r.needs_left_pad <=> next.col = 0
                /\ r.terminal = Place(TopPad + next.row - start_row(b),
                                      IF r.needs_left_pad THEN 0 ELSE LeftPad + next.col)
    <3>1. CASE Visible(b, at.row) /\ next.row = at.row
      <4>1. Echo(Put(u), ch) = Place(TopPad + at.row - start_row(b), LeftPad + next.col)
        BY <2>1, <2>5, <2>7, <2>8, <3>1, EchoWhereLaidOut
      <4>2. ~ r.needs_left_pad /\ next.col # 0
        BY <2>2, <2>3, <2>7, <3>1
      <4> QED BY <2>7, <3>1, <4>1, <4>2
    <3>2. CASE Visible(b, at.row) /\ next.row # at.row
      <4>1. next.row = at.row + 1 /\ next.col = 0 /\ r.needs_left_pad
        BY <2>3, <2>7, <3>2
      <4>2. Put(u).row = TopPad + at.row - start_row(b)
        BY <2>8, <3>2 DEF Place
      <4>3. Put(u).row + 1 = TopPad + next.row - start_row(b)
        BY <2>2, <4>1, <4>2
      <4> QED BY <2>7, <3>2, <4>1, <4>3
    <3>3. CASE ~ Visible(b, at.row)
      <4>1. at.row < start_row(b) /\ next.row = start_row(b) /\ next.col = 0
        BY <2>2, <2>3, <2>10, <3>3 DEF Visible
      <4>2. r.needs_left_pad /\ r.terminal = Place(TopPad, 0)
        BY <2>7, <2>8, <3>3, <4>1
      <4>3. TopPad + next.row - start_row(b) = TopPad
        BY <2>2, <4>1
      <4> QED BY <4>1, <4>2, <4>3
    <3> QED BY <3>1, <3>2, <3>3
  <2> QED BY <2>9, <2>10 DEF Padded, r, next
<1> QED BY <1>2, <1>3

(* The characters of the rows shown, among the first k of the text, where  *)
(* the layout has them.                                                    *)
Seen(b, k) == { q \in 0 .. k - 1 : Visible(b, LayoutOf(b)[q].row) }

CellOf(b, hl, p) ==
  [char |-> serialize_buffer(b)[p + 1], at |-> LaidOutAt(b, p), lit |-> IsHighlighted(hl, p)]

CellsUpTo(b, hl, k) == { CellOf(b, hl, p) : p \in Seen(b, k) }

LEMMA TurnDraws ==
  ASSUME NEW b \in Buffer, NEW hl, NEW n \in 0 .. Len(b.data) - 1, NEW s \in Screens,
         Counted(b, n, s), Padded(b, n, s), s.cells = CellsUpTo(b, hl, Before(b, n))
  PROVE  Turn(b, hl, n, s).cells = CellsUpTo(b, hl, Before(b, n + 1))
<1> DEFINE u == TrackCursor(b, n, s)
           r == Turn(b, hl, n, s)
           k == Before(b, n)
           seen == Visible(b, LayoutOf(b)[k].row)
<1>1. /\ u \in Screens /\ u.at = LayoutOf(b)[k] /\ u.needs_left_pad = s.needs_left_pad
      /\ u.terminal = s.terminal /\ u.cells = s.cells
  BY TrackFacts DEF Counted
<1>2. CASE InGap(b, n)
  <2>1. Before(b, n + 1) = Before(b, n) /\ r = u
    BY <1>2, BeforeFacts DEF Turn
  <2> QED BY <1>1, <2>1
<1>3. CASE ~ InGap(b, n)
  <2>1. /\ Before(b, n + 1) = k + 1 /\ k \in Nat /\ logical_index(b, n) = k
        /\ serialize_buffer(b)[k + 1] = b.data[n + 1]
    BY <1>3, BeforeFacts
  <2>2. seen => Put(u) = LaidOutAt(b, k)
    <3>1. Padded(b, n, u)
      BY <1>1 DEF Padded
    <3> QED BY <1>1, <3>1, PutWhereLaidOut
  <2>3. r = DrawCharacter(b, hl, n, u)
    BY <1>3 DEF Turn
  <2> HIDE DEF u, r, k
  <2>4. /\ seen => r.cells = u.cells \cup {Cell(b, hl, n, u)}
        /\ ~ seen => r.cells = u.cells
    <3>1. Sends(b, hl, n, u, r)
      BY <1>1, <2>3, DrawFacts
    <3> QED BY <1>1, <3>1 DEF Sends
  <2>5. seen => Cell(b, hl, n, u) = CellOf(b, hl, k)
    BY <2>1, <2>2 DEF Cell, CellOf
  <2>6. r.cells = s.cells \cup (IF seen THEN {CellOf(b, hl, k)} ELSE {})
    BY <1>1, <2>4, <2>5
  <2>7. Seen(b, k + 1) = Seen(b, k) \cup (IF seen THEN {k} ELSE {})
    <3>1. 0 .. (k + 1) - 1 = (0 .. k - 1) \cup {k}
      BY <2>1
    <3> QED BY <3>1 DEF Seen
  <2>8. CellsUpTo(b, hl, k + 1) =
          CellsUpTo(b, hl, k) \cup (IF seen THEN {CellOf(b, hl, k)} ELSE {})
    BY <2>7 DEF CellsUpTo
  <2> QED BY <2>1, <2>6, <2>8 DEF k, r
<1> QED BY <1>2, <1>3

(* The frame of a buffer and a selection.                                  *)
LEMMA FrameLaidOut ==
  ASSUME NEW b \in Buffer, NEW hl
  PROVE  LET s == print_buffer(b, hl)
             t == serialize_buffer(b)
         IN  /\ s \in Screens
             /\ Counted(b, Len(b.data), s)
             /\ Aligned(t) => s.cells = CellsUpTo(b, hl, TextLen(b))
<1> DEFINE n == Len(b.data)
           t == serialize_buffer(b)
           Kept(k, s) == /\ Counted(b, k, s)
                         /\ Aligned(t) => /\ Padded(b, k, s)
                                          /\ s.cells = CellsUpTo(b, hl, Before(b, k))
<1>1. PICK f \in [0 .. n -> Screens] :
        /\ f[0] = Blank
        /\ \A k \in 1 .. n : f[k] = Turn(b, hl, k - 1, f[k - 1])
        /\ print_buffer(b, hl) = f[n]
  BY FrameFacts
<1>2. n \in Nat /\ Before(b, n) = TextLen(b) /\ Before(b, 0) = 0
  BY BufferFacts, BeforeEnds
<1>3. Kept(0, Blank)
  <2>1. /\ LayoutOf(b)[0] = Place(0, 0) /\ b.gap_start \in Nat /\ start_row(b) \in Nat
        /\ TopPad \in Nat
    BY LayoutOfFacts, BufferFacts, StartRow, ScreenAssumption
  <2>2. Counted(b, 0, Blank)
    BY <1>2, <2>1 DEF Counted, Blank
  <2>3. Padded(b, 0, Blank)
    <3>1. Visible(b, 0) => TopPad + 0 - start_row(b) = TopPad
      BY <2>1 DEF Visible
    <3> QED BY <1>2, <2>1, <3>1 DEF Padded, Blank, Place
  <2>4. Blank.cells = {} /\ CellsUpTo(b, hl, 0) = {}
    BY DEF Blank, CellsUpTo, Seen
  <2> QED BY <1>2, <2>2, <2>3, <2>4
<1>4. ASSUME NEW k \in 0 .. n - 1, NEW s \in Screens, Kept(k, s)
      PROVE  Kept(k + 1, Turn(b, hl, k, s))
  BY <1>4, TurnCounts, TurnPads, TurnDraws
<1> DEFINE S == { k \in Nat : k <= n => Kept(k, f[k]) }
<1> HIDE DEF Kept
<1>5. 0 \in S
  BY <1>1, <1>3
<1>6. ASSUME NEW k \in Nat, k \in S PROVE k + 1 \in S
  <2> SUFFICES ASSUME k + 1 <= n PROVE Kept(k + 1, f[k + 1])
    OBVIOUS
  <2>1. k \in 0 .. n - 1 /\ k \in 0 .. n /\ k + 1 \in 1 .. n /\ (k + 1) - 1 = k /\ k <= n
    BY <1>2
  <2>2. f[k] \in Screens /\ Kept(k, f[k])
    BY <1>1, <1>6, <2>1
  <2>3. f[k + 1] = Turn(b, hl, k, f[k])
    BY <1>1, <2>1
  <2> QED BY <1>4, <2>1, <2>2, <2>3
<1>7. Kept(n, f[n]) /\ f[n] \in Screens
  <2>1. Nat \subseteq S
    <3> HIDE DEF S
    <3> QED BY <1>5, <1>6, SetInduction
  <2>2. n \in 0 .. n
    BY <1>2
  <2> QED BY <1>1, <1>2, <2>1, <2>2
<1> QED BY <1>1, <1>2, <1>7 DEF Kept

-----------------------------------------------------------------------------
(* Theorems.                                                               *)

(* Where the cursor is shown: where the layout has the cursor's position,  *)
(* or at the top when the loop has not come to the gap.                    *)
LEMMA CursorFacts ==
  ASSUME TypeOK
  PROVE  LET b  == gap_buffer
             at == LayoutOf(b)[b.gap_start]
         IN  /\ b.gap_start < Len(b.data) =>
                  CursorShown(b, highligter) = LaidOutAt(b, b.gap_start)
             /\ b.gap_start = Len(b.data) =>
                  CursorShown(b, highligter) = Place(TopPad, LeftPad)
             /\ at.row \in Nat /\ at.col \in 0 .. TerEndX - 1
             /\ Visible(b, at.row) /\ start_row(b) \in Nat
             /\ b.gap_start \in Nat /\ b.gap_start <= Len(b.data)
<1> DEFINE b  == gap_buffer
           at == LayoutOf(b)[b.gap_start]
           found == Shown.cursor
<1>1. b \in Buffer /\ b.gap_start \in Nat /\ b.gap_start <= Len(b.data) /\ Len(b.data) \in Nat
  BY BufferFacts, SMTT(30) DEF TypeOK
<1>2. /\ at.row \in Nat /\ at.col \in 0 .. TerEndX - 1
      /\ Visible(b, at.row) /\ start_row(b) \in Nat
  BY <1>1, StartRow DEF RowsAndColumns
<1>3. found = IF Len(b.data) > b.gap_start
              THEN Place(at.row - start_row(b), at.col) ELSE Place(0, 0)
  BY <1>1, FrameLaidOut DEF Shown, Counted
<1>4. CursorShown(b, highligter) = Place(TopPad + found.row, LeftPad + found.col)
  BY DEF CursorShown, Shown
<1>5. TopPad \in Nat /\ LeftPad \in Nat
  BY ScreenAssumption
<1> HIDE DEF b, at, found
<1>6. ASSUME b.gap_start < Len(b.data)
      PROVE  CursorShown(b, highligter) = Place(TopPad + at.row - start_row(b), LeftPad + at.col)
  <2>1. found = Place(at.row - start_row(b), at.col)
    BY <1>1, <1>3, <1>6
  <2>2. TopPad + (at.row - start_row(b)) = TopPad + at.row - start_row(b)
    BY <1>2, <1>5
  <2> QED BY <1>4, <2>1, <2>2 DEF Place
<1>7. ASSUME b.gap_start = Len(b.data)
      PROVE  CursorShown(b, highligter) = Place(TopPad, LeftPad)
  BY <1>1, <1>3, <1>4, <1>5, <1>7 DEF Place
<1> QED BY <1>1, <1>2, <1>6, <1>7 DEF LaidOutAt, b, at

(* In every state a key leaves behind, the cursor is shown inside the text *)
(* area (start_row, view_service.cpp).                                     *)
THEOREM CursorInArea == Spec => []CursorOnScreen
<1>1. TypeOK => CursorOnScreen
  <2> SUFFICES ASSUME TypeOK PROVE CursorOnScreen
    OBVIOUS
  <2> DEFINE b  == gap_buffer
             at == LayoutOf(b)[b.gap_start]
             shown == CursorShown(b, highligter)
  <2>1. /\ b.gap_start < Len(b.data) => shown = LaidOutAt(b, b.gap_start)
        /\ b.gap_start = Len(b.data) => shown = Place(TopPad, LeftPad)
        /\ at.row \in Nat /\ at.col \in 0 .. TerEndX - 1
        /\ Visible(b, at.row) /\ start_row(b) \in Nat
        /\ b.gap_start < Len(b.data) \/ b.gap_start = Len(b.data)
    <3>1. b \in Buffer /\ b.gap_start \in Nat /\ Len(b.data) \in Nat
      BY BufferFacts, SMTT(30) DEF TypeOK
    <3> QED BY <3>1, CursorFacts
  <2>2. /\ TopPad \in Nat /\ LeftPad \in Nat /\ TerEndY \in Nat \ {0} /\ TerEndX \in Nat \ {0}
    BY ScreenAssumption, CursorAssumption
  <2> HIDE DEF b, at, shown
  <2>3. shown.row \in TopPad .. TopPad + TerEndY - 1 /\ shown.col \in LeftPad .. LeftPad + TerEndX - 1
    <3>1. CASE b.gap_start < Len(b.data)
      <4>1. shown.row = TopPad + at.row - start_row(b) /\ shown.col = LeftPad + at.col
        BY <2>1, <3>1 DEF LaidOutAt, Place, at
      <4> QED BY <2>1, <2>2, <4>1, SMTT(30) DEF Visible
    <3>2. CASE b.gap_start = Len(b.data)
      BY <2>1, <2>2, <3>2 DEF Place
    <3> QED BY <2>1, <3>1, <3>2
  <2> QED BY <2>3 DEF CursorOnScreen, shown, b
<1> QED BY <1>1, TypeCorrect, PTL

(* The frame of the editor, in the terms of the properties.                *)
LEMMA TextLaidOut ==
  ASSUME TypeOK, TabsAligned
  PROVE  /\ Shown.cells = { [char |-> text[p + 1], at |-> LaidOut(p),
                             lit |-> IsHighlighted(highligter, p)] : p \in InSight }
         /\ \A p : LaidOutAt(gap_buffer, p) = LaidOut(p)
<1>1. gap_buffer \in Buffer /\ Aligned(serialize_buffer(gap_buffer))
  BY DEF TypeOK, TabsAligned, Aligned, text
<1>2. Shown.cells = CellsUpTo(gap_buffer, highligter, TextLen(gap_buffer))
  BY <1>1, FrameLaidOut DEF Shown
<1>3. TextLen(gap_buffer) = Len(text)
  BY TextAndCursor
<1>4. Seen(gap_buffer, Len(text)) = InSight
  BY DEF Seen, InSight, LayoutOf, text
<1>5. \A p : LaidOutAt(gap_buffer, p) = LaidOut(p)
  BY DEF LaidOutAt, LaidOut, LayoutOf, text
<1> QED BY <1>2, <1>3, <1>4, <1>5 DEF CellsUpTo, CellOf, text

(* In every state a key leaves behind, the rows shown hold exactly the     *)
(* characters the layout puts there, where it puts them (print_buffer).    *)
THEOREM RowsHoldText == Spec => []TextInPlace
<1>1. TypeOK => TextInPlace
  <2> SUFFICES ASSUME TypeOK, TabsAligned
               PROVE  { <<cell.char, cell.at>> : cell \in Shown.cells } =
                      { <<text[p + 1], LaidOut(p)>> : p \in InSight }
    BY DEF TextInPlace
  <2> DEFINE drawn(p) == [char |-> text[p + 1], at |-> LaidOut(p),
                          lit |-> IsHighlighted(highligter, p)]
  <2>1. Shown.cells = { drawn(p) : p \in InSight }
    BY TextLaidOut
  <2>2. \A p : drawn(p).char = text[p + 1] /\ drawn(p).at = LaidOut(p)
    OBVIOUS
  <2> HIDE DEF drawn
  <2> QED BY <2>1, <2>2
<1> QED BY <1>1, TypeCorrect, PTL

(* In every state a key leaves behind, exactly the places of the           *)
(* characters between the ends of the selection are highlighted, whatever  *)
(* the gap does to their indices (print_buffer, view_service.cpp:153).     *)
THEOREM HighlightShown == Spec => []HighlightIsSelection
<1>1. TypeOK => HighlightIsSelection
  <2> DEFINE chosen == { q \in InSight : /\ highligter.active
                                         /\ Selected.from <= q /\ q < Selected.to }
             s == highligter.start
             e == highligter.end
             m == Len(text)
  <2> SUFFICES ASSUME TypeOK, TabsAligned
               PROVE  { cell.at : cell \in { c \in Shown.cells : c.lit } } =
                      { LaidOut(p) : p \in chosen }
    BY DEF HighlightIsSelection
  <2> DEFINE drawn(p) == [char |-> text[p + 1], at |-> LaidOut(p),
                          lit |-> IsHighlighted(highligter, p)]
  <2>1. Shown.cells = { drawn(p) : p \in InSight }
    BY TextLaidOut
  <2>2. \A p : drawn(p).at = LaidOut(p) /\ drawn(p).lit = IsHighlighted(highligter, p)
    OBVIOUS
  <2>3. ASSUME NEW p \in InSight
        PROVE  IsHighlighted(highligter, p) <=> p \in chosen
    <3>1. p \in 0 .. m - 1 /\ m \in Nat /\ s \in Nat /\ e \in Nat
      BY TextAndCursor DEF InSight, TypeOK
    <3>2. /\ Selected.from = (IF s <= e THEN s ELSE e)
          /\ Selected.to = IF (IF s <= e THEN e ELSE s) > m THEN m ELSE (IF s <= e THEN e ELSE s)
      BY DEF Selected
    <3> HIDE DEF s, e, m
    <3>3. (s <= p /\ p < e) \/ (e <= p /\ p < s) <=> Selected.from <= p /\ p < Selected.to
      BY <3>1, <3>2
    <3> QED BY <3>3 DEF IsHighlighted, s, e
  <2> HIDE DEF drawn, chosen
  <2>4. chosen \subseteq InSight
    BY DEF chosen
  <2> QED BY <2>1, <2>2, <2>3, <2>4
<1> QED BY <1>1, TypeCorrect, PTL

(* In every state a key leaves behind, the cursor is shown where the       *)
(* layout has the character it stands before, which is drawn there.        *)
THEOREM CursorOverText == Spec => []CursorOverNextCharacter
<1>1. TypeOK => CursorOverNextCharacter
  <2> DEFINE at == CursorShown(gap_buffer, highligter)
  <2> SUFFICES ASSUME TypeOK, TabsAligned, cursor < Len(text)
               PROVE  /\ at = LaidOut(cursor)
                      /\ \E cell \in Shown.cells :
                           cell.char = text[cursor + 1] /\ cell.at = at
    BY DEF CursorOverNextCharacter
  <2>1. /\ gap_buffer \in Buffer /\ TextLen(gap_buffer) = Len(text)
        /\ cursor \in 0 .. Len(text) - 1 /\ cursor < Len(gap_buffer.data)
    <3>1. /\ gap_buffer \in Buffer /\ TextLen(gap_buffer) = Len(text) /\ Len(text) \in Nat
          /\ cursor \in Nat /\ Len(gap_buffer.data) \in Nat
      BY TextAndCursor
    <3>2. TextLen(gap_buffer) <= Len(gap_buffer.data)
      BY <3>1, BufferFacts DEF TextLen
    <3> QED BY <3>1, <3>2
  <2>2. at = LaidOut(cursor) /\ Visible(gap_buffer, Layout(text)[cursor].row)
    BY <2>1, CursorFacts, TextLaidOut DEF cursor, LayoutOf, text
  <2>3. cursor \in InSight
    BY <2>1, <2>2 DEF InSight
  <2>4. PICK cell \in Shown.cells :
          cell = [char |-> text[cursor + 1], at |-> LaidOut(cursor),
                  lit |-> IsHighlighted(highligter, cursor)]
    BY <2>3, TextLaidOut
  <2>5. cell.char = text[cursor + 1] /\ cell.at = LaidOut(cursor)
    BY <2>4
  <2> QED BY <2>2, <2>5
<1> QED BY <1>1, TypeCorrect, PTL
=============================================================================
