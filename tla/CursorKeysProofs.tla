--------------------------- MODULE CursorKeysProofs ---------------------------
(***************************************************************************)
(* Theorems about module CursorKeys: movement keys in texts of any length, *)
(* for a text area of any width.                                           *)
(***************************************************************************)
EXTENDS CursorKeys, CursorProofs

LEMMA EmptyTextStart ==
  ASSUME NEW t \in Texts
  PROVE  t \in Seq(Char) /\ 0 \in 0 .. Len(t)
BY TextsAssumption, LenProperties DEF Text

(* The cursor stays between two characters of the text, whatever keys are  *)
(* pressed.                                                                *)
THEOREM TypeCorrect == Spec => []TypeOK
<1>1. Init => TypeOK
  BY EmptyTextStart DEF Init, TypeOK
<1>2. TypeOK /\ [Next]_kvars => TypeOK'
  <2> SUFFICES ASSUME TypeOK, [Next]_kvars PROVE TypeOK'
    OBVIOUS
  <2>1. text \in Seq(Char) /\ cursor \in 0 .. Len(text)
    BY EmptyTextStart DEF TypeOK
  <2>2. ASSUME NEW key \in Arrows, NEW ctrl \in BOOLEAN, Press(key, ctrl) PROVE TypeOK'
    BY <2>1, <2>2, ArrowTargetInText DEF Press, TypeOK
  <2>3. CASE UNCHANGED kvars
    BY <2>3 DEF kvars, TypeOK
  <2> QED BY <2>2, <2>3 DEF Next
<1> QED BY <1>1, <1>2, PTL DEF Spec

(* Down never moves the cursor back.                                       *)
THEOREM DownGoesForward == Spec => DownNeverGoesBack
<1>1. ASSUME TypeOK, Press("Down", FALSE) PROVE cursor' >= cursor
  <2>1. text \in Seq(Char) /\ cursor \in 0 .. Len(text) /\ Len(text) \in Nat
    BY <1>1, EmptyTextStart, LenProperties DEF TypeOK
  <2>2. cursor' = CursorDown(text, cursor)
    BY <1>1 DEF Press, ArrowTarget
  <2>3. cursor' \in cursor .. Len(text)
    BY <2>1, <2>2, CursorDownFacts
  <2> QED BY <2>1, <2>3
<1>2. TypeOK /\ [Next]_kvars => [Press("Down", FALSE) => cursor' >= cursor]_kvars
  BY <1>1
<1> QED BY <1>2, TypeCorrect, PTL DEF Spec, DownNeverGoesBack

(* From the start c of a word, the next space on the right has no space    *)
(* before it back to c.                                                    *)
LEMMA WordMovesReturn ==
  ASSUME NEW t \in Seq(Char), NEW c \in 0 .. Len(t), c < Len(t), t[c + 1] # Space,
         c = 0 \/ t[c] = Space
  PROVE  WordLeft(t, WordRight(t, c)) = c
<1> DEFINE R == {Len(t)} \cup { p \in c + 1 .. Len(t) - 1 : t[p + 1] = Space }
           r == WordRight(t, c)
           L == {0} \cup { p \in 1 .. r - 1 : t[p] = Space }
<1>1. c \in Nat /\ Len(t) \in Nat
  BY LenProperties
<1>2. r = Min(R)
  BY <1>1 DEF WordRight
<1>3. R \subseteq Nat /\ R # {} /\ R \subseteq c + 1 .. Len(t)
  BY <1>1
<1>4. r \in R /\ \A p \in R : r <= p
  BY <1>2, <1>3, MinIsLeast
<1>5. r \in c + 1 .. Len(t)
  BY <1>3, <1>4
<1> HIDE DEF r
<1>6. WordLeft(t, r) = Max(L)
  BY <1>1, <1>5 DEF WordLeft
<1>7. c \in L
  BY <1>1, <1>5
<1>8. ASSUME NEW p \in L PROVE p <= c
  <2> SUFFICES ASSUME p > c PROVE FALSE
    BY <1>1, <1>5
  <2>1. p \in 1 .. r - 1 /\ t[p] = Space /\ p # c + 1
    BY <1>1
  <2>2. p - 1 \in c + 1 .. Len(t) - 1 /\ (p - 1) + 1 = p
    BY <1>1, <1>5, <2>1
  <2>3. p - 1 \in R
    BY <2>1, <2>2
  <2> HIDE DEF R
  <2>4. r <= p - 1
    BY <1>4, <2>3
  <2> QED BY <1>1, <1>5, <2>1, <2>4
<1>9. L \subseteq 0 .. Len(t) /\ L # {}
  BY <1>1, <1>5
<1>10. Max(L) \in L /\ \A p \in L : p <= Max(L)
  BY <1>1, <1>9, MaxIsGreatest
<1> HIDE DEF L
<1>11. Max(L) <= c /\ c <= Max(L) /\ Max(L) \in Nat
  <2>1. Max(L) <= c
    BY <1>8, <1>10
  <2>2. c <= Max(L)
    BY <1>7, <1>10
  <2>3. Max(L) \in 0 .. Len(t)
    BY <1>9, <1>10
  <2> QED BY <1>1, <2>1, <2>2, <2>3
<1>12. Max(L) = c
  BY <1>1, <1>11
<1> QED BY <1>6, <1>12 DEF r

(* Ctrl+Right and then Ctrl+Left from the start of a word come back to it. *)
THEOREM WordsReturn == Spec => []WordRightThenLeftReturns
<1>1. TypeOK => WordRightThenLeftReturns
  BY EmptyTextStart, WordMovesReturn DEF TypeOK, WordRightThenLeftReturns
<1> QED BY <1>1, TypeCorrect, PTL


(* The column the movement keys compute (get_col_on_line) is the one       *)
(* print_buffer draws, in every text, when no tab stands before the cursor *)
(* on its line.                                                            *)
THEOREM ColumnIsDrawn == Spec => []ColumnIsDrawnWithoutTabs
<1>1. TypeOK => ColumnIsDrawnWithoutTabs
  <2> SUFFICES ASSUME TypeOK, \A i \in LineStart(text, cursor) + 1 .. cursor : text[i] # Tab
               PROVE  get_col_on_line(text, cursor) % TerEndX = Col
    BY DEF ColumnIsDrawnWithoutTabs
  <2>1. text \in Seq(Char) /\ cursor \in 0 .. Len(text)
    BY EmptyTextStart DEF TypeOK
  <2>2. get_col_on_line(text, cursor) = cursor - LineStart(text, cursor)
    BY <2>1, ColumnWithoutTabs
  <2>3. Layout(text)[cursor].col = (cursor - LineStart(text, cursor)) % TerEndX
    BY <2>1, ColumnDrawnWithoutTabs
  <2> QED BY <2>2, <2>3 DEF Col
<1> QED BY <1>1, TypeCorrect, PTL

(* Where the line goes on for a full row, the segment moves of Down and Up *)
(* undo each other.                                                        *)
THEOREM DownUpReturns == Spec => []DownThenUpReturns
<1>1. TypeOK => DownThenUpReturns
  <2> SUFFICES ASSUME TypeOK, TabFree, LineEnd(text, cursor) - cursor >= TerEndX
               PROVE  CursorUp(text, CursorDown(text, cursor)) = cursor
    BY DEF DownThenUpReturns
  <2> DEFINE d == cursor + TerEndX
             s == LineStart(text, cursor)
  <2>1. /\ text \in Seq(Char) /\ cursor \in 0 .. Len(text) /\ Len(text) \in Nat
        /\ cursor \in Nat /\ TerEndX \in Nat \ {0}
    BY EmptyTextStart, LenProperties, CursorAssumption DEF TypeOK
  <2>2. CursorDown(text, cursor) = d
    BY DEF CursorDown
  <2>3. /\ LineEnd(text, cursor) \in cursor .. Len(text)
        /\ \A p \in cursor + 1 .. LineEnd(text, cursor) : text[p] # Newline
    BY <2>1, LineEndFacts
  <2>4. d \in 0 .. Len(text) /\ d # 0 /\ d - TerEndX = cursor
    BY <2>1, <2>3
  <2>5. \A p \in cursor + 1 .. d : text[p] # Newline
    BY <2>1, <2>3
  <2>6. /\ s \in 0 .. cursor /\ (s = 0 \/ text[s] = Newline)
        /\ \A p \in s + 1 .. cursor : text[p] # Newline
    BY <2>1, LineStartFacts
  <2>7. s \in 0 .. d /\ \A p \in s + 1 .. d : p \in s + 1 .. cursor \/ p \in cursor + 1 .. d
    BY <2>1, <2>6
  <2>8. LineStart(text, d) = s
    <3>1. \A p \in s + 1 .. d : text[p] # Newline
      BY <2>5, <2>6, <2>7
    <3> HIDE DEF d, s
    <3> QED BY <2>1, <2>4, <2>6, <2>7, <3>1, LineStartIs
  <2>9. get_col_on_line(text, d) = d - s
    <3>1. \A i \in LineStart(text, d) + 1 .. d : text[i] # Tab
      <4>1. \A i \in s + 1 .. d : i \in 1 .. Len(text)
        BY <2>1, <2>4, <2>6
      <4> QED BY <2>8, <4>1 DEF TabFree
    <3> QED BY <2>1, <2>4, <2>8, <3>1, ColumnWithoutTabs
  <2>10. d - s >= TerEndX
    BY <2>1, <2>6
  <2> HIDE DEF d
  <2>11. CursorUp(text, d) = IF d - TerEndX > s THEN d - TerEndX ELSE s
    BY <2>4, <2>8, <2>9, <2>10 DEF CursorUp
  <2>12. CursorUp(text, d) = cursor
    BY <2>1, <2>4, <2>6, <2>11
  <2> QED BY <2>2, <2>12 DEF d
<1> QED BY <1>1, TypeCorrect, PTL


-----------------------------------------------------------------------------
(* Up and Down as the user sees them.                                      *)

(* A position is at column col of row r, or at the end of that row, when   *)
(* it is in the row, not right of col, and is at col or has no position of *)
(* the row after it.                                                       *)
LEMMA RowReached ==
  ASSUME text \in Seq(Char), NEW p \in 0 .. Len(text), NEW r \in Nat, NEW col \in Nat,
         Layout(text)[p].row = r, Layout(text)[p].col <= col,
         \/ Layout(text)[p].col = col
         \/ p = Len(text)
         \/ p < Len(text) /\ Layout(text)[p + 1].row > r
  PROVE  IsAt(p, r, col)
<1> DEFINE L == Layout(text)
<1>1. p \in Nat /\ Len(text) \in Nat
  BY LenProperties
<1>2. \A q \in 0 .. Len(text) : L[q].row \in Nat /\ L[q].col \in Nat
  <2>1. \A q \in 0 .. Len(text) : L[q] \in RowsAndColumns
    BY LayoutFacts
  <2> QED BY <2>1, CursorAssumption DEF RowsAndColumns
<1>3. ASSUME NEW q \in 0 .. Len(text), L[q].row = r, L[q].col <= col PROVE q <= p
  <2> SUFFICES ASSUME p < q PROVE FALSE
    BY <1>1
  <2>1. q \in p .. Len(text) /\ p # q
    BY <1>1
  <2>2. L[p].col < L[q].col
    BY <1>3, <2>1, RowsGoDown
  <2>3. ~ (L[p].col = col)
    BY <1>2, <1>3, <2>2
  <2>4. p + 1 \in 0 .. Len(text) /\ q \in p + 1 .. Len(text)
    BY <1>1, <2>1
  <2>5. L[p + 1].row <= L[q].row
    BY <2>4, RowsGoDown
  <2>6. ~ (L[p + 1].row > r)
    BY <1>2, <1>3, <2>4, <2>5
  <2> QED BY <1>1, <2>1, <2>3, <2>6
<1> QED BY <1>3 DEF IsAt

(* Where the cursor is, in a text without tabs.                            *)
LEMMA CursorPlace ==
  ASSUME text \in Seq(Char), cursor \in 0 .. Len(text), TabFree,
         NEW s, s = LineStart(text, cursor)
  PROVE  /\ s \in 0 .. cursor /\ s \in 0 .. Len(text)
         /\ s = 0 \/ text[s] = Newline
         /\ \A p \in s + 1 .. cursor : text[p] # Newline
         /\ Layout(text)[s].row \in Nat
         /\ Row = Layout(text)[s].row + ((cursor - s) \div TerEndX)
         /\ Col = (cursor - s) % TerEndX
<1>1. cursor \in Nat /\ Len(text) \in Nat
  BY LenProperties
<1>2. /\ s \in 0 .. cursor /\ (s = 0 \/ text[s] = Newline)
      /\ \A p \in s + 1 .. cursor : text[p] # Newline
  BY LineStartFacts
<1>3. s \in 0 .. Len(text)
  BY <1>1, <1>2
<1>4. Layout(text)[s] \in RowsAndColumns
  BY <1>3, LayoutFacts
<1>5. \A i \in s + 1 .. cursor : text[i] # Tab
  BY <1>1, <1>2 DEF TabFree
<1>6. /\ Layout(text)[cursor].row = Layout(text)[s].row + ((cursor - s) \div TerEndX)
      /\ Layout(text)[cursor].col = (cursor - s) % TerEndX
  BY <1>5, ColumnDrawnWithoutTabs
<1> QED BY <1>2, <1>3, <1>4, <1>6 DEF RowsAndColumns, Row, Col

(* Up goes to the row above, at the same column or at the end of the row,  *)
(* in every text without tabs and for every width of the area.             *)
THEOREM UpOneRow == Spec => UpGoesOneRowUp
<1>1. ASSUME TypeOK, Press("Up", FALSE), TabFree, Row > 0
      PROVE  IsAt(cursor', Row - 1, Col)
  <2> DEFINE L == Layout(text)
             c == cursor
             X == TerEndX
  <2>1. /\ text \in Seq(Char) /\ c \in 0 .. Len(text) /\ Len(text) \in Nat
        /\ c \in Nat /\ c <= Len(text) /\ X \in Nat \ {0}
    BY <1>1, EmptyTextStart, LenProperties, CursorAssumption DEF TypeOK
  <2>2. cursor' = CursorUp(text, c)
    BY <1>1 DEF Press, ArrowTarget
  <2>3. PICK s : s = LineStart(text, c)
    OBVIOUS
  <2>4. /\ s \in 0 .. c /\ s \in 0 .. Len(text) /\ (s = 0 \/ text[s] = Newline)
        /\ \A p \in s + 1 .. c : text[p] # Newline
        /\ L[s].row \in Nat
        /\ Row = L[s].row + ((c - s) \div X) /\ Col = (c - s) % X
    BY <1>1, <2>1, <2>3, CursorPlace
  <2>5. \A i \in 1 .. Len(text) : text[i] # Tab
    BY <1>1 DEF TabFree
  <2>6. L[s].col = 0 /\ (s = 0 => L[s].row = 0) /\ (s # 0 => L[s].row = L[s - 1].row + 1)
    BY <2>1, <2>4, LineStartDrawn
  <2>s. PICK b \in Nat : b = L[s].row
    BY <2>4
  <2> HIDE DEF L, c, X
  <2>n. PICK n \in Nat : n = c - s /\ s \in Nat
    BY <2>1, <2>4
  <2>q. PICK q \in Nat : q = n \div X
    BY <2>1, Division
  <2>r. PICK r \in 0 .. X - 1 : r = n % X
    BY <2>1, Division
  <2>7. Row = b + q /\ Col = r /\ Row - 1 \in Nat
    BY <1>1, <2>4, <2>s, <2>n, <2>q, <2>r
  <2>8. CASE n >= X
    <3>1. CursorUp(text, c) = c - X
      BY <2>1, <2>3, <2>5, <2>8, <2>n, UpWithoutTabs DEF c, X
    <3>2. /\ c - X \in 0 .. Len(text) /\ c - X \in s .. Len(text)
          /\ (c - X) - s = n - X /\ n - X \in Nat
          /\ \A p \in s + 1 .. c - X : p \in s + 1 .. c /\ p \in 1 .. Len(text)
      BY <2>1, <2>4, <2>8, <2>n
    <3>3. /\ L[c - X].row = b + ((n - X) \div X)
          /\ L[c - X].col = (n - X) % X
      <4>1. \A p \in s + 1 .. c - X : text[p] # Newline /\ text[p] # Tab
        BY <2>4, <2>5, <3>2
      <4> QED BY <2>1, <2>4, <2>6, <2>s, <3>2, <4>1, PlaceOnLine, ZenonT(30) DEF L, X
    <3>4. (n - X) \div X = q - 1 /\ (n - X) % X = r
      <4>1. PICK j \in Nat : j = n - X
        BY <3>2
      <4>2. n = j + X
        BY <2>1, <4>1
      <4>3. n \div X = (j \div X) + 1 /\ n % X = j % X
        BY <2>1, <4>2, DivisionForward
      <4>4. PICK jq \in Nat : jq = j \div X
        BY <2>1, Division
      <4>5. jq = q - 1
        BY <2>q, <4>3, <4>4
      <4> QED BY <2>r, <4>1, <4>3, <4>4, <4>5
    <3>5. L[c - X].row = Row - 1 /\ L[c - X].col = Col
      BY <2>7, <3>3, <3>4
    <3>6. L[c - X].col <= Col
      BY <2>7, <3>5
    <3> QED BY <2>1, <2>2, <2>7, <3>1, <3>2, <3>5, <3>6, RowReached DEF L, c
  <2>9. CASE ~ (n >= X)
    <3>1. n < X /\ q = 0 /\ r = n
      <4>1. n \in 0 .. X - 1 /\ n = 0 * X + n
        BY <2>1, <2>9
      <4>2. n \div X = 0 /\ n % X = n
        BY <2>1, <4>1, DivisionUnique
      <4> QED BY <2>1, <2>9, <2>q, <2>r, <4>2
    <3>2. s > 0 /\ s # 0 /\ s - 1 \in 0 .. Len(text) /\ s - 1 \in Nat /\ (s - 1) + 1 = s
      <4>1. s # 0
        BY <1>1, <2>6, <2>7, <2>s, <3>1
      <4>2. s \in Nat /\ s <= Len(text) /\ s > 0
        BY <2>1, <2>4, <2>n, <4>1
      <4> QED BY <2>1, <4>2
    <3>3. PICK a : a = LineStart(text, s - 1)
      OBVIOUS
    <3>4. PICK e \in Nat : e = s - 1 /\ e \in 0 .. Len(text) /\ e < Len(text)
      <4>1. s <= Len(text) /\ s \in Nat
        BY <2>1, <2>4, <2>n
      <4> QED BY <2>1, <3>2, <4>1
    <3>5. /\ a \in 0 .. e /\ (a = 0 \/ text[a] = Newline)
          /\ \A p \in a + 1 .. e : text[p] # Newline
      BY <2>1, <3>3, <3>4, LineStartFacts
    <3>6. a \in Nat /\ a \in 0 .. Len(text) /\ e \in a .. Len(text) /\ a <= e
      BY <2>1, <3>4, <3>5
    <3>7. PICK m \in Nat : m = e - a
      BY <3>6, <3>4
    <3>8. PICK mq \in Nat : mq = m \div X
      BY <2>1, Division
    <3>9. PICK mr \in 0 .. X - 1 : mr = m % X
      BY <2>1, Division
    <3>10. m = mq * X + mr /\ mq * X \in Nat
      BY <2>1, <3>8, <3>9, Division
    <3>11. CursorUp(text, c) = a + (IF mq * X + n > m THEN m ELSE mq * X + n)
      BY <2>1, <2>3, <2>5, <2>n, <3>1, <3>2, <3>3, <3>4, <3>7, <3>8, UpWithoutTabs, ZenonT(30) DEF c, X
    <3>12. L[a].col = 0 /\ L[a].row \in Nat
      <4>1. L[a] \in RowsAndColumns
        BY <2>1, <3>6, LayoutFacts DEF L
      <4> QED BY <2>1, <3>5, <3>6, <4>1, LineStartDrawn DEF L, RowsAndColumns
    <3>13. ASSUME NEW k \in 0 .. m
           PROVE  /\ a + k \in 0 .. Len(text)
                  /\ L[a + k].row = L[a].row + (k \div X)
                  /\ L[a + k].col = k % X
      <4>1. /\ a + k \in a .. Len(text) /\ a + k \in 0 .. Len(text) /\ (a + k) - a = k
            /\ \A p \in a + 1 .. a + k : p \in a + 1 .. e /\ p \in 1 .. Len(text)
        BY <2>1, <3>4, <3>6, <3>7
      <4>2. \A p \in a + 1 .. a + k : text[p] # Newline /\ text[p] # Tab
        BY <2>5, <3>5, <4>1
      <4> QED BY <2>1, <3>6, <3>12, <4>1, <4>2, PlaceOnLine, ZenonT(30) DEF L, X
    <3>14. L[a].row + mq = Row - 1
      <4>1. m \in 0 .. m /\ a + m = e
        BY <3>4, <3>6, <3>7
      <4>2. L[e].row = L[a].row + mq
        BY <3>8, <3>13, <4>1
      <4>3. b = L[e].row + 1
        BY <2>6, <2>s, <3>2, <3>4
      <4> QED BY <2>7, <3>1, <3>8, <3>12, <4>2, <4>3
    <3>15. CASE mq * X + n > m
      <4>1. CursorUp(text, c) = a + m /\ a + m = e /\ m \in 0 .. m
        BY <3>4, <3>6, <3>7, <3>11, <3>15
      <4>2. L[e].row = Row - 1 /\ L[e].col = mr
        BY <3>8, <3>9, <3>13, <3>14, <4>1
      <4>3. mr <= Col
        BY <2>7, <3>1, <3>9, <3>10, <3>15
      <4>4. L[e + 1].row > Row - 1
        <5>1. e + 1 = s
          BY <3>2, <3>4
        <5>2. L[e + 1].row = b /\ Row - 1 = b - 1
          BY <2>s, <2>7, <3>1, <5>1
        <5> QED BY <2>s, <5>2
      <4> QED BY <2>1, <2>2, <2>7, <3>4, <4>1, <4>2, <4>3, <4>4, RowReached DEF L, c
    <3>16. CASE ~ (mq * X + n > m)
      <4>1. PICK k \in 0 .. m : k = mq * X + n
        BY <3>7, <3>10, <3>16
      <4>2. k \in Nat /\ n \in 0 .. X - 1
        BY <2>1, <3>1, <3>7, <4>1
      <4>3. k \div X = mq /\ k % X = n
        BY <2>1, <4>1, <4>2, DivisionUnique
      <4>4. CursorUp(text, c) = a + k
        BY <3>11, <3>16, <4>1
      <4>5. a + k \in 0 .. Len(text) /\ L[a + k].row = Row - 1 /\ L[a + k].col = Col
        BY <2>7, <3>1, <3>13, <3>14, <4>1, <4>3
      <4>6. L[a + k].col <= Col
        BY <2>7, <4>5
      <4> QED BY <2>1, <2>2, <2>7, <4>4, <4>5, <4>6, RowReached DEF L, c
    <3> QED BY <3>15, <3>16
  <2> QED BY <2>8, <2>9
<1>2. TypeOK /\ [Next]_kvars
        => [Press("Up", FALSE) /\ TabFree /\ Row > 0 => IsAt(cursor', Row - 1, Col)]_kvars
  BY <1>1
<1> QED BY <1>2, TypeCorrect, PTL DEF Spec, UpGoesOneRowUp


(* Down keeps the column drawn, going one row down within a line and from  *)
(* the first row of a line to that of the next (move_cursor_down), or goes *)
(* to the end of the text, in every text without tabs and for every width  *)
(* of the area.                                                            *)
THEOREM DownOneRow == Spec => DownKeepsColumn
<1> DEFINE end == LineEnd(text, cursor)
           row == Layout(text)[end + 1].row
           firstRow == Row = Layout(text)[LineStart(text, cursor)].row
           Target ==
             IF end - cursor >= TerEndX THEN IsAt(cursor', Row + 1, Col)
             ELSE IF end = Len(text) THEN cursor' = Len(text)
             ELSE firstRow => IsAt(cursor', row, Col)
<1>1. ASSUME TypeOK, Press("Down", FALSE), TabFree PROVE Target
  <2> DEFINE L == Layout(text)
             c == cursor
             X == TerEndX
  <2>1. /\ text \in Seq(Char) /\ c \in 0 .. Len(text) /\ Len(text) \in Nat
        /\ c \in Nat /\ c <= Len(text) /\ X \in Nat \ {0}
    BY <1>1, EmptyTextStart, LenProperties, CursorAssumption DEF TypeOK
  <2>2. cursor' = CursorDown(text, c)
    BY <1>1 DEF Press, ArrowTarget
  <2>3. PICK s : s = LineStart(text, c)
    OBVIOUS
  <2>4. /\ s \in 0 .. c /\ s \in 0 .. Len(text) /\ (s = 0 \/ text[s] = Newline)
        /\ \A p \in s + 1 .. c : text[p] # Newline
        /\ L[s].row \in Nat
        /\ Row = L[s].row + ((c - s) \div X) /\ Col = (c - s) % X
    BY <1>1, <2>1, <2>3, CursorPlace
  <2>5. \A i \in 1 .. Len(text) : text[i] # Tab
    BY <1>1 DEF TabFree
  <2>6. L[s].col = 0
    BY <2>1, <2>4, LineStartDrawn
  <2>s. PICK b \in Nat : b = L[s].row
    BY <2>4
  <2>e. PICK e \in Nat : e = LineEnd(text, c) /\ e \in c .. Len(text)
    BY <2>1, LineEndFacts
  <2>7. /\ e # Len(text) => text[e + 1] = Newline
        /\ \A p \in c + 1 .. e : text[p] # Newline
    BY <2>1, <2>e, LineEndFacts
  <2> HIDE DEF L, c, X
  <2>n. PICK n \in Nat : n = c - s /\ s \in Nat
    BY <2>1, <2>4
  <2>q. PICK q \in Nat : q = n \div X
    BY <2>1, Division
  <2>r. PICK r \in 0 .. X - 1 : r = n % X
    BY <2>1, Division
  <2>8. Row = b + q /\ Col = r /\ r \in Nat
    BY <2>1, <2>4, <2>s, <2>n, <2>q, <2>r
  <2>9. CASE e - c >= X
    <3>1. CursorDown(text, c) = c + X
      BY <2>9, <2>e DEF CursorDown, c, X
    <3>2. /\ c + X \in 0 .. Len(text) /\ c + X \in s .. Len(text)
          /\ (c + X) - s = n + X /\ n + X \in Nat
          /\ \A p \in s + 1 .. c + X : /\ p \in s + 1 .. c \/ p \in c + 1 .. e
                                       /\ p \in 1 .. Len(text)
      <4>1. c + X \in Nat /\ c + X <= e /\ e <= Len(text) /\ s <= c /\ s \in Nat
        BY <2>1, <2>4, <2>9, <2>n, <2>e, SMTT(30)
      <4>2. c + X \in 0 .. Len(text) /\ c + X \in s .. Len(text)
        BY <2>1, <4>1
      <4>3. (c + X) - s = n + X /\ n + X \in Nat
        BY <2>1, <2>n
      <4>4. ASSUME NEW p \in s + 1 .. c + X
            PROVE  (p \in s + 1 .. c \/ p \in c + 1 .. e) /\ p \in 1 .. Len(text)
        BY <2>1, <4>1
      <4> QED BY <4>2, <4>3, <4>4
    <3>3. /\ L[c + X].row = b + ((n + X) \div X)
          /\ L[c + X].col = (n + X) % X
      <4>1. \A p \in s + 1 .. c + X : text[p] # Newline /\ text[p] # Tab
        BY <2>4, <2>5, <2>7, <3>2
      <4> QED BY <2>1, <2>4, <2>6, <2>s, <3>2, <4>1, PlaceOnLine, ZenonT(30) DEF L, X
    <3>4. (n + X) \div X = q + 1 /\ (n + X) % X = r
      BY <2>1, <2>q, <2>r, DivisionForward
    <3>5. L[c + X].row = Row + 1 /\ L[c + X].col = Col /\ Row + 1 \in Nat
      <4>1. b + (q + 1) = (b + q) + 1
        OBVIOUS
      <4> QED BY <2>8, <3>3, <3>4, <4>1
    <3>6. L[c + X].col <= Col
      BY <2>8, <3>5
    <3>7. IsAt(cursor', Row + 1, Col)
      BY <2>1, <2>2, <2>8, <3>1, <3>2, <3>5, <3>6, RowReached DEF L, c
    <3> QED BY <2>9, <2>e, <3>7 DEF c, X
  <2>10. CASE ~ (e - c >= X) /\ e = Len(text)
    <3>1. CursorDown(text, c) = e
      BY <2>10, <2>e DEF CursorDown, c, X
    <3> QED BY <2>2, <2>10, <2>e, <3>1 DEF c, X
  <2>11. CASE ~ (e - c >= X) /\ e # Len(text)
    <3>1. PICK w \in Nat : w = e + 1 /\ w \in 0 .. Len(text) /\ w \in 1 .. Len(text)
      BY <2>1, <2>e, <2>11
    <3>2. /\ LineEnd(text, w) \in w .. Len(text)
          /\ LineEnd(text, w) # Len(text) => text[LineEnd(text, w) + 1] = Newline
          /\ \A p \in w + 1 .. LineEnd(text, w) : text[p] # Newline
      BY <2>1, <3>1, LineEndFacts
    <3>3. PICK f \in Nat : f = LineEnd(text, w) /\ f \in w .. Len(text) /\ f \in 0 .. Len(text)
      BY <2>1, <3>1, <3>2
    <3>4. PICK room \in Nat : room = f - w /\ w + room = f
      BY <3>1, <3>3
    <3>5. CursorDown(text, c) = w + (IF n > room THEN room ELSE n)
      <4>1. e - c < X
        BY <2>1, <2>e, <2>11
      <4> QED BY <2>1, <2>3, <2>5, <2>e, <2>n, <2>11, <3>1, <3>3, <3>4, <4>1,
                 DownWithoutTabs DEF c, X
    <3>6. L[w].col = 0 /\ L[w].row \in Nat
      <4>1. L[w] \in RowsAndColumns
        BY <2>1, <3>1, LayoutFacts DEF L
      <4>2. text[w] = Newline
        BY <2>7, <2>11, <3>1
      <4> QED BY <2>1, <3>1, <4>1, <4>2, LineStartDrawn DEF L, RowsAndColumns
    <3>7. ASSUME NEW k \in 0 .. room
          PROVE  /\ w + k \in 0 .. Len(text)
                 /\ L[w + k].row = L[w].row + (k \div X)
                 /\ L[w + k].col = k % X
      <4>1. /\ w + k \in w .. Len(text) /\ w + k \in 0 .. Len(text) /\ (w + k) - w = k
            /\ \A p \in w + 1 .. w + k : p \in w + 1 .. f /\ p \in 1 .. Len(text)
        BY <2>1, <3>1, <3>3, <3>4
      <4>2. \A p \in w + 1 .. w + k : text[p] # Newline /\ text[p] # Tab
        BY <2>5, <3>2, <3>3, <4>1
      <4> QED BY <2>1, <3>1, <3>6, <4>1, <4>2, PlaceOnLine DEF L, X
    <3>8. PICK rq \in Nat : rq = room \div X
      BY <2>1, Division
    <3>9. PICK rr \in 0 .. X - 1 : rr = room % X
      BY <2>1, Division
    <3>10. L[f].row = L[w].row + rq /\ L[f].col = rr
      <4>1. room \in 0 .. room
        OBVIOUS
      <4> QED BY <3>4, <3>7, <3>8, <3>9, <4>1
    <3>11. PICK g \in Nat : g = L[w].row
      BY <3>6
    <3>12. row = g
      BY <2>e, <3>1, <3>11 DEF L, c
    <3>13. ASSUME firstRow PROVE IsAt(cursor', row, Col)
      <4>1. q = 0 /\ row = g + q /\ q <= rq
        <5>1. b + q = b
          BY <2>3, <2>8, <2>s, <3>13 DEF L, c
        <5> QED BY <3>12, <5>1
      <4>2. IsAt(cursor', row, Col)
        <5>1. row \in Nat
          BY <3>12
        <5> HIDE DEF row
        <5>2. CASE n <= room
          <6>1. CursorDown(text, c) = w + n /\ n \in 0 .. room
            BY <3>5, <5>2
          <6>2. /\ w + n \in 0 .. Len(text)
                /\ L[w + n].row = row /\ L[w + n].col = Col
            BY <2>8, <2>q, <2>r, <3>7, <3>11, <4>1, <6>1
          <6>3. L[w + n].col <= Col
            BY <2>8, <6>2
          <6> QED BY <2>1, <2>2, <2>8, <5>1, <6>1, <6>2, <6>3, RowReached DEF L, c
        <5>3. CASE n > room
          <6>1. CursorDown(text, c) = f
            BY <3>4, <3>5, <5>3
          <6>2. n = q * X + r
            BY <2>1, <2>q, <2>r, Division
          <6>3. rq <= q /\ (rq = q => rr < r)
            BY <2>1, <2>q, <2>r, <3>8, <3>9, <5>3, <6>2, DivisionBelow
          <6>4. rq = q /\ rr <= r
            BY <2>1, <4>1, <6>3
          <6>5. L[f].row = row /\ L[f].col <= Col
            BY <2>8, <3>10, <3>11, <4>1, <6>4
          <6>6. f = Len(text) \/ (f < Len(text) /\ L[f + 1].row > row)
            <7> SUFFICES ASSUME f # Len(text) PROVE f < Len(text) /\ L[f + 1].row > row
              OBVIOUS
            <7>1. f < Len(text) /\ f + 1 \in 0 .. Len(text) /\ f + 1 # 0 /\ (f + 1) - 1 = f
              BY <2>1, <3>3
            <7>2. text[f + 1] = Newline
              BY <3>2, <3>3
            <7>3. L[f + 1].row = L[f].row + 1
              BY <2>1, <7>1, <7>2, LineStartDrawn DEF L
            <7> QED BY <5>1, <6>5, <7>1, <7>3
          <6> QED BY <2>1, <2>2, <2>8, <3>3, <5>1, <6>1, <6>5, <6>6, RowReached DEF L, c
        <5> QED BY <5>2, <5>3
      <4> QED BY <4>2
    <3> HIDE DEF row, firstRow
    <3> QED BY <2>e, <2>11, <3>13 DEF c, X
  <2> QED BY <2>9, <2>10, <2>11
<1>2. TypeOK /\ [Next]_kvars => [Press("Down", FALSE) /\ TabFree => Target]_kvars
  <2> HIDE DEF Target
  <2> QED BY <1>1
<1> QED BY <1>2, TypeCorrect, PTL DEF Spec, DownKeepsColumn

(* Up goes forward within the first line only: if that line wraps, or if   *)
(* tabs before the cursor make the counted column larger than the one      *)
(* drawn; without tabs before the cursor, in row 0 of a wrapping line.     *)
THEOREM UpForwardAtTop == Spec => UpGoesForwardOnlyAtTop
<1> DEFINE wraps == \E p \in 0 .. LineEnd(text, 0) : Layout(text)[p].row > 0
           Target == /\ LineStart(text, cursor) = 0
                     /\ wraps \/ get_col_on_line(text, cursor) > Col
                     /\ (\A i \in 1 .. cursor : text[i] # Tab) => wraps /\ Row = 0
<1>1. ASSUME TypeOK, Press("Up", FALSE), cursor' > cursor PROVE Target
  <2> DEFINE L == Layout(text)
             s == LineStart(text, cursor)
             n == LineEnd(text, 0)
             col == get_col_on_line(text, cursor)
             width == ColumnsFrom(text, 0, n)[n]
             above == LineStart(text, IF s > 0 THEN s - 1 ELSE 0)
             wide == ColumnsFrom(text, above, LineEnd(text, above) - above)[LineEnd(text, above) - above]
             target == (wide \div TerEndX) * TerEndX + (col % TerEndX)
             goal == IF target > wide THEN wide ELSE target
  <2>1. /\ text \in Seq(Char) /\ cursor \in 0 .. Len(text) /\ Len(text) \in Nat
        /\ cursor \in Nat /\ cursor <= Len(text) /\ TerEndX \in Nat \ {0}
        /\ 0 \in 0 .. Len(text) /\ 0 \in Nat
    BY <1>1, EmptyTextStart, LenProperties, CursorAssumption DEF TypeOK
  <2>2. cursor' = CursorUp(text, cursor)
    BY <1>1 DEF Press, ArrowTarget
  <2>3. CursorUp(text, cursor) =
          IF cursor = 0 THEN cursor
          ELSE IF col >= TerEndX
          THEN IF cursor - TerEndX > s THEN cursor - TerEndX ELSE s
          ELSE WalkToColumn(text, above, goal)
    BY <2>1, CursorUpWalks
  <2>4. s \in 0 .. cursor /\ s \in Nat
    BY <2>1, LineStartFacts
  <2>5. col \in Nat
    BY <2>1, ColumnIsNatural
  <2> HIDE DEF s, col, goal, above
  <2>6. ~ (col >= TerEndX) /\ cursor # 0
    BY <1>1, <2>1, <2>2, <2>3, <2>4
  <2>7. cursor' = WalkToColumn(text, above, goal)
    BY <2>2, <2>3, <2>6
  <2>8. s = 0
    <3> SUFFICES ASSUME s > 0 PROVE FALSE
      BY <2>4
    <3>1. above = LineStart(text, s - 1)
      BY DEF above
    <3>2. s - 1 \in 0 .. Len(text) /\ s - 1 \in Nat /\ (s - 1) + 1 = s
      BY <2>1, <2>4
    <3>3. above \in 0 .. s - 1 /\ \A p \in above + 1 .. s - 1 : text[p] # Newline
      BY <2>1, <3>1, <3>2, LineStartFacts
    <3>4. text[s] = Newline
      BY <2>1, LineStartFacts DEF s
    <3>5. above \in 0 .. Len(text) /\ s - 1 \in above .. Len(text)
      BY <2>1, <3>2, <3>3
    <3>6. LineEnd(text, above) = s - 1
      BY <2>1, <3>2, <3>3, <3>4, <3>5, LineEndIs
    <3>7. WalkToColumn(text, above, goal) \in above .. s - 1
      BY <2>1, <3>5, <3>6, WalkFacts
    <3> QED BY <1>1, <2>1, <2>4, <2>7, <3>2, <3>3, <3>7
  <2>9. above = 0
    <3>1. above = LineStart(text, 0)
      BY <2>8 DEF above
    <3>2. LineStart(text, 0) \in 0 .. 0
      BY <2>1, LineStartFacts
    <3> QED BY <3>1, <3>2
  <2>10. /\ n \in 0 .. Len(text) /\ n \in Nat /\ n - 0 = n
         /\ \A p \in 1 .. n : text[p] # Newline
    BY <2>1, LineEndFacts
  <2>11. wraps \/ col > Col
    <3> SUFFICES ASSUME ~ wraps PROVE col > Col
      OBVIOUS
    <3>1. \A p \in 0 .. n : L[p].row = 0
      <4>1. \A p \in 0 .. n : L[p].row \in Nat
        <5>1. \A p \in 0 .. n : p \in 0 .. Len(text)
          BY <2>1, <2>10
        <5>2. \A p \in 0 .. Len(text) : L[p] \in RowsAndColumns
          BY <2>1, LayoutFacts
        <5> QED BY <5>1, <5>2 DEF RowsAndColumns
      <4> QED BY <4>1
    <3>2. \A k \in 0 .. n : /\ L[k].col = ColumnsFrom(text, 0, n)[k]
                            /\ ColumnsFrom(text, 0, n)[k] < TerEndX
      BY <2>1, <2>10, <3>1, ColumnsOnOneRow
    <3>3. ColumnsFrom(text, 0, n) \in [0 .. n -> Nat]
      BY <2>1, <2>10, ColumnsFromFacts
    <3>4. wide = width
      BY <2>9, <2>10
    <3> HIDE DEF n, wraps
    <3>5. width \in Nat /\ width < TerEndX
      BY <2>10, <3>2, <3>3
    <3> HIDE DEF wide, width
    <3>6. width \div TerEndX = 0
      <4>1. width \in 0 .. TerEndX - 1 /\ width = 0 * TerEndX + width
        BY <2>1, <3>5
      <4> QED BY <2>1, <3>5, <4>1, DivisionUnique
    <3>7. col % TerEndX = col
      <4>1. col \in 0 .. TerEndX - 1 /\ col = 0 * TerEndX + col
        BY <2>1, <2>5, <2>6
      <4> QED BY <2>1, <2>5, <4>1, DivisionUnique
    <3>8. goal = IF col > width THEN width ELSE col
      BY <2>1, <2>5, <3>4, <3>6, <3>7 DEF goal
    <3>9. goal \in Int /\ goal <= col
      BY <2>5, <3>5, <3>8
    <3>10. 0 + cursor < WalkToColumn(text, 0, goal)
      BY <1>1, <2>1, <2>7, <2>9
    <3>11. /\ cursor < LineEnd(text, 0) - 0
           /\ ColumnsFrom(text, 0, LineEnd(text, 0) - 0)[cursor] < goal
      BY <2>1, <3>9, <3>10, WalkPast
    <3>12. cursor \in 0 .. n /\ ColumnsFrom(text, 0, n)[cursor] < goal
      <4>1. n = LineEnd(text, 0)
        BY DEF n
      <4> QED BY <2>1, <2>10, <3>11, <4>1
    <3>13. Col = ColumnsFrom(text, 0, n)[cursor] /\ Col \in Nat
      BY <3>2, <3>3, <3>12 DEF Col
    <3> QED BY <2>5, <3>9, <3>12, <3>13
  <2>12. ASSUME \A i \in 1 .. cursor : text[i] # Tab PROVE wraps /\ Row = 0
    <3>1. \A i \in LineStart(text, cursor) + 1 .. cursor : text[i] # Tab
      BY <2>8, <2>12 DEF s
    <3>2. col = cursor
      <4>1. col = cursor - s
        BY <2>1, <3>1, ColumnWithoutTabs DEF s, col
      <4> QED BY <2>1, <2>8, <4>1
    <3>3. /\ Row = L[0].row + ((cursor - 0) \div TerEndX)
          /\ Col = (cursor - 0) % TerEndX
      BY <2>1, <2>8, <3>1, ColumnDrawnWithoutTabs DEF s, Row, Col
    <3>4. L[0].row = 0
      BY <2>1, LayoutFacts
    <3>5. cursor \div TerEndX = 0 /\ cursor % TerEndX = cursor
      <4>1. cursor \in 0 .. TerEndX - 1 /\ cursor = 0 * TerEndX + cursor
        BY <2>1, <2>5, <2>6, <3>2
      <4> QED BY <2>1, <4>1, DivisionUnique
    <3>6. cursor - 0 = cursor
      BY <2>1
    <3>7. Row = 0 /\ Col = cursor
      BY <3>3, <3>4, <3>5, <3>6
    <3>8. ~ (col > Col)
      BY <2>1, <3>2, <3>7
    <3> QED BY <2>11, <3>7, <3>8
  <2> QED BY <2>8, <2>11, <2>12 DEF s, col
<1>2. TypeOK /\ [Next]_kvars => [Press("Up", FALSE) /\ cursor' > cursor => Target]_kvars
  <2> HIDE DEF Target
  <2> QED BY <1>1
<1> QED BY <1>2, TypeCorrect, PTL DEF Spec, UpGoesForwardOnlyAtTop
=============================================================================
