----------------------------- MODULE CursorProofs -----------------------------
(***************************************************************************)
(* Every movement key leaves the cursor between two characters of the      *)
(* text, for every text, text area and tab stop.  These are the facts that *)
(* keep the loops of buffer_service.cpp inside the vector.                 *)
(***************************************************************************)
EXTENDS View, InductionLemmas

(* The beginning of a line is at or before the cursor, at the start of the *)
(* text or after a newline, with no newline in between.                    *)
LEMMA LineStartFacts ==
  ASSUME NEW t \in Seq(Char), NEW c \in 0 .. Len(t)
  PROVE  /\ LineStart(t, c) \in 0 .. c
         /\ LineStart(t, c) = 0 \/ t[LineStart(t, c)] = Newline
         /\ \A p \in LineStart(t, c) + 1 .. c : t[p] # Newline
<1> DEFINE S == {0} \cup { p \in 1 .. c : t[p] = Newline }
<1>1. c \in Nat /\ S \subseteq 0 .. c /\ S # {}
  BY LenProperties
<1>2. Max(S) \in S /\ \A k \in S : k <= Max(S)
  BY <1>1, MaxIsGreatest
<1>3. ASSUME NEW p \in Max(S) + 1 .. c PROVE t[p] # Newline
  <2>1. p \in 1 .. c /\ ~ (p <= Max(S))
    BY <1>1, <1>2
  <2> QED BY <1>2, <2>1
<1> QED BY <1>1, <1>2, <1>3 DEF LineStart

(* The end of a line is at or after the cursor, at the end of the text or  *)
(* before a newline, with no newline in between.                           *)
LEMMA LineEndFacts ==
  ASSUME NEW t \in Seq(Char), NEW c \in 0 .. Len(t)
  PROVE  /\ LineEnd(t, c) \in c .. Len(t)
         /\ LineEnd(t, c) # Len(t) => t[LineEnd(t, c) + 1] = Newline
         /\ \A p \in c + 1 .. LineEnd(t, c) : t[p] # Newline
<1> DEFINE S == {Len(t)} \cup { p \in c .. Len(t) - 1 : t[p + 1] = Newline }
<1>1. c \in Nat /\ Len(t) \in Nat /\ S \subseteq c .. Len(t) /\ S \subseteq Nat /\ S # {}
  BY LenProperties
<1>2. Min(S) \in S /\ \A k \in S : Min(S) <= k
  BY <1>1, MinIsLeast
<1>3. ASSUME NEW p \in c + 1 .. Min(S) PROVE t[p] # Newline
  <2>1. p - 1 \in c .. Len(t) - 1 /\ ~ (Min(S) <= p - 1) /\ (p - 1) + 1 = p
    BY <1>1, <1>2
  <2> QED BY <1>2, <2>1
<1> QED BY <1>1, <1>2, <1>3 DEF LineEnd

LEMMA WordLeftFacts ==
  ASSUME NEW t \in Seq(Char), NEW c \in 0 .. Len(t)
  PROVE  /\ WordLeft(t, c) \in 0 .. c
         /\ c # 0 => WordLeft(t, c) < c
<1>1. c \in Nat
  BY LenProperties
<1>2. CASE c = 0
  BY <1>2 DEF WordLeft
<1>3. CASE c # 0
  <2> DEFINE S == {0} \cup { p \in 1 .. c - 1 : t[p] = Space }
  <2>1. c - 1 \in Nat /\ S \subseteq 0 .. c - 1 /\ S # {}
    BY <1>1, <1>3
  <2>2. Max(S) \in S
    BY <2>1, MaxIsGreatest
  <2>3. WordLeft(t, c) = Max(S)
    BY <1>3 DEF WordLeft
  <2> QED BY <1>1, <2>1, <2>2, <2>3
<1> QED BY <1>2, <1>3

LEMMA WordRightFacts ==
  ASSUME NEW t \in Seq(Char), NEW c \in 0 .. Len(t)
  PROVE  /\ WordRight(t, c) \in c .. Len(t)
         /\ c # Len(t) => c < WordRight(t, c)
<1>1. c \in Nat /\ Len(t) \in Nat
  BY LenProperties
<1>2. CASE c = Len(t)
  BY <1>1, <1>2 DEF WordRight
<1>3. CASE c # Len(t)
  <2> DEFINE S == {Len(t)} \cup { p \in c + 1 .. Len(t) - 1 : t[p + 1] = Space }
  <2>1. S \subseteq c + 1 .. Len(t) /\ S \subseteq Nat /\ S # {}
    BY <1>1, <1>3
  <2>2. Min(S) \in S
    BY <2>1, MinIsLeast
  <2>3. WordRight(t, c) = Min(S)
    BY <1>3 DEF WordRight
  <2> QED BY <1>1, <2>1, <2>2, <2>3
<1> QED BY <1>2, <1>3

(* Walking to a column stays on the line.                                  *)
LEMMA WalkFacts ==
  ASSUME NEW t \in Seq(Char), NEW s \in 0 .. Len(t), NEW target
  PROVE  WalkToColumn(t, s, target) \in s .. LineEnd(t, s)
<1> DEFINE n == LineEnd(t, s) - s
           FromS(k) == t[s + k]
           col == ColumnsAfter(n, FromS)
           Stop(k) == \/ col[k] >= target
                      \/ t[s + k + 1] = Tab /\ AdvanceColumn(col[k], Tab) > target
           S == {n} \cup { k \in 0 .. n - 1 : Stop(k) }
<1>1. WalkToColumn(t, s, target) = s + Min(S)
  BY DEF WalkToColumn
<1>2. LineEnd(t, s) \in s .. Len(t) /\ s \in Nat /\ Len(t) \in Nat
  BY LineEndFacts, LenProperties
<1>3. n \in Nat /\ s + n = LineEnd(t, s)
  BY <1>2
<1> HIDE DEF n, Stop
<1>4. S \subseteq 0 .. n /\ S \subseteq Nat /\ S # {}
  BY <1>3
<1>5. Min(S) \in S
  BY <1>4, MinIsLeast
<1>6. Min(S) \in 0 .. n
  BY <1>4, <1>5
<1> HIDE DEF S
<1> QED BY <1>1, <1>2, <1>3, <1>6

LEMMA CursorUpFacts ==
  ASSUME NEW t \in Seq(Char), NEW c \in 0 .. Len(t)
  PROVE  CursorUp(t, c) \in 0 .. Len(t)
<1> DEFINE col   == get_col_on_line(t, c)
           start == LineStart(t, c)
           above == LineStart(t, IF start > 0 THEN start - 1 ELSE 0)
           n     == LineEnd(t, above) - above
           FromAbove(k) == t[above + k]
           width == ColumnsAfter(n, FromAbove)[n]
           lastSegment == (width \div TerEndX) * TerEndX
           target == lastSegment + (col % TerEndX)
           goal == IF target > width THEN width ELSE target
<1>1. CursorUp(t, c) = IF c = 0 THEN c
                       ELSE IF col >= TerEndX
                       THEN IF c - TerEndX > start THEN c - TerEndX ELSE start
                       ELSE WalkToColumn(t, above, goal)
  BY DEF CursorUp
<1>2. c \in Nat /\ Len(t) \in Nat /\ c <= Len(t) /\ TerEndX \in Nat
  BY LenProperties, CursorAssumption
<1>3. start \in 0 .. c
  BY LineStartFacts
<1>4. (IF start > 0 THEN start - 1 ELSE 0) \in 0 .. Len(t)
  BY <1>2, <1>3
<1> HIDE DEF start
<1>5. above \in 0 .. Len(t)
  <2> DEFINE p == IF start > 0 THEN start - 1 ELSE 0
  <2>1. p \in 0 .. Len(t)
    BY <1>4
  <2> HIDE DEF p
  <2>2. LineStart(t, p) \in 0 .. p
    BY <2>1, LineStartFacts
  <2>3. LineStart(t, p) \in 0 .. Len(t)
    BY <1>2, <2>1, <2>2
  <2> QED BY <2>3 DEF p
<1> HIDE DEF above, goal, col
<1>6. WalkToColumn(t, above, goal) \in 0 .. Len(t)
  <2>1. WalkToColumn(t, above, goal) \in above .. LineEnd(t, above)
    BY <1>5, WalkFacts
  <2>2. LineEnd(t, above) \in above .. Len(t)
    BY <1>5, LineEndFacts
  <2> QED BY <1>2, <1>5, <2>1, <2>2
<1>7. c - TerEndX > start => c - TerEndX \in 0 .. Len(t)
  BY <1>2, <1>3
<1>8. start \in 0 .. Len(t)
  BY <1>2, <1>3
<1> QED BY <1>1, <1>6, <1>7, <1>8

LEMMA CursorDownFacts ==
  ASSUME NEW t \in Seq(Char), NEW c \in 0 .. Len(t)
  PROVE  CursorDown(t, c) \in c .. Len(t)
<1> DEFINE col  == get_col_on_line(t, c)
           end  == LineEnd(t, c)
           next == end + 1
           room == LineEnd(t, next) - next
           S == {room} \cup { k \in 0 .. room : k >= col }
<1>1. CursorDown(t, c) = IF end - c >= TerEndX THEN c + TerEndX
                         ELSE IF end = Len(t) THEN end
                         ELSE next + Min(S)
  BY DEF CursorDown
<1>2. c \in Nat /\ Len(t) \in Nat /\ c <= Len(t) /\ TerEndX \in Nat
  BY LenProperties, CursorAssumption
<1>3. end \in c .. Len(t)
  BY LineEndFacts
<1> HIDE DEF end, col
<1>4. CASE end - c >= TerEndX
  BY <1>1, <1>2, <1>3, <1>4
<1>5. CASE ~ (end - c >= TerEndX) /\ end = Len(t)
  BY <1>1, <1>2, <1>3, <1>5
<1>6. CASE ~ (end - c >= TerEndX) /\ end # Len(t)
  <2>1. next \in 0 .. Len(t) /\ c <= next
    BY <1>2, <1>3, <1>6
  <2> HIDE DEF next
  <2>2. LineEnd(t, next) \in next .. Len(t)
    BY <2>1, LineEndFacts
  <2>3. room \in Nat /\ next + room <= Len(t) /\ next \in Nat
    BY <1>2, <2>1, <2>2
  <2> HIDE DEF room
  <2>4. S \subseteq 0 .. room /\ S \subseteq Nat /\ S # {}
    BY <2>3
  <2>5. Min(S) \in 0 .. room
    BY <2>4, MinIsLeast
  <2> HIDE DEF S
  <2>6. CursorDown(t, c) = next + Min(S)
    BY <1>1, <1>6
  <2>7. next + Min(S) \in c .. Len(t)
    BY <1>2, <2>1, <2>3, <2>5
  <2> QED BY <2>6, <2>7
<1> QED BY <1>4, <1>5, <1>6

(* Where any movement key puts the cursor.                                 *)
LEMMA ArrowTargetInText ==
  ASSUME NEW key \in Arrows, NEW ctrl \in BOOLEAN,
         NEW t \in Seq(Char), NEW c \in 0 .. Len(t)
  PROVE  ArrowTarget(key, ctrl, t, c) \in 0 .. Len(t)
<1>1. c \in Nat /\ Len(t) \in Nat
  BY LenProperties
<1>2. CASE key = "Up"
  BY <1>2, CursorUpFacts DEF ArrowTarget
<1>3. CASE key = "Down"
  <2>1. CursorDown(t, c) \in 0 .. Len(t)
    BY <1>1, CursorDownFacts
  <2> QED BY <1>3, <2>1 DEF ArrowTarget
<1>4. CASE key = "Left"
  <2>1. WordLeft(t, c) \in 0 .. Len(t) /\ CursorLeft(t, c) \in 0 .. Len(t)
    BY <1>1, WordLeftFacts DEF CursorLeft
  <2> QED BY <1>4, <2>1 DEF ArrowTarget
<1>5. CASE key = "Right"
  <2>1. WordRight(t, c) \in 0 .. Len(t) /\ CursorRight(t, c) \in 0 .. Len(t)
    BY <1>1, WordRightFacts DEF CursorRight
  <2> QED BY <1>5, <2>1 DEF ArrowTarget
<1> QED BY <1>2, <1>3, <1>4, <1>5 DEF Arrows

LEMMA TurnsInText ==
  ASSUME NEW key, NEW t \in Seq(Char), NEW c \in 0 .. Len(t)
  PROVE  TurnsAt(key, t, c) \in 0 .. Len(t)
<1> DEFINE start == LineStart(t, c)
           before == IF start > 0 THEN start - 1 ELSE 0
<1>1. Len(t) \in Nat /\ start \in 0 .. c
  BY LenProperties, LineStartFacts
<1>2. before \in 0 .. Len(t)
  BY <1>1
<1>3. LineStart(t, before) \in 0 .. before
  BY <1>2, LineStartFacts
<1> HIDE DEF start
<1>4. LineStart(t, before) \in 0 .. Len(t)
  BY <1>1, <1>2, <1>3
<1> QED BY <1>4 DEF TurnsAt, start

-----------------------------------------------------------------------------
(* Rows and columns.                                                       *)

RowsAndColumns == [row : Nat, col : 0 .. TerEndX - 1]

Wrapped(row, col) ==
  IF col >= TerEndX THEN [row |-> row + 1, col |-> 0] ELSE [row |-> row, col |-> col]

(* The row and column after character ch.                                  *)
After(was, ch) ==
  IF ch = Newline THEN [row |-> was.row + 1, col |-> 0]
  ELSE IF ch = Tab THEN Wrapped(was.row, was.col + (TabStop - (was.col % TabStop)))
  ELSE Wrapped(was.row, was.col + 1)

LEMMA AfterFacts ==
  ASSUME NEW was \in RowsAndColumns, NEW ch
  PROVE  /\ After(was, ch) \in RowsAndColumns
         /\ After(was, ch).row \in {was.row, was.row + 1}
         /\ After(was, ch).row = was.row + 1 => After(was, ch).col = 0
         /\ After(was, ch).row = was.row => After(was, ch).col > was.col
<1>1. was.row \in Nat /\ was.col \in Nat /\ TerEndX \in Nat \ {0} /\ TabStop \in Nat \ {0}
  BY CursorAssumption DEF RowsAndColumns
<1>2. was.col % TabStop \in 0 .. TabStop - 1
  BY <1>1
<1>3. ASSUME NEW col \in Nat, col > was.col
      PROVE  /\ Wrapped(was.row, col) \in RowsAndColumns
             /\ Wrapped(was.row, col).row \in {was.row, was.row + 1}
             /\ Wrapped(was.row, col).row = was.row + 1 => Wrapped(was.row, col).col = 0
             /\ Wrapped(was.row, col).row = was.row => Wrapped(was.row, col).col > was.col
  BY <1>1, <1>3 DEF Wrapped, RowsAndColumns
<1>4. CASE ch = Newline
  BY <1>1, <1>4 DEF After, RowsAndColumns
<1>5. CASE ch # Newline /\ ch = Tab
  <2>1. PICK d \in Nat : d = was.col % TabStop /\ d < TabStop
    BY <1>1, <1>2
  <2>2. was.col + (TabStop - d) \in Nat /\ was.col + (TabStop - d) > was.col
    BY <1>1, <2>1
  <2> QED BY <1>3, <1>5, <2>1, <2>2 DEF After
<1>6. CASE ch # Newline /\ ch # Tab
  <2>1. was.col + 1 \in Nat /\ was.col + 1 > was.col
    BY <1>1
  <2> QED BY <1>3, <1>6, <2>1 DEF After
<1> QED BY <1>4, <1>5, <1>6

(* The layout of a text, one character after another.                      *)
LEMMA LayoutFacts ==
  ASSUME NEW t \in Seq(Char)
  PROVE  /\ Layout(t) \in [0 .. Len(t) -> RowsAndColumns]
         /\ Layout(t)[0] = [row |-> 0, col |-> 0]
         /\ \A k \in 1 .. Len(t) : Layout(t)[k] = After(Layout(t)[k - 1], t[k])
<1> DEFINE n == Len(t)
           zero == [row |-> 0, col |-> 0]
           Wrap(row, col) == IF col >= TerEndX THEN [row |-> row + 1, col |-> 0]
                             ELSE [row |-> row, col |-> col]
           at[k \in 0 .. n] ==
             IF k = 0 THEN [row |-> 0, col |-> 0]
             ELSE LET was == at[k - 1]
                  IN  IF t[k] = Newline THEN [row |-> was.row + 1, col |-> 0]
                      ELSE IF t[k] = Tab
                      THEN Wrap(was.row, was.col + (TabStop - (was.col % TabStop)))
                      ELSE Wrap(was.row, was.col + 1)
           body == [k \in 1 .. n |-> [was \in RowsAndColumns |-> After(was, t[k])]]
<1>1. n \in Nat /\ zero \in RowsAndColumns
  BY LenProperties, CursorAssumption DEF RowsAndColumns
<1>2. body \in [1 .. n -> [RowsAndColumns -> RowsAndColumns]]
  BY AfterFacts
<1>3. PICK f \in [0 .. n -> RowsAndColumns] :
        f[0] = zero /\ \A k \in 1 .. n : f[k] = body[k][f[k - 1]]
  <2> HIDE DEF body, n, zero
  <2> QED BY <1>1, <1>2, LoopExists
<1>4. ASSUME NEW k \in 1 .. n PROVE f[k] = After(f[k - 1], t[k])
  <2>1. k - 1 \in 0 .. n
    BY <1>1
  <2> QED BY <1>3, <2>1
<1>5. f = [k \in 0 .. n |->
             IF k = 0 THEN [row |-> 0, col |-> 0]
             ELSE LET was == f[k - 1]
                  IN  IF t[k] = Newline THEN [row |-> was.row + 1, col |-> 0]
                      ELSE IF t[k] = Tab
                      THEN Wrap(was.row, was.col + (TabStop - (was.col % TabStop)))
                      ELSE Wrap(was.row, was.col + 1)]
  <2>1. ASSUME NEW k \in 0 .. n, k # 0
        PROVE  f[k] = After(f[k - 1], t[k])
    <3>1. k \in 1 .. n
      BY <1>1, <2>1, SMTT(30)
    <3> QED BY <3>1, <1>4
  <2> QED BY <1>3, <2>1 DEF After, Wrapped
<1>6. at = [k \in 0 .. n |->
             IF k = 0 THEN [row |-> 0, col |-> 0]
             ELSE LET was == at[k - 1]
                  IN  IF t[k] = Newline THEN [row |-> was.row + 1, col |-> 0]
                      ELSE IF t[k] = Tab
                      THEN Wrap(was.row, was.col + (TabStop - (was.col % TabStop)))
                      ELSE Wrap(was.row, was.col + 1)]
  BY <1>5, ZenonT(60)
<1>7. Layout(t) = at
  BY DEF Layout
<1> HIDE DEF at
<1>8. at[0] = zero /\ \A k \in 1 .. n : at[k] = After(at[k - 1], t[k])
  <2>1. 0 \in 0 .. n /\ \A k \in 1 .. n : k \in 0 .. n /\ k # 0
    BY <1>1
  <2> QED BY <1>6, <2>1, Zenon DEF After, Wrapped
<1> DEFINE S == { k \in Nat : k <= n => at[k] \in RowsAndColumns }
<1>9. 0 \in S
  BY <1>1, <1>8
<1>10. ASSUME NEW k \in Nat, k \in S PROVE k + 1 \in S
  <2> SUFFICES ASSUME k + 1 <= n PROVE at[k + 1] \in RowsAndColumns
    OBVIOUS
  <2>1. k + 1 \in 1 .. n /\ (k + 1) - 1 = k /\ k <= n
    BY <1>1
  <2>2. at[k + 1] = After(at[k], t[k + 1]) /\ at[k] \in RowsAndColumns
    BY <1>8, <1>10, <2>1
  <2> QED BY <2>2, AfterFacts
<1>11. \A k \in 0 .. n : at[k] \in RowsAndColumns
  <2>1. Nat \subseteq S
    <3> HIDE DEF S
    <3> QED BY <1>9, <1>10, SetInduction
  <2> QED BY <1>1, <2>1
<1>12. DOMAIN at = 0 .. n /\ at = [k \in 0 .. n |-> at[k]]
  BY <1>6
<1> QED BY <1>7, <1>8, <1>11, <1>12


-----------------------------------------------------------------------------
(* Columns on a line without tabs.                                         *)

LEMMA Division ==
  ASSUME NEW m \in Nat \ {0}, NEW j \in Nat
  PROVE  j \div m \in Nat /\ j % m \in 0 .. m - 1 /\ j = (j \div m) * m + (j % m)
OBVIOUS

LEMMA DivisionUnique ==
  ASSUME NEW m \in Nat \ {0}, NEW j \in Nat, NEW q \in Nat, NEW r \in 0 .. m - 1,
         j = q * m + r
  PROVE  j \div m = q /\ j % m = r
OBVIOUS

LEMMA DivisionNext ==
  ASSUME NEW m \in Nat \ {0}, NEW j \in Nat
  PROVE  /\ (j + 1) % m = IF (j % m) + 1 >= m THEN 0 ELSE (j % m) + 1
         /\ (j + 1) \div m = IF (j % m) + 1 >= m THEN (j \div m) + 1 ELSE j \div m
<1>q. PICK q \in Nat : q = j \div m
  BY Division
<1>r. PICK r \in 0 .. m - 1 : r = j % m
  BY Division
<1>i. PICK i \in Nat : i = j + 1
  OBVIOUS
<1>1. j = q * m + r /\ q * m \in Nat /\ (q + 1) * m = q * m + m
  BY <1>q, <1>r, Division
<1>2. CASE r + 1 >= m
  <2>1. q + 1 \in Nat /\ 0 \in 0 .. m - 1
    BY <1>2
  <2>2. i = (q + 1) * m + 0
    BY <1>1, <1>2, <1>i
  <2>3. i % m = 0 /\ i \div m = q + 1
    BY <2>1, <2>2, DivisionUnique
  <2> QED BY <1>2, <1>q, <1>r, <1>i, <2>3
<1>3. CASE ~ (r + 1 >= m)
  <2>1. r + 1 \in 0 .. m - 1
    BY <1>3
  <2>2. i = q * m + (r + 1)
    BY <1>1, <1>i
  <2>3. i % m = r + 1 /\ i \div m = q
    BY <2>1, <2>2, DivisionUnique
  <2> QED BY <1>3, <1>q, <1>r, <1>i, <2>3
<1> QED BY <1>2, <1>3

(* The column the code counts is the number of characters.                 *)
LEMMA ColumnWithoutTabs ==
  ASSUME NEW t \in Seq(Char), NEW c \in 0 .. Len(t),
         \A i \in LineStart(t, c) + 1 .. c : t[i] # Tab
  PROVE  get_col_on_line(t, c) = c - LineStart(t, c)
<1> DEFINE n == c - LineStart(t, c)
           col[k \in 0 .. n] == IF k = 0 THEN 0 ELSE AdvanceColumn(col[k - 1], t[c - k + 1])
           f == [k \in 0 .. n |-> k]
<1>1. LineStart(t, c) \in 0 .. c /\ c \in Nat /\ n \in Nat
  BY LineStartFacts, LenProperties
<1>2. \A k \in 1 .. n : t[c - k + 1] # Tab
  <2> SUFFICES ASSUME NEW k \in 1 .. n PROVE t[c - k + 1] # Tab
    OBVIOUS
  <2>1. c - k + 1 \in LineStart(t, c) + 1 .. c
    BY <1>1
  <2> QED BY <2>1
<1> HIDE DEF n
<1>3. f = [k \in 0 .. n |-> IF k = 0 THEN 0 ELSE AdvanceColumn(f[k - 1], t[c - k + 1])]
  <2>1. ASSUME NEW k \in 0 .. n, k # 0
        PROVE  k = AdvanceColumn(f[k - 1], t[c - k + 1])
    <3>1. k \in 1 .. n /\ k - 1 \in 0 .. n
      BY <1>1, <2>1
    <3>2. f[k - 1] = k - 1 /\ t[c - k + 1] # Tab
      BY <1>2, <3>1
    <3> QED BY <1>1, <3>1, <3>2 DEF AdvanceColumn
  <2> QED BY <2>1
<1>4. col = [k \in 0 .. n |-> IF k = 0 THEN 0 ELSE AdvanceColumn(col[k - 1], t[c - k + 1])]
  <2> HIDE DEF f
  <2> QED BY <1>3
<1>5. get_col_on_line(t, c) = col[n]
  BY DEF get_col_on_line, ColumnsAfter, n
<1> HIDE DEF col
<1> DEFINE S == { k \in Nat : k <= n => col[k] = k }
<1>6. 0 \in S
  BY <1>1, <1>4
<1>7. ASSUME NEW k \in Nat, k \in S PROVE k + 1 \in S
  <2> SUFFICES ASSUME k + 1 <= n PROVE col[k + 1] = k + 1
    OBVIOUS
  <2>1. k + 1 \in 1 .. n /\ k + 1 \in 0 .. n /\ k + 1 # 0 /\ (k + 1) - 1 = k /\ k <= n
    BY <1>1
  <2>2. col[k + 1] = AdvanceColumn(col[k], t[c - (k + 1) + 1])
    BY <1>4, <2>1
  <2> QED BY <1>2, <1>7, <2>1, <2>2 DEF AdvanceColumn
<1>8. n \in S
  <2>1. Nat \subseteq S
    <3> HIDE DEF S
    <3> QED BY <1>6, <1>7, SetInduction
  <2> QED BY <1>1, <2>1
<1> QED BY <1>5, <1>8 DEF n

(* A line starts at column 0, one row below.                               *)
LEMMA LineStartDrawn ==
  ASSUME NEW t \in Seq(Char), NEW s \in 0 .. Len(t), s = 0 \/ t[s] = Newline
  PROVE  /\ Layout(t)[s].col = 0
         /\ s = 0 => Layout(t)[s].row = 0
         /\ s # 0 => Layout(t)[s].row = Layout(t)[s - 1].row + 1
<1>1. s \in Nat /\ Len(t) \in Nat
  BY LenProperties
<1>2. CASE s = 0
  BY <1>2, LayoutFacts
<1>3. CASE s # 0
  <2>1. s \in 1 .. Len(t)
    BY <1>1, <1>3
  <2>2. Layout(t)[s] = After(Layout(t)[s - 1], t[s])
    BY <2>1, LayoutFacts
  <2> QED BY <1>3, <2>2 DEF After
<1> QED BY <1>2, <1>3

(* Along a line the column counts to the width and starts again, one row   *)
(* below.                                                                  *)
LEMMA PlaceOnLine ==
  ASSUME NEW t \in Seq(Char), NEW s \in 0 .. Len(t), NEW c \in s .. Len(t),
         Layout(t)[s].col = 0, \A p \in s + 1 .. c : t[p] # Newline /\ t[p] # Tab
  PROVE  /\ Layout(t)[c].row = Layout(t)[s].row + ((c - s) \div TerEndX)
         /\ Layout(t)[c].col = (c - s) % TerEndX
<1> DEFINE n == c - s
           L == Layout(t)
           S == { k \in Nat : k <= n => /\ L[s + k].row = L[s].row + (k \div TerEndX)
                                       /\ L[s + k].col = k % TerEndX }
<1>1. /\ s \in Nat /\ c \in Nat /\ Len(t) \in Nat /\ c <= Len(t) /\ n \in Nat
      /\ TerEndX \in Nat \ {0}
  BY LenProperties, CursorAssumption
<1>2. /\ \A k \in 1 .. Len(t) : L[k] = After(L[k - 1], t[k])
      /\ L[s].row \in Nat
  BY LayoutFacts DEF RowsAndColumns
<1> HIDE DEF L
<1>3. 0 \in S
  <2>1. s + 0 = s
    BY <1>1
  <2>2. 0 = 0 * TerEndX + 0 /\ 0 \in 0 .. TerEndX - 1
    BY <1>1
  <2>3. 0 % TerEndX = 0 /\ 0 \div TerEndX = 0
    BY <1>1, <2>2, DivisionUnique
  <2> QED BY <1>2, <2>1, <2>3 DEF L
<1>4. ASSUME NEW k \in Nat, k \in S PROVE k + 1 \in S
  <2> SUFFICES ASSUME k + 1 <= n
               PROVE  /\ L[s + (k + 1)].row = L[s].row + ((k + 1) \div TerEndX)
                      /\ L[s + (k + 1)].col = (k + 1) % TerEndX
    OBVIOUS
  <2>1. /\ s + (k + 1) \in s + 1 .. c /\ s + (k + 1) \in 1 .. Len(t)
        /\ (s + (k + 1)) - 1 = s + k /\ k <= n
    BY <1>1
  <2>2. L[s + (k + 1)] = After(L[s + k], t[s + (k + 1)])
    BY <1>2, <2>1
  <2>q. PICK q \in Nat : q = k \div TerEndX
    BY <1>1, Division
  <2>r. PICK r \in 0 .. TerEndX - 1 : r = k % TerEndX
    BY <1>1, Division
  <2>3. L[s + k].row = L[s].row + q /\ L[s + k].col = r
    BY <1>4, <2>1, <2>q, <2>r
  <2>4. L[s + (k + 1)] = Wrapped(L[s].row + q, r + 1)
    BY <2>1, <2>2, <2>3 DEF After
  <2>5. /\ (k + 1) % TerEndX = IF r + 1 >= TerEndX THEN 0 ELSE r + 1
        /\ (k + 1) \div TerEndX = IF r + 1 >= TerEndX THEN q + 1 ELSE q
    BY <1>1, <2>q, <2>r, DivisionNext
  <2>6. (L[s].row + q) + 1 = L[s].row + (q + 1)
    <3>1. PICK b \in Nat : b = L[s].row
      BY <1>2
    <3>2. (b + q) + 1 = b + (q + 1)
      OBVIOUS
    <3> QED BY <3>1, <3>2
  <2> QED BY <2>4, <2>5, <2>6 DEF Wrapped
<1>5. n \in S
  <2>1. Nat \subseteq S
    <3> HIDE DEF S
    <3> QED BY <1>3, <1>4, SetInduction
  <2> QED BY <1>1, <2>1
<1>6. s + n = c
  BY <1>1
<1> QED BY <1>5, <1>6 DEF L

(* The column drawn is the number of characters, wrapped.                  *)
LEMMA ColumnDrawnWithoutTabs ==
  ASSUME NEW t \in Seq(Char), NEW c \in 0 .. Len(t),
         \A i \in LineStart(t, c) + 1 .. c : t[i] # Tab
  PROVE  /\ Layout(t)[c].row = Layout(t)[LineStart(t, c)].row
                                + ((c - LineStart(t, c)) \div TerEndX)
         /\ Layout(t)[c].col = (c - LineStart(t, c)) % TerEndX
<1> DEFINE s == LineStart(t, c)
<1>1. /\ s \in 0 .. c /\ c \in Nat /\ Len(t) \in Nat /\ c <= Len(t)
      /\ s = 0 \/ t[s] = Newline
      /\ \A p \in s + 1 .. c : t[p] # Newline /\ t[p] # Tab
  BY LineStartFacts, LenProperties
<1> HIDE DEF s
<1>2. s \in 0 .. Len(t) /\ c \in s .. Len(t)
  BY <1>1
<1> QED BY <1>1, <1>2, LineStartDrawn, PlaceOnLine DEF s

(* Rows go down the text, and columns to the right in a row.               *)
LEMMA RowsGoDown ==
  ASSUME NEW t \in Seq(Char), NEW p \in 0 .. Len(t), NEW q \in p .. Len(t)
  PROVE  /\ Layout(t)[p].row <= Layout(t)[q].row
         /\ p # q /\ Layout(t)[p].row = Layout(t)[q].row
              => Layout(t)[p].col < Layout(t)[q].col
<1> DEFINE L == Layout(t)
           S == { k \in Nat : p + k <= Len(t) =>
                               /\ L[p].row <= L[p + k].row
                               /\ k # 0 /\ L[p].row = L[p + k].row
                                    => L[p].col < L[p + k].col }
<1>1. p \in Nat /\ q \in Nat /\ Len(t) \in Nat /\ p <= q
  BY LenProperties
<1>2. /\ \A k \in 1 .. Len(t) : L[k] = After(L[k - 1], t[k])
      /\ \A k \in 0 .. Len(t) : L[k] \in RowsAndColumns
  BY LayoutFacts
<1>3. \A k \in 0 .. Len(t) : L[k].row \in Nat /\ L[k].col \in Nat
  BY <1>2, CursorAssumption DEF RowsAndColumns
<1> HIDE DEF L
<1>4. 0 \in S
  <2>1. p + 0 = p
    BY <1>1
  <2> QED BY <1>3, <2>1
<1>5. ASSUME NEW k \in Nat, k \in S PROVE k + 1 \in S
  <2> SUFFICES ASSUME p + (k + 1) <= Len(t)
               PROVE  /\ L[p].row <= L[p + (k + 1)].row
                      /\ L[p].row = L[p + (k + 1)].row => L[p].col < L[p + (k + 1)].col
    BY <1>1
  <2>1. /\ p + (k + 1) \in 1 .. Len(t) /\ (p + (k + 1)) - 1 = p + k
        /\ p + k \in 0 .. Len(t) /\ p + k <= Len(t) /\ p + (k + 1) \in 0 .. Len(t)
    BY <1>1
  <2>2. /\ L[p].row <= L[p + k].row
        /\ k # 0 /\ L[p].row = L[p + k].row => L[p].col < L[p + k].col
        /\ k = 0 => L[p + k] = L[p]
    BY <1>1, <1>5, <2>1
  <2>3. L[p + (k + 1)] = After(L[p + k], t[p + (k + 1)]) /\ L[p + k] \in RowsAndColumns
    BY <1>2, <2>1
  <2>4. /\ L[p + (k + 1)].row \in {L[p + k].row, L[p + k].row + 1}
        /\ L[p + (k + 1)].row = L[p + k].row => L[p + (k + 1)].col > L[p + k].col
    BY <2>3, AfterFacts
  <2>5. /\ L[p].row \in Nat /\ L[p].col \in Nat /\ L[p + k].row \in Nat
        /\ L[p + k].col \in Nat /\ L[p + (k + 1)].row \in Nat /\ L[p + (k + 1)].col \in Nat
    BY <1>3, <2>1
  <2>6. L[p].row = L[p + k].row => L[p].col <= L[p + k].col
    BY <1>1, <2>2, <2>5
  <2>a. PICK a \in Nat : a = L[p].row
    BY <2>5
  <2>b. PICK b \in Nat : b = L[p + k].row
    BY <2>5
  <2>c. PICK c \in Nat : c = L[p + (k + 1)].row
    BY <2>5
  <2>x. PICK x \in Nat : x = L[p].col
    BY <2>5
  <2>y. PICK y \in Nat : y = L[p + k].col
    BY <2>5
  <2>z. PICK z \in Nat : z = L[p + (k + 1)].col
    BY <2>5
  <2>7. a <= b /\ c \in {b, b + 1} /\ (a = b => x <= y) /\ (c = b => z > y)
    BY <2>2, <2>4, <2>6, <2>a, <2>b, <2>c, <2>x, <2>y, <2>z
  <2>8. a <= c /\ (a = c => x < z)
    BY <2>7
  <2> QED BY <2>8, <2>a, <2>c, <2>x, <2>z
<1>6. q - p \in S
  <2>1. q - p \in Nat
    BY <1>1
  <2> HIDE DEF S
  <2> QED BY <1>4, <1>5, <2>1, SetInduction
<1>7. p + (q - p) = q
  BY <1>1
<1> QED BY <1>1, <1>6, <1>7 DEF L

-----------------------------------------------------------------------------
(* Walking along a line.                                                   *)

(* The columns counted on the n characters after position s.               *)
ColumnsFrom(t, s, n) ==
  LET col[k \in 0 .. n] == IF k = 0 THEN 0 ELSE AdvanceColumn(col[k - 1], t[s + k])
  IN  col

LEMMA AdvanceFacts ==
  ASSUME NEW col \in Nat, NEW ch
  PROVE  /\ AdvanceColumn(col, ch) \in Nat
         /\ ch = Tab => AdvanceColumn(col, ch) = col + (TabStop - (col % TabStop))
         /\ ch # Tab => AdvanceColumn(col, ch) = col + 1
<1>1. TabStop \in Nat \ {0}
  BY CursorAssumption
<1>q. PICK q \in Nat : q = col \div TabStop
  BY <1>1, Division
<1>r. PICK r \in 0 .. TabStop - 1 : r = col % TabStop
  BY <1>1, Division
<1>2. col = q * TabStop + r /\ q * TabStop \in Nat /\ (q + 1) * TabStop = q * TabStop + TabStop
  BY <1>1, <1>q, <1>r, Division
<1>3. (q + 1) * TabStop \in Nat /\ (q + 1) * TabStop = col + (TabStop - r)
  BY <1>1, <1>2
<1> QED BY <1>q, <1>r, <1>3 DEF AdvanceColumn

(* The recursion of the column loops has a solution, whatever characters   *)
(* it goes over, and it is a function into Nat.                            *)
LEMMA CountExists ==
  ASSUME NEW n \in Nat, NEW ch
  PROVE  \E f : f = [k \in 0 .. n |-> IF k = 0 THEN 0 ELSE AdvanceColumn(f[k - 1], ch[k])]
<1> DEFINE V == Nat
           zero == 0
           body == [k \in 1 .. n |-> [c \in V |-> AdvanceColumn(c, ch[k])]]
<1>1. body \in [1 .. n -> [V -> V]] /\ zero \in V
  BY AdvanceFacts
<1>2. \E f \in [0 .. n -> V] : f[0] = zero /\ \A k \in 1 .. n : f[k] = body[k][f[k - 1]]
  <2> HIDE DEF body, zero, V
  <2> QED BY <1>1, LoopExists
<1>3. PICK f \in [0 .. n -> Nat] : f[0] = zero /\ \A k \in 1 .. n : f[k] = body[k][f[k - 1]]
  BY <1>2
<1>4. ASSUME NEW k \in 0 .. n, k # 0 PROVE f[k] = AdvanceColumn(f[k - 1], ch[k])
  <2>1. k \in 1 .. n /\ k - 1 \in 0 .. n
    BY <1>4
  <2> QED BY <1>3, <2>1
<1>5. f = [k \in 0 .. n |-> IF k = 0 THEN 0 ELSE AdvanceColumn(f[k - 1], ch[k])]
  BY <1>3, <1>4
<1> QED BY <1>5

LEMMA CountFacts ==
  ASSUME NEW n \in Nat, NEW ch, NEW col,
         col = [k \in 0 .. n |-> IF k = 0 THEN 0 ELSE AdvanceColumn(col[k - 1], ch[k])]
  PROVE  /\ col \in [0 .. n -> Nat]
         /\ col[0] = 0
         /\ \A k \in 1 .. n : col[k] = AdvanceColumn(col[k - 1], ch[k])
<1>1. col[0] = 0 /\ \A k \in 1 .. n : col[k] = AdvanceColumn(col[k - 1], ch[k])
  <2>1. 0 \in 0 .. n /\ \A k \in 1 .. n : k \in 0 .. n /\ k # 0
    OBVIOUS
  <2> QED BY <2>1
<1> DEFINE S == { k \in Nat : k <= n => col[k] \in Nat }
<1>2. 0 \in S
  BY <1>1
<1>3. ASSUME NEW k \in Nat, k \in S PROVE k + 1 \in S
  <2> SUFFICES ASSUME k + 1 <= n PROVE col[k + 1] \in Nat
    OBVIOUS
  <2>1. k + 1 \in 1 .. n /\ (k + 1) - 1 = k /\ k <= n
    OBVIOUS
  <2>2. col[k + 1] = AdvanceColumn(col[k], ch[k + 1]) /\ col[k] \in Nat
    BY <1>1, <1>3, <2>1
  <2> QED BY <2>2, AdvanceFacts
<1>4. \A k \in 0 .. n : col[k] \in Nat
  <2>1. Nat \subseteq S
    <3> HIDE DEF S
    <3> QED BY <1>2, <1>3, SetInduction
  <2> QED BY <2>1
<1> QED BY <1>1, <1>4

LEMMA ColumnsFromFacts ==
  ASSUME NEW t, NEW s \in Nat, NEW n \in Nat
  PROVE  /\ ColumnsFrom(t, s, n) \in [0 .. n -> Nat]
         /\ ColumnsFrom(t, s, n)[0] = 0
         /\ \A k \in 1 .. n :
              ColumnsFrom(t, s, n)[k] = AdvanceColumn(ColumnsFrom(t, s, n)[k - 1], t[s + k])
<1> DEFINE col[k \in 0 .. n] == IF k = 0 THEN 0 ELSE AdvanceColumn(col[k - 1], t[s + k])
           ch == [k \in 1 .. n |-> t[s + k]]
<1>1. \A k \in 0 .. n : k # 0 => k \in 1 .. n /\ ch[k] = t[s + k]
  OBVIOUS
<1>2. PICK f : f = [k \in 0 .. n |-> IF k = 0 THEN 0 ELSE AdvanceColumn(f[k - 1], ch[k])]
  <2> HIDE DEF ch, col
  <2> QED BY CountExists
<1>3. f = [k \in 0 .. n |-> IF k = 0 THEN 0 ELSE AdvanceColumn(f[k - 1], t[s + k])]
  <2> HIDE DEF ch, col
  <2> QED BY <1>1, <1>2
<1>4. col = [k \in 0 .. n |-> IF k = 0 THEN 0 ELSE AdvanceColumn(col[k - 1], t[s + k])]
  BY <1>3
<1>5. ColumnsFrom(t, s, n) = col
  BY DEF ColumnsFrom
<1> HIDE DEF col
<1>6. col = [k \in 0 .. n |-> IF k = 0 THEN 0 ELSE AdvanceColumn(col[k - 1], ch[k])]
  <2> HIDE DEF ch
  <2> QED BY <1>1, <1>4
<1>7. /\ col \in [0 .. n -> Nat] /\ col[0] = 0
      /\ \A k \in 1 .. n : col[k] = AdvanceColumn(col[k - 1], ch[k])
  <2> HIDE DEF ch
  <2> QED BY <1>6, CountFacts, SMTT(30)
<1> QED BY <1>5, <1>7

(* The column the code counts backwards is a number, tabs or not.          *)
LEMMA ColumnIsNatural ==
  ASSUME NEW t \in Seq(Char), NEW c \in 0 .. Len(t)
  PROVE  get_col_on_line(t, c) \in Nat
<1> DEFINE n == c - LineStart(t, c)
           col[k \in 0 .. n] == IF k = 0 THEN 0 ELSE AdvanceColumn(col[k - 1], t[c - k + 1])
           ch == [k \in 1 .. n |-> t[c - k + 1]]
<1>1. n \in Nat
  BY LineStartFacts, LenProperties
<1>2. get_col_on_line(t, c) = col[n]
  BY DEF get_col_on_line, ColumnsAfter
<1> HIDE DEF n
<1>3. \A k \in 0 .. n : k # 0 => k \in 1 .. n /\ ch[k] = t[c - k + 1]
  BY <1>1
<1>4. PICK f : f = [k \in 0 .. n |-> IF k = 0 THEN 0 ELSE AdvanceColumn(f[k - 1], ch[k])]
  <2> HIDE DEF ch, col
  <2> QED BY <1>1, CountExists
<1>5. f = [k \in 0 .. n |-> IF k = 0 THEN 0 ELSE AdvanceColumn(f[k - 1], t[c - k + 1])]
  <2> HIDE DEF ch, col
  <2> QED BY <1>3, <1>4
<1>6. col = [k \in 0 .. n |-> IF k = 0 THEN 0 ELSE AdvanceColumn(col[k - 1], t[c - k + 1])]
  BY <1>5
<1> HIDE DEF col
<1>7. col = [k \in 0 .. n |-> IF k = 0 THEN 0 ELSE AdvanceColumn(col[k - 1], ch[k])]
  <2> HIDE DEF ch
  <2> QED BY <1>3, <1>6
<1>8. col \in [0 .. n -> Nat]
  <2> HIDE DEF ch
  <2> QED BY <1>1, <1>7, CountFacts
<1> QED BY <1>1, <1>2, <1>8

(* Without tabs they are the numbers of characters.                        *)
LEMMA ColumnsFromWithoutTabs ==
  ASSUME NEW t, NEW s \in Nat, NEW n \in Nat, NEW m \in 0 .. n,
         \A p \in s + 1 .. s + m : t[p] # Tab
  PROVE  \A k \in 0 .. m : ColumnsFrom(t, s, n)[k] = k
<1> DEFINE col == ColumnsFrom(t, s, n)
           S == { k \in Nat : k <= m => col[k] = k }
<1>1. col[0] = 0 /\ \A k \in 1 .. n : col[k] = AdvanceColumn(col[k - 1], t[s + k])
  BY ColumnsFromFacts
<1> HIDE DEF col
<1>2. 0 \in S
  BY <1>1
<1>3. ASSUME NEW k \in Nat, k \in S PROVE k + 1 \in S
  <2> SUFFICES ASSUME k + 1 <= m PROVE col[k + 1] = k + 1
    OBVIOUS
  <2>1. k + 1 \in 1 .. n /\ (k + 1) - 1 = k /\ k <= m /\ s + (k + 1) \in s + 1 .. s + m
    OBVIOUS
  <2>2. col[k + 1] = AdvanceColumn(col[k], t[s + (k + 1)]) /\ col[k] = k
    BY <1>1, <1>3, <2>1
  <2> QED BY <2>1, <2>2, AdvanceFacts
<1>4. \A k \in 0 .. m : col[k] = k
  <2>1. Nat \subseteq S
    <3> HIDE DEF S
    <3> QED BY <1>2, <1>3, SetInduction
  <2> QED BY <2>1
<1> QED BY <1>4 DEF col

(* The walk stops at its goal when it meets no tab on the way.             *)
LEMMA WalkStops ==
  ASSUME NEW t \in Seq(Char), NEW s \in 0 .. Len(t), NEW m \in 0 .. LineEnd(t, s) - s,
         NEW goal \in 0 .. m, \A p \in s + 1 .. s + m : t[p] # Tab
  PROVE  WalkToColumn(t, s, goal) = s + goal
<1> DEFINE n == LineEnd(t, s) - s
           col == ColumnsFrom(t, s, n)
           Stop(k) == \/ col[k] >= goal
                      \/ t[s + k + 1] = Tab /\ AdvanceColumn(col[k], Tab) > goal
           S == {n} \cup { k \in 0 .. n - 1 : Stop(k) }
<1>1. /\ LineEnd(t, s) \in s .. Len(t) /\ s \in Nat /\ Len(t) \in Nat
      /\ n \in Nat /\ m \in 0 .. n
  BY LineEndFacts, LenProperties
<1>2. WalkToColumn(t, s, goal) = s + Min(S)
  BY ZenonT(30) DEF WalkToColumn, ColumnsAfter, ColumnsFrom
<1>3. \A k \in 0 .. m : col[k] = k
  BY <1>1, ColumnsFromWithoutTabs, ZenonT(30)
<1> HIDE DEF col, n
<1>4. S \subseteq 0 .. n /\ S \subseteq Nat /\ S # {}
  BY <1>1
<1>5. Min(S) \in S /\ (\A k \in S : Min(S) <= k) /\ Min(S) \in 0 .. n
  BY <1>4, MinIsLeast
<1>6. goal \in S
  <2>1. CASE goal = n
    BY <2>1
  <2>2. CASE goal # n
    <3>1. goal \in 0 .. n - 1 /\ goal \in 0 .. m
      BY <1>1, <2>2
    <3>2. col[goal] >= goal
      BY <1>3, <3>1
    <3> QED BY <3>1, <3>2
  <2> QED BY <2>1, <2>2
<1>7. Min(S) = goal
  <2>1. Min(S) <= goal
    BY <1>5, <1>6
  <2>2. ASSUME NEW k \in 0 .. n - 1, k < goal PROVE ~ Stop(k)
    <3>1. k \in 0 .. m /\ col[k] = k
      BY <1>1, <1>3, <2>2
    <3>2. s + k + 1 \in s + 1 .. s + m
      BY <1>1, <2>2
    <3>3. t[s + k + 1] # Tab
      BY <3>2
    <3> QED BY <2>2, <3>1, <3>3
  <2>3. ~ (Min(S) < goal)
    <3>1. Min(S) = n \/ (Min(S) \in 0 .. n - 1 /\ Stop(Min(S)))
      BY <1>5
    <3> QED BY <1>1, <2>2, <3>1
  <2> HIDE DEF S
  <2> QED BY <1>1, <1>5, <2>1, <2>3
<1> QED BY <1>2, <1>7

(* The walk goes past a position only when the column there is short of    *)
(* the goal.                                                               *)
LEMMA WalkPast ==
  ASSUME NEW t \in Seq(Char), NEW s \in 0 .. Len(t), NEW goal \in Int,
         NEW k \in Nat, s + k < WalkToColumn(t, s, goal)
  PROVE  /\ k < LineEnd(t, s) - s
         /\ ColumnsFrom(t, s, LineEnd(t, s) - s)[k] < goal
<1> DEFINE n == LineEnd(t, s) - s
           col == ColumnsFrom(t, s, n)
           Stop(i) == \/ col[i] >= goal
                      \/ t[s + i + 1] = Tab /\ AdvanceColumn(col[i], Tab) > goal
           S == {n} \cup { i \in 0 .. n - 1 : Stop(i) }
<1>1. LineEnd(t, s) \in s .. Len(t) /\ s \in Nat /\ Len(t) \in Nat /\ n \in Nat
  BY LineEndFacts, LenProperties
<1>2. WalkToColumn(t, s, goal) = s + Min(S)
  BY ZenonT(30) DEF WalkToColumn, ColumnsAfter, ColumnsFrom
<1>3. col \in [0 .. n -> Nat]
  BY <1>1, ColumnsFromFacts
<1> HIDE DEF n, col
<1>4. S \subseteq 0 .. n /\ S \subseteq Nat /\ S # {}
  BY <1>1
<1>5. (\A i \in S : Min(S) <= i) /\ Min(S) \in 0 .. n
  BY <1>4, MinIsLeast
<1>6. k < Min(S)
  <2> HIDE DEF S
  <2> QED BY <1>1, <1>2, <1>5
<1>7. k < n /\ k \in 0 .. n - 1 /\ k \in 0 .. n
  <2> HIDE DEF S
  <2> QED BY <1>1, <1>5, <1>6
<1>8. ~ (k \in S)
  <2> HIDE DEF S
  <2> QED BY <1>1, <1>5, <1>6
<1>9. ~ (col[k] >= goal)
  BY <1>7, <1>8
<1>10. col[k] < goal
  BY <1>3, <1>7, <1>9
<1> QED BY <1>7, <1>10 DEF n, col

(* Up, with the columns counted from the start of the line above.          *)
LEMMA CursorUpWalks ==
  ASSUME NEW t \in Seq(Char), NEW c \in 0 .. Len(t)
  PROVE  LET col   == get_col_on_line(t, c)
             start == LineStart(t, c)
             above == LineStart(t, IF start > 0 THEN start - 1 ELSE 0)
             n     == LineEnd(t, above) - above
             width == ColumnsFrom(t, above, n)[n]
             target == (width \div TerEndX) * TerEndX + (col % TerEndX)
         IN  CursorUp(t, c) =
               IF c = 0 THEN c
               ELSE IF col >= TerEndX
               THEN IF c - TerEndX > start THEN c - TerEndX ELSE start
               ELSE WalkToColumn(t, above, IF target > width THEN width ELSE target)
BY DEF CursorUp, ColumnsAfter, ColumnsFrom


(* A line has one start and one end.                                       *)
LEMMA LineStartIs ==
  ASSUME NEW t \in Seq(Char), NEW c \in 0 .. Len(t), NEW s \in 0 .. c,
         s = 0 \/ t[s] = Newline, \A p \in s + 1 .. c : t[p] # Newline
  PROVE  LineStart(t, c) = s
<1> DEFINE u == LineStart(t, c)
<1>1. /\ u \in 0 .. c /\ (u = 0 \/ t[u] = Newline)
      /\ \A p \in u + 1 .. c : t[p] # Newline
  BY LineStartFacts
<1>2. c \in Nat
  BY LenProperties
<1> HIDE DEF u
<1>3. ~ (s < u)
  <2>1. s < u => u \in s + 1 .. c /\ u # 0
    BY <1>1, <1>2
  <2> QED BY <1>1, <2>1
<1>4. ~ (u < s)
  <2>1. u < s => s \in u + 1 .. c /\ s # 0
    BY <1>1, <1>2
  <2> QED BY <1>1, <2>1
<1> QED BY <1>1, <1>2, <1>3, <1>4 DEF u

LEMMA LineEndIs ==
  ASSUME NEW t \in Seq(Char), NEW c \in 0 .. Len(t), NEW e \in c .. Len(t),
         e = Len(t) \/ t[e + 1] = Newline, \A p \in c + 1 .. e : t[p] # Newline
  PROVE  LineEnd(t, c) = e
<1> DEFINE u == LineEnd(t, c)
<1>1. /\ u \in c .. Len(t) /\ (u # Len(t) => t[u + 1] = Newline)
      /\ \A p \in c + 1 .. u : t[p] # Newline
  BY LineEndFacts
<1>2. c \in Nat /\ Len(t) \in Nat
  BY LenProperties
<1> HIDE DEF u
<1>3. ~ (e < u)
  <2>1. e < u => e + 1 \in c + 1 .. u /\ e # Len(t)
    BY <1>1, <1>2
  <2> QED BY <1>1, <2>1
<1>4. ~ (u < e)
  <2>1. u < e => u + 1 \in c + 1 .. e /\ u # Len(t)
    BY <1>1, <1>2
  <2> QED BY <1>1, <2>1
<1> QED BY <1>1, <1>2, <1>3, <1>4 DEF u

LEMMA DivisionForward ==
  ASSUME NEW m \in Nat \ {0}, NEW j \in Nat
  PROVE  (j + m) \div m = (j \div m) + 1 /\ (j + m) % m = j % m
<1>q. PICK q \in Nat : q = j \div m
  BY Division
<1>r. PICK r \in 0 .. m - 1 : r = j % m
  BY Division
<1>i. PICK i \in Nat : i = j + m
  OBVIOUS
<1>1. j = q * m + r /\ q * m \in Nat /\ (q + 1) * m = q * m + m
  BY <1>q, <1>r, Division
<1>2. q + 1 \in Nat /\ i = (q + 1) * m + r
  BY <1>1, <1>i
<1>3. i \div m = q + 1 /\ i % m = r
  BY <1>2, DivisionUnique
<1> QED BY <1>q, <1>r, <1>i, <1>3

LEMMA DivisionBelow ==
  ASSUME NEW m \in Nat \ {0}, NEW j \in Nat, NEW q \in Nat, NEW r \in 0 .. m - 1,
         j < q * m + r
  PROVE  /\ j \div m <= q
         /\ j \div m = q => j % m < r
<1>a. PICK a \in Nat : a = j \div m
  BY Division
<1>b. PICK b \in 0 .. m - 1 : b = j % m
  BY Division
<1>1. j = a * m + b /\ a * m \in Nat /\ q * m \in Nat
  BY <1>a, <1>b, Division
<1>2. ~ (a > q)
  <2> SUFFICES ASSUME a > q PROVE FALSE
    OBVIOUS
  <2>1. PICK d \in Nat : a = (q + 1) + d
    <3>1. a - (q + 1) \in Nat /\ a = (q + 1) + (a - (q + 1))
      OBVIOUS
    <3> QED BY <3>1
  <2>2. a * m = (q * m + m) + d * m /\ d * m \in Nat
    BY <2>1
  <2> QED BY <1>1, <2>2
<1>3. a = q => b < r
  BY <1>1
<1> QED BY <1>a, <1>b, <1>2, <1>3

(* Up in a text without tabs: one row to the left on the same line, or to  *)
(* the last row of the line above, at most as far to the right.            *)
LEMMA UpWithoutTabs ==
  ASSUME NEW t \in Seq(Char), NEW c \in 0 .. Len(t), \A i \in 1 .. Len(t) : t[i] # Tab,
         NEW s, s = LineStart(t, c)
  PROVE  /\ c - s >= TerEndX => CursorUp(t, c) = c - TerEndX
         /\ c - s < TerEndX /\ s > 0 =>
              LET a == LineStart(t, s - 1)
                  m == (s - 1) - a
                  target == (m \div TerEndX) * TerEndX + (c - s)
              IN  /\ LineEnd(t, a) = s - 1
                  /\ CursorUp(t, c) = a + (IF target > m THEN m ELSE target)
<1>1. /\ c \in Nat /\ Len(t) \in Nat /\ c <= Len(t) /\ TerEndX \in Nat \ {0}
      /\ s \in 0 .. c /\ (s = 0 \/ t[s] = Newline)
      /\ \A i \in s + 1 .. c : t[i] # Tab
  BY LenProperties, CursorAssumption, LineStartFacts
<1>2. get_col_on_line(t, c) = c - s
  BY <1>1, ColumnWithoutTabs
<1>3. ASSUME c - s >= TerEndX PROVE CursorUp(t, c) = c - TerEndX
  <2>1. c # 0 /\ (IF c - TerEndX > s THEN c - TerEndX ELSE s) = c - TerEndX
    BY <1>1, <1>3
  <2> QED BY <1>2, <1>3, <2>1, CursorUpWalks
<1>4. ASSUME c - s < TerEndX, s > 0, NEW a, a = LineStart(t, s - 1), NEW m, m = (s - 1) - a
      PROVE  /\ LineEnd(t, a) = s - 1
             /\ LET target == (m \div TerEndX) * TerEndX + (c - s)
                IN  CursorUp(t, c) = a + (IF target > m THEN m ELSE target)
  <2>1. s - 1 \in 0 .. Len(t) /\ (s - 1) + 1 = s /\ s # 0
    BY <1>1, <1>4
  <2>2. /\ a \in 0 .. s - 1 /\ \A p \in a + 1 .. s - 1 : t[p] # Newline
    BY <1>4, <2>1, LineStartFacts
  <2>3. a \in 0 .. Len(t) /\ s - 1 \in a .. Len(t) /\ a \in Nat /\ m \in Nat /\ a + m = s - 1
    <3>1. s \in Nat /\ s <= c /\ s - 1 \in Nat /\ s - 1 <= Len(t)
      BY <1>1, <2>1
    <3>2. a \in Nat /\ a <= s - 1
      BY <2>2, <3>1
    <3>3. PICK e \in Nat : e = s - 1 /\ e <= Len(t)
      BY <3>1
    <3>4. m = e - a /\ a <= e
      BY <1>4, <3>2, <3>3
    <3>5. a \in 0 .. Len(t) /\ e \in a .. Len(t) /\ m \in Nat /\ a + m = e
      BY <1>1, <3>2, <3>3, <3>4
    <3> QED BY <3>2, <3>3, <3>5
  <2>4. LineEnd(t, a) = s - 1
    BY <1>1, <2>1, <2>2, <2>3, LineEndIs
  <2>5. \A i \in a + 1 .. a + m : t[i] # Tab
    BY <1>1, <2>3
  <2>6. ColumnsFrom(t, a, m)[m] = m
    <3>1. m \in 0 .. m
      BY <2>3
    <3> QED BY <2>3, <2>5, <3>1, ColumnsFromWithoutTabs
  <2>7. (c - s) % TerEndX = c - s
    <3>1. PICK n \in 0 .. TerEndX - 1 : n = c - s
      BY <1>1, <1>4
    <3>2. n \in Nat /\ n = 0 * TerEndX + n
      BY <1>1, <3>1
    <3>3. n % TerEndX = n
      BY <1>1, <3>1, <3>2, DivisionUnique
    <3> QED BY <3>1, <3>3
  <2> DEFINE target == (m \div TerEndX) * TerEndX + (c - s)
             goal == IF target > m THEN m ELSE target
  <2>8. CursorUp(t, c) = WalkToColumn(t, a, goal)
    <3>1. c # 0 /\ (IF s > 0 THEN s - 1 ELSE 0) = s - 1 /\ ~ (c - s >= TerEndX)
      BY <1>1, <1>4
    <3>2. LineEnd(t, a) - a = m
      BY <1>4, <2>4
    <3> QED BY <1>2, <1>4, <2>6, <2>7, <3>1, <3>2, CursorUpWalks
  <2>9. goal \in 0 .. m
    <3>1. PICK q \in Nat : q = m \div TerEndX
      BY <1>1, <2>3, Division
    <3>2. q * TerEndX \in Nat
      BY <1>1
    <3> QED BY <1>1, <2>3, <3>1, <3>2
  <2>10. m \in 0 .. LineEnd(t, a) - a
    BY <1>4, <2>3, <2>4
  <2> HIDE DEF goal
  <2>11. WalkToColumn(t, a, goal) = a + goal
    BY <2>3, <2>5, <2>9, <2>10, WalkStops
  <2> QED BY <2>4, <2>8, <2>11 DEF goal
<1> QED BY <1>3, <1>4

(* Down in a text without tabs.                                            *)
LEMMA DownWithoutTabs ==
  ASSUME NEW t \in Seq(Char), NEW c \in 0 .. Len(t), \A i \in 1 .. Len(t) : t[i] # Tab,
         LineEnd(t, c) - c < TerEndX, LineEnd(t, c) # Len(t)
  PROVE  LET below == LineEnd(t, c) + 1
             room  == LineEnd(t, below) - below
             n     == c - LineStart(t, c)
         IN  CursorDown(t, c) = below + (IF n > room THEN room ELSE n)
<1> DEFINE e == LineEnd(t, c)
           below == e + 1
           room == LineEnd(t, below) - below
           n == c - LineStart(t, c)
           S == {room} \cup { k \in 0 .. room : k >= n }
<1>1. /\ c \in Nat /\ Len(t) \in Nat /\ TerEndX \in Nat
      /\ e \in c .. Len(t) /\ LineStart(t, c) \in 0 .. c
      /\ \A i \in LineStart(t, c) + 1 .. c : t[i] # Tab
  BY LenProperties, CursorAssumption, LineStartFacts, LineEndFacts
<1>2. get_col_on_line(t, c) = n
  BY <1>1, ColumnWithoutTabs
<1>3. CursorDown(t, c) = below + Min(S)
  <2>1. ~ (e - c >= TerEndX) /\ e # Len(t)
    BY <1>1
  <2> QED BY <1>2, <2>1 DEF CursorDown
<1>4. below \in 0 .. Len(t) /\ n \in Nat
  BY <1>1
<1> HIDE DEF n, below
<1>5. room \in Nat
  BY <1>1, <1>4, LineEndFacts
<1> HIDE DEF room
<1>6. S \subseteq Nat /\ S # {}
  BY <1>5
<1>7. Min(S) \in S /\ \A k \in S : Min(S) <= k
  BY <1>6, MinIsLeast
<1>8. Min(S) = IF n > room THEN room ELSE n
  <2>1. CASE n > room
    BY <1>4, <1>5, <1>7, <2>1
  <2>2. CASE ~ (n > room)
    <3>1. n \in S /\ \A k \in S : k >= n
      BY <1>4, <1>5, <2>2
    <3> HIDE DEF S
    <3>2. Min(S) \in Nat /\ Min(S) <= n /\ Min(S) >= n
      BY <1>6, <1>7, <3>1
    <3> QED BY <1>4, <2>2, <3>2
  <2> QED BY <2>1, <2>2
<1> QED BY <1>3, <1>8 DEF n, below, room

(* On a first line that does not wrap, the columns drawn are the columns   *)
(* counted from its start, and there are less than a row of them.          *)
LEMMA ColumnsOnOneRow ==
  ASSUME NEW t \in Seq(Char), NEW e \in 0 .. Len(t),
         \A p \in 1 .. e : t[p] # Newline,
         \A p \in 0 .. e : Layout(t)[p].row = 0
  PROVE  \A k \in 0 .. e : /\ Layout(t)[k].col = ColumnsFrom(t, 0, e)[k]
                           /\ ColumnsFrom(t, 0, e)[k] < TerEndX
<1> DEFINE L == Layout(t)
           col == ColumnsFrom(t, 0, e)
           S == { k \in Nat : k <= e => L[k].col = col[k] }
<1>1. e \in Nat /\ Len(t) \in Nat /\ e <= Len(t) /\ TerEndX \in Nat \ {0}
  BY LenProperties, CursorAssumption
<1>2. /\ L[0] = [row |-> 0, col |-> 0]
      /\ \A k \in 1 .. Len(t) : L[k] = After(L[k - 1], t[k])
      /\ \A k \in 0 .. Len(t) : L[k].col \in Nat /\ L[k].col < TerEndX
  <2>1. \A k \in 0 .. Len(t) : L[k] \in RowsAndColumns
    BY LayoutFacts
  <2> QED BY <1>1, <2>1, LayoutFacts DEF RowsAndColumns
<1>3. /\ col[0] = 0
      /\ \A k \in 1 .. e : col[k] = AdvanceColumn(col[k - 1], t[0 + k])
  <2>1. 0 \in Nat /\ e \in Nat
    BY <1>1
  <2> QED BY ONLY <2>1, ColumnsFromFacts
<1>4. \A k \in 0 .. e : L[k].row = 0
  OBVIOUS
<1> HIDE DEF L, col
<1>5. 0 \in S
  BY <1>2, <1>3
<1>6. ASSUME NEW k \in Nat, k \in S PROVE k + 1 \in S
  <2> SUFFICES ASSUME k + 1 <= e PROVE L[k + 1].col = col[k + 1]
    OBVIOUS
  <2>1. /\ k + 1 \in 1 .. e /\ k + 1 \in 1 .. Len(t) /\ (k + 1) - 1 = k
        /\ k \in 0 .. e /\ k + 1 \in 0 .. e /\ k \in 0 .. Len(t) /\ k <= e /\ 0 + (k + 1) = k + 1
    BY <1>1
  <2>2. L[k + 1] = After(L[k], t[k + 1]) /\ L[k + 1].row = 0 /\ L[k].row = 0
    BY <1>2, <1>4, <2>1
  <2>3. PICK x \in Nat : x = L[k].col /\ x = col[k]
    BY <1>2, <1>6, <2>1
  <2>4. col[k + 1] = AdvanceColumn(x, t[k + 1])
    BY <1>3, <2>1, <2>3
  <2>5. t[k + 1] # Newline
    BY <2>1
  <2>6. ASSUME NEW y, L[k + 1] = Wrapped(0, y) PROVE L[k + 1].col = y
    <3>1. ~ (y >= TerEndX)
      <4>1. y >= TerEndX => L[k + 1].row = 1
        BY <2>6 DEF Wrapped
      <4> QED BY <2>2, <4>1
    <3> QED BY <2>6, <3>1 DEF Wrapped
  <2>7. CASE t[k + 1] = Tab
    <3>1. L[k + 1] = Wrapped(0, x + (TabStop - (x % TabStop)))
      BY <2>2, <2>3, <2>5, <2>7 DEF After
    <3>2. AdvanceColumn(x, t[k + 1]) = x + (TabStop - (x % TabStop))
      BY <2>7, AdvanceFacts
    <3> QED BY <2>4, <2>6, <3>1, <3>2
  <2>8. CASE t[k + 1] # Tab
    <3>1. L[k + 1] = Wrapped(0, x + 1)
      BY <2>2, <2>3, <2>5, <2>8 DEF After
    <3>2. AdvanceColumn(x, t[k + 1]) = x + 1
      BY <2>8, AdvanceFacts
    <3> QED BY <2>4, <2>6, <3>1, <3>2
  <2> QED BY <2>7, <2>8
<1>7. \A k \in 0 .. e : L[k].col = col[k]
  <2>1. Nat \subseteq S
    <3> HIDE DEF S
    <3> QED BY <1>5, <1>6, SetInduction
  <2> QED BY <1>1, <2>1
<1>8. \A k \in 0 .. e : col[k] < TerEndX
  BY <1>1, <1>2, <1>7
<1> QED BY <1>7, <1>8 DEF L, col
=============================================================================
