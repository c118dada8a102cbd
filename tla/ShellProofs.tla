------------------------------ MODULE ShellProofs ------------------------------
(***************************************************************************)
(* Module Shell shows what it edits, for every width of the screen, every  *)
(* size of the buffer and of the history, and every sequence of keys.      *)
(***************************************************************************)
EXTENDS Shell, SequenceTheorems, TLAPS

\* What a cell of the screen shows.
Letter == STRING \cup {Space}

\* What the buffer and the history keep.
Line == {l \in Seq(Letter) : Len(l) <= Limit}

P == Len(Prompt)

\* The row r, character by character, when it shows the line l.
Shows(r, l) ==
  \A i \in 1 .. Width :
    r[i] = IF i <= P THEN Prompt[i] ELSE IF i <= P + Len(l) THEN l[i - P] ELSE Space

LineOK == line \in Line /\ pos \in 0 .. Len(line)

HistoryOK == history \in Seq(Line) /\ Len(history) <= MaxHistory /\ back \in 0 .. Len(history)

RowOK ==
  /\ row \in [1 .. Width -> Letter] /\ x \in 0 .. Width /\ inRow \in BOOLEAN
  /\ inRow => Shows(row, line) /\ x = P + pos /\ P + Len(line) < Width

\* What every step of the shell keeps.
ShellInv == LineOK /\ HistoryOK /\ RowOK /\ sudoer \in BOOLEAN
-----------------------------------------------------------------------------
(* What the operators compute.                                             *)

\* The bounds are numbers, and the prompt leaves room in the row.
LEMMA Bounds ==
  /\ Limit \in Nat /\ Limit > 0 /\ MaxHistory \in Nat /\ MaxHistory > 0
  /\ Width \in Nat /\ P \in Nat /\ P < Width /\ P = Len(Prompt)
  /\ Prompt \in Seq(Letter) /\ \A i \in 1 .. P : Prompt[i] \in Letter
  /\ Space \in Letter /\ Char \subseteq Letter
  <1>1. STRING \subseteq Letter /\ Space \in Letter
    BY DEF Letter
  <1>2. Prompt \in Seq(STRING) /\ Len(Prompt) < Width /\ Char \subseteq STRING
    BY ShellAssumption
  <1>3. Prompt \in Seq(Letter)
    BY <1>1, <1>2, SeqMonotonic
  <1>4. Len(Prompt) \in Nat /\ \A i \in 1 .. Len(Prompt) : Prompt[i] \in Letter
    BY <1>3, ElementOfSeq, LenProperties
  <1>5. P = Len(Prompt)
    BY DEF P
  <1>6. /\ Limit \in Nat /\ Limit > 0 /\ MaxHistory \in Nat /\ MaxHistory > 0 /\ Width \in Nat
    BY ShellAssumption
  <1>7. QED
    BY <1>1, <1>2, <1>3, <1>4, <1>5, <1>6

\* The smaller and the larger of two numbers.
LEMMA MinMax ==
  ASSUME NEW a \in Int, NEW b \in Int
  PROVE  /\ Min({a, b}) = IF a <= b THEN a ELSE b
         /\ Max({a, b}) = IF a >= b THEN a ELSE b
  <1>1. \E y \in {a, b} : \A z \in {a, b} : y <= z
    OBVIOUS
  <1>2. \E y \in {a, b} : \A z \in {a, b} : y >= z
    OBVIOUS
  <1> DEFINE m == CHOOSE y \in {a, b} : \A z \in {a, b} : y <= z
             n == CHOOSE y \in {a, b} : \A z \in {a, b} : y >= z
  <1>3. m \in {a, b} /\ \A z \in {a, b} : m <= z
    BY <1>1
  <1>4. n \in {a, b} /\ \A z \in {a, b} : n >= z
    BY <1>2
  <1>5. Min({a, b}) = m /\ Max({a, b}) = n
    BY DEF Min, Max
  <1> HIDE DEF m, n
  <1>6. m = (IF a <= b THEN a ELSE b) /\ n = (IF a >= b THEN a ELSE b)
    BY <1>3, <1>4
  <1>7. QED
    BY <1>5, <1>6

\* A function on 1 .. n is a sequence.
LEMMA FunctionIsSeq ==
  ASSUME NEW S, NEW n \in Nat, NEW f \in [1 .. n -> S]
  PROVE  f \in Seq(S) /\ Len(f) = n
  <1>1. f \in Seq(S)
    BY SeqDef
  <1>2. DOMAIN f = 1 .. n /\ DOMAIN f = 1 .. Len(f) /\ Len(f) \in Nat
    BY <1>1, LenProperties
  <1>3. QED
    BY <1>1, <1>2

\* Blanks.
LEMMA SpacesAre ==
  ASSUME NEW n \in Nat
  PROVE  Spaces(n) \in Seq(Letter) /\ Len(Spaces(n)) = n /\ \A i \in 1 .. n : Spaces(n)[i] = Space
  <1>1. Spaces(n) \in [1 .. n -> Letter] /\ \A i \in 1 .. n : Spaces(n)[i] = Space
    BY Bounds DEF Spaces
  <1>2. QED
    BY <1>1, FunctionIsSeq

\* A line with blanks after it.
LEMMA Padded ==
  ASSUME NEW s \in Seq(Letter), NEW n \in Nat
  PROVE  /\ s \o Spaces(n) \in Seq(Letter) /\ Len(s \o Spaces(n)) = Len(s) + n
         /\ \A i \in 1 .. Len(s) + n : (s \o Spaces(n))[i] = IF i <= Len(s) THEN s[i] ELSE Space
  <1>1. PICK q \in Seq(Letter) : q = Spaces(n)
    BY SpacesAre
  <1>2. Len(q) = n /\ \A i \in 1 .. n : q[i] = Space
    BY <1>1, SpacesAre
  <1>3. /\ s \o q \in Seq(Letter) /\ Len(s \o q) = Len(s) + Len(q)
        /\ \A i \in 1 .. Len(s) + Len(q) : (s \o q)[i] = IF i <= Len(s) THEN s[i] ELSE q[i - Len(s)]
    BY ConcatProperties
  <1>4. Len(s) \in Nat
    OBVIOUS
  <1>5. \A i \in 1 .. Len(s) + n : ~(i <= Len(s)) => q[i - Len(s)] = Space
    BY <1>2, <1>4
  <1>6. QED
    BY <1>1, <1>2, <1>3, <1>4, <1>5

\* The new line over the old one.
LEMMA BlankedIs ==
  ASSUME NEW text \in Seq(Letter), NEW n \in Nat
  PROVE  /\ Blanked(text, n) \in Seq(Letter)
         /\ Len(Blanked(text, n)) \in Nat /\ Len(Blanked(text, n)) >= Len(text)
         /\ Len(Blanked(text, n)) >= n
         /\ \A i \in 1 .. Len(Blanked(text, n)) :
              Blanked(text, n)[i] = IF i <= Len(text) THEN text[i] ELSE Space
  <1>1. PICK a \in Nat : a = Len(text)
    OBVIOUS
  <1>2. PICK k \in Nat : k = Max({0, n - a}) /\ a + k >= n
    <2>1. n - a \in Int /\ 0 \in Int
      OBVIOUS
    <2>2. Max({0, n - a}) = IF 0 >= n - a THEN 0 ELSE n - a
      BY <2>1, MinMax
    <2>3. QED
      BY <2>2
  <1>3. Blanked(text, n) = text \o Spaces(k)
    BY <1>1, <1>2 DEF Blanked
  <1>4. /\ text \o Spaces(k) \in Seq(Letter) /\ Len(text \o Spaces(k)) = a + k
        /\ \A i \in 1 .. a + k : (text \o Spaces(k))[i] = IF i <= a THEN text[i] ELSE Space
    BY <1>1, Padded
  <1>5. PICK w \in Seq(Letter) : w = Blanked(text, n)
    BY <1>3, <1>4
  <1>6. Len(w) = a + k /\ \A i \in 1 .. a + k : w[i] = IF i <= a THEN text[i] ELSE Space
    BY <1>3, <1>4, <1>5
  <1>7. Len(w) \in Nat /\ Len(w) >= a /\ Len(w) >= n
    BY <1>2, <1>6
  <1>8. QED
    BY <1>1, <1>5, <1>6, <1>7

\* The row with the prompt alone.
LEMMA FreshRowIs == FreshRow \in [1 .. Width -> Letter] /\ Shows(FreshRow, <<>>)
  <1>1. PICK k \in Nat : k = Width - Len(Prompt) /\ P + k = Width
    BY Bounds
  <1>2. FreshRow = Prompt \o Spaces(k)
    BY <1>1 DEF FreshRow
  <1>3. /\ Prompt \o Spaces(k) \in Seq(Letter) /\ Len(Prompt \o Spaces(k)) = P + k
        /\ \A i \in 1 .. P + k : (Prompt \o Spaces(k))[i] = IF i <= P THEN Prompt[i] ELSE Space
    BY Bounds, Padded
  <1>4. FreshRow \in Seq(Letter) /\ Len(FreshRow) = Width
        /\ \A i \in 1 .. Width : FreshRow[i] = IF i <= P THEN Prompt[i] ELSE Space
    BY <1>1, <1>2, <1>3
  <1>5. FreshRow \in [1 .. Width -> Letter]
    BY <1>4, LenProperties
  <1>6. \A i \in Int : (i <= P + Len(<<>>)) => (i <= P)
    BY Bounds
  <1>7. QED
    BY <1>4, <1>5, <1>6 DEF Shows

\* A row that shows a line, as a whole.
LEMMA WholeRow ==
  ASSUME NEW r \in [1 .. Width -> Letter], NEW l \in Seq(Letter), Shows(r, l), P + Len(l) < Width
  PROVE  r = Prompt \o l \o Spaces(Width - Len(Prompt) - Len(l))
  <1>1. PICK a \in Nat : a = Len(l)
    OBVIOUS
  <1>2. PICK k \in Nat : k = Width - Len(Prompt) - Len(l) /\ P + a + k = Width
    <2>1. Width \in Nat /\ P \in Nat /\ P = Len(Prompt)
      BY Bounds
    <2>2. P + a < Width
      BY <1>1
    <2>3. Width - P - a \in Nat /\ P + a + (Width - P - a) = Width
      BY <2>1, <2>2
    <2>4. Width - P - a = Width - Len(Prompt) - Len(l)
      BY <1>1, <2>1
    <2>5. QED
      BY <2>3, <2>4
  <1>3. PICK s \in Seq(Letter) : s = Prompt \o l
    BY Bounds, ConcatProperties
  <1>4. /\ Len(s) = P + a
        /\ \A i \in 1 .. P + a : s[i] = IF i <= P THEN Prompt[i] ELSE l[i - P]
    BY <1>1, <1>3, Bounds, ConcatProperties
  <1>5. PICK w \in Seq(Letter) : w = s \o Spaces(k)
    BY Padded
  <1>6. /\ Len(w) = P + a + k
        /\ \A i \in 1 .. P + a + k : w[i] = IF i <= P + a THEN s[i] ELSE Space
    <2>1. /\ Len(s \o Spaces(k)) = Len(s) + k
          /\ \A i \in 1 .. Len(s) + k : (s \o Spaces(k))[i] = IF i <= Len(s) THEN s[i] ELSE Space
      BY Padded
    <2>2. Len(s) = P + a
      BY <1>4
    <2>3. QED
      BY <1>5, <2>1, <2>2
  <1>7. r \in Seq(Letter) /\ Len(r) = Width
    <2>1. Width \in Nat
      BY Bounds
    <2>2. QED
      BY <2>1, FunctionIsSeq
  <1>8. ASSUME NEW i \in 1 .. Width
        PROVE  r[i] = w[i]
    <2>1. r[i] = IF i <= P THEN Prompt[i] ELSE IF i <= P + a THEN l[i - P] ELSE Space
      BY <1>1 DEF Shows
    <2>2. w[i] = IF i <= P + a THEN s[i] ELSE Space
      BY <1>2, <1>6
    <2>3. P \in Nat /\ i \in Nat /\ i >= 1
      BY Bounds
    <2>4. i <= P => i <= P + a
      BY <2>3
    <2>5. i <= P + a => s[i] = IF i <= P THEN Prompt[i] ELSE l[i - P]
      BY <1>4, <2>3
    <2>6. QED
      BY <2>1, <2>2, <2>4, <2>5
  <1>9. r = w
    <2>1. Len(r) = Len(w)
      BY <1>2, <1>6, <1>7
    <2>2. \A i \in 1 .. Len(r) : r[i] = w[i]
      BY <1>7, <1>8
    <2>3. QED
      BY <1>7, <2>1, <2>2, SeqEqual
  <1>10. QED
    BY <1>2, <1>3, <1>5, <1>9

\* A line of at most Limit characters, and the empty one.
LEMMA LineIs ==
  /\ <<>> \in Line /\ Len(<<>>) = 0
  /\ \A l \in Seq(Letter) : Len(l) <= Limit => l \in Line
  /\ \A l \in Line : l \in Seq(Letter) /\ Len(l) \in Nat /\ Len(l) <= Limit
  <1>1. <<>> \in Seq(Letter) /\ Len(<<>>) = 0 /\ 0 <= Limit
    BY Bounds, EmptySeq
  <1>2. QED
    BY <1>1 DEF Line

\* redraw_input_line: the line and the cursor are the new ones; the row shows them, unless it
\* is one that is not followed.
LEMMA Redrawn ==
  ASSUME ShellInv, NEW text \in Line, NEW c \in 0 .. Len(text), NEW d \in 0 .. Len(line),
         Redraw(text, c, Len(line), d)
  PROVE  LineOK' /\ RowOK'
  <1>1. PICK l \in Line : l = line
    BY DEF ShellInv, LineOK
  <1>2. PICK n \in Nat : n = Len(l) /\ d \in 0 .. n
    BY <1>1, LineIs
  <1>3. text \in Seq(Letter) /\ Len(text) \in Nat
    BY LineIs
  <1>4. PICK w \in Seq(Letter) : w = Blanked(text, n)
    BY <1>2, <1>3, BlankedIs
  <1>5. PICK m \in Nat : m = Len(w) /\ m >= Len(text) /\ m >= n
    BY <1>2, <1>3, <1>4, BlankedIs
  <1>6. \A i \in 1 .. m : w[i] \in Letter /\ w[i] = IF i <= Len(text) THEN text[i] ELSE Space
    <2>1. \A i \in 1 .. m : w[i] = IF i <= Len(text) THEN text[i] ELSE Space
      BY <1>2, <1>3, <1>4, <1>5, BlankedIs
    <2>2. QED
      BY <1>5, <2>1, ElementOfSeq
  <1>7. x \in Nat /\ x <= Width /\ Width \in Nat
    BY Bounds DEF ShellInv, RowOK
  <1>8. PICK b \in Nat : b = LeftBy(d) /\ (x - d >= 0 => b = x - d)
    <2>1. x - d \in Int /\ 0 \in Int
      BY <1>2, <1>7
    <2>2. Max({0, x - d}) = IF 0 >= x - d THEN 0 ELSE x - d
      BY <2>1, MinMax
    <2>3. QED
      BY <2>1, <2>2 DEF LeftBy
  <1>9. PICK f : f = (inRow /\ d = pos /\ b + m < Width)
    OBVIOUS
  <1>10. /\ line' = text /\ pos' = c /\ inRow' = f
         /\ row' = IF f THEN [i \in 1 .. Width |-> IF i \in b + 1 .. b + m THEN w[i - b] ELSE row[i]]
                   ELSE FreshRow
         /\ x' = IF f THEN (b + m) - (m - c) ELSE Len(Prompt)
    <2>1. n = Len(line)
      BY <1>1, <1>2
    <2> DEFINE Drawn(v, k, a) ==
                 /\ inRow' = (inRow /\ d = pos /\ a + k < Width)
                 /\ row' = IF inRow /\ d = pos /\ a + k < Width
                           THEN [i \in 1 .. Width |-> IF i \in a + 1 .. a + k THEN v[i - a] ELSE row[i]]
                           ELSE FreshRow
                 /\ x' = IF inRow /\ d = pos /\ a + k < Width THEN (a + k) - (k - c) ELSE Len(Prompt)
    <2>2. /\ line' = text /\ pos' = c
          /\ Drawn(Blanked(text, Len(line)), Len(Blanked(text, Len(line))), LeftBy(d))
      BY Zenon DEF Redraw
    <2>3. Blanked(text, Len(line)) = w
      BY <1>4, <2>1
    <2>4. Len(Blanked(text, Len(line))) = m
      BY <1>5, <2>3
    <2>5. LeftBy(d) = b
      BY <1>8
    <2> HIDE DEF Drawn
    <2>6. Drawn(w, m, b)
      BY <2>2, <2>3, <2>4, <2>5, Zenon
    <2>7. inRow' = f
      BY <1>9, <2>6, Zenon DEF Drawn
    <2>8. CASE f
      <3>1. inRow /\ d = pos /\ b + m < Width
        BY <1>9, <2>8, Zenon
      <3>2. row' = [i \in 1 .. Width |-> IF i \in b + 1 .. b + m THEN w[i - b] ELSE row[i]]
            /\ x' = (b + m) - (m - c)
        BY <2>6, <3>1, Zenon DEF Drawn
      <3>3. QED
        BY <2>2, <2>7, <2>8, <3>2, Zenon
    <2>9. CASE ~f
      <3>1. ~(inRow /\ d = pos /\ b + m < Width)
        BY <1>9, <2>9, Zenon
      <3>2. row' = FreshRow /\ x' = Len(Prompt)
        BY <2>6, <3>1, Zenon DEF Drawn
      <3>3. QED
        BY <2>2, <2>7, <2>9, <3>2, Zenon
    <2>10. QED
      BY <2>8, <2>9
  <1>11. LineOK'
    BY <1>10 DEF LineOK
  <1>12. CASE f
    <2>1. inRow /\ d = pos /\ b + m < Width
      BY <1>9, <1>12
    <2>2. Shows(row, l) /\ x = P + pos /\ row \in [1 .. Width -> Letter]
      BY <1>1, <2>1 DEF ShellInv, RowOK
    <2>3. b = P /\ P \in Nat /\ P + m < Width
      <3>1. P \in Nat /\ x - d = P
        BY <1>2, <2>1, <2>2, Bounds
      <3>2. QED
        BY <1>8, <2>1, <3>1
    <2>4. row' = [i \in 1 .. Width |-> IF i \in P + 1 .. P + m THEN w[i - P] ELSE row[i]]
      BY <1>10, <1>12, <2>3
    <2>5. ASSUME NEW i \in 1 .. Width
          PROVE  /\ row'[i] \in Letter
                 /\ row'[i] = IF i <= P THEN Prompt[i] ELSE IF i <= P + Len(text) THEN text[i - P] ELSE Space
      <3>1. row'[i] = IF i \in P + 1 .. P + m THEN w[i - P] ELSE row[i]
        BY <2>4
      <3>2. row[i] = IF i <= P THEN Prompt[i] ELSE IF i <= P + n THEN l[i - P] ELSE Space
        BY <1>2, <2>2 DEF Shows
      <3>3. row[i] \in Letter /\ i \in Nat
        BY <2>2
      <3>4. CASE i <= P
        <4>1. ~(i \in P + 1 .. P + m)
          BY <2>3, <3>3, <3>4
        <4>2. QED
          BY <3>1, <3>2, <3>3, <3>4, <4>1
      <3>5. CASE i \in P + 1 .. P + m
        <4>1. PICK j \in 1 .. m : j = i - P
          BY <2>3, <3>5
        <4>2. row'[i] = w[j] /\ ~(i <= P) /\ (i <= P + Len(text) <=> j <= Len(text))
          BY <1>3, <2>3, <3>1, <3>3, <3>5, <4>1
        <4>3. w[j] \in Letter /\ w[j] = IF j <= Len(text) THEN text[j] ELSE Space
          BY <1>6
        <4>4. QED
          BY <4>1, <4>2, <4>3
      <3>6. CASE i > P + m
        <4>1. ~(i \in P + 1 .. P + m) /\ ~(i <= P) /\ ~(i <= P + n) /\ ~(i <= P + Len(text))
          BY <1>3, <1>5, <2>3, <3>3, <3>6
        <4>2. QED
          BY <3>1, <3>2, <3>3, <4>1
      <3>7. i <= P \/ i \in P + 1 .. P + m \/ i > P + m
        BY <2>3, <3>3
      <3>8. QED
        BY <3>4, <3>5, <3>6, <3>7
    <2>6. row' \in [1 .. Width -> Letter]
      BY <2>4, <2>5
    <2>7. Shows(row', text)
      BY <2>5 DEF Shows
    <2>8. x' = P + c /\ x' \in 0 .. Width /\ P + Len(text) < Width
      <3>1. c \in Nat /\ c <= Len(text)
        BY <1>3
      <3>2. x' = (P + m) - (m - c)
        BY <1>10, <1>12, <2>3
      <3>3. QED
        BY <1>3, <1>5, <1>7, <2>3, <3>1, <3>2
    <2>9. inRow' \in BOOLEAN
      BY <1>10, <1>12
    <2>10. QED
      BY <1>10, <1>11, <2>6, <2>7, <2>8, <2>9 DEF RowOK, Shows
  <1>13. CASE ~f
    <2>1. row' = FreshRow /\ x' = P /\ inRow' = FALSE
      BY <1>9, <1>10, <1>13, Bounds
    <2>2. x' \in 0 .. Width
      BY <2>1, Bounds
    <2>3. QED
      BY <1>11, <2>1, <2>2, FreshRowIs DEF RowOK
  <1>14. QED
    BY <1>12, <1>13

-----------------------------------------------------------------------------
(* The keys.                                                               *)

\* A line without one of its characters is a line.
LEMMA Removed ==
  ASSUME NEW l \in Line, NEW i \in 1 .. Len(l)
  PROVE  RemoveAt(l, i) \in Line /\ Len(RemoveAt(l, i)) = Len(l) - 1
  <1> DEFINE a == SubSeq(l, 1, i - 1)
             b == SubSeq(l, i + 1, Len(l))
  <1>1. l \in Seq(Letter) /\ Len(l) \in Nat /\ Len(l) <= Limit /\ i \in Nat /\ 1 <= i /\ i <= Len(l)
        /\ \A j \in 1 .. Len(l) : l[j] \in Letter
    BY LineIs, ElementOfSeq
  <1>2. a \in Seq(Letter) /\ Len(a) = i - 1
    <2>1. 1 \in Int /\ i - 1 \in Int /\ \A j \in 1 .. i - 1 : l[j] \in Letter
      BY <1>1
    <2>2. a \in Seq(Letter) /\ Len(a) = IF 1 <= i - 1 THEN (i - 1) - 1 + 1 ELSE 0
      BY <2>1, SubSeqProperties
    <2> HIDE DEF a
    <2>3. QED
      BY <1>1, <2>2
  <1>3. b \in Seq(Letter) /\ Len(b) = Len(l) - i
    <2>1. i + 1 \in Int /\ Len(l) \in Int /\ \A j \in i + 1 .. Len(l) : l[j] \in Letter
      BY <1>1
    <2>2. b \in Seq(Letter) /\ Len(b) = IF i + 1 <= Len(l) THEN Len(l) - (i + 1) + 1 ELSE 0
      BY <2>1, SubSeqProperties
    <2> HIDE DEF b
    <2>3. QED
      BY <1>1, <2>2
  <1>4. RemoveAt(l, i) = a \o b
    BY DEF RemoveAt
  <1> HIDE DEF a, b
  <1>5. a \o b \in Seq(Letter) /\ Len(a \o b) = Len(a) + Len(b)
    BY <1>2, <1>3, ConcatProperties
  <1>6. Len(a \o b) = Len(l) - 1 /\ Len(a \o b) <= Limit
    BY <1>1, <1>2, <1>3, <1>5, Bounds
  <1>7. QED
    BY <1>4, <1>5, <1>6, LineIs

\* A line that is not full with one more character is a line.
LEMMA Inserted ==
  ASSUME NEW l \in Line, NEW i \in 1 .. Len(l) + 1, NEW c \in Letter, Len(l) < Limit
  PROVE  InsertAt(l, i, c) \in Line /\ Len(InsertAt(l, i, c)) = Len(l) + 1
  <1> DEFINE a == SubSeq(l, 1, i - 1)
             b == SubSeq(l, i, Len(l))
             m == <<c>>
  <1>1. l \in Seq(Letter) /\ Len(l) \in Nat /\ i \in Nat /\ 1 <= i /\ i <= Len(l) + 1
        /\ \A j \in 1 .. Len(l) : l[j] \in Letter
    BY LineIs, ElementOfSeq
  <1>2. a \in Seq(Letter) /\ Len(a) = i - 1
    <2>1. 1 \in Int /\ i - 1 \in Int /\ \A j \in 1 .. i - 1 : l[j] \in Letter
      BY <1>1
    <2>2. a \in Seq(Letter) /\ Len(a) = IF 1 <= i - 1 THEN (i - 1) - 1 + 1 ELSE 0
      BY <2>1, SubSeqProperties
    <2> HIDE DEF a
    <2>3. QED
      BY <1>1, <2>2
  <1>3. b \in Seq(Letter) /\ Len(b) = Len(l) + 1 - i
    <2>1. i \in Int /\ Len(l) \in Int /\ \A j \in i .. Len(l) : l[j] \in Letter
      BY <1>1
    <2>2. b \in Seq(Letter) /\ Len(b) = IF i <= Len(l) THEN Len(l) - i + 1 ELSE 0
      BY <2>1, SubSeqProperties
    <2> HIDE DEF b
    <2>3. QED
      BY <1>1, <2>2
  <1>4. m \in Seq(Letter) /\ Len(m) = 1
    OBVIOUS
  <1>5. InsertAt(l, i, c) = (a \o m) \o b
    BY DEF InsertAt
  <1> HIDE DEF a, b, m
  <1>6. a \o m \in Seq(Letter) /\ Len(a \o m) = Len(a) + Len(m)
    BY <1>2, <1>4, ConcatProperties
  <1>7. (a \o m) \o b \in Seq(Letter) /\ Len((a \o m) \o b) = Len(a \o m) + Len(b)
    BY <1>3, <1>6, ConcatProperties
  <1>8. Len((a \o m) \o b) = Len(l) + 1 /\ Len((a \o m) \o b) <= Limit
    BY <1>1, <1>2, <1>3, <1>4, <1>6, <1>7, Bounds
  <1>9. QED
    BY <1>5, <1>7, <1>8, LineIs

\* A character goes in at the cursor.
LEMMA TypeKeeps ==
  ASSUME ShellInv, NEW c \in Char, Type(c)
  PROVE  ShellInv'
  <1>1. /\ Len(line) < Limit /\ Redraw(InsertAt(line, pos + 1, c), pos + 1, Len(line), pos)
        /\ UNCHANGED <<history, back, sudoer>>
    BY DEF Type, Room, Rest
  <1>2. PICK l \in Line : l = line /\ pos \in 0 .. Len(l) /\ Len(l) \in Nat
    BY LineIs DEF ShellInv, LineOK
  <1>3. PICK t \in Line : t = InsertAt(line, pos + 1, c) /\ Len(t) = Len(line) + 1
    BY <1>1, <1>2, Inserted, Bounds
  <1>4. pos + 1 \in 0 .. Len(t) /\ pos \in 0 .. Len(line)
    BY <1>2, <1>3
  <1>5. Redraw(t, pos + 1, Len(line), pos)
    BY <1>1, <1>3
  <1>6. LineOK' /\ RowOK'
    BY <1>4, <1>5, Redrawn
  <1>7. QED
    BY <1>1, <1>6 DEF ShellInv, HistoryOK

\* The character before the cursor goes.
LEMMA BackspaceKeeps ==
  ASSUME ShellInv, Backspace
  PROVE  ShellInv'
  <1>1. /\ pos > 0 /\ Redraw(RemoveAt(line, pos), pos - 1, Len(line), pos)
        /\ UNCHANGED <<history, back, sudoer>>
    BY DEF Backspace, Rest
  <1>2. PICK l \in Line : l = line /\ pos \in 0 .. Len(l) /\ Len(l) \in Nat
    BY LineIs DEF ShellInv, LineOK
  <1>3. PICK t \in Line : t = RemoveAt(line, pos) /\ Len(t) = Len(line) - 1
    BY <1>1, <1>2, Removed
  <1>4. pos - 1 \in 0 .. Len(t) /\ pos \in 0 .. Len(line)
    BY <1>1, <1>2, <1>3
  <1>5. Redraw(t, pos - 1, Len(line), pos)
    BY <1>1, <1>3
  <1>6. LineOK' /\ RowOK'
    BY <1>4, <1>5, Redrawn
  <1>7. QED
    BY <1>1, <1>6 DEF ShellInv, HistoryOK

\* The character at the cursor goes.
LEMMA DeleteKeeps ==
  ASSUME ShellInv, Delete
  PROVE  ShellInv'
  <1>1. /\ pos < Len(line) /\ Redraw(RemoveAt(line, pos + 1), pos, Len(line), pos)
        /\ UNCHANGED <<history, back, sudoer>>
    BY DEF Delete, Rest
  <1>2. PICK l \in Line : l = line /\ pos \in 0 .. Len(l) /\ Len(l) \in Nat
    BY LineIs DEF ShellInv, LineOK
  <1>3. PICK t \in Line : t = RemoveAt(line, pos + 1) /\ Len(t) = Len(line) - 1
    BY <1>1, <1>2, Removed
  <1>4. pos \in 0 .. Len(t) /\ pos \in 0 .. Len(line)
    BY <1>1, <1>2, <1>3
  <1>5. Redraw(t, pos, Len(line), pos)
    BY <1>1, <1>3
  <1>6. LineOK' /\ RowOK'
    BY <1>4, <1>5, Redrawn
  <1>7. QED
    BY <1>1, <1>6 DEF ShellInv, HistoryOK

\* The cursor goes one character to the left, in the line and on the screen.
LEMMA LeftKeeps ==
  ASSUME ShellInv, ArrowLeft
  PROVE  ShellInv'
  <1>1. /\ pos > 0 /\ pos' = pos - 1 /\ x' = Max({0, x - 1})
        /\ UNCHANGED <<line, row, inRow, history, back, sudoer>>
    BY DEF ArrowLeft, Rest, LeftBy
  <1>2. x \in Nat /\ x <= Width /\ Width \in Nat /\ pos \in 0 .. Len(line) /\ Len(line) \in Nat
    BY Bounds, LineIs DEF ShellInv, RowOK, LineOK
  <1>3. x' = IF 0 >= x - 1 THEN 0 ELSE x - 1
    <2>1. PICK y : y = x - 1
      OBVIOUS
    <2>2. y \in Int /\ 0 \in Int
      BY <1>2, <2>1
    <2>3. Max({0, y}) = IF 0 >= y THEN 0 ELSE y
      BY <2>2, MinMax
    <2>4. QED
      BY <1>1, <2>1, <2>3
  <1>4. pos' \in 0 .. Len(line) /\ x' \in 0 .. Width /\ (inRow => x' = P + pos')
    <2>1. inRow => x = P + pos /\ P \in Nat
      BY Bounds DEF ShellInv, RowOK
    <2>2. QED
      BY <1>1, <1>2, <1>3, <2>1
  <1>5. LineOK' /\ HistoryOK' /\ sudoer' \in BOOLEAN
    BY <1>1, <1>4 DEF ShellInv, LineOK, HistoryOK
  <1>6. RowOK'
    BY <1>1, <1>4 DEF ShellInv, RowOK, Shows
  <1>7. QED
    BY <1>5, <1>6 DEF ShellInv

\* The cursor goes one character to the right: the row has room for it there.
LEMMA RightKeeps ==
  ASSUME ShellInv, ArrowRight
  PROVE  ShellInv'
  <1>1. /\ pos < Len(line) /\ pos' = pos + 1 /\ x' = Min({x + 1, Width - 1})
        /\ UNCHANGED <<line, row, inRow, history, back, sudoer>>
    BY DEF ArrowRight, Rest
  <1>2. x \in Nat /\ x <= Width /\ Width \in Nat /\ Width > 0 /\ pos \in 0 .. Len(line) /\ Len(line) \in Nat
    BY Bounds, LineIs DEF ShellInv, RowOK, LineOK
  <1>3. x' = IF x + 1 <= Width - 1 THEN x + 1 ELSE Width - 1
    BY <1>1, <1>2, MinMax
  <1>4. pos' \in 0 .. Len(line) /\ x' \in 0 .. Width /\ (inRow => x' = P + pos')
    <2>1. inRow => x = P + pos /\ P + Len(line) < Width /\ P \in Nat
      BY Bounds DEF ShellInv, RowOK
    <2>2. QED
      BY <1>1, <1>2, <1>3, <2>1
  <1>5. LineOK' /\ HistoryOK' /\ sudoer' \in BOOLEAN
    BY <1>1, <1>4 DEF ShellInv, LineOK, HistoryOK
  <1>6. RowOK'
    BY <1>1, <1>4 DEF ShellInv, RowOK, Shows
  <1>7. QED
    BY <1>5, <1>6 DEF ShellInv

\* A line of the history, or an empty one, takes the place of the line.
LEMMA Recalled ==
  ASSUME ShellInv, NEW text \in Line, Recall(text)
  PROVE  LineOK' /\ RowOK'
  <1>1. Len(text) \in 0 .. Len(text) /\ Len(line) \in 0 .. Len(line)
    BY LineIs DEF ShellInv, LineOK
  <1>2. Redraw(text, Len(text), Len(line), Len(line))
    BY DEF Recall
  <1>3. QED
    BY <1>1, <1>2, Redrawn

\* One line back in the history.
LEMMA ArrowUpKeeps ==
  ASSUME ShellInv, ArrowUp
  PROVE  ShellInv'
  <1>1. back > 0 /\ back' = back - 1 /\ Recall(history[back]) /\ UNCHANGED <<history, sudoer>>
    BY DEF ArrowUp, Rest
  <1>2. history \in Seq(Line) /\ Len(history) \in Nat /\ back \in 0 .. Len(history)
    BY DEF ShellInv, HistoryOK
  <1>3. back \in 1 .. Len(history) /\ back' \in 0 .. Len(history)
    BY <1>1, <1>2
  <1>4. history[back] \in Line
    BY <1>2, <1>3, ElementOfSeq
  <1>5. LineOK' /\ RowOK'
    BY <1>1, <1>4, Recalled
  <1>6. QED
    BY <1>1, <1>3, <1>5 DEF ShellInv, HistoryOK

\* One line forward in the history, or past its end.
LEMMA ArrowDownKeeps ==
  ASSUME ShellInv, ArrowDown
  PROVE  ShellInv'
  <1>1. /\ back < Len(history) /\ back' = back + 1 /\ UNCHANGED <<history, sudoer>>
        /\ Recall(IF back' < Len(history) THEN history[back' + 1] ELSE <<>>)
    BY DEF ArrowDown, Rest
  <1>2. history \in Seq(Line) /\ Len(history) \in Nat /\ back \in 0 .. Len(history)
    BY DEF ShellInv, HistoryOK
  <1>3. back' \in 0 .. Len(history) /\ (back' < Len(history) => back' + 1 \in 1 .. Len(history))
    <2>1. PICK n \in Nat : n = Len(history) /\ back \in 0 .. n
      BY <1>2
    <2>2. PICK k \in Nat : k = back /\ k < n
      BY <1>1, <2>1
    <2>3. QED
      BY <1>1, <2>1, <2>2
  <1>4. PICK t \in Line : t = IF back' < Len(history) THEN history[back' + 1] ELSE <<>>
    <2>1. CASE back' < Len(history)
      BY <1>2, <1>3, <2>1, ElementOfSeq
    <2>2. CASE ~(back' < Len(history))
      BY <2>2, LineIs
    <2>3. QED
      BY <2>1, <2>2
  <1>5. LineOK' /\ RowOK'
    BY <1>1, <1>4, Recalled
  <1>6. QED
    BY <1>1, <1>3, <1>5 DEF ShellInv, HistoryOK
-----------------------------------------------------------------------------
(* A line entered.                                                         *)

\* print_prompt: an empty line after the prompt.
LEMMA Prompted ==
  ASSUME NewPrompt
  PROVE  LineOK' /\ RowOK'
  <1>1. line' = <<>> /\ pos' = 0 /\ row' = FreshRow /\ x' = P /\ inRow' = TRUE
    BY Bounds DEF NewPrompt
  <1>2. <<>> \in Line /\ Len(<<>>) = 0
    BY LineIs
  <1>3. P \in 0 .. Width /\ P = P + 0 /\ P + 0 < Width
    BY Bounds
  <1>4. LineOK'
    BY <1>1, <1>2 DEF LineOK
  <1>5. row' \in [1 .. Width -> Letter] /\ Shows(row', line')
    BY <1>1, FreshRowIs
  <1>6. x' \in 0 .. Width /\ inRow' \in BOOLEAN /\ x' = P + pos' /\ P + Len(line') < Width
    BY <1>1, <1>2, <1>3
  <1>7. RowOK'
    BY <1>5, <1>6 DEF RowOK, Shows
  <1>8. QED
    BY <1>4, <1>7

\* Nothing is entered: the arrows start at the end of the history again.
LEMMA EnterNothingKeeps ==
  ASSUME ShellInv, EnterNothing
  PROVE  ShellInv'
  <1>1. NewPrompt /\ back' = Len(history) /\ UNCHANGED <<history, sudoer>>
    BY DEF EnterNothing, Rest
  <1>2. LineOK' /\ RowOK'
    BY <1>1, Prompted
  <1>3. QED
    BY <1>1, <1>2 DEF ShellInv, HistoryOK

\* history_push: what is entered is the last line of the history, which stays in its bound.
LEMMA EnterKeeps ==
  ASSUME ShellInv, Enter
  PROVE  ShellInv'
  <1>1. NewPrompt /\ history' = Remembered(Entered) /\ back' = Len(history') /\ UNCHANGED sudoer
    BY DEF Enter
  <1>2. LineOK' /\ RowOK'
    BY <1>1, Prompted
  <1>3. PICK e \in Line : e = Entered
    <2>1. PICK l \in Line : l = line
      BY DEF ShellInv, LineOK
    <2>2. PICK k \in Nat : k = Len(Sudo)
      BY ShellAssumption
    <2>3. l \in Seq(Letter) /\ Len(l) \in Nat /\ Len(l) <= Limit
      BY LineIs
    <2>4. SubSeq(l, k + 1, Len(l)) \in Line
      <3>1. k + 1 \in Int /\ Len(l) \in Int /\ \A j \in k + 1 .. Len(l) : l[j] \in Letter
        BY <2>3, ElementOfSeq
      <3>2. /\ SubSeq(l, k + 1, Len(l)) \in Seq(Letter)
            /\ Len(SubSeq(l, k + 1, Len(l))) = IF k + 1 <= Len(l) THEN Len(l) - (k + 1) + 1 ELSE 0
        BY <3>1, SubSeqProperties
      <3>3. Len(SubSeq(l, k + 1, Len(l))) <= Limit
        BY <2>3, <3>2, Bounds
      <3>4. QED
        BY <3>2, <3>3, LineIs
    <2>5. QED
      BY <2>1, <2>2, <2>4 DEF Entered
  <1>4. HistoryOK'
    <2>1. PICK h \in Seq(Line) : h = history
      BY DEF ShellInv, HistoryOK
    <2>2. Len(h) \in Nat /\ Len(h) <= MaxHistory /\ MaxHistory \in Nat /\ MaxHistory > 0
      BY <2>1, Bounds DEF ShellInv, HistoryOK
    <2>3. CASE Len(h) < MaxHistory
      <3>1. history' = Append(h, e)
        BY <1>1, <1>3, <2>1, <2>3 DEF Remembered
      <3>2. Append(h, e) \in Seq(Line) /\ Len(Append(h, e)) = Len(h) + 1
        BY AppendProperties
      <3>3. history' \in Seq(Line) /\ Len(history') \in Nat /\ Len(history') <= MaxHistory
        BY <2>2, <2>3, <3>1, <3>2
      <3>4. QED
        BY <1>1, <3>3 DEF HistoryOK
    <2>4. CASE ~(Len(h) < MaxHistory)
      <3>1. history' = Append(Tail(h), e)
        BY <1>1, <1>3, <2>1, <2>4 DEF Remembered
      <3>2. h # <<>>
        BY <2>2, <2>4, LineIs
      <3>3. PICK t \in Seq(Line) : t = Tail(h) /\ Len(t) = Len(h) - 1
        BY <3>2, HeadTailProperties
      <3>4. Append(t, e) \in Seq(Line) /\ Len(Append(t, e)) = Len(t) + 1
        BY AppendProperties
      <3>5. history' \in Seq(Line) /\ Len(history') \in Nat /\ Len(history') <= MaxHistory
        BY <2>2, <3>1, <3>3, <3>4
      <3>6. QED
        BY <1>1, <3>5 DEF HistoryOK
    <2>5. QED
      BY <2>3, <2>4
  <1>5. QED
    BY <1>1, <1>2, <1>4 DEF ShellInv
-----------------------------------------------------------------------------
(* The theorems.                                                           *)

\* The shell starts with an empty line, and one line in its history.
LEMMA ShellInit == Init => ShellInv
  <1> SUFFICES ASSUME Init PROVE ShellInv
    OBVIOUS
  <1>1. /\ line = <<>> /\ pos = 0 /\ row = FreshRow /\ x = P /\ inRow = TRUE
        /\ history \in {<<text>> : text \in Past} /\ back = 1 /\ sudoer \in BOOLEAN
    BY Bounds DEF Init
  <1>2. <<>> \in Line /\ Len(<<>>) = 0
    BY LineIs
  <1>3. P \in 0 .. Width /\ P = P + 0 /\ P + 0 < Width
    BY Bounds
  <1>4. LineOK
    BY <1>1, <1>2 DEF LineOK
  <1>5. RowOK
    <2>1. row \in [1 .. Width -> Letter] /\ Shows(row, line)
      BY <1>1, FreshRowIs
    <2>2. x \in 0 .. Width /\ inRow \in BOOLEAN /\ x = P + pos /\ P + Len(line) < Width
      BY <1>1, <1>2, <1>3
    <2>3. QED
      BY <2>1, <2>2 DEF RowOK
  <1>6. HistoryOK
    <2>1. PICK text \in Past : history = <<text>>
      BY <1>1
    <2>2. text \in Line
      <3>1. text \in Seq(STRING) /\ Len(text) <= Limit /\ STRING \subseteq Letter
        BY ShellAssumption DEF Letter
      <3>2. text \in Seq(Letter)
        BY <3>1, SeqMonotonic
      <3>3. QED
        BY <3>1, <3>2, LineIs
    <2>3. history \in Seq(Line) /\ Len(history) = 1
      BY <2>1, <2>2
    <2>4. QED
      BY <1>1, <2>3, Bounds DEF HistoryOK
  <1>7. QED
    BY <1>1, <1>4, <1>5, <1>6 DEF ShellInv

\* Every step keeps the invariant.
LEMMA ShellNext == ShellInv /\ [Next]_vars => ShellInv'
  <1> SUFFICES ASSUME ShellInv, [Next]_vars PROVE ShellInv'
    OBVIOUS
  <1>1. CASE UNCHANGED vars
    BY <1>1 DEF vars, edited, ShellInv, LineOK, HistoryOK, RowOK, Shows
  <1>2. CASE Next
    <2>1. CASE \E c \in Char : Type(c)
      BY <2>1, TypeKeeps
    <2>2. CASE Backspace
      BY <2>2, BackspaceKeeps
    <2>3. CASE Delete
      BY <2>3, DeleteKeeps
    <2>4. CASE ArrowLeft
      BY <2>4, LeftKeeps
    <2>5. CASE ArrowRight
      BY <2>5, RightKeeps
    <2>6. CASE ArrowUp
      BY <2>6, ArrowUpKeeps
    <2>7. CASE ArrowDown
      BY <2>7, ArrowDownKeeps
    <2>8. CASE EnterNothing
      BY <2>8, EnterNothingKeeps
    <2>9. CASE Enter
      BY <2>9, EnterKeeps
    <2>10. QED
      BY <1>2, <2>1, <2>2, <2>3, <2>4, <2>5, <2>6, <2>7, <2>8, <2>9 DEF Next
  <1>3. QED
    BY <1>1, <1>2

\* Every state of the shell has the invariant.
THEOREM ShellInvariant == Spec => []ShellInv
  <1>1. Init => ShellInv
    BY ShellInit
  <1>2. ShellInv /\ [Next]_vars => ShellInv'
    BY ShellNext
  <1>3. QED
    BY <1>1, <1>2, PTL DEF Spec

\* The line stays in its buffer and the cursor in the line and on the row, the history in its
\* bound and the arrows in the history.
THEOREM TheLineStaysInItsBuffer == Spec => []TypeOK
  <1>1. ShellInv => TypeOK
    <2> SUFFICES ASSUME ShellInv PROVE TypeOK
      OBVIOUS
    <2>1. line \in Line /\ pos \in 0 .. Len(line) /\ Len(line) <= Limit
      BY LineIs DEF ShellInv, LineOK
    <2>2. history \in Seq(Line) /\ Len(history) <= MaxHistory /\ back \in 0 .. Len(history)
      BY DEF ShellInv, HistoryOK
    <2>3. \A i \in DOMAIN history : Len(history[i]) <= Limit
      <3>1. DOMAIN history = 1 .. Len(history)
        BY <2>2, LenProperties
      <3>2. \A i \in 1 .. Len(history) : history[i] \in Line
        BY <2>2, ElementOfSeq
      <3>3. QED
        BY <3>1, <3>2, LineIs
    <2>4. x \in 0 .. Width /\ row \in [1 .. Width -> Letter] /\ inRow \in BOOLEAN /\ sudoer \in BOOLEAN
      BY DEF ShellInv, RowOK
    <2>5. Len(row) = Width
      BY <2>4, Bounds, FunctionIsSeq
    <2>6. QED
      BY <2>1, <2>2, <2>3, <2>4, <2>5 DEF TypeOK
  <1>2. QED
    BY <1>1, ShellInvariant, PTL

\* redraw_input_line: whatever is typed, erased and recalled, the row that is followed shows the
\* prompt and the line and nothing of older lines, and the cursor is where the next character
\* goes.
THEOREM TheScreenShowsTheLine == Spec => []ScreenShowsLine
  <1>1. ShellInv => ScreenShowsLine
    <2> SUFFICES ASSUME ShellInv, inRow
                 PROVE  /\ row = Prompt \o line \o Spaces(Width - Len(Prompt) - Len(line))
                        /\ x = Len(Prompt) + pos
      BY DEF ScreenShowsLine
    <2>1. row \in [1 .. Width -> Letter] /\ Shows(row, line) /\ x = P + pos /\ P + Len(line) < Width
      BY DEF ShellInv, RowOK
    <2>2. line \in Seq(Letter)
      BY LineIs DEF ShellInv, LineOK
    <2>3. row = Prompt \o line \o Spaces(Width - Len(Prompt) - Len(line))
      BY <2>1, <2>2, WholeRow
    <2>4. QED
      BY <2>1, <2>3, Bounds
  <1>2. QED
    BY <1>1, ShellInvariant, PTL
=============================================================================
