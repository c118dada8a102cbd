------------------------------- MODULE PwmProofs -------------------------------
(***************************************************************************)
(* Module Pwm keeps its terminals apart, for every size of the screen, of  *)
(* the terminals and of their histories.                                   *)
(***************************************************************************)
EXTENDS Pwm, SequenceTheorems, TLAPS

\* What can be typed, and a terminal that holds no more than there is room for.
Line == {s \in Seq(Char) : Len(s) <= MaxInput}
Terminal == [input : Line, history : Seq(Line), position : Nat, lines : Nat, scroll : Nat]
Sound(t) ==
  /\ t \in Terminal
  /\ Len(t.history) <= MaxHistory /\ t.position <= Len(t.history)
  /\ t.lines <= MaxLines /\ t.scroll <= t.lines

\* What an independent terminal may hold.
Record == [followed : BOOLEAN, input : Line, log : Seq(Line), back : Nat]

\* The terminal t holds what the record o says; a command that reads keys has left the
\* history, and the line once it is over.
Agrees(t, o) ==
  /\ t.input = o.input /\ t.history = o.log
  /\ o.back <= Len(o.log) /\ t.position = Len(o.log) - o.back
Reads(t, o) == t.history = o.log /\ o.input = <<>> /\ o.back = 0
Holds(t, o, reading) == IF reading THEN Reads(t, o) ELSE Agrees(t, o)
Reading(w) == pc = "reading" /\ w = active

Places ==
  /\ pc \in {"shell", "loop", "reading"} /\ stop \in BOOLEAN
  /\ count \in 0 .. MaxWindows /\ active \in Int
  /\ pc # "shell" => active \in Windows /\ Windows \subseteq used
  /\ used \subseteq Slot
Terminals ==
  /\ terminals \in [Slot -> Terminal] /\ \A s \in Slot : Sound(terminals[s])
  /\ \A s \in Slot \ used : terminals[s] = Blank
Records ==
  pc # "shell" =>
    /\ own \in Seq(Record) /\ Len(own) = count
    /\ \A w \in Windows : own[w + 1].followed => Holds(terminals[w], own[w + 1], Reading(w))

PwmInv == Places /\ Terminals /\ Records
-----------------------------------------------------------------------------
(* What the operators on a terminal do.                                    *)

\* The smaller and the larger of two numbers.
LEMMA MinMax ==
  ASSUME NEW a \in Int, NEW b \in Int
  PROVE  /\ Min({a, b}) = IF a <= b THEN a ELSE b
         /\ Max({a, b}) = IF a >= b THEN a ELSE b
         /\ Min({a}) = a
  <1>1. \E x \in {a, b} : \A y \in {a, b} : x <= y
    OBVIOUS
  <1>2. \E x \in {a, b} : \A y \in {a, b} : x >= y
    OBVIOUS
  <1> DEFINE m == CHOOSE x \in {a, b} : \A y \in {a, b} : x <= y
             n == CHOOSE x \in {a, b} : \A y \in {a, b} : x >= y
  <1>3. m \in {a, b} /\ \A y \in {a, b} : m <= y
    BY <1>1
  <1>4. n \in {a, b} /\ \A y \in {a, b} : n >= y
    BY <1>2
  <1>5. Min({a, b}) = m /\ Max({a, b}) = n
    BY DEF Min, Max
  <1> HIDE DEF m, n
  <1>6. m = (IF a <= b THEN a ELSE b) /\ n = (IF a >= b THEN a ELSE b)
    BY <1>3, <1>4
  <1>7. Min({a}) = a
    BY DEF Min
  <1>8. QED
    BY <1>5, <1>6, <1>7

\* The bounds are numbers.
LEMMA Bounds ==
  /\ MaxWindows \in Nat /\ MaxWindows > 0 /\ MaxWindows <= 4
  /\ MaxInput \in Nat /\ MaxInput > 0 /\ MaxHistory \in Nat /\ MaxHistory > 0
  /\ MaxLines \in Nat /\ MaxLines > 0
  BY PwmAssumption

\* An empty line, and one with a character more or less.
LEMMA LineFacts ==
  /\ <<>> \in Line /\ <<>> \in Seq(Line) /\ Len(<<>>) = 0
  /\ \A s \in Line : Len(s) \in Nat
  /\ \A s \in Line, c \in Char : Len(s) < MaxInput => Append(s, c) \in Line
  /\ \A s \in Line : s # <<>> => Front(s) \in Line
  <1>1. <<>> \in Line /\ <<>> \in Seq(Line) /\ Len(<<>>) = 0
    BY Bounds DEF Line
  <1>2. ASSUME NEW s \in Line, NEW c \in Char, Len(s) < MaxInput
        PROVE  Append(s, c) \in Line
    <2>1. s \in Seq(Char) /\ Len(s) \in Nat
      BY DEF Line
    <2>2. Append(s, c) \in Seq(Char) /\ Len(Append(s, c)) = Len(s) + 1
      BY <2>1, AppendProperties
    <2>3. QED
      BY <1>2, <2>1, <2>2, Bounds DEF Line
  <1>3. ASSUME NEW s \in Line, s # <<>>
        PROVE  Front(s) \in Line
    <2>1. s \in Seq(Char) /\ Len(s) \in Nat /\ Len(s) > 0 /\ Len(s) <= MaxInput
      BY <1>3 DEF Line
    <2>2. \A i \in 1 .. Len(s) - 1 : s[i] \in Char
      BY <2>1
    <2>3. /\ SubSeq(s, 1, Len(s) - 1) \in Seq(Char)
          /\ Len(SubSeq(s, 1, Len(s) - 1)) = IF 1 <= Len(s) - 1 THEN (Len(s) - 1) - 1 + 1 ELSE 0
      BY <2>1, <2>2, SubSeqProperties
    <2>4. QED
      BY <2>1, <2>3, Bounds DEF Line, Front
  <1>4. \A s \in Line : Len(s) \in Nat
    BY DEF Line
  <1>5. QED
    BY <1>1, <1>2, <1>3, <1>4

\* What is printed changes neither the line nor the history.
LEMMA Printing ==
  ASSUME NEW t, Sound(t)
  PROVE  /\ Sound(Put(t)) /\ Put(t).input = t.input /\ Put(t).history = t.history
         /\ Put(t).position = t.position
         /\ Sound(Push(t)) /\ Push(t).input = t.input /\ Push(t).history = t.history
         /\ Push(t).position = t.position
         /\ Sound(Clear(t)) /\ Clear(t).input = <<>> /\ Clear(t).history = t.history
         /\ Clear(t).position = t.position
  <1>1. t \in Terminal /\ t.lines \in Nat /\ t.lines + 1 \in Int /\ MaxLines \in Int
    BY Bounds DEF Sound, Terminal
  <1>2. Min({t.lines + 1, MaxLines}) = IF t.lines + 1 <= MaxLines THEN t.lines + 1 ELSE MaxLines
    BY <1>1, MinMax
  <1> DEFINE n == Min({t.lines + 1, MaxLines})
  <1>3. n \in Nat /\ n <= MaxLines /\ t.lines <= n
    BY <1>1, <1>2, Bounds DEF Sound
  <1>4. Push(t) = [t EXCEPT !.lines = n]
    BY DEF Push
  <1> HIDE DEF n
  <1>5. /\ Sound(Push(t)) /\ Push(t).input = t.input /\ Push(t).history = t.history
        /\ Push(t).position = t.position
    BY <1>1, <1>3, <1>4 DEF Sound, Terminal
  <1> DEFINE k == IF t.lines = 0 THEN 1 ELSE t.lines
  <1>6. k \in Nat /\ k <= MaxLines /\ 0 <= k /\ 0 <= MaxLines /\ 0 \in Nat
    BY <1>1, Bounds DEF Sound
  <1>7. Put(t) = [t EXCEPT !.lines = k, !.scroll = 0]
    BY DEF Put
  <1> HIDE DEF k
  <1>8. /\ Sound(Put(t)) /\ Put(t).input = t.input /\ Put(t).history = t.history
        /\ Put(t).position = t.position
    BY <1>1, <1>6, <1>7 DEF Sound, Terminal
  <1> DEFINE e == <<>>
  <1>9. e \in Line /\ Clear(t) = [t EXCEPT !.lines = 0, !.input = e, !.scroll = 0]
    BY LineFacts DEF Clear
  <1> HIDE DEF e
  <1>10. /\ Sound(Clear(t)) /\ Clear(t).input = e /\ Clear(t).history = t.history
         /\ Clear(t).position = t.position
    <2>1. Clear(t) \in Terminal
      BY <1>1, <1>6, <1>9 DEF Terminal
    <2>2. /\ Clear(t).input = e /\ Clear(t).history = t.history /\ Clear(t).position = t.position
          /\ Clear(t).lines = 0 /\ Clear(t).scroll = 0
      BY <1>1, <1>9 DEF Terminal
    <2>3. QED
      BY <1>6, <2>1, <2>2 DEF Sound
  <1>11. QED
    BY <1>5, <1>8, <1>10 DEF e

\* The line is replaced, or its end changes.
LEMMA Typing ==
  ASSUME NEW t, Sound(t), NEW text \in Line
  PROVE  /\ Sound([t EXCEPT !.input = text])
         /\ Sound(replace_input(t, text))
         /\ replace_input(t, text).input = text /\ replace_input(t, text).history = t.history
  <1>1. ASSUME NEW u, Sound(u)
        PROVE  LET r == [u EXCEPT !.input = text]
               IN  Sound(r) /\ r.input = text /\ r.history = u.history
    BY <1>1 DEF Sound, Terminal
  <1> DEFINE u == IF text = <<>> THEN t ELSE Put(t)
             v == replace_input(t, text)
  <1>2. Sound(u) /\ u.history = t.history
    BY Printing
  <1>3. v = [u EXCEPT !.input = text]
    BY DEF replace_input
  <1> HIDE DEF u
  <1>4. Sound(v) /\ v.input = text /\ v.history = t.history
    BY <1>1, <1>2, <1>3
  <1> HIDE DEF v
  <1>5. QED
    BY <1>1, <1>4 DEF v

\* The line is replaced by what the arrows went to.
Placed(t, text, p) == [replace_input(t, text) EXCEPT !.position = p]

\* A terminal whose line was replaced so is sound.
LEMMA Placing ==
  ASSUME NEW t, Sound(t), NEW text \in Line, NEW p \in Nat, p <= Len(t.history)
  PROVE  LET r == Placed(t, text, p)
         IN  Sound(r) /\ r.input = text /\ r.history = t.history /\ r.position = p
  <1> DEFINE v == replace_input(t, text)
  <1>1. Sound(v) /\ v.input = text /\ v.history = t.history
    BY Typing
  <1>2. Placed(t, text, p) = [v EXCEPT !.position = p]
    BY DEF Placed
  <1> HIDE DEF v
  <1>3. QED
    BY <1>1, <1>2 DEF Sound, Terminal

\* pwm_save_history: the last commands, no more than there is room for.
LEMMA Saving ==
  ASSUME NEW t, Sound(t)
  PROVE  LET r == save_history(t)
         IN  /\ Sound(r) /\ r.input = t.input
             /\ t.input = <<>> => r = t
             /\ t.input # <<>> => /\ r.history = Recent(Append(t.history, t.input))
                                  /\ r.position = Len(r.history)
  <1>1. CASE t.input = <<>>
    BY <1>1 DEF save_history
  <1>2. CASE t.input # <<>>
    <2> DEFINE h == t.history
               x == t.input
               a == Append(h, x)
               g == IF Len(h) < MaxHistory THEN a ELSE Append(Tail(h), x)
    <2>1. h \in Seq(Line) /\ x \in Line /\ Len(h) \in Nat /\ Len(h) <= MaxHistory
      BY DEF Sound, Terminal
    <2>2. a \in Seq(Line) /\ Len(a) = Len(h) + 1
      BY <2>1, AppendProperties
    <2>3. /\ Len(h) < MaxHistory => Recent(a) = a
          /\ Len(h) = MaxHistory => Recent(a) = SubSeq(a, 2, Len(a))
      <3> HIDE DEF a, h
      <3>1. QED
        BY <2>1, <2>2, Bounds DEF Recent
    <2>4. Len(h) = MaxHistory => SubSeq(a, 2, Len(a)) = Append(Tail(h), x)
      <3>1. a # <<>> /\ Tail(a) = SubSeq(a, 2, Len(a))
        BY <2>1, <2>2, TailIsSubSeq, AppendProperties
      <3>2. Len(h) = MaxHistory => h # <<>>
        BY <2>1, Bounds
      <3>3. h # <<>> => Tail(a) = Append(Tail(h), x)
        BY <2>1, HeadTailAppend
      <3>4. QED
        BY <3>1, <3>2, <3>3
    <2>5. g = Recent(a)
      <3>1. CASE Len(h) < MaxHistory
        BY <2>3, <3>1
      <3>2. CASE Len(h) = MaxHistory
        <4>1. ~(Len(h) < MaxHistory) /\ g = Append(Tail(h), x)
          BY <2>1, <3>2, Bounds
        <4>2. QED
          BY <2>3, <2>4, <3>2, <4>1
      <3>3. QED
        BY <2>1, <3>1, <3>2, Bounds
    <2>6. g \in Seq(Line) /\ Len(g) <= MaxHistory /\ Len(g) \in Nat
      <3>1. CASE Len(h) < MaxHistory
        BY <2>1, <2>2, <3>1, Bounds
      <3>2. CASE Len(h) >= MaxHistory
        <4>1. Tail(h) \in Seq(Line) /\ Len(Tail(h)) = Len(h) - 1
          BY <2>1, <3>2, Bounds, HeadTailProperties
        <4>2. Append(Tail(h), x) \in Seq(Line) /\ Len(Append(Tail(h), x)) = Len(h)
          BY <2>1, <4>1, AppendProperties
        <4>3. QED
          BY <2>1, <3>2, <4>2, Bounds
      <3>3. QED
        BY <2>1, <3>1, <3>2, Bounds
    <2>7. save_history(t) = [t EXCEPT !.history = g, !.position = Len(g)]
      BY <1>2 DEF save_history
    <2> HIDE DEF g
    <2>8. LET r == save_history(t)
          IN  /\ Sound(r) /\ r.input = t.input /\ r.history = g /\ r.position = Len(g)
      <3> DEFINE r == save_history(t)
      <3>1. t \in Terminal /\ r = [t EXCEPT !.history = g, !.position = Len(g)]
        BY <2>7 DEF Sound
      <3> HIDE DEF r
      <3>2. /\ r \in Terminal /\ r.input = t.input /\ r.history = g /\ r.position = Len(g)
            /\ r.lines = t.lines /\ r.scroll = t.scroll
        BY <2>6, <3>1 DEF Terminal
      <3>3. Sound(r)
        BY <2>6, <3>2 DEF Sound
      <3>4. QED
        BY <3>2, <3>3 DEF r
    <2>9. QED
      BY <1>2, <2>5, <2>8
  <1>3. QED
    BY <1>1, <1>2

\* pwm_finish_command, the wheel, and what a command does to its terminal.
LEMMA Finishing ==
  ASSUME NEW t, Sound(t)
  PROVE  /\ Sound(Finished(t)) /\ Finished(t).input = <<>> /\ Finished(t).history = t.history
         /\ Finished(t).position = Len(t.history)
  <1> DEFINE e == <<>>
             n == Len(t.history)
             d == [t EXCEPT !.input = e, !.position = n]
  <1>1. t \in Terminal /\ n \in Nat /\ e \in Line
    BY LineFacts DEF Sound, Terminal
  <1>2. Finished(t) = IF stop' THEN d ELSE Put(d)
    BY DEF Finished
  <1>3. n = Len(t.history)
    OBVIOUS
  <1> HIDE DEF e, n
  <1>4. /\ d \in Terminal /\ d.input = e /\ d.history = t.history /\ d.position = n
        /\ d.lines = t.lines /\ d.scroll = t.scroll
    BY <1>1 DEF Terminal
  <1> HIDE DEF d
  <1>5. Sound(d)
    BY <1>1, <1>3, <1>4 DEF Sound
  <1>6. /\ Sound(Put(d)) /\ Put(d).input = e /\ Put(d).history = t.history /\ Put(d).position = n
    BY <1>4, <1>5, Printing
  <1>7. QED
    BY <1>2, <1>4, <1>5, <1>6 DEF e, n

\* handle_mouse's wheel moves the view and nothing else.
LEMMA Scrolling ==
  ASSUME NEW t, Sound(t), NEW wheel \in -1 .. 1
  PROVE  LET r == Scrolled(t, wheel)
         IN  Sound(r) /\ r.input = t.input /\ r.history = t.history /\ r.position = t.position
  <1>1. t \in Terminal /\ t.scroll \in Nat /\ t.lines \in Nat
    BY DEF Sound, Terminal
  <1> DEFINE m == Max({0, t.scroll - 2 * wheel})
             n == Min({m, t.lines})
             r == Scrolled(t, wheel)
  <1>2. m \in Nat
    <2>1. t.scroll - 2 * wheel \in Int
      BY <1>1
    <2> DEFINE x == t.scroll - 2 * wheel
    <2>2. m = Max({0, x}) /\ x \in Int /\ 0 \in Int
      BY <2>1
    <2> HIDE DEF x, m
    <2>3. m = IF 0 >= x THEN 0 ELSE x
      BY <2>2, MinMax
    <2>4. QED
      BY <2>2, <2>3
  <1>3. n \in Nat /\ n <= t.lines
    <2> HIDE DEF m
    <2> DEFINE x == t.lines
    <2>1. n = Min({m, x}) /\ x \in Int /\ x \in Nat /\ m \in Int
      BY <1>1, <1>2
    <2> HIDE DEF x, n
    <2>2. n = IF m <= x THEN m ELSE x
      BY <2>1, MinMax
    <2>3. QED
      BY <1>2, <2>1, <2>2 DEF x
  <1>4. r = [t EXCEPT !.scroll = n]
    BY DEF Scrolled
  <1> HIDE DEF n, r
  <1>5. /\ r \in Terminal /\ r.input = t.input /\ r.history = t.history /\ r.position = t.position
        /\ r.lines = t.lines /\ r.scroll = n
    BY <1>1, <1>3, <1>4 DEF Terminal
  <1>6. Sound(r)
    BY <1>3, <1>5 DEF Sound
  <1>7. QED
    BY <1>5, <1>6 DEF r

\* What a command prints or clears leaves the history alone.
LEMMA Running ==
  ASSUME NEW t, Sound(t), NEW c
  PROVE  /\ Sound(Ran(t, c)) /\ Ran(t, c).history = t.history
         /\ Ran(t, c).position = t.position
         /\ Ran(t, "edits").input = <<>>
  <1>1. LET r == [t EXCEPT !.scroll = 0]
        IN  Sound(r) /\ r.history = t.history /\ r.position = t.position
    <2> DEFINE r == [t EXCEPT !.scroll = 0]
    <2>1. t \in Terminal /\ 0 \in Nat /\ t.lines \in Nat /\ 0 <= t.lines
      BY DEF Sound, Terminal
    <2>2. /\ r \in Terminal /\ r.input = t.input /\ r.history = t.history /\ r.position = t.position
          /\ r.lines = t.lines /\ r.scroll = 0
      BY <2>1 DEF Terminal
    <2> HIDE DEF r
    <2>3. Sound(r)
      BY <2>1, <2>2 DEF Sound
    <2>4. QED
      BY <2>2, <2>3 DEF r
  <1>2. /\ Sound(Push(t)) /\ Push(t).history = t.history /\ Push(t).position = t.position
        /\ Sound(Clear(t)) /\ Clear(t).history = t.history /\ Clear(t).position = t.position
    BY Printing
  <1>3. /\ Sound(Push(Clear(t))) /\ Push(Clear(t)).history = t.history
        /\ Push(Clear(t)).position = t.position /\ Push(Clear(t)).input = <<>>
    BY Printing
  <1>4. LET r == Push([t EXCEPT !.scroll = 0])
        IN  Sound(r) /\ r.history = t.history /\ r.position = t.position
    BY <1>1, Printing
  <1>5. QED
    BY <1>2, <1>3, <1>4 DEF Ran

\* What a record becomes.
LEMMA Recording ==
  ASSUME NEW o \in Record, o.back <= Len(o.log), Len(o.log) <= MaxHistory
  PROVE  /\ \A text \in Line : LET r == [o EXCEPT !.input = text]
                               IN  /\ r \in Record /\ r.input = text /\ r.log = o.log
                                   /\ r.back = o.back
         /\ \A b \in Nat : b <= Len(o.log) =>
              LET r == Recalled(o, b)
              IN  /\ r \in Record /\ r.log = o.log /\ r.back = b
                  /\ r.input = IF b = 0 THEN <<>> ELSE o.log[Len(o.log) - b + 1]
         /\ LET r == Entered(o)
            IN  /\ r \in Record /\ r.input = <<>> /\ r.back = 0
                /\ r.log = IF o.input = <<>> THEN o.log ELSE Recent(Append(o.log, o.input))
         /\ Lost \in Record /\ ~Lost.followed
         /\ Fresh \in Record /\ Fresh.input = <<>> /\ Fresh.log = <<>> /\ Fresh.back = 0
  <1>1. o.log \in Seq(Line) /\ Len(o.log) \in Nat /\ o.input \in Line /\ o.back \in Nat
    BY DEF Record
  <1>2. ASSUME NEW text \in Line, NEW r, r = [o EXCEPT !.input = text]
        PROVE  r \in Record /\ r.input = text /\ r.log = o.log /\ r.back = o.back
    BY <1>2 DEF Record
  <1>3. ASSUME NEW b \in Nat, b <= Len(o.log)
        PROVE  LET r == Recalled(o, b)
               IN  /\ r \in Record /\ r.log = o.log /\ r.back = b
                   /\ r.input = IF b = 0 THEN <<>> ELSE o.log[Len(o.log) - b + 1]
    <2> DEFINE x == IF b = 0 THEN <<>> ELSE o.log[Len(o.log) - b + 1]
               r == Recalled(o, b)
    <2>1. x \in Line
      <3>1. b # 0 => Len(o.log) - b + 1 \in 1 .. Len(o.log)
        BY <1>1, <1>3
      <3>2. b # 0 => o.log[Len(o.log) - b + 1] \in Line
        BY <1>1, <3>1, ElementOfSeq
      <3>3. QED
        BY <3>2, LineFacts
    <2>2. r = [o EXCEPT !.back = b, !.input = x]
      BY DEF Recalled
    <2> HIDE DEF x, r
    <2>3. r \in Record /\ r.log = o.log /\ r.back = b /\ r.input = x
      BY <1>3, <2>1, <2>2 DEF Record
    <2>4. QED
      BY <2>3 DEF x, r
  <1>4. LET r == Entered(o)
        IN  /\ r \in Record /\ r.input = <<>> /\ r.back = 0
            /\ r.log = IF o.input = <<>> THEN o.log ELSE Recent(Append(o.log, o.input))
    <2> DEFINE g == IF o.input = <<>> THEN o.log ELSE Recent(Append(o.log, o.input))
               e == <<>>
               r == Entered(o)
    <2>1. g \in Seq(Line)
      <3> DEFINE a == Append(o.log, o.input)
      <3>1. a \in Seq(Line) /\ Len(a) = Len(o.log) + 1
        BY <1>1, AppendProperties
      <3> HIDE DEF a
      <3>2. Recent(a) \in Seq(Line)
        <4>1. \A i \in Len(a) - MaxHistory + 1 .. Len(a) :
                Len(a) > MaxHistory => a[i] \in Line
          BY <3>1, <1>1, Bounds, ElementOfSeq
        <4>2. Len(a) > MaxHistory => SubSeq(a, Len(a) - MaxHistory + 1, Len(a)) \in Seq(Line)
          BY <1>1, <3>1, <4>1, Bounds, SubSeqProperties
        <4>3. QED
          BY <1>1, <3>1, <4>2, Bounds DEF Recent
      <3>3. QED
        BY <1>1, <3>2 DEF a
    <2>2. e \in Line /\ r = [o EXCEPT !.log = g, !.input = e, !.back = 0]
      BY LineFacts DEF Entered
    <2> HIDE DEF g, e, r
    <2>3. r \in Record /\ r.log = g /\ r.back = 0 /\ r.input = e
      BY <2>1, <2>2 DEF Record
    <2>4. QED
      BY <2>3 DEF g, e, r
  <1>5. /\ Lost \in Record /\ ~Lost.followed
        /\ Fresh \in Record /\ Fresh.input = <<>> /\ Fresh.log = <<>> /\ Fresh.back = 0
    <2> DEFINE e == <<>>
    <2>1. e \in Line /\ e \in Seq(Line)
      BY LineFacts
    <2>2. Fresh = [followed |-> TRUE, input |-> e, log |-> e, back |-> 0]
      BY DEF Fresh
    <2> HIDE DEF e
    <2>3. Fresh \in Record /\ Fresh.input = e /\ Fresh.log = e /\ Fresh.back = 0
      BY <2>1, <2>2 DEF Record
    <2>4. Lost = [Fresh EXCEPT !.followed = FALSE]
      BY DEF Lost
    <2>5. Lost \in Record /\ Lost.followed = FALSE
      BY <2>3, <2>4 DEF Record
    <2>6. QED
      BY <2>3, <2>5 DEF e
  <1>6. QED
    BY <1>2, <1>3, <1>4, <1>5
-----------------------------------------------------------------------------
(* The layout: what is drawn of a window and what the mouse takes for it.  *)

\* Half of an even number and of an odd one.
LEMMA Half ==
  ASSUME NEW n \in Nat
  PROVE  /\ n \div 2 \in Nat /\ 2 * (n \div 2) <= n /\ n <= 2 * (n \div 2) + 1
         /\ n % 2 # 1 => n = 2 * (n \div 2)
         /\ n % 2 = 1 => n = 2 * (n \div 2) + 1
  <1>1. n \div 2 \in Nat
    OBVIOUS
  <1>2. PICK m \in Nat : m = n \div 2
    BY <1>1
  <1>3. 2 * m <= n /\ n <= 2 * m + 1
    BY <1>2
  <1>4. n % 2 # 1 => n = 2 * m
    BY <1>2
  <1>5. n % 2 = 1 => n = 2 * m + 1
    BY <1>2
  <1>6. QED
    BY <1>1, <1>2, <1>3, <1>4, <1>5

\* The places of the windows, one by one.
LEMMA PlacesOfWindows ==
  ASSUME NEW half \in Nat, half = Width \div 2, NEW mid \in Nat, mid = Height \div 2
  PROVE  /\ count = 1 => /\ window_geometry(0) = Rect(0, 0, Width, Height)
                         /\ drawn_window(0) = Rect(0, 0, Width, Height - 1)
         /\ count = 2 => /\ window_geometry(0) = Rect(0, 0, half, Height)
                         /\ window_geometry(1) = Rect(half, 0, half, Height)
                         /\ drawn_window(0) = Rect(0, 0, half, Height - 1)
                         /\ drawn_window(1) = Rect(half, 0, Width - half, Height - 1)
         /\ count = 3 => /\ window_geometry(0) = Rect(0, 0, half, Height)
                         /\ window_geometry(1) = Rect(half, 0, Width - half, mid)
                         /\ window_geometry(2) = Rect(half, mid, Width - half, Height - mid)
                         /\ drawn_window(0) = Rect(0, 0, half, Height - 1)
                         /\ drawn_window(1) = Rect(half, 0, Width - half, mid)
                         /\ drawn_window(2) = Rect(half, mid, Width - half, Height - 1 - mid)
         /\ count = 4 => /\ window_geometry(0) = Rect(0, 0, half, mid)
                         /\ window_geometry(1) = Rect(half, 0, half, mid)
                         /\ window_geometry(2) = Rect(0, mid, half, Height - mid)
                         /\ window_geometry(3) = Rect(half, mid, half, Height - mid)
                         /\ drawn_window(0) = Rect(0, 0, half, mid)
                         /\ drawn_window(1) = Rect(half, 0, Width - half, mid)
                         /\ drawn_window(2) = Rect(0, mid, half, Height - 1 - mid)
                         /\ drawn_window(3) = Rect(half, mid, Width - half, Height - 1 - mid)
  <1>1. /\ 0 % 2 = 0 /\ 1 % 2 = 1 /\ 2 % 2 = 0 /\ 3 % 2 = 1
        /\ 0 \div 2 = 0 /\ 1 \div 2 = 0 /\ 2 \div 2 = 1 /\ 3 \div 2 = 1
    OBVIOUS
  <1>2. 0 * half = 0 /\ 1 * half = half /\ 0 * mid = 0 /\ 1 * mid = mid
    OBVIOUS
  <1>3. /\ (1 - 1) * mid = 0 /\ (2 - 1) * mid = mid
    OBVIOUS
  <1>4. CASE count = 1
    BY <1>4 DEF window_geometry, drawn_window
  <1>5. CASE count = 2
    BY <1>2, <1>5 DEF window_geometry, drawn_window
  <1>6. CASE count = 3
    BY <1>2, <1>3, <1>6 DEF window_geometry, drawn_window
  <1>7. CASE count = 4
    <2>1. \A w : window_geometry(w) = Rect((w % 2) * half, (w \div 2) * mid, half,
                                           IF w \div 2 = 0 THEN mid ELSE Height - mid)
      BY <1>7 DEF window_geometry
    <2>2. \A w : drawn_window(w) = Rect((w % 2) * half, (w \div 2) * mid,
                                        IF w % 2 = 0 THEN half ELSE Width - half,
                                        IF w \div 2 = 0 THEN mid ELSE Height - 1 - mid)
      BY <1>7 DEF drawn_window
    <2>3. QED
      BY <1>1, <1>2, <1>7, <2>1, <2>2
  <1>8. QED
    BY <1>4, <1>5, <1>6, <1>7

\* A cell that is drawn is in the window's place, or on the last column of an odd screen
\* and in nobody's; no cell is in the places of two windows.
LEMMA Places4 ==
  ASSUME count \in 1 .. 4, NEW c \in Cell, NEW w \in Windows
  PROVE  /\ Covers(drawn_window(w), c) =>
              \/ Covers(window_geometry(w), c)
              \/ /\ Width % 2 = 1 /\ c[1] = Width - 1
                 /\ \A v \in Windows : ~Covers(window_geometry(v), c)
         /\ \A v \in Windows : Covers(window_geometry(v), c) /\ Covers(window_geometry(w), c) => v = w
  <1>1. PICK half \in Nat : half = Width \div 2
    BY PwmAssumption, Half
  <1>2. PICK mid \in Nat : mid = Height \div 2
    BY PwmAssumption, Half
  <1>3. PICK odd \in BOOLEAN : odd <=> Width % 2 = 1
    OBVIOUS
  <1>4. /\ Width \in Nat /\ Height \in Nat /\ 2 * mid <= Height
        /\ 2 * half <= Width /\ Width <= 2 * half + 1 /\ (~odd => Width = 2 * half)
    BY <1>1, <1>2, <1>3, PwmAssumption, Half
  <1>5. PICK x \in 0 .. Width - 1 : x = c[1]
    BY DEF Cell
  <1>6. PICK y \in 0 .. Height - 1 : y = c[2]
    BY DEF Cell
  <1>7. ASSUME NEW l, NEW t, NEW m, NEW n
        PROVE  Covers(Rect(l, t, m, n), c) <=> l <= x /\ x < l + m /\ t <= y /\ y < t + n
    BY <1>5, <1>6 DEF Covers, Rect
  <1> DEFINE G(v) == Covers(window_geometry(v), c)
             D(v) == Covers(drawn_window(v), c)
  <1>8. SUFFICES /\ D(w) => G(w) \/ (odd /\ x = Width - 1 /\ \A v \in Windows : ~G(v))
                 /\ \A v \in Windows : G(v) /\ G(w) => v = w
    BY <1>3, <1>5
  <1>9. CASE count = 1
    <2>1. Windows = {0}
      BY <1>9 DEF Windows
    <2>2. G(0) <=> (0 <= x /\ x < 0 + Width /\ 0 <= y /\ y < 0 + Height)
      BY <1>1, <1>2, <1>7, <1>9, PlacesOfWindows
    <2> HIDE DEF G, D
    <2>3. QED
      BY <1>4, <2>1, <2>2
  <1>10. CASE count = 2
    <2>1. Windows = {0, 1}
      BY <1>10 DEF Windows
    <2>2. /\ G(0) <=> (0 <= x /\ x < 0 + half /\ 0 <= y /\ y < 0 + Height)
          /\ G(1) <=> (half <= x /\ x < half + half /\ 0 <= y /\ y < 0 + Height)
          /\ D(0) <=> (0 <= x /\ x < 0 + half /\ 0 <= y /\ y < 0 + (Height - 1))
          /\ D(1) <=> (half <= x /\ x < half + (Width - half) /\ 0 <= y /\ y < 0 + (Height - 1))
      BY <1>1, <1>2, <1>7, <1>10, PlacesOfWindows
    <2> HIDE DEF G, D
    <2>3. QED
      BY <1>4, <2>1, <2>2
  <1>11. CASE count = 3
    <2>1. Windows = {0, 1, 2}
      BY <1>11 DEF Windows
    <2>2. /\ G(0) <=> (0 <= x /\ x < 0 + half /\ 0 <= y /\ y < 0 + Height)
          /\ G(1) <=> (half <= x /\ x < half + (Width - half) /\ 0 <= y /\ y < 0 + mid)
          /\ G(2) <=> (half <= x /\ x < half + (Width - half) /\ mid <= y /\ y < mid + (Height - mid))
      BY <1>1, <1>2, <1>7, <1>11, PlacesOfWindows
    <2>3. /\ D(0) <=> (0 <= x /\ x < 0 + half /\ 0 <= y /\ y < 0 + (Height - 1))
          /\ D(1) <=> (half <= x /\ x < half + (Width - half) /\ 0 <= y /\ y < 0 + mid)
          /\ D(2) <=> (half <= x /\ x < half + (Width - half) /\ mid <= y
                       /\ y < mid + (Height - 1 - mid))
      BY <1>1, <1>2, <1>7, <1>11, PlacesOfWindows
    <2> HIDE DEF G, D
    <2>4. QED
      BY <1>4, <2>1, <2>2, <2>3
  <1>12. CASE count = 4
    <2>1. Windows = {0, 1, 2, 3}
      BY <1>12 DEF Windows
    <2>2. /\ G(0) <=> (0 <= x /\ x < 0 + half /\ 0 <= y /\ y < 0 + mid)
          /\ G(1) <=> (half <= x /\ x < half + half /\ 0 <= y /\ y < 0 + mid)
          /\ G(2) <=> (0 <= x /\ x < 0 + half /\ mid <= y /\ y < mid + (Height - mid))
          /\ G(3) <=> (half <= x /\ x < half + half /\ mid <= y /\ y < mid + (Height - mid))
      BY <1>1, <1>2, <1>7, <1>12, PlacesOfWindows
    <2>3. /\ D(0) <=> (0 <= x /\ x < 0 + half /\ 0 <= y /\ y < 0 + mid)
          /\ D(1) <=> (half <= x /\ x < half + (Width - half) /\ 0 <= y /\ y < 0 + mid)
          /\ D(2) <=> (0 <= x /\ x < 0 + half /\ mid <= y /\ y < mid + (Height - 1 - mid))
          /\ D(3) <=> (half <= x /\ x < half + (Width - half) /\ mid <= y
                       /\ y < mid + (Height - 1 - mid))
      BY <1>1, <1>2, <1>7, <1>12, PlacesOfWindows
    <2> HIDE DEF G, D
    <2>4. QED
      BY <1>4, <2>1, <2>2, <2>3
  <1>13. QED
    BY <1>9, <1>10, <1>11, <1>12

\* A cell in one window's place is found there; the window found is one of those on screen.
LEMMA CursorWindow ==
  ASSUME count \in 0 .. 4, NEW c \in Cell
  PROVE  /\ cursor_window(c) \in Windows \cup {-1}
         /\ \A w \in Windows : Covers(window_geometry(w), c) => cursor_window(c) = w
         /\ (\A v \in Windows : ~Covers(window_geometry(v), c)) => cursor_window(c) = -1
  <1>1. ASSUME NEW w \in Windows, Covers(window_geometry(w), c)
        PROVE  cursor_window(c) = w
    <2>1. count \in 1 .. 4 /\ w \in Int
      BY DEF Windows
    <2>2. Under(c) = {w}
      BY <1>1, <2>1, Places4 DEF Under
    <2>3. QED
      BY <2>1, <2>2, MinMax DEF cursor_window
  <1>2. ASSUME \A v \in Windows : ~Covers(window_geometry(v), c)
        PROVE  cursor_window(c) = -1
    <2>1. Under(c) = {}
      BY <1>2 DEF Under
    <2>2. QED
      BY <2>1 DEF cursor_window
  <1>3. QED
    BY <1>1, <1>2

\* handle_mouse and draw_desktop agree.
LEMMA MouseAndDesktop ==
  ASSUME Places
  PROVE  WindowUnderCursor
  <1>1. count \in 0 .. 4
    BY Bounds DEF Places
  <1>2. ASSUME NEW w \in Windows, NEW c \in Cell, Covers(drawn_window(w), c)
        PROVE  cursor_window(c) = w \/ (Width % 2 = 1 /\ c[1] = Width - 1 /\ cursor_window(c) = -1)
    <2>1. count \in 1 .. 4
      BY <1>1 DEF Windows
    <2>2. QED
      BY <1>1, <1>2, <2>1, Places4, CursorWindow
  <1>3. QED
    BY <1>2 DEF WindowUnderCursor
-----------------------------------------------------------------------------
(* The steps.                                                              *)

\* The terminal in focus and its record.
LEMMA Focus ==
  ASSUME PwmInv, pc # "shell"
  PROVE  /\ active \in Windows /\ active \in Slot /\ active \in used /\ active \in Int
         /\ Sound(T) /\ T \in Terminal
         /\ active + 1 \in 1 .. Len(own) /\ own[active + 1] \in Record
         /\ own[active + 1].followed => Holds(T, own[active + 1], pc = "reading")
         /\ Len(T.history) \in Nat /\ T.history \in Seq(Line)
  <1>1. active \in Windows /\ Windows \subseteq used /\ used \subseteq Slot /\ active \in Int
    BY DEF PwmInv, Places
  <1>2. Sound(T) /\ T \in Terminal
    BY <1>1 DEF PwmInv, Terminals, Sound, T
  <1>3. own \in Seq(Record) /\ Len(own) = count /\ count \in Nat
    BY Bounds DEF PwmInv, Records, Places
  <1>4. active + 1 \in 1 .. Len(own)
    BY <1>1, <1>3 DEF Windows
  <1>5. own[active + 1] \in Record
    BY <1>3, <1>4, ElementOfSeq
  <1>6. own[active + 1].followed => Holds(T, own[active + 1], pc = "reading")
    BY <1>1 DEF PwmInv, Records, Reading, Holds, T
  <1>7. T.history \in Seq(Line)
    BY <1>2 DEF Terminal
  <1>8. QED
    BY <1>1, <1>2, <1>4, <1>5, <1>6, <1>7

\* A step on the terminal in focus that keeps it sound and its record true.
LEMMA FocusStep ==
  ASSUME PwmInv, pc # "shell", NEW t, Sound(t), Change(t), UNCHANGED <<count, active, used>>,
         pc' \in {"shell", "loop", "reading"}, pc = "reading" => pc' = "loop" \/ pc' = "reading",
         stop' \in BOOLEAN, NEW r, r \in Record, own' = [own EXCEPT ![active + 1] = r],
         r.followed => Holds(t, r, pc' = "reading")
  PROVE  PwmInv'
  <1>1. /\ active \in Windows /\ active \in Slot /\ active \in used /\ active \in Int
        /\ active + 1 \in 1 .. Len(own)
    BY Focus
  <1>2. Places'
    BY DEF PwmInv, Places, Windows
  <1>3. Terminals'
    <2>1. /\ terminals' = [terminals EXCEPT ![active] = t] /\ terminals \in [Slot -> Terminal]
          /\ t \in Terminal /\ \A s \in Slot : Sound(terminals[s])
      BY DEF Change, PwmInv, Terminals, Sound
    <2>2. /\ terminals' \in [Slot -> Terminal] /\ \A s \in Slot : Sound(terminals'[s])
          /\ \A s \in Slot : s # active => terminals'[s] = terminals[s]
      BY <1>1, <2>1
    <2>3. \A s \in Slot \ used' : terminals'[s] = Blank
      BY <1>1, <2>2 DEF PwmInv, Terminals
    <2>4. QED
      BY <2>2, <2>3 DEF Terminals
  <1>4. Records'
    <2>1. /\ own \in Seq(Record) /\ Len(own) = count /\ count \in Nat
          /\ \A w \in Windows : own[w + 1].followed => Holds(terminals[w], own[w + 1], Reading(w))
      BY Bounds DEF PwmInv, Records, Places
    <2>2. /\ own' \in Seq(Record) /\ Len(own') = count'
          /\ \A j \in 1 .. Len(own) : own'[j] = IF j = active + 1 THEN r ELSE own[j]
      BY <1>1, <2>1, ExceptSeq
    <2>3. ASSUME pc' # "shell", NEW w \in Windows, own'[w + 1].followed
          PROVE  Holds(terminals'[w], own'[w + 1], Reading(w)')
      <3>1. w \in Int /\ w + 1 \in 1 .. Len(own) /\ w \in Slot
        BY <2>1 DEF Windows, PwmInv, Places
      <3>2. CASE w = active
        <4>1. own'[w + 1] = r /\ terminals'[w] = t /\ (Reading(w)' <=> pc' = "reading")
          BY <1>1, <2>2, <3>1, <3>2 DEF Change, PwmInv, Terminals, Reading
        <4>2. QED
          BY <2>3, <4>1 DEF Holds
      <3>3. CASE w # active
        <4>1. own'[w + 1] = own[w + 1] /\ terminals'[w] = terminals[w] /\ ~Reading(w)' /\ ~Reading(w)
          BY <1>1, <2>2, <3>1, <3>3 DEF Change, PwmInv, Terminals, Reading
        <4>2. QED
          BY <2>1, <2>3, <4>1 DEF Holds
      <3>4. QED
        BY <3>2, <3>3
    <2>4. Windows' = Windows
      BY DEF Windows
    <2>5. \A w \in Windows' : pc' # "shell" /\ own'[w + 1].followed =>
                                Holds(terminals'[w], own'[w + 1], Reading(w)')
      BY <2>3, <2>4
    <2>6. QED
      BY <2>2, <2>5 DEF Records, Holds
  <1>5. QED
    BY <1>2, <1>3, <1>4 DEF PwmInv

\* What is recorded of a step in the loop: nothing once the terminal is not followed.
LEMMA Followed ==
  ASSUME PwmInv, pc = "loop", NEW t, Sound(t), Change(t), UNCHANGED <<count, active, used>>,
         pc' \in {"shell", "loop", "reading"}, stop' \in BOOLEAN, NEW o, Follow(o),
         own[active + 1].followed => o \in Record /\ Holds(t, o, pc' = "reading")
  PROVE  PwmInv'
  <1>1. own[active + 1] \in Record
    BY Focus
  <1>2. Lost \in Record /\ ~Lost.followed
    <2>1. Fresh = [followed |-> TRUE, input |-> <<>>, log |-> <<>>, back |-> 0]
      BY DEF Fresh
    <2> DEFINE e == <<>>
    <2>2. e \in Line /\ e \in Seq(Line) /\ Fresh = [followed |-> TRUE, input |-> e, log |-> e, back |-> 0]
      BY LineFacts, <2>1
    <2> HIDE DEF e
    <2>3. Fresh \in Record
      BY <2>2 DEF Record
    <2>4. Lost = [Fresh EXCEPT !.followed = FALSE]
      BY DEF Lost
    <2>5. Lost \in Record /\ Lost.followed = FALSE
      BY <2>3, <2>4 DEF Record
    <2>6. QED
      BY <2>5
  <1>3. PICK r : r = IF own[active + 1].followed THEN o ELSE Lost
    OBVIOUS
  <1>4. own' = [own EXCEPT ![active + 1] = r]
    BY <1>3 DEF Follow
  <1>5. r \in Record /\ (r.followed => Holds(t, r, pc' = "reading"))
    BY <1>2, <1>3
  <1>6. QED
    BY <1>4, <1>5, FocusStep

\* A character goes to the end of the line and of the record's line.
LEMMA TypeKeeps ==
  ASSUME PwmInv, NEW c \in Char, Type(c)
  PROVE  PwmInv'
  <1>1. /\ pc = "loop" /\ Len(T.input) < MaxInput /\ UNCHANGED <<count, active, used, pc, stop>>
        /\ Change(Put([T EXCEPT !.input = Append(@, c)]))
        /\ Follow([own[active + 1] EXCEPT !.input = Append(@, c)])
    BY DEF Type, Same
  <1> DEFINE text == Append(T.input, c)
             t == Put([T EXCEPT !.input = text])
             o == [own[active + 1] EXCEPT !.input = Append(own[active + 1].input, c)]
  <1>2. Sound(T) /\ T.input \in Line /\ T \in Terminal
    BY <1>1, Focus DEF Terminal
  <1>3. text \in Line
    BY <1>1, <1>2, LineFacts
  <1>4. own[active + 1] \in Record /\ (own[active + 1].followed => Agrees(T, own[active + 1]))
    BY <1>1, Focus DEF Holds
  <1>5. own[active + 1].followed => o = [own[active + 1] EXCEPT !.input = text]
    BY <1>4 DEF Agrees
  <1>6. Change(t) /\ Follow(o)
    BY <1>1
  <1> HIDE DEF text, o
  <1>7. LET u == [T EXCEPT !.input = text]
        IN  Sound(u) /\ u.input = text /\ u.history = T.history /\ u.position = T.position
    BY <1>2, <1>3, Typing DEF Terminal
  <1>8. Sound(t) /\ t.input = text /\ t.history = T.history /\ t.position = T.position
    BY <1>7, Printing
  <1> HIDE DEF t
  <1>9. own[active + 1].followed => o \in Record /\ Agrees(t, o)
    <2>1. SUFFICES ASSUME own[active + 1].followed PROVE o \in Record /\ Agrees(t, o)
      OBVIOUS
    <2>2. PICK q \in Record : q = own[active + 1]
      BY <1>4
    <2>3. o = [q EXCEPT !.input = text] /\ Agrees(T, q)
      BY <1>4, <1>5, <2>1, <2>2
    <2>4. o \in Record /\ o.input = text /\ o.log = q.log /\ o.back = q.back
      BY <1>3, <2>3 DEF Record
    <2>5. QED
      BY <1>8, <2>3, <2>4 DEF Agrees
  <1>10. stop \in BOOLEAN
    BY DEF PwmInv, Places
  <1>11. QED
    BY <1>1, <1>6, <1>8, <1>9, <1>10, Followed DEF Holds

\* The last character leaves both.
LEMMA BackspaceKeeps ==
  ASSUME PwmInv, Backspace
  PROVE  PwmInv'
  <1>1. /\ pc = "loop" /\ T.input # <<>> /\ UNCHANGED <<count, active, used, pc, stop>>
        /\ Change([T EXCEPT !.input = Front(@)])
        /\ Follow([own[active + 1] EXCEPT !.input = IF @ = <<>> THEN @ ELSE Front(@)])
    BY DEF Backspace, Same
  <1> DEFINE text == Front(T.input)
             t == [T EXCEPT !.input = text]
             p == own[active + 1].input
             o == [own[active + 1] EXCEPT !.input = IF p = <<>> THEN p ELSE Front(p)]
  <1>2. Sound(T) /\ T.input \in Line /\ T \in Terminal
    BY <1>1, Focus DEF Terminal
  <1>3. text \in Line
    BY <1>1, <1>2, LineFacts
  <1>4. own[active + 1] \in Record /\ (own[active + 1].followed => Agrees(T, own[active + 1]))
    BY <1>1, Focus DEF Holds
  <1>5. own[active + 1].followed => o = [own[active + 1] EXCEPT !.input = text]
    BY <1>1, <1>4 DEF Agrees
  <1>6. Change(t) /\ Follow(o)
    BY <1>1
  <1> HIDE DEF text, o
  <1>8. Sound(t) /\ t.input = text /\ t.history = T.history /\ t.position = T.position
    BY <1>2, <1>3, Typing DEF Terminal
  <1> HIDE DEF t
  <1>9. own[active + 1].followed => o \in Record /\ Agrees(t, o)
    <2>1. SUFFICES ASSUME own[active + 1].followed PROVE o \in Record /\ Agrees(t, o)
      OBVIOUS
    <2>2. PICK q \in Record : q = own[active + 1]
      BY <1>4
    <2>3. o = [q EXCEPT !.input = text] /\ Agrees(T, q)
      BY <1>4, <1>5, <2>1, <2>2
    <2>4. o \in Record /\ o.input = text /\ o.log = q.log /\ o.back = q.back
      BY <1>3, <2>3 DEF Record
    <2>5. QED
      BY <1>8, <2>3, <2>4 DEF Agrees
  <1>10. stop \in BOOLEAN
    BY DEF PwmInv, Places
  <1>11. QED
    BY <1>1, <1>6, <1>8, <1>9, <1>10, Followed DEF Holds

\* The arrows: the line is the command that is one further back or on, or empty at the end.
LEMMA ArrowKeeps ==
  ASSUME PwmInv, pc = "loop", UNCHANGED <<count, active, used, pc, stop>>,
         NEW p \in Nat, p <= Len(T.history),
         NEW text, text = IF p = Len(T.history) THEN <<>> ELSE T.history[p + 1],
         Change(Placed(T, text, p)),
         NEW o, Follow(o),
         own[active + 1].followed =>
           \/ o = Recalled(own[active + 1], Len(T.history) - p)
           \/ o = own[active + 1] /\ p = T.position /\ text = T.input
  PROVE  PwmInv'
  <1>1. /\ Sound(T) /\ own[active + 1] \in Record /\ T.history \in Seq(Line) /\ Len(T.history) \in Nat
        /\ own[active + 1].followed => Agrees(T, own[active + 1])
    BY Focus DEF Holds
  <1>2. text \in Line
    <2>1. p # Len(T.history) => p + 1 \in 1 .. Len(T.history)
      BY <1>1
    <2>2. p # Len(T.history) => T.history[p + 1] \in Line
      BY <1>1, <2>1, ElementOfSeq
    <2>3. QED
      BY <2>2, LineFacts
  <1> DEFINE t == Placed(T, text, p)
  <1>3. Sound(t) /\ t.input = text /\ t.history = T.history /\ t.position = p
    <2>1. PICK x : x = T
      OBVIOUS
    <2>2. Sound(x) /\ p <= Len(x.history)
      BY <1>1, <2>1
    <2> DEFINE r == Placed(x, text, p)
    <2>3. Sound(r) /\ r.input = text /\ r.history = x.history /\ r.position = p
      BY <1>2, <2>2, Placing
    <2>4. QED
      BY <2>1, <2>3
  <1>4. Change(t)
    OBVIOUS
  <1> HIDE DEF t
  <1>5. ASSUME own[active + 1].followed PROVE o \in Record /\ Agrees(t, o)
    <2>1. PICK q \in Record : q = own[active + 1]
      BY <1>1
    <2>2. Agrees(T, q) /\ q.log = T.history /\ q.back <= Len(q.log) /\ Len(q.log) <= MaxHistory
      BY <1>1, <1>5, <2>1 DEF Agrees, Sound
    <2>3. CASE o = q /\ p = T.position /\ text = T.input
      BY <1>3, <2>2, <2>3 DEF Agrees
    <2>4. CASE o = Recalled(q, Len(T.history) - p)
      <3> DEFINE b == Len(T.history) - p
      <3>1. b \in Nat /\ b <= Len(q.log) /\ p = Len(q.log) - b /\ (b = 0 <=> p = Len(T.history))
            /\ Len(q.log) - b + 1 = p + 1
        BY <1>1, <2>2
      <3> HIDE DEF b
      <3>2. o = Recalled(q, b)
        BY <2>4 DEF b
      <3>3. /\ o \in Record /\ o.log = q.log /\ o.back = b
            /\ o.input = IF b = 0 THEN <<>> ELSE q.log[Len(q.log) - b + 1]
        BY <2>2, <3>1, <3>2, Recording
      <3>4. o.input = text
        BY <2>2, <3>1, <3>3
      <3>5. QED
        BY <1>3, <2>2, <3>1, <3>3, <3>4 DEF Agrees
    <2>5. QED
      BY <1>5, <2>1, <2>3, <2>4
  <1>6. stop \in BOOLEAN
    BY DEF PwmInv, Places
  <1>7. QED
    BY <1>3, <1>4, <1>5, <1>6, Followed DEF Holds

\* pwm_run, an arrow up: one command further back, or still at the first.
LEMMA ArrowUpKeeps ==
  ASSUME PwmInv, ArrowUp
  PROVE  PwmInv'
  <1>1. /\ pc = "loop" /\ UNCHANGED <<count, active, used, pc, stop>> /\ T.history # <<>>
    BY DEF ArrowUp, Same
  <1>2. /\ Sound(T) /\ own[active + 1] \in Record /\ T.history \in Seq(Line) /\ Len(T.history) \in Nat
        /\ own[active + 1].followed => Agrees(T, own[active + 1])
        /\ T.position \in Nat /\ T.position <= Len(T.history)
    BY <1>1, Focus DEF Holds, Sound, Terminal
  <1>3. PICK p : p = Max({T.position - 1, 0})
    OBVIOUS
  <1>4. p = IF T.position - 1 >= 0 THEN T.position - 1 ELSE 0
    <2> DEFINE x == T.position - 1
    <2>1. p = Max({x, 0}) /\ x \in Int /\ 0 \in Int
      BY <1>2, <1>3
    <2> HIDE DEF x
    <2>2. p = IF x >= 0 THEN x ELSE 0
      BY <2>1, MinMax
    <2>3. QED
      BY <2>2 DEF x
  <1>5. Len(T.history) > 0
    BY <1>1, <1>2
  <1>6. p \in Nat /\ p < Len(T.history)
    BY <1>2, <1>4, <1>5
  <1>7. Change([replace_input(T, T.history[p + 1]) EXCEPT !.position = p])
    BY <1>3 DEF ArrowUp
  <1> DEFINE q == own[active + 1]
             o == IF q.log = <<>> THEN q ELSE Recalled(q, Min({q.back + 1, Len(q.log)}))
  <1>8. Follow(o)
    BY DEF ArrowUp
  <1>9. q.followed => o = Recalled(q, Len(T.history) - p)
    <2>1. SUFFICES ASSUME q.followed PROVE o = Recalled(q, Len(T.history) - p)
      OBVIOUS
    <2> HIDE DEF q
    <2>2. q.log = T.history /\ q.back \in Nat /\ q.back <= Len(T.history)
          /\ T.position = Len(T.history) - q.back
      BY <1>2, <2>1 DEF Agrees, Record, q
    <2> DEFINE x == q.back + 1
               y == Len(q.log)
               m == Min({x, y})
    <2>3. x \in Int /\ y \in Int
      BY <1>2, <2>2
    <2> HIDE DEF x, y
    <2>4. m = IF x <= y THEN x ELSE y
      BY <2>3, MinMax
    <2> HIDE DEF m
    <2>5. m = Len(T.history) - p
      BY <1>2, <1>4, <2>2, <2>4 DEF x, y
    <2>6. QED
      BY <1>1, <2>2, <2>5 DEF m, x, y
  <1> HIDE DEF o
  <1>10. PICK text : text = T.history[p + 1]
    OBVIOUS
  <1>11. p # Len(T.history) /\ p <= Len(T.history)
    BY <1>2, <1>6
  <1>12. /\ text = IF p = Len(T.history) THEN <<>> ELSE T.history[p + 1]
         /\ Change(Placed(T, text, p))
    BY <1>7, <1>10, <1>11 DEF Placed
  <1>13. own[active + 1].followed => \/ o = Recalled(own[active + 1], Len(T.history) - p)
                                     \/ o = own[active + 1] /\ p = T.position /\ text = T.input
    BY <1>9
  <1>14. QED
    BY <1>1, <1>6, <1>8, <1>11, <1>12, <1>13, ArrowKeeps

\* pwm_run, an arrow down: one command on, or the empty line after the last.
LEMMA ArrowDownKeeps ==
  ASSUME PwmInv, ArrowDown
  PROVE  PwmInv'
  <1>1. /\ pc = "loop" /\ UNCHANGED <<count, active, used, pc, stop>>
        /\ T.position < Len(T.history)
    BY DEF ArrowDown, Same
  <1>2. /\ Sound(T) /\ own[active + 1] \in Record /\ T.history \in Seq(Line) /\ Len(T.history) \in Nat
        /\ own[active + 1].followed => Agrees(T, own[active + 1])
        /\ T.position \in Nat
    BY <1>1, Focus DEF Holds, Sound, Terminal
  <1>3. PICK p : p = T.position + 1
    OBVIOUS
  <1>4. p \in Nat /\ p <= Len(T.history)
    BY <1>1, <1>2, <1>3
  <1>5. PICK text : text = IF p = Len(T.history) THEN <<>> ELSE T.history[p + 1]
    OBVIOUS
  <1>6. Change(Placed(T, text, p))
    BY <1>3, <1>5 DEF ArrowDown, Placed
  <1> DEFINE q == own[active + 1]
             o == IF q.back = 0 THEN q ELSE Recalled(q, q.back - 1)
  <1>7. Follow(o)
    BY DEF ArrowDown
  <1>8. q.followed => o = Recalled(q, Len(T.history) - p)
    <2>1. SUFFICES ASSUME q.followed PROVE o = Recalled(q, Len(T.history) - p)
      OBVIOUS
    <2> HIDE DEF q
    <2>2. q.log = T.history /\ q.back \in Nat /\ T.position = Len(T.history) - q.back
      BY <1>2, <2>1 DEF Agrees, Record, q
    <2>3. q.back # 0 /\ q.back - 1 = Len(T.history) - p
      BY <1>1, <1>2, <1>3, <2>2
    <2>4. QED
      BY <2>3
  <1> HIDE DEF o
  <1>9. QED
    BY <1>1, <1>4, <1>5, <1>6, <1>7, <1>8, ArrowKeeps

\* pwm_submit_input: the command is in the history, in the terminal as in the record.
LEMMA EnterKeeps ==
  ASSUME PwmInv, NEW c \in {"none", "prints", "clear", "reload", "stop", "edits"}, Enter(c)
  PROVE  PwmInv'
  <1>1. /\ pc = "loop" /\ UNCHANGED <<count, active, used>> /\ stop' = (c = "stop")
        /\ pc' = CASE c = "edits" -> "reading" [] c = "stop" -> "shell" [] OTHER -> "loop"
        /\ Follow(Entered(own[active + 1]))
    BY DEF Enter
  <1>2. /\ Sound(T) /\ own[active + 1] \in Record
        /\ own[active + 1].followed => Agrees(T, own[active + 1])
    BY <1>1, Focus DEF Holds
  <1> DEFINE s == save_history(Push(T))
             u == Ran(s, c)
             t == IF c = "edits" THEN u ELSE Finished(u)
  <1>3. Sound(Push(T)) /\ Push(T).input = T.input /\ Push(T).history = T.history
        /\ Push(T).position = T.position
    BY <1>2, Printing
  <1>4. /\ Sound(s)
        /\ T.input = <<>> => s.history = T.history
        /\ T.input # <<>> => s.history = Recent(Append(T.history, T.input))
    <2> DEFINE v == Push(T)
    <2>1. Sound(v) /\ v.input = T.input /\ v.history = T.history
      BY <1>3
    <2> HIDE DEF v
    <2>2. /\ Sound(save_history(v)) /\ (v.input = <<>> => save_history(v) = v)
          /\ v.input # <<>> => save_history(v).history = Recent(Append(v.history, v.input))
      BY <2>1, Saving
    <2>3. QED
      BY <2>1, <2>2 DEF v
  <1> HIDE DEF s
  <1>5. Sound(u) /\ u.history = s.history
    BY <1>4, Running
  <1> HIDE DEF u
  <1>6. Sound(t) /\ t.history = s.history /\ (c # "edits" => t.input = <<>> /\ t.position = Len(t.history))
    BY <1>5, Finishing
  <1>7. Change(t)
    BY DEF Enter, s, u
  <1> HIDE DEF t
  <1>8. PICK o : o = Entered(own[active + 1])
    OBVIOUS
  <1>9. ASSUME own[active + 1].followed PROVE o \in Record /\ Holds(t, o, pc' = "reading")
    <2>1. PICK q \in Record : q = own[active + 1]
      BY <1>2
    <2>2. /\ q.log = T.history /\ q.input = T.input /\ q.back <= Len(q.log) /\ Len(q.log) <= MaxHistory
      BY <1>2, <1>9, <2>1 DEF Agrees, Sound
    <2>3. /\ o \in Record /\ o.input = <<>> /\ o.back = 0
          /\ o.log = IF q.input = <<>> THEN q.log ELSE Recent(Append(q.log, q.input))
      BY <1>8, <2>1, <2>2, Recording
    <2>4. o.log = t.history
      BY <1>4, <1>6, <2>2, <2>3
    <2>5. CASE c = "edits"
      <3>1. pc' = "reading"
        BY <1>1, <2>5
      <3>2. QED
        BY <2>3, <2>4, <3>1 DEF Holds, Reads
    <2>6. CASE c # "edits"
      <3>1. pc' # "reading"
        BY <1>1, <2>6
      <3>2. Len(o.log) \in Nat
        BY <2>3 DEF Record
      <3>3. QED
        BY <1>6, <2>3, <2>4, <2>6, <3>1, <3>2 DEF Holds, Agrees
    <2>7. QED
      BY <2>5, <2>6
  <1>10. pc' \in {"shell", "loop", "reading"} /\ stop' \in BOOLEAN
    BY <1>1
  <1>11. Follow(o)
    BY <1>1, <1>8
  <1>12. QED
    BY <1>1, <1>6, <1>7, <1>9, <1>10, <1>11, Followed

\* pwm_command_read_char: the editor's keys, and its end.
LEMMA EditorKeeps ==
  ASSUME PwmInv, EditorKey \/ EditorQuits
  PROVE  PwmInv'
  <1>1. /\ pc = "reading" /\ UNCHANGED <<count, active, used, own>>
        /\ \/ Change(Ran(T, "edits")) /\ pc' = "reading" /\ stop' = stop
           \/ Change(Finished(T)) /\ pc' = "loop" /\ stop' = FALSE
    BY DEF EditorKey, EditorQuits, Same, FinishesActive
  <1>2. PICK r \in Record : r = own[active + 1]
    BY <1>1, Focus
  <1>3. Sound(T) /\ (r.followed => Reads(T, r)) /\ Len(r.log) \in Nat
    BY <1>1, <1>2, Focus DEF Holds, Record
  <1>4. own' = [own EXCEPT ![active + 1] = r]
    <2>1. own \in Seq(Record)
      BY <1>1 DEF PwmInv, Records
    <2>2. QED
      BY <1>1, <1>2, <2>1
  <1>5. stop' \in BOOLEAN
    BY <1>1 DEF PwmInv, Places
  <1>6. CASE Change(Ran(T, "edits")) /\ pc' = "reading"
    <2>1. PICK t : t = Ran(T, "edits")
      OBVIOUS
    <2>2. Sound(t) /\ t.history = T.history
      BY <1>3, <2>1, Running
    <2>3. r.followed => Holds(t, r, pc' = "reading")
      BY <1>3, <1>6, <2>2 DEF Holds, Reads
    <2>4. QED
      BY <1>1, <1>4, <1>5, <1>6, <2>1, <2>2, <2>3, FocusStep
  <1>7. CASE Change(Finished(T)) /\ pc' = "loop"
    <2>1. PICK t : t = Finished(T)
      OBVIOUS
    <2>2. Sound(t) /\ t.history = T.history /\ t.input = <<>> /\ t.position = Len(T.history)
      BY <1>3, <2>1, Finishing
    <2>3. r.followed => Holds(t, r, pc' = "reading")
      BY <1>3, <1>7, <2>2 DEF Holds, Reads, Agrees
    <2>4. QED
      BY <1>1, <1>4, <1>5, <1>7, <2>1, <2>2, <2>3, FocusStep
  <1>8. QED
    BY <1>1, <1>6, <1>7
-----------------------------------------------------------------------------
(* Terminals come and go.                                                  *)

\* A slot that was never used holds nothing, and a new terminal nothing but its prompt.
LEMMA Blanks ==
  /\ Sound(Blank) /\ Fresh \in Record /\ Lost \in Record /\ ~Lost.followed
  /\ Agrees(Put(Blank), Fresh)
  <1> DEFINE e == <<>>
  <1>1. e \in Line /\ e \in Seq(Line) /\ Len(e) = 0 /\ 0 <= MaxHistory /\ 0 <= MaxLines
    BY LineFacts, Bounds
  <1>2. Blank = [input |-> e, history |-> e, position |-> 0, lines |-> 0, scroll |-> 0]
    BY DEF Blank
  <1>3. Fresh = [followed |-> TRUE, input |-> e, log |-> e, back |-> 0]
    BY DEF Fresh
  <1> HIDE DEF e
  <1>4. Sound(Blank) /\ Blank.input = e /\ Blank.history = e /\ Blank.position = 0
    BY <1>1, <1>2 DEF Sound, Terminal
  <1>5. Fresh \in Record /\ Fresh.input = e /\ Fresh.log = e /\ Fresh.back = 0
    BY <1>1, <1>3 DEF Record
  <1>6. Lost \in Record /\ ~Lost.followed
    <2>1. Lost = [Fresh EXCEPT !.followed = FALSE]
      BY DEF Lost
    <2>2. Lost \in Record /\ Lost.followed = FALSE
      BY <1>5, <2>1 DEF Record
    <2>3. QED
      BY <2>2
  <1>7. PICK b : b = Blank
    OBVIOUS
  <1>8. Put(b).input = e /\ Put(b).history = e /\ Put(b).position = 0
    BY <1>4, <1>7, Printing
  <1>9. Agrees(Put(b), Fresh)
    BY <1>1, <1>5, <1>8 DEF Agrees
  <1>10. QED
    BY <1>4, <1>5, <1>6, <1>7, <1>9

\* create_terminal: one more terminal, which is the one in focus; the others are left alone.
LEMMA Creating ==
  ASSUME PwmInv, NEW n \in Nat, Create(n)
  PROVE  /\ Terminals' /\ n \in Slot /\ used' = used \cup {n} /\ used' \subseteq Slot
         /\ n \notin used => Agrees(terminals'[n], Fresh)
         /\ \A s \in Slot : s # n => terminals'[s] = terminals[s]
  <1>1. n \in Slot /\ used' = used \cup {n} /\ terminals' = [terminals EXCEPT ![n] = Put(@)]
        /\ used \subseteq Slot
    BY Bounds DEF Create, Slot, PwmInv, Places
  <1>2. /\ terminals \in [Slot -> Terminal] /\ \A s \in Slot : Sound(terminals[s])
        /\ \A s \in Slot \ used : terminals[s] = Blank
    BY DEF PwmInv, Terminals
  <1>3. PICK u : u = Put(terminals[n])
    OBVIOUS
  <1>4. Sound(u) /\ u \in Terminal
    <2>1. PICK t : t = terminals[n]
      OBVIOUS
    <2>2. Sound(Put(t))
      BY <1>1, <1>2, <2>1, Printing
    <2>3. QED
      BY <1>3, <2>1, <2>2 DEF Sound
  <1>5. terminals' = [terminals EXCEPT ![n] = u]
    BY <1>1, <1>3
  <1>6. terminals' \in [Slot -> Terminal] /\ terminals'[n] = u
    BY <1>1, <1>2, <1>4, <1>5
  <1>7. \A s \in Slot : s # n => terminals'[s] = terminals[s]
    BY <1>1, <1>2, <1>5
  <1>8. Terminals'
    <2>1. \A s \in Slot : Sound(terminals'[s])
      BY <1>2, <1>4, <1>6, <1>7
    <2>2. \A s \in Slot \ used' : terminals'[s] = Blank
      BY <1>1, <1>2, <1>7
    <2>3. QED
      BY <1>6, <2>1, <2>2 DEF Terminals
  <1>9. n \notin used => Agrees(terminals'[n], Fresh)
    <2>1. n \notin used => terminals[n] = Blank
      BY <1>1, <1>2
    <2>2. QED
      BY <1>3, <1>6, <2>1, Blanks
  <1>10. QED
    BY <1>1, <1>7, <1>8, <1>9

\* pwm_run: the first terminal; when the slot was used before, nothing is promised of it.
LEMMA StartKeeps ==
  ASSUME PwmInv, Start
  PROVE  PwmInv'
  <1>1. /\ pc' = "loop" /\ stop' = FALSE /\ active' = 0 /\ count' = 1 /\ Create(0)
        /\ own' = <<IF 0 \in used THEN Lost ELSE Fresh>>
    BY DEF Start, Create
  <1>2. /\ Terminals' /\ 0 \in Slot /\ used' = used \cup {0} /\ used' \subseteq Slot
        /\ 0 \notin used => Agrees(terminals'[0], Fresh)
    BY <1>1, Creating
  <1>3. Windows' = {0}
    BY <1>1 DEF Windows
  <1>4. Places'
    <2>1. count' \in 0 .. MaxWindows /\ active' \in Int
      BY <1>1, Bounds
    <2>2. active' \in Windows' /\ Windows' \subseteq used'
      BY <1>1, <1>2, <1>3
    <2>3. pc' \in {"shell", "loop", "reading"} /\ stop' \in BOOLEAN
      BY <1>1
    <2>4. QED
      BY <1>2, <2>1, <2>2, <2>3 DEF Places
  <1>5. PICK r : r = IF 0 \in used THEN Lost ELSE Fresh
    OBVIOUS
  <1>6. r \in Record /\ (r.followed => Agrees(terminals'[0], r))
    BY <1>2, <1>5, Blanks
  <1>7. own' = <<r>>
    BY <1>1, <1>5
  <1>8. own' \in Seq(Record) /\ Len(own') = count' /\ own'[0 + 1] = r
    BY <1>1, <1>6, <1>7
  <1>9. ~Reading(0)'
    BY <1>1 DEF Reading
  <1>10. Records'
    <2>1. \A w \in Windows' : own'[w + 1].followed => Holds(terminals'[w], own'[w + 1], Reading(w)')
      <3>1. own'[0 + 1].followed => Holds(terminals'[0], own'[0 + 1], Reading(0)')
        BY <1>6, <1>8, <1>9 DEF Holds
      <3>2. QED
        BY <1>3, <3>1
    <2>2. QED
      BY <1>8, <2>1 DEF Records, Holds
  <1>11. QED
    BY <1>2, <1>4, <1>10 DEF PwmInv

\* One more terminal has a record of its own, the last one.
LEMMA NewKeeps ==
  ASSUME PwmInv, NewTerminal
  PROVE  PwmInv'
  <1>1. /\ pc = "loop" /\ pc' = "loop" /\ stop' = stop /\ Create(count)
        /\ active' = count /\ count' = count + 1 /\ count < MaxWindows
        /\ own' = Append(own, IF count \in used THEN Lost ELSE Fresh)
    BY DEF NewTerminal, Create
  <1>2. count \in Nat /\ own \in Seq(Record) /\ Len(own) = count
    BY <1>1, Bounds DEF PwmInv, Places, Records
  <1>3. /\ Terminals' /\ count \in Slot /\ used' = used \cup {count} /\ used' \subseteq Slot
        /\ count \notin used => Agrees(terminals'[count], Fresh)
        /\ \A s \in Slot : s # count => terminals'[s] = terminals[s]
    BY <1>1, <1>2, Creating
  <1>4. Windows' = Windows \cup {count} /\ count \notin Windows /\ \A w \in Windows : w \in Int
    BY <1>1, <1>2 DEF Windows
  <1>5. Places'
    <2>1. count' \in 0 .. MaxWindows /\ active' \in Int
      BY <1>1, <1>2, Bounds
    <2>2. active' \in Windows' /\ Windows' \subseteq used'
      BY <1>1, <1>3, <1>4 DEF PwmInv, Places
    <2>3. pc' \in {"shell", "loop", "reading"} /\ stop' \in BOOLEAN
      BY <1>1 DEF PwmInv, Places
    <2>4. QED
      BY <1>3, <2>1, <2>2, <2>3 DEF Places
  <1>6. PICK r : r = IF count \in used THEN Lost ELSE Fresh
    OBVIOUS
  <1>7. r \in Record /\ (r.followed => Agrees(terminals'[count], r))
    BY <1>3, <1>6, Blanks
  <1>8. own' = Append(own, r)
    BY <1>1, <1>6
  <1>9. /\ own' \in Seq(Record) /\ Len(own') = count' /\ own'[count + 1] = r
        /\ \A i \in 1 .. count : own'[i] = own[i]
    BY <1>1, <1>2, <1>7, <1>8, AppendProperties
  <1>10. \A w \in Windows' : own'[w + 1].followed => Agrees(terminals'[w], own'[w + 1])
    <2>1. ASSUME NEW w \in Windows, own'[w + 1].followed
          PROVE  Agrees(terminals'[w], own'[w + 1])
      <3>1. w + 1 \in 1 .. count /\ w # count /\ w \in Slot /\ ~Reading(w)
        BY <1>1, <1>2, <1>4 DEF Windows, PwmInv, Places, Reading
      <3>2. own'[w + 1] = own[w + 1] /\ terminals'[w] = terminals[w]
        BY <1>3, <1>9, <3>1
      <3>3. own[w + 1].followed => Holds(terminals[w], own[w + 1], Reading(w))
        BY <1>1 DEF PwmInv, Records
      <3>4. QED
        BY <2>1, <3>1, <3>2, <3>3 DEF Holds
    <2>2. own'[count + 1].followed => Agrees(terminals'[count], own'[count + 1])
      BY <1>7, <1>9
    <2>3. QED
      BY <1>4, <2>1, <2>2
  <1>11. Records'
    <2>1. \A w \in Windows' : ~Reading(w)'
      BY <1>1 DEF Reading
    <2>2. \A w \in Windows' : own'[w + 1].followed => Holds(terminals'[w], own'[w + 1], Reading(w)')
      BY <1>10, <2>1 DEF Holds
    <2>3. QED
      BY <1>9, <2>2 DEF Records, Holds
  <1>12. QED
    BY <1>3, <1>5, <1>11 DEF PwmInv

\* A sequence without one of its elements.
LEMMA Removal ==
  ASSUME NEW S, NEW q \in Seq(S), NEW i \in 1 .. Len(q)
  PROVE  /\ RemoveAt(q, i) \in Seq(S) /\ Len(RemoveAt(q, i)) = Len(q) - 1
         /\ \A j \in 1 .. Len(q) - 1 : RemoveAt(q, i)[j] = IF j < i THEN q[j] ELSE q[j + 1]
  <1> DEFINE a == SubSeq(q, 1, i - 1)
             b == SubSeq(q, i + 1, Len(q))
  <1>1. Len(q) \in Nat /\ i \in Nat /\ 1 <= i /\ i <= Len(q)
        /\ \A j \in 1 .. Len(q) : q[j] \in S
    BY ElementOfSeq
  <1>2. a \in Seq(S) /\ Len(a) = i - 1 /\ \A j \in 1 .. i - 1 : a[j] = q[j]
    <2>1. 1 \in Int /\ i - 1 \in Int /\ \A j \in 1 .. i - 1 : q[j] \in S
      BY <1>1
    <2>2. /\ a \in Seq(S) /\ Len(a) = IF 1 <= i - 1 THEN (i - 1) - 1 + 1 ELSE 0
          /\ \A j \in 1 .. (i - 1) - 1 + 1 : a[j] = q[1 + j - 1]
      BY <2>1, SubSeqProperties
    <2> HIDE DEF a
    <2>3. QED
      BY <1>1, <2>2
  <1>3. b \in Seq(S) /\ Len(b) = Len(q) - i /\ \A j \in 1 .. Len(q) - i : b[j] = q[i + j]
    <2>1. i + 1 \in Int /\ Len(q) \in Int /\ \A j \in i + 1 .. Len(q) : q[j] \in S
      BY <1>1
    <2>2. /\ b \in Seq(S) /\ Len(b) = IF i + 1 <= Len(q) THEN Len(q) - (i + 1) + 1 ELSE 0
          /\ \A j \in 1 .. Len(q) - (i + 1) + 1 : b[j] = q[(i + 1) + j - 1]
      BY <2>1, SubSeqProperties
    <2> HIDE DEF b
    <2>3. QED
      BY <1>1, <2>2
  <1>4. RemoveAt(q, i) = a \o b
    BY DEF RemoveAt
  <1> HIDE DEF a, b
  <1>5. /\ a \o b \in Seq(S) /\ Len(a \o b) = Len(a) + Len(b)
        /\ \A j \in 1 .. Len(a) + Len(b) : (a \o b)[j] = IF j <= Len(a) THEN a[j] ELSE b[j - Len(a)]
    BY <1>2, <1>3, ConcatProperties
  <1>6. ASSUME NEW j \in 1 .. Len(q) - 1
        PROVE  (a \o b)[j] = IF j < i THEN q[j] ELSE q[j + 1]
    <2>1. (a \o b)[j] = IF j <= i - 1 THEN a[j] ELSE b[j - (i - 1)]
      BY <1>1, <1>2, <1>3, <1>5
    <2>2. CASE j < i
      BY <1>1, <1>2, <2>1, <2>2
    <2>3. CASE j >= i
      <3>1. PICK k : k = j - (i - 1)
        OBVIOUS
      <3>2. k \in 1 .. Len(q) - i /\ i + k = j + 1 /\ ~(j <= i - 1) /\ ~(j < i)
        BY <1>1, <2>3, <3>1
      <3>3. b[k] = q[i + k]
        BY <1>3, <3>2
      <3>4. QED
        BY <2>1, <3>1, <3>2, <3>3
    <2>4. j < i \/ j >= i
      BY <1>1
    <2>5. QED
      BY <2>2, <2>3, <2>4
  <1>7. Len(a \o b) = Len(q) - 1
    BY <1>1, <1>2, <1>3, <1>5
  <1>8. QED
    BY <1>4, <1>5, <1>6, <1>7

\* close_active_terminal: the terminals after the closed one move down, and so do their records.
LEMMA CloseKeeps ==
  ASSUME PwmInv, CloseTerminal
  PROVE  PwmInv'
  <1>1. /\ pc = "loop" /\ count > 1 /\ terminals' = Shifted /\ count' = count - 1
        /\ active' = Min({active, count - 2}) /\ own' = RemoveAt(own, active + 1)
        /\ pc' = "loop" /\ stop' = stop /\ used' = used
    BY DEF CloseTerminal
  <1>2. /\ count \in Nat /\ count <= MaxWindows /\ own \in Seq(Record) /\ Len(own) = count
        /\ active \in Nat /\ active < count /\ Windows \subseteq used /\ used \subseteq Slot
        /\ stop \in BOOLEAN
    BY <1>1, Bounds DEF PwmInv, Places, Records, Windows
  <1>3. active' \in Nat /\ active' <= count - 2
    <2> DEFINE y == count - 2
    <2>1. y \in Int /\ active \in Int /\ y >= 0 /\ active' = Min({active, y})
      BY <1>1, <1>2
    <2> HIDE DEF y
    <2>2. active' = IF active <= y THEN active ELSE y
      BY <2>1, MinMax
    <2>3. active' \in Nat /\ active' <= y
      BY <1>2, <2>1, <2>2
    <2>4. QED
      BY <2>3 DEF y
  <1>4. Windows' \subseteq Windows /\ active' \in Windows'
    BY <1>1, <1>2, <1>3 DEF Windows
  <1>5. Places'
    <2>1. count' \in 0 .. MaxWindows /\ active' \in Int
      BY <1>1, <1>2, <1>3, Bounds
    <2>2. active' \in Windows' /\ Windows' \subseteq used' /\ used' \subseteq Slot
      BY <1>1, <1>2, <1>4
    <2>3. pc' \in {"shell", "loop", "reading"} /\ stop' \in BOOLEAN
      BY <1>1, <1>2
    <2>4. QED
      BY <2>1, <2>2, <2>3 DEF Places
  <1>6. /\ terminals \in [Slot -> Terminal] /\ \A s \in Slot : Sound(terminals[s])
        /\ \A s \in Slot \ used : terminals[s] = Blank
    BY DEF PwmInv, Terminals
  <1>7. ASSUME NEW s \in Slot
        PROVE  /\ s \in active .. count - 2 => s + 1 \in Slot /\ terminals'[s] = terminals[s + 1]
               /\ s \notin active .. count - 2 => terminals'[s] = terminals[s]
    <2>1. s \in active .. count - 2 => s + 1 \in Slot
      BY <1>2, Bounds DEF Slot
    <2>2. QED
      BY <1>1, <2>1 DEF Shifted
  <1>8. Terminals'
    <2>1. \A s \in Slot : terminals'[s] \in Terminal /\ Sound(terminals'[s])
      BY <1>6, <1>7
    <2>2. terminals' = [s \in Slot |-> terminals'[s]]
      BY <1>1 DEF Shifted
    <2>3. terminals' \in [Slot -> Terminal]
      BY <2>1, <2>2
    <2>4. ASSUME NEW s \in Slot \ used PROVE terminals'[s] = Blank
      <3>1. s \notin active .. count - 2
        BY <1>2 DEF Windows
      <3>2. QED
        BY <1>6, <1>7, <3>1
    <2>5. QED
      BY <1>1, <2>1, <2>3, <2>4 DEF Terminals
  <1>9. /\ own' \in Seq(Record) /\ Len(own') = count'
        /\ \A j \in 1 .. count - 1 : own'[j] = IF j < active + 1 THEN own[j] ELSE own[j + 1]
    <2>1. active + 1 \in 1 .. Len(own)
      BY <1>2
    <2>2. QED
      BY <1>1, <1>2, <2>1, Removal
  <1>10. ASSUME NEW w \in Windows', own'[w + 1].followed
         PROVE  Agrees(terminals'[w], own'[w + 1])
    <2>1. /\ w \in Nat /\ w <= count - 2 /\ w \in Slot /\ w + 1 \in 1 .. count - 1
          /\ w \in Windows /\ w + 1 \in Windows
      BY <1>1, <1>2, Bounds DEF Windows, Slot
    <2>2. \A v \in Windows : own[v + 1].followed => Agrees(terminals[v], own[v + 1])
      <3>1. \A v \in Windows : ~Reading(v) /\ (own[v + 1].followed => Holds(terminals[v], own[v + 1], Reading(v)))
        BY <1>1 DEF PwmInv, Records, Reading
      <3>2. QED
        BY <3>1 DEF Holds
    <2>3. CASE w < active
      <3>1. w + 1 < active + 1 /\ w \notin active .. count - 2
        BY <1>2, <2>1, <2>3
      <3>2. own'[w + 1] = own[w + 1] /\ terminals'[w] = terminals[w]
        BY <1>7, <1>9, <2>1, <3>1
      <3>3. QED
        BY <1>10, <2>1, <2>2, <3>2
    <2>4. CASE w >= active
      <3>1. PICK v : v = w + 1
        OBVIOUS
      <3>2. v \in Windows /\ ~(v < active + 1) /\ w \in active .. count - 2 /\ v \in 1 .. count - 1
        BY <1>2, <2>1, <2>4, <3>1
      <3>3. own'[v] = own[v + 1] /\ terminals'[w] = terminals[v]
        BY <1>7, <1>9, <2>1, <3>1, <3>2
      <3>4. QED
        BY <1>10, <2>2, <3>1, <3>2, <3>3
    <2>5. QED
      BY <1>2, <2>1, <2>3, <2>4
  <1>11. Records'
    <2>1. \A w \in Windows' : ~Reading(w)'
      BY <1>1 DEF Reading
    <2>2. \A w \in Windows' : own'[w + 1].followed => Holds(terminals'[w], own'[w + 1], Reading(w)')
      BY <1>10, <2>1 DEF Holds
    <2>3. QED
      BY <1>9, <2>2 DEF Records, Holds
  <1>12. QED
    BY <1>5, <1>8, <1>11 DEF PwmInv

-----------------------------------------------------------------------------
(* The focus moves.                                                        *)

\* Where the record of a window is.
LEMMA Seat ==
  ASSUME count \in Nat, Len(own) = count, NEW w \in Windows
  PROVE  w + 1 \in 1 .. Len(own)
  BY DEF Windows

\* The focus moves to a neighbour: nobody's line or history changes.
LEMMA FocusKeyKeeps ==
  ASSUME PwmInv, FocusKey
  PROVE  PwmInv'
  <1>1. /\ pc = "loop" /\ active' \in Windows /\ UNCHANGED <<terminals, count, pc, stop, used, own>>
    BY DEF FocusKey
  <1>2. Windows' = Windows
    BY <1>1 DEF Windows
  <1>3. Places'
    <2>1. active' \in Int
      BY <1>1 DEF Windows
    <2>2. QED
      BY <1>1, <1>2, <2>1 DEF PwmInv, Places
  <1>4. Terminals'
    BY <1>1 DEF PwmInv, Terminals
  <1>5. Records'
    <2>1. \A w \in Windows : Reading(w)' = Reading(w) /\ ~Reading(w)
      BY <1>1 DEF Reading
    <2>2. QED
      BY <1>1, <1>2, <2>1 DEF PwmInv, Records, Holds
  <1>6. QED
    BY <1>3, <1>4, <1>5 DEF PwmInv

\* handle_mouse: the focus goes to the window under the cursor, and the wheel moves the view;
\* a command that reads keys leaves its terminal for the other one, and neither is followed.
LEMMA MouseKeeps ==
  ASSUME PwmInv, NEW w \in {cursor_window(c) : c \in Cell}, NEW wheel \in -1 .. 1,
         handle_mouse(w, wheel)
  PROVE  PwmInv'
  <1>1. /\ pc # "shell" /\ UNCHANGED <<count, pc, stop, used>>
        /\ active' = IF w >= 0 THEN w ELSE active
        /\ terminals' = IF wheel = 0 THEN terminals
                        ELSE [terminals EXCEPT ![active'] = Scrolled(@, wheel)]
        /\ own' = IF pc = "loop" \/ active' = active THEN own
                  ELSE [own EXCEPT ![active + 1] = Lost, ![active' + 1] = Lost]
    BY DEF handle_mouse
  <1>2. /\ active \in Windows /\ Windows \subseteq used /\ used \subseteq Slot /\ count \in 0 .. MaxWindows
        /\ own \in Seq(Record) /\ Len(own) = count
        /\ \A v \in Windows : own[v + 1].followed => Holds(terminals[v], own[v + 1], Reading(v))
    BY <1>1 DEF PwmInv, Places, Records
  <1>3. w \in Windows \cup {-1}
    <2>1. count \in 0 .. 4
      BY <1>2, Bounds
    <2>2. QED
      BY <2>1, CursorWindow
  <1>4. active' \in Windows /\ active' \in Slot /\ active' \in used /\ active' \in Int
    <2>1. active' \in Windows
      BY <1>1, <1>2, <1>3
    <2>2. QED
      BY <1>2, <2>1 DEF Windows
  <1>5. Windows' = Windows
    BY <1>1 DEF Windows
  <1>6. Places'
    BY <1>1, <1>4, <1>5 DEF PwmInv, Places
  <1>7. /\ terminals \in [Slot -> Terminal] /\ \A s \in Slot : Sound(terminals[s])
        /\ \A s \in Slot \ used : terminals[s] = Blank
    BY DEF PwmInv, Terminals
  <1>8. /\ terminals' \in [Slot -> Terminal]
        /\ \A s \in Slot : /\ Sound(terminals'[s]) /\ terminals'[s].input = terminals[s].input
                           /\ terminals'[s].history = terminals[s].history
                           /\ terminals'[s].position = terminals[s].position
                           /\ s # active' => terminals'[s] = terminals[s]
    <2>1. CASE wheel = 0
      <3>1. terminals' = terminals
        BY <1>1, <2>1
      <3>2. QED
        BY <1>7, <3>1
    <2>2. CASE wheel # 0
      <3>1. PICK a \in Slot : a = active'
        BY <1>4
      <3>2. PICK t : t = terminals[a]
        OBVIOUS
      <3>3. PICK u : u = Scrolled(t, wheel)
        OBVIOUS
      <3>4. /\ Sound(u) /\ u \in Terminal /\ u.input = t.input /\ u.history = t.history
            /\ u.position = t.position
        <4>1. Sound(t)
          BY <1>7, <3>2
        <4>2. QED
          BY <3>3, <4>1, Scrolling DEF Sound
      <3>5. terminals' = [terminals EXCEPT ![a] = u]
        BY <1>1, <2>2, <3>1, <3>2, <3>3
      <3>6. terminals'[a] = u /\ terminals' \in [Slot -> Terminal]
            /\ \A s \in Slot : s # a => terminals'[s] = terminals[s]
        BY <1>7, <3>4, <3>5
      <3>7. QED
        BY <1>7, <3>1, <3>2, <3>4, <3>6
    <2>3. QED
      BY <2>1, <2>2
  <1>9. Terminals'
    <2>1. \A s \in Slot \ used' : terminals'[s] = Blank
      BY <1>1, <1>4, <1>7, <1>8
    <2>2. QED
      BY <1>8, <2>1 DEF Terminals
  <1>10. ASSUME NEW v \in Windows, own[v + 1].followed, NEW reading \in BOOLEAN,
                Holds(terminals[v], own[v + 1], reading)
         PROVE  Holds(terminals'[v], own[v + 1], reading)
    <2>1. v \in Slot
      BY <1>2
    <2>2. /\ terminals'[v].input = terminals[v].input /\ terminals'[v].history = terminals[v].history
          /\ terminals'[v].position = terminals[v].position
      BY <1>8, <2>1
    <2>3. QED
      BY <1>10, <2>2 DEF Holds, Agrees, Reads
  <1>11. CASE pc = "loop" \/ active' = active
    <2>1. own' = own /\ \A v \in Windows : (Reading(v)' <=> Reading(v)) /\ Reading(v) \in BOOLEAN
      BY <1>1, <1>11 DEF Reading
    <2>2. \A v \in Windows : own'[v + 1].followed => Holds(terminals'[v], own'[v + 1], Reading(v))
      BY <1>2, <1>10, <2>1
    <2>3. Records'
      BY <1>1, <1>2, <1>5, <2>1, <2>2 DEF Records, Holds
    <2>4. QED
      BY <1>6, <1>9, <2>3 DEF PwmInv
  <1>12. CASE pc # "loop" /\ active' # active
    <2> DEFINE mid == [own EXCEPT ![active + 1] = Lost]
    <2>1. /\ own' = [mid EXCEPT ![active' + 1] = Lost]
          /\ active + 1 \in 1 .. Len(own) /\ active' + 1 \in 1 .. Len(own)
          /\ Lost \in Record /\ ~Lost.followed
      <3>1. own' = [mid EXCEPT ![active' + 1] = Lost]
        BY <1>1, <1>12
      <3>2. active + 1 \in 1 .. Len(own) /\ active' + 1 \in 1 .. Len(own)
        <4>1. Len(own) = count /\ count \in Nat /\ active \in Windows /\ active' \in Windows
          BY <1>2, <1>4, Bounds
        <4>2. QED
          BY <4>1, Seat
      <3>3. QED
        BY <3>1, <3>2, Blanks
    <2>2. mid \in Seq(Record) /\ Len(mid) = count
          /\ \A j \in 1 .. count : mid[j] = IF j = active + 1 THEN Lost ELSE own[j]
      BY <1>2, <2>1, ExceptSeq
    <2> HIDE DEF mid
    <2>3. own' \in Seq(Record) /\ Len(own') = count
          /\ \A j \in 1 .. count : own'[j] = IF j = active' + 1 THEN Lost ELSE mid[j]
      BY <1>2, <2>1, <2>2, ExceptSeq
    <2>4. ASSUME NEW v \in Windows, own'[v + 1].followed
          PROVE  Holds(terminals'[v], own'[v + 1], Reading(v)')
      <3>1. v + 1 \in 1 .. count /\ v \in Int
        BY <1>2, Bounds DEF Windows
      <3>2. v + 1 # active' + 1 /\ v + 1 # active + 1
        BY <2>1, <2>2, <2>3, <2>4, <3>1
      <3>3. own'[v + 1] = own[v + 1] /\ v # active /\ v # active'
        BY <2>2, <2>3, <3>1, <3>2
      <3>4. ~Reading(v) /\ ~Reading(v)'
        BY <3>3 DEF Reading
      <3>5. own[v + 1].followed /\ Holds(terminals[v], own[v + 1], Reading(v))
        BY <1>2, <2>4, <3>3
      <3>6. Holds(terminals[v], own[v + 1], FALSE)
        BY <3>4, <3>5 DEF Holds
      <3>7. Holds(terminals'[v], own[v + 1], FALSE)
        BY <1>10, <3>5, <3>6
      <3>8. QED
        BY <3>3, <3>4, <3>7 DEF Holds
    <2>5. Records'
      BY <1>1, <1>5, <2>3, <2>4 DEF Records, Holds
    <2>6. QED
      BY <1>6, <1>9, <2>5 DEF PwmInv
  <1>13. QED
    BY <1>11, <1>12

-----------------------------------------------------------------------------
(* What follows for every run of the window manager.                       *)

\* Before the first terminal nothing is on the screen and every slot is blank.
LEMMA PwmInit ==
  ASSUME Init
  PROVE  PwmInv
  <1>1. /\ terminals = [s \in Slot |-> Blank] /\ count = 0 /\ active = 0
        /\ pc = "shell" /\ stop = FALSE /\ used = {}
    BY DEF Init
  <1>2. Sound(Blank) /\ Blank \in Terminal
    BY Blanks DEF Sound
  <1>3. Places
    <2>1. pc \in {"shell", "loop", "reading"} /\ ~(pc # "shell") /\ used \subseteq Slot /\ stop \in BOOLEAN
      BY <1>1
    <2>2. count \in 0 .. MaxWindows /\ active \in Int
      BY <1>1, Bounds
    <2>3. QED
      BY <2>1, <2>2 DEF Places
  <1>4. Terminals
    BY <1>1, <1>2 DEF Terminals
  <1>5. Records
    BY <1>1 DEF Records
  <1>6. QED
    BY <1>3, <1>4, <1>5 DEF PwmInv

\* Every step of the loop, of a command that reads keys and of the mouse keeps it.
LEMMA PwmNext ==
  ASSUME PwmInv, [Next]_vars
  PROVE  PwmInv'
  <1>1. CASE Start
    BY <1>1, StartKeeps
  <1>2. CASE NewTerminal
    BY <1>2, NewKeeps
  <1>3. CASE CloseTerminal
    BY <1>3, CloseKeeps
  <1>4. CASE FocusKey
    BY <1>4, FocusKeyKeeps
  <1>5. CASE \E c \in Char : Type(c)
    BY <1>5, TypeKeeps
  <1>6. CASE Backspace
    BY <1>6, BackspaceKeeps
  <1>7. CASE ArrowUp
    BY <1>7, ArrowUpKeeps
  <1>8. CASE ArrowDown
    BY <1>8, ArrowDownKeeps
  <1>9. CASE \E c \in {"none", "prints", "clear", "reload", "stop", "edits"} : Enter(c)
    BY <1>9, EnterKeeps
  <1>10. CASE \E w \in {cursor_window(c) : c \in Cell}, wheel \in -1 .. 1 : handle_mouse(w, wheel)
    BY <1>10, MouseKeeps
  <1>11. CASE EditorKey \/ EditorQuits
    BY <1>11, EditorKeeps
  <1>12. CASE UNCHANGED vars
    <2>1. UNCHANGED <<terminals, count, active, pc, stop, used, own>>
      BY <1>12 DEF vars, pwm
    <2>2. Windows' = Windows
      BY <2>1 DEF Windows
    <2>3. Places' /\ Terminals'
      BY <2>1, <2>2 DEF PwmInv, Places, Terminals
    <2>4. Records'
      BY <2>1, <2>2 DEF PwmInv, Records, Holds, Reading
    <2>5. QED
      BY <2>3, <2>4 DEF PwmInv
  <1>13. QED
    BY <1>1, <1>2, <1>3, <1>4, <1>5, <1>6, <1>7, <1>8, <1>9, <1>10, <1>11, <1>12 DEF Next

\* The terminals and the records of what was typed in them stay together (wm.c).
THEOREM PwmInvariant == Spec => []PwmInv
  <1>1. Init => PwmInv
    BY PwmInit
  <1>2. PwmInv /\ [Next]_vars => PwmInv'
    BY PwmNext
  <1>3. QED
    BY <1>1, <1>2, PTL DEF Spec

\* wm.c: the terminal in focus is on the screen, the input and the history fit their arrays,
\* the arrows stay in the history, and the view in what was printed.
THEOREM TypesHold == Spec => []TypeOK
  <1>1. PwmInv => TypeOK
    <2>1. ASSUME PwmInv, NEW s \in Slot
          PROVE  LET t == terminals[s]
                 IN  /\ Len(t.input) <= MaxInput /\ Len(t.history) <= MaxHistory
                     /\ t.position \in 0 .. Len(t.history)
                     /\ t.lines \in 0 .. MaxLines /\ t.scroll \in 0 .. t.lines
      <3>1. PICK t : t = terminals[s]
        OBVIOUS
      <3>2. Sound(t)
        BY <2>1, <3>1 DEF PwmInv, Terminals
      <3>3. /\ t.input \in Line /\ t.history \in Seq(Line) /\ t.position \in Nat /\ t.lines \in Nat
            /\ t.scroll \in Nat /\ Len(t.history) \in Nat
        BY <3>2 DEF Sound, Terminal
      <3>4. /\ Len(t.input) <= MaxInput /\ Len(t.history) <= MaxHistory
            /\ t.position <= Len(t.history) /\ t.lines <= MaxLines /\ t.scroll <= t.lines
        BY <3>2, <3>3 DEF Sound, Line
      <3>5. QED
        BY <3>1, <3>3, <3>4, Bounds
    <2>2. ASSUME PwmInv
          PROVE  /\ count \in 0 .. MaxWindows /\ pc \in {"shell", "loop", "reading"} /\ stop \in BOOLEAN
                 /\ pc # "shell" => active \in Windows /\ Len(own) = count
      BY <2>2 DEF PwmInv, Places, Records
    <2>3. QED
      BY <2>1, <2>2 DEF TypeOK
  <1>2. QED
    BY <1>1, PwmInvariant, PTL

\* PWM-COMMANDS.md:9, wm.c: whatever opens, closes and takes the focus, a terminal that took
\* an unused slot has the line and the commands that were entered in it, and the arrows are
\* where they were left.
THEOREM TerminalsAreIndependent == Spec => []Independent
  <1>1. PwmInv => Independent
    <2>1. ASSUME PwmInv, pc = "loop", NEW w \in Windows, own[w + 1].followed
          PROVE  /\ terminals[w].input = own[w + 1].input /\ terminals[w].history = own[w + 1].log
                 /\ terminals[w].position = Len(own[w + 1].log) - own[w + 1].back
      <3>1. Holds(terminals[w], own[w + 1], Reading(w)) /\ ~Reading(w)
        BY <2>1 DEF PwmInv, Records, Reading
      <3>2. QED
        BY <3>1 DEF Holds, Agrees
    <2>2. QED
      BY <2>1 DEF Independent
  <1>2. QED
    BY <1>1, PwmInvariant, PTL

\* wm.c's window_geometry and draw_desktop: for every size of the screen a click on a cell
\* drawn for a window finds that window, but for the last column of an odd screen.
THEOREM TheMouseFindsWhatIsDrawn == Spec => []WindowUnderCursor
  <1>1. PwmInv => WindowUnderCursor
    BY MouseAndDesktop DEF PwmInv
  <1>2. QED
    BY <1>1, PwmInvariant, PTL

\* wm.c: a key, a command and the wheel write to no terminal but the one in focus.
THEOREM OthersAreLeftAlone == Spec => OnlyFocusChanges
  <1>1. ASSUME PwmInv, [Next]_vars, count' = count, NEW s \in Slot \ {active, active'}
        PROVE  terminals'[s] = terminals[s]
    <2>1. terminals \in [Slot -> Terminal]
      BY <1>1 DEF PwmInv, Terminals
    <2>2. ASSUME NEW t, Change(t) PROVE terminals'[s] = terminals[s]
      BY <2>1, <2>2 DEF Change
    <2>3. CASE Start
      BY <1>1, <2>1, <2>3 DEF Start, Create
    <2>4. CASE NewTerminal \/ CloseTerminal
      <3>1. count \in Int
        BY <1>1 DEF PwmInv, Places
      <3>2. count' # count
        BY <2>4, <3>1 DEF NewTerminal, CloseTerminal, Create
      <3>3. QED
        BY <1>1, <3>2
    <2>5. CASE FocusKey \/ UNCHANGED vars
      BY <2>5 DEF FocusKey, vars, pwm
    <2>6. CASE \E c \in Char : Type(c)
      BY <2>2, <2>6 DEF Type
    <2>7. CASE Backspace \/ ArrowUp \/ ArrowDown
      BY <2>2, <2>7 DEF Backspace, ArrowUp, ArrowDown
    <2>8. CASE \E c \in {"none", "prints", "clear", "reload", "stop", "edits"} : Enter(c)
      BY <2>2, <2>8 DEF Enter
    <2>9. CASE \E w \in {cursor_window(c) : c \in Cell}, wheel \in -1 .. 1 : handle_mouse(w, wheel)
      BY <1>1, <2>1, <2>9 DEF handle_mouse
    <2>10. CASE EditorKey \/ EditorQuits
      BY <2>2, <2>10 DEF EditorKey, EditorQuits, FinishesActive
    <2>11. QED
      BY <1>1, <2>3, <2>4, <2>5, <2>6, <2>7, <2>8, <2>9, <2>10 DEF Next
  <1>2. PwmInv /\ [Next]_vars =>
          [count' = count => \A s \in Slot \ {active, active'} : terminals'[s] = terminals[s]]_vars
    BY <1>1
  <1>3. QED
    BY <1>2, PwmInvariant, PTL DEF Spec, OnlyFocusChanges
================================================================================
