---------------------------------- MODULE Shell ----------------------------------
(***************************************************************************)
(* The kernel's shell: a line that is edited in place on the screen, the   *)
(* history the arrows walk through, and the command a line stands for.     *)
(* The screen is the row that has the prompt; what an output leaves behind *)
(* is another row.                                                         *)
(***************************************************************************)
EXTENDS Integers, SequencesExt, FiniteSetsExt

CONSTANTS
  Char,        \* characters that can be typed
  Limit,       \* characters of a line (79)
  Width,       \* VGA_WIDTH
  Prompt,      \* the prompt's characters
  MaxHistory,  \* 16
  Sudo,        \* the characters of "sudo "
  Command,     \* the name of the one command there is
  Run(_),      \* what it answers to its parameter
  Past,        \* lines that may have been entered before
  Keys(_)      \* bound: keys pressed, by the line entered before

ASSUME ShellAssumption ==
  /\ Limit \in Nat \ {0} /\ MaxHistory \in Nat \ {0} /\ Width \in Nat
  /\ Char \subseteq STRING
  /\ Prompt \in Seq(STRING) /\ Len(Prompt) < Width
  /\ Sudo \in Seq(STRING) \ {<<>>}
  /\ Past \subseteq Seq(STRING) /\ \A text \in Past : Len(text) <= Limit

VARIABLES
  line, pos,      \* buffer up to length, and the cursor in it
  history, back,  \* history and history_pos
  row, x,         \* the row of the prompt on the screen, and the cursor on it
  inRow,          \* the line never reached the end of the row, nor was redrawn from its middle
  sudoer,         \* of the user logged in
  answer,         \* the last command run
  keys            \* keys left to press

edited == <<line, pos, row, x, inRow>>
vars == <<edited, history, back, sudoer, answer, keys>>

Space == " "
Spaces(n) == [i \in 1 .. n |-> Space]
FreshRow == Prompt \o Spaces(Width - Len(Prompt))
NoAnswer == [text |-> <<>>, name |-> <<>>]

-----------------------------------------------------------------------------
(* redraw_input_line.                                                      *)

\* A slip: what the shorter line no longer covers stays.
BlankedNot(text, oldLength) == text

\* The new line, and blanks over the rest of the old one.
Blanked(text, oldLength) == text \o Spaces(Max({0, oldLength - Len(text)}))

\* vga_cursor_left stops at the first column.
LeftBy(n) == Max({0, x - n})

\* Back to the start of the old line, the new one, and back to its cursor.
Redraw(text, cursor, oldLength, oldCursor) ==
  LET drawn == Blanked(text, oldLength)
      start == LeftBy(oldCursor)
      end == start + Len(drawn)
      fits == inRow /\ oldCursor = pos /\ end < Width
  IN  /\ line' = text /\ pos' = cursor /\ inRow' = fits
      /\ row' = IF fits THEN [i \in 1 .. Width |-> IF i \in start + 1 .. end THEN drawn[i - start] ELSE row[i]]
                ELSE FreshRow
      /\ x' = IF fits THEN end - (Len(drawn) - cursor) ELSE Len(Prompt)

-----------------------------------------------------------------------------
(* The keys.                                                               *)

Pressed == keys > 0 /\ keys' = keys - 1
Rest == UNCHANGED <<history, sudoer, answer>>

\* A slip: one character more than the buffer keeps.
RoomAndOne == Len(line) <= Limit

Room == Len(line) < Limit

Type(c) ==
  /\ Pressed /\ Room
  /\ Redraw(InsertAt(line, pos + 1, c), pos + 1, Len(line), pos)
  /\ UNCHANGED back /\ Rest

Backspace ==
  /\ Pressed /\ pos > 0
  /\ Redraw(RemoveAt(line, pos), pos - 1, Len(line), pos)
  /\ UNCHANGED back /\ Rest

Delete ==
  /\ Pressed /\ pos < Len(line)
  /\ Redraw(RemoveAt(line, pos + 1), pos, Len(line), pos)
  /\ UNCHANGED back /\ Rest

ArrowLeft ==
  /\ Pressed /\ pos > 0
  /\ pos' = pos - 1 /\ x' = LeftBy(1)
  /\ UNCHANGED <<line, row, inRow, back>> /\ Rest

\* vga_cursor_right stops at the last column.
ArrowRight ==
  /\ Pressed /\ pos < Len(line)
  /\ pos' = pos + 1 /\ x' = Min({x + 1, Width - 1})
  /\ UNCHANGED <<line, row, inRow, back>> /\ Rest

\* The old cursor is taken to be at the end of the old line, wherever it is.
Recall(text) == Redraw(text, Len(text), Len(line), Len(line))

ArrowUp ==
  /\ Pressed /\ back > 0
  /\ back' = back - 1
  /\ Recall(history[back])
  /\ Rest

ArrowDown ==
  /\ Pressed /\ back < Len(history)
  /\ back' = back + 1
  /\ Recall(IF back' < Len(history) THEN history[back' + 1] ELSE <<>>)
  /\ Rest

-----------------------------------------------------------------------------
(* A line entered.                                                         *)

Remembered(text) ==
  IF Len(history) < MaxHistory THEN Append(history, text) ELSE Append(Tail(history), text)

\* The name of a command ends at the first blank, unless that is the first character.
Blanks(text) == {i \in 1 .. Len(text) : text[i] = Space}
Cut(text) == IF Blanks(text) = {} \/ Min(Blanks(text)) = 1 THEN Len(text) + 1 ELSE Min(Blanks(text))
Name(text) == SubSeq(text, 1, Cut(text) - 1)
Parameter(text) == SubSeq(text, Cut(text) + 1, Len(text))

IsSudo == Len(line) > Len(Sudo) /\ IsPrefix(Sudo, line)
Entered == IF IsSudo THEN SubSeq(line, Len(Sudo) + 1, Len(line)) ELSE line

NewPrompt ==
  /\ line' = <<>> /\ pos' = 0 /\ row' = FreshRow /\ x' = Len(Prompt) /\ inRow' = TRUE

\* Nothing was typed, or sudo is refused: nothing is remembered and nothing runs.
EnterNothing ==
  /\ Pressed /\ (line = <<>> \/ (IsSudo /\ ~sudoer))
  /\ NewPrompt /\ back' = Len(history)
  /\ Rest

Enter ==
  /\ Pressed /\ line # <<>> /\ (IsSudo => sudoer)
  /\ history' = Remembered(Entered) /\ back' = Len(history')
  /\ answer' = [text |-> Parameter(Entered), name |-> Name(Entered)]
  /\ NewPrompt
  /\ UNCHANGED sudoer

-----------------------------------------------------------------------------
Init ==
  /\ line = <<>> /\ pos = 0 /\ row = FreshRow /\ x = Len(Prompt) /\ inRow = TRUE
  /\ history \in {<<text>> : text \in Past} /\ back = 1
  /\ sudoer \in BOOLEAN /\ answer = NoAnswer
  /\ keys = Keys(history[1])

Next ==
  \/ \E c \in Char : Type(c)
  \/ Backspace \/ Delete \/ ArrowLeft \/ ArrowRight \/ ArrowUp \/ ArrowDown
  \/ EnterNothing \/ Enter

Spec == Init /\ [][Next]_vars
-----------------------------------------------------------------------------
(* What has to hold.                                                       *)

\* The line never outgrows its buffer, the cursor is in the line and on the row, and the
\* arrows stay in the history.
TypeOK ==
  /\ Len(line) <= Limit /\ pos \in 0 .. Len(line)
  /\ Len(history) <= MaxHistory /\ back \in 0 .. Len(history)
  /\ \A i \in DOMAIN history : Len(history[i]) <= Limit
  /\ x \in 0 .. Width /\ Len(row) = Width
  /\ inRow \in BOOLEAN /\ sudoer \in BOOLEAN

\* redraw_input_line: through any editing, the row shows the prompt and the line, nothing of
\* older lines, and the cursor is where the next character goes; until the line reaches the
\* end of the row, or the history is recalled with the cursor inside the line.
ScreenShowsLine ==
  inRow =>
    /\ row = Prompt \o line \o Spaces(Width - Len(Prompt) - Len(line))
    /\ x = Len(Prompt) + pos
=============================================================================
