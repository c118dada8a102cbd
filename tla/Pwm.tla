----------------------------------- MODULE Pwm -----------------------------------
(***************************************************************************)
(* The window manager: up to MaxWindows terminals, each with its input,    *)
(* its history and its view of the output, kept in an array in the order   *)
(* of the windows on the screen.  Keys go to the terminal in focus; the    *)
(* mouse moves the focus, in pwm_run's loop and while a command reads keys *)
(* of its own.  Every iteration of the loop is a step, and so is every     *)
(* iteration of pwm_command_read_char.                                     *)
(***************************************************************************)
EXTENDS Integers, SequencesExt, FiniteSetsExt

CONSTANTS
  MaxWindows,    \* PWM_MAX_WINDOWS
  MaxInput,      \* PWM_MAX_INPUT - 1
  MaxHistory,    \* PWM_MAX_HISTORY
  MaxLines,      \* PWM_MAX_LINES
  Char,          \* characters that can be typed
  Width, Height, \* of the screen, in cells
  MaxKeys        \* terminals opened, characters typed and commands entered

ASSUME PwmAssumption ==
  /\ MaxWindows \in 1 .. 4 /\ MaxInput \in Nat \ {0} /\ MaxHistory \in Nat \ {0}
  /\ MaxLines \in Nat \ {0} /\ Width \in Nat /\ Width >= 2 /\ Height \in Nat /\ Height >= 2

VARIABLES
  terminals,   \* the array
  count,       \* window_count
  active,      \* active_window
  pc,          \* in the shell, the loop, a command that reads keys, or after a command
  stop,        \* pwm_stop_requested
  keys,        \* how many of these there were
  used,        \* slots that have held a terminal since power on
  own          \* what the terminals on screen should hold, were they independent

pwm == <<terminals, count, active, pc, stop>>
vars == <<pwm, keys, used, own>>

Slot == 0 .. MaxWindows - 1
Blank == [input |-> <<>>, history |-> <<>>, position |-> 0, lines |-> 0, scroll |-> 0]
T == terminals[active]

-----------------------------------------------------------------------------
(* The layout.                                                             *)

Rect(l, t, w, h) == [left |-> l, top |-> t, width |-> w, height |-> h]

\* A slip: both halves as wide as the screen's half.
GeometryEven(w) ==
  IF count = 1 THEN Rect(0, 0, Width, Height)
  ELSE Rect((w % 2) * (Width \div 2), (w \div 2) * (Height \div 2), Width \div 2, Height \div 2)

window_geometry(w) ==
  LET half == Width \div 2
      mid == Height \div 2
  IN  CASE count = 1 -> Rect(0, 0, Width, Height)
        [] count = 2 -> Rect(w * half, 0, half, Height)
        [] count = 3 /\ w = 0 -> Rect(0, 0, half, Height)
        [] count = 3 /\ w # 0 ->
             Rect(half, (w - 1) * mid, Width - half, IF w = 1 THEN mid ELSE Height - mid)
        [] OTHER -> Rect((w % 2) * half, (w \div 2) * mid, half,
                         IF w \div 2 = 0 THEN mid ELSE Height - mid)

Cell == (0 .. Width - 1) \X (0 .. Height - 1)
Covers(r, c) ==
  /\ r.left <= c[1] /\ c[1] < r.left + r.width
  /\ r.top <= c[2] /\ c[2] < r.top + r.height
Windows == 0 .. count - 1
Under(c) == {w \in Windows : Covers(window_geometry(w), c)}

\* The first window that has the cell; the last column of an odd screen may have none.
cursor_window(c) == IF Under(c) = {} THEN -1 ELSE Min(Under(c))
\* What draw_desktop draws; the last row is the status line.
drawn_window(w) ==
  LET left == Width \div 2
      half == Height \div 2
      right == Width - left
  IN  CASE count = 1 -> Rect(0, 0, Width, Height - 1)
        [] count = 2 /\ w = 0 -> Rect(0, 0, left, Height - 1)
        [] count = 2 /\ w = 1 -> Rect(left, 0, right, Height - 1)
        [] count = 3 /\ w = 0 -> Rect(0, 0, left, Height - 1)
        [] count = 3 /\ w = 1 -> Rect(left, 0, right, half)
        [] count = 3 /\ w = 2 -> Rect(left, half, right, Height - 1 - half)
        [] OTHER -> Rect((w % 2) * left, (w \div 2) * half, IF w % 2 = 0 THEN left ELSE right,
                         IF w \div 2 = 0 THEN half ELSE Height - 1 - half)

-----------------------------------------------------------------------------
(* What happens to one terminal t.  Lines are counted, and are wide enough *)
(* for what is typed.                                                      *)

Push(t) == [t EXCEPT !.lines = Min({@ + 1, MaxLines})]
\* terminal_putc of characters that are not line ends: there is a line, and the end is shown.
Put(t) == [t EXCEPT !.lines = IF @ = 0 THEN 1 ELSE @, !.scroll = 0]
Clear(t) == [t EXCEPT !.lines = 0, !.input = <<>>, !.scroll = 0]

replace_input(t, text) ==
  [(IF text = <<>> THEN t ELSE Put(t)) EXCEPT !.input = text]

\* A slip: the oldest entry is overwritten in place of being shifted out.
SaveHistoryInPlace(t) ==
  IF t.input = <<>> THEN t
  ELSE LET h == IF Len(t.history) < MaxHistory THEN Append(t.history, t.input)
                ELSE [t.history EXCEPT ![1] = t.input]
       IN  [t EXCEPT !.history = h, !.position = Len(h)]

save_history(t) ==
  IF t.input = <<>> THEN t
  ELSE LET h == IF Len(t.history) < MaxHistory THEN Append(t.history, t.input)
                ELSE Append(Tail(t.history), t.input)
       IN  [t EXCEPT !.history = h, !.position = Len(h)]

\* The end of a command: the input is empty, the history at its end, and there is a prompt.
Finished(t) ==
  LET done == [t EXCEPT !.input = <<>>, !.position = Len(t.history)]
  IN  IF stop' THEN done ELSE Put(done)

\* A slip: a wheel that scrolls past what there is.
ScrolledFreely(t, wheel) == [t EXCEPT !.scroll = Max({0, @ - 2 * wheel})]

Scrolled(t, wheel) == [t EXCEPT !.scroll = Min({Max({0, @ - 2 * wheel}), t.lines})]

-----------------------------------------------------------------------------
(* What an independent terminal holds: the last commands entered, how far  *)
(* back the arrows went, and the line typed.  A terminal is no longer      *)
(* followed once it took a slot that was used before, or the focus left or *)
(* reached it while a command was reading keys.                            *)

Fresh == [followed |-> TRUE, input |-> <<>>, log |-> <<>>, back |-> 0]
Lost == [Fresh EXCEPT !.followed = FALSE]

Recent(log) == IF Len(log) <= MaxHistory THEN log ELSE SubSeq(log, Len(log) - MaxHistory + 1, Len(log))
Recalled(o, back) ==
  [o EXCEPT !.back = back,
            !.input = IF back = 0 THEN <<>> ELSE o.log[Len(o.log) - back + 1]]
Entered(o) ==
  [o EXCEPT !.log = IF o.input = <<>> THEN @ ELSE Recent(Append(@, o.input)),
            !.input = <<>>, !.back = 0]
\* Only followed terminals are.
Follow(o) == own' = [own EXCEPT ![active + 1] = IF own[active + 1].followed THEN o ELSE Lost]

-----------------------------------------------------------------------------
(* The loop of pwm_run.                                                    *)

Change(t) == terminals' = [terminals EXCEPT ![active] = t]
Same == UNCHANGED <<count, active, pc, stop, used>>

\* create_terminal leaves what the slot held.
Create(n) ==
  /\ n < MaxWindows
  /\ active' = n /\ count' = n + 1
  /\ terminals' = [terminals EXCEPT ![n] = Put(@)]
  /\ used' = used \cup {n}

Start ==
  /\ pc = "shell"
  /\ pc' = "loop" /\ stop' = FALSE
  /\ Create(0)
  /\ own' = <<IF 0 \in used THEN Lost ELSE Fresh>>
  /\ UNCHANGED keys

NewTerminal ==
  /\ pc = "loop" /\ keys < MaxKeys
  /\ Create(count)
  /\ own' = Append(own, IF count \in used THEN Lost ELSE Fresh)
  /\ keys' = keys + 1
  /\ UNCHANGED <<pc, stop>>

\* The slots after the closed one move down; the last of them keeps its content too.
Shifted == [s \in Slot |-> IF s \in active .. count - 2 THEN terminals[s + 1] ELSE terminals[s]]

CloseTerminal ==
  /\ pc = "loop" /\ count > 1
  /\ terminals' = Shifted
  /\ count' = count - 1 /\ active' = Min({active, count - 2})
  /\ own' = RemoveAt(own, active + 1)
  /\ UNCHANGED <<pc, stop, keys, used>>

FocusKey ==
  /\ pc = "loop"
  /\ active' \in {active - 1, active + 1} \cap Windows
  /\ UNCHANGED <<terminals, count, pc, stop, keys, used, own>>

Type(c) ==
  /\ pc = "loop" /\ keys < MaxKeys /\ Len(T.input) < MaxInput
  /\ Change(Put([T EXCEPT !.input = Append(@, c)]))
  /\ Follow([own[active + 1] EXCEPT !.input = Append(@, c)])
  /\ keys' = keys + 1 /\ Same

Backspace ==
  /\ pc = "loop" /\ T.input # <<>>
  /\ Change([T EXCEPT !.input = Front(@)])
  /\ Follow([own[active + 1] EXCEPT !.input = IF @ = <<>> THEN @ ELSE Front(@)])
  /\ UNCHANGED keys /\ Same

ArrowUp ==
  /\ pc = "loop" /\ T.history # <<>>
  /\ LET p == Max({T.position - 1, 0})
     IN  Change([replace_input(T, T.history[p + 1]) EXCEPT !.position = p])
  /\ LET o == own[active + 1]
     IN  Follow(IF o.log = <<>> THEN o ELSE Recalled(o, Min({o.back + 1, Len(o.log)})))
  /\ UNCHANGED keys /\ Same

ArrowDown ==
  /\ pc = "loop" /\ T.position < Len(T.history)
  /\ LET p == T.position + 1
     IN  Change([replace_input(T, IF p = Len(T.history) THEN <<>> ELSE T.history[p + 1])
                   EXCEPT !.position = p])
  /\ LET o == own[active + 1] IN Follow(IF o.back = 0 THEN o ELSE Recalled(o, o.back - 1))
  /\ UNCHANGED keys /\ Same

\* What a command does before it is over or reads a key: c is its kind.
Ran(t, c) ==
  CASE c = "prints" -> Push(t)      \* and an unknown one, or sudo refused
    [] c = "clear" -> Clear(t)
    [] c = "reload" -> Push([t EXCEPT !.scroll = 0])
    [] c = "stop" -> Push(t)
    [] c = "edits" -> Push(Clear(t))  \* nano's redraw_editor
    [] OTHER -> t                   \* nothing was entered

Enter(c) ==
  /\ pc = "loop" /\ keys < MaxKeys
  /\ (T.input = <<>>) <=> (c = "none")
  /\ stop' = (c = "stop")
  /\ LET t == Ran(save_history(Push(T)), c) IN Change(IF c = "edits" THEN t ELSE Finished(t))
  /\ pc' = CASE c = "edits" -> "reading" [] c = "stop" -> "shell" [] OTHER -> "loop"
  /\ Follow(Entered(own[active + 1]))
  /\ keys' = keys + 1
  /\ UNCHANGED <<count, active, used>>

-----------------------------------------------------------------------------
(* The mouse, and commands that read keys.                                 *)

\* The cursor may be in any cell, and w is the window there: a motion or a click moves the
\* focus to it, and the wheel scrolls what then has the focus.
handle_mouse(w, wheel) ==
  /\ pc \in {"loop", "reading"}
  /\ active' = IF w >= 0 THEN w ELSE active
  /\ terminals' = IF wheel = 0 THEN terminals
                  ELSE [terminals EXCEPT ![active'] = Scrolled(@, wheel)]
  /\ own' = IF pc = "loop" \/ active' = active THEN own
            ELSE [own EXCEPT ![active + 1] = Lost, ![active' + 1] = Lost]
  /\ UNCHANGED <<count, pc, stop, keys, used>>

\* A key for the editor, which redraws itself in whatever has the focus.
EditorKey ==
  /\ pc = "reading"
  /\ Change(Ran(T, "edits"))
  /\ UNCHANGED <<keys, own>> /\ Same

\* A slip: the command's own terminal is forgotten, another one is finished.
FinishesNext(t) == terminals' = [terminals EXCEPT ![(active + 1) % count] = Finished(t)]

FinishesActive(t) == Change(Finished(t))

EditorQuits ==
  /\ pc = "reading"
  /\ pc' = "loop" /\ stop' = FALSE
  /\ FinishesActive(T)
  /\ UNCHANGED <<count, active, keys, used, own>>

-----------------------------------------------------------------------------
Init ==
  /\ terminals = [s \in Slot |-> Blank] /\ count = 0 /\ active = 0
  /\ pc = "shell" /\ stop = FALSE /\ keys = 0 /\ used = {} /\ own = <<>>

Next ==
  \/ Start \/ NewTerminal \/ CloseTerminal \/ FocusKey
  \/ \E c \in Char : Type(c)
  \/ Backspace \/ ArrowUp \/ ArrowDown
  \/ \E c \in {"none", "prints", "clear", "reload", "stop", "edits"} : Enter(c)
  \/ \E w \in {cursor_window(c) : c \in Cell}, wheel \in -1 .. 1 : handle_mouse(w, wheel)
  \/ EditorKey \/ EditorQuits

Spec == Init /\ [][Next]_vars
-----------------------------------------------------------------------------
(* What has to hold.                                                       *)

\* The terminal in focus is one of those on the screen; no arrow points past the history,
\* and no view starts before the output.
TypeOK ==
  /\ count \in 0 .. MaxWindows /\ pc \in {"shell", "loop", "reading"} /\ stop \in BOOLEAN
  /\ pc # "shell" => active \in Windows /\ Len(own) = count
  /\ \A s \in Slot :
       LET t == terminals[s]
       IN  /\ Len(t.input) <= MaxInput /\ Len(t.history) <= MaxHistory
           /\ t.position \in 0 .. Len(t.history)
           /\ t.lines \in 0 .. MaxLines /\ t.scroll \in 0 .. t.lines

\* PWM-COMMANDS.md:9, as far as the code keeps it: through other terminals opening, closing
\* and taking the focus, a terminal has the line typed in it and the last commands entered
\* in it, where the arrows left them.
Independent ==
  pc = "loop" => \A w \in Windows :
    LET t == terminals[w]
        o == own[w + 1]
    IN  o.followed =>
          t.input = o.input /\ t.history = o.log /\ t.position = Len(o.log) - o.back

\* handle_mouse against draw_desktop: a cell drawn as part of a window is that window's for
\* the mouse; on an odd screen its last column may be nobody's.
WindowUnderCursor ==
  \A w \in Windows : \A c \in Cell :
    Covers(drawn_window(w), c) =>
      cursor_window(c) = w \/ (Width % 2 = 1 /\ c[1] = Width - 1 /\ cursor_window(c) = -1)

\* Keys, the mouse and commands change only the terminal that has the focus, before or
\* after the step.
OnlyFocusChanges ==
  [][count' = count =>
       \A s \in Slot \ {active, active'} : terminals'[s] = terminals[s]]_vars
=============================================================================
