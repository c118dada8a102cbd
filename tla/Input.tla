--------------------------------- MODULE Input ---------------------------------
(***************************************************************************)
(* Keyboard and mouse behind one i8042 controller: the mouse interrupt     *)
(* handler, the polling of pWM's loop, which calls the same handler, and   *)
(* the keyboard reader of pWM and of the shell.  The controller has one    *)
(* output byte, which stays readable after it was read.  A foreground step *)
(* is one access to a port or to the state shared with the interrupt.      *)
(***************************************************************************)
EXTENDS Naturals, Sequences

CONSTANTS
  Key,           \* keys of the keyboard, named in Code
  PacketLength,  \* bytes of a mouse packet
  Sync,          \* those of them that have bit 3 set: the first one, and others by chance
  QueueSize,     \* MOUSE_QUEUE_SIZE
  MaxBytes,      \* bound: bytes the mouse sends after one start
  MaxCodes       \* bound: scancodes the keyboard holds back

\* A key and the scancode it sends; E0 comes before that of an extended key.
Code == [char |-> "char", ctrl |-> "ctrl", rctrl |-> "ctrl", shift |-> "shift"]

ASSUME InputAssumption ==
  /\ Key \subseteq DOMAIN Code
  /\ PacketLength \in {3, 4} /\ 0 \in Sync /\ Sync \subseteq 0 .. PacketLength - 1
  /\ QueueSize \in Nat \ {0, 1}
  /\ MaxBytes \in Nat /\ MaxBytes >= PacketLength /\ MaxCodes \in Nat

VARIABLES
  interrupts,   \* the firmware lets the controller raise the mouse interrupt
  unmasked,     \* mouse_init came to its end once and unmasked it
  ready,        \* mouse_init came to its end when pWM was last started
  config,       \* whose byte was last written as the controller's command byte
  out,          \* the controller's output byte
  held, codes,  \* the keyboard: modifiers held down, scancodes not yet sent
  sent,         \* the mouse: bytes sent since it was last started
  streams,      \* the mouse sends motions
  packet,       \* packet[0 .. packet_index - 1]
  events,       \* event_queue between queue_read and queue_write
  handled,      \* events taken since pWM was last started
  mods, extended,         \* shift, ctrl, alt; extended_scancode
  mode, pc, value         \* the foreground: who runs, where, and read_aux's byte

keyboard == <<held, codes>>
driver == <<packet, events, handled>>
decoder == <<mods, extended>>
setup == <<interrupts, unmasked, ready, config, streams>>
vars == <<setup, out, keyboard, sent, driver, decoder, mode, pc, value>>

-----------------------------------------------------------------------------
(* The devices.                                                            *)

Modifier == {"ctrl", "shift"} \cap Key
Prefix == [code |-> "E0", make |-> TRUE]
ScanCode == {Prefix} \cup [code : {Code[k] : k \in Key}, make : BOOLEAN]
Scan(k, m) ==
  LET c == [code |-> Code[k], make |-> m]
  IN  IF k = "rctrl" THEN <<Prefix, c>> ELSE <<c>>

\* The mouse sends bytes 0, 1, ...; does byte n look like the first of a packet?
InSync(n) == n % PacketLength \in Sync

\* What was read stays readable, but only a byte that the interrupt took is read again.
NoByte == [full |-> FALSE, src |-> "kbd", byte |-> Prefix]
Full == out.full
Aux == out.full /\ out.src = "aux"

\* A release that no reader looks at, and what the keyboard does when its controller's command byte is wrong,
\* are left out.
Strike(k, m) ==
  /\ config = "own"
  /\ Len(codes) + Len(Scan(k, m)) <= MaxCodes
  /\ IF k \in Modifier THEN (k \in held) # m ELSE k = "char" => m
  /\ held' = IF k \in Modifier THEN (IF m THEN held \cup {k} ELSE held \ {k}) ELSE held
  /\ codes' = codes \o Scan(k, m)
  /\ UNCHANGED <<setup, out, sent, driver, decoder, mode, pc, value>>

SendCode ==
  /\ ~Full /\ codes # <<>> /\ config = "own"
  /\ out' = [full |-> TRUE, src |-> "kbd", byte |-> Head(codes)] /\ codes' = Tail(codes)
  /\ UNCHANGED <<setup, held, sent, driver, decoder, mode, pc, value>>

SendMotion ==
  /\ ~Full /\ streams /\ sent < MaxBytes
  /\ out' = [full |-> TRUE, src |-> "aux", byte |-> sent] /\ sent' = sent + 1
  /\ UNCHANGED <<setup, keyboard, driver, decoder, mode, pc, value>>

Goto(l) == pc' = l

-----------------------------------------------------------------------------
(* Slips the runs have to notice, each a definition below with one change. *)

\* Key2 that does not ask where the byte comes from.
Key2AnySource ==
  /\ pc = "key2"
  /\ Goto("key3")
  /\ UNCHANGED <<setup, out, keyboard, sent, driver, decoder, mode, value>>

\* Put that restarts a packet at every byte with bit 3 set.
PutRestarts(b) == IF InSync(b) THEN <<b>> ELSE IF packet = <<>> THEN packet ELSE Append(packet, b)

\* DecodeExtended that takes the key after the prefix for the plain one.
DecodeExtendedAsPlain(c) ==
  /\ extended /\ c # Prefix
  /\ extended' = FALSE
  /\ mods' = IF c.code \notin Modifier THEN mods
             ELSE IF c.make THEN mods \cup {c.code} ELSE mods \ {c.code}

\* Queue that stores into the last free slot.
QueueToTheBrim(p) == IF Len(events) = QueueSize THEN events ELSE Append(events, p)

-----------------------------------------------------------------------------
(* mouse_irq_handler, from the interrupt or from mouse_poll.               *)

\* packet[packet_index++], unless the byte cannot begin a packet.
Put(b) == IF packet = <<>> /\ ~InSync(b) THEN packet ELSE Append(packet, b)

\* A whole packet goes into the ring unless that is full: one slot stays free.
Queue(p) == IF Len(events) = QueueSize - 1 THEN events ELSE Append(events, p)

\* An interrupt runs to its end between two foreground steps.
Interrupt ==
  /\ interrupts /\ unmasked /\ Aux
  /\ out' = [out EXCEPT !.full = FALSE]
  /\ LET p == Put(out.byte)
     IN  IF Len(p) < PacketLength
           THEN packet' = p /\ UNCHANGED events
           ELSE packet' = <<>> /\ events' = Queue(SubSeq(p, 1, PacketLength))
  /\ UNCHANGED <<setup, keyboard, sent, handled, decoder, mode, pc, value>>

-----------------------------------------------------------------------------
(* mouse_poll.                                                             *)

\* read_aux, if there is no event: two reads of the status, one of the data.
Aux1 ==
  /\ pc = "poll"
  /\ Goto(IF events = <<>> /\ Full THEN "aux2" ELSE "take")
  /\ UNCHANGED <<setup, out, keyboard, sent, driver, decoder, mode, value>>

Aux2 ==
  /\ pc = "aux2"
  /\ Goto(IF Aux THEN "aux3" ELSE "take")
  /\ UNCHANGED <<setup, out, keyboard, sent, driver, decoder, mode, value>>

\* A keyboard's byte, taken for a mouse's, has bit 3 set or not.
AsMouseByte == IF out.src = "aux" THEN {out.byte} ELSE {0, PacketLength - 1}

Aux3 ==
  /\ pc = "aux3"
  /\ value' \in AsMouseByte
  /\ out' = NoByte
  /\ Goto("put")
  /\ UNCHANGED <<setup, keyboard, sent, driver, decoder, mode>>

PutByte ==
  /\ pc = "put"
  /\ packet' = Put(value)
  /\ value' = 0
  /\ Goto("queue")
  /\ UNCHANGED <<setup, out, keyboard, sent, events, handled, decoder, mode>>

QueuePacket ==
  /\ pc = "queue"
  /\ IF Len(packet) < PacketLength THEN UNCHANGED <<packet, events>>
     ELSE events' = Queue(packet) /\ packet' = <<>>
  /\ Goto("take")
  /\ UNCHANGED <<setup, out, keyboard, sent, handled, decoder, mode, value>>

\* The loop around mouse_poll goes on while there are events.
Take ==
  /\ pc = "take"
  /\ IF events = <<>> THEN Goto("key1") /\ UNCHANGED <<events, handled>>
     ELSE events' = Tail(events) /\ handled' = handled + 1 /\ Goto("poll")
  /\ UNCHANGED <<setup, out, keyboard, sent, packet, decoder, mode, value>>

-----------------------------------------------------------------------------
(* keyboard_try_read_char: the status is read twice, then the data.        *)

Loop == IF mode = "pwm" THEN "poll" ELSE "key1"

Key1 ==
  /\ pc = "key1"
  /\ Goto(IF Full THEN "key2" ELSE Loop)
  /\ UNCHANGED <<setup, out, keyboard, sent, driver, decoder, mode, value>>

Key2 ==
  /\ pc = "key2"
  /\ Goto(IF Aux THEN Loop ELSE "key3")
  /\ UNCHANGED <<setup, out, keyboard, sent, driver, decoder, mode, value>>

DecodePrefix(c) == c = Prefix /\ extended' = TRUE /\ UNCHANGED mods

\* Extended keys are arrows, delete, or nothing.
DecodeExtended(c) == extended /\ c # Prefix /\ extended' = FALSE /\ UNCHANGED mods

DecodePlain(c) ==
  /\ ~extended /\ c # Prefix /\ UNCHANGED extended
  /\ mods' = IF c.code \notin Modifier THEN mods
             ELSE IF c.make THEN mods \cup {c.code} ELSE mods \ {c.code}

Typed(c) == ~extended /\ c = [code |-> "char", make |-> TRUE]

\* A mouse byte may look like any scancode.
AsScanCode == IF out.src = "kbd" THEN {out.byte} ELSE ScanCode

\* A character may complete the command that leaves pWM, or that starts it.
Key3(c) ==
  /\ pc = "key3"
  /\ c \in AsScanCode
  /\ out' = NoByte
  /\ DecodePrefix(c) \/ DecodeExtended(c) \/ DecodePlain(c)
  /\ \/ Goto(Loop) /\ UNCHANGED mode
     \/ Typed(c) /\ mode = "pwm" /\ mode' = "shell" /\ Goto("key1")
     \/ Typed(c) /\ mode = "shell" /\ mode' = "pwm" /\ Goto("init")
  /\ UNCHANGED <<setup, keyboard, sent, driver, value>>

-----------------------------------------------------------------------------
(* mouse_init, which pwm_run calls first.                                  *)

\* It reads a byte as the controller's answer, and a scancode that is there first.
TakesCode == Full /\ out.src = "kbd"

InitCommon ==
  /\ pc = "init" /\ Goto("poll")
  /\ out' = NoByte
  /\ config' = IF TakesCode THEN "scancode" ELSE config
  /\ UNCHANGED <<interrupts, keyboard, decoder, mode, value>>

InitOk ==
  /\ InitCommon
  /\ streams' = TRUE /\ ready' = TRUE /\ unmasked' = TRUE
  /\ sent' = 0 /\ handled' = 0 /\ packet' = <<>> /\ events' = <<>>

\* An answer does not come: the mouse stays as it was or was reset.
InitFails ==
  /\ InitCommon
  /\ streams' \in {streams, FALSE} /\ ready' = FALSE
  /\ UNCHANGED <<unmasked, sent, driver>>

-----------------------------------------------------------------------------
Init ==
  /\ interrupts \in BOOLEAN /\ unmasked = FALSE /\ ready = FALSE /\ config = "own"
  /\ out = NoByte /\ held = {} /\ codes = <<>> /\ sent = 0 /\ streams = FALSE
  /\ packet = <<>> /\ events = <<>> /\ handled = 0
  /\ mods = {} /\ extended = FALSE
  /\ mode = "shell" /\ pc = "key1" /\ value = 0

KeyboardReader == Key1 \/ Key2 \/ (\E c \in ScanCode : Key3(c))
MousePoll == Aux1 \/ Aux2 \/ Aux3 \/ PutByte \/ QueuePacket \/ Take
Foreground == KeyboardReader \/ MousePoll \/ InitOk \/ InitFails

Devices ==
  \/ \E k \in Key, m \in BOOLEAN : Strike(k, m)
  \/ SendCode
  \/ SendMotion

Next == Foreground \/ Interrupt \/ Devices

Spec == Init /\ [][Next]_vars
-----------------------------------------------------------------------------
(* What has to hold.                                                       *)

Bytes == 0 .. MaxBytes

\* The variables keep their types, with and without the interrupt: the ring keeps one
\* slot free, and between two steps a packet is never longer than what the mouse sends.
TypeOK ==
  /\ interrupts \in BOOLEAN /\ unmasked \in BOOLEAN /\ ready \in BOOLEAN /\ streams \in BOOLEAN
  /\ config \in {"own", "scancode"}
  /\ out.full \in BOOLEAN
  /\ \/ out.src = "kbd" /\ out.byte \in ScanCode
     \/ out.src = "aux" /\ out.byte \in Bytes
  /\ held \subseteq Modifier /\ codes \in Seq(ScanCode) /\ sent \in 0 .. MaxBytes
  /\ packet \in Seq(Bytes) /\ Len(packet) <= PacketLength
  /\ events \in Seq(Seq(Bytes)) /\ Len(events) < QueueSize /\ handled \in Nat
  /\ mods \subseteq {"ctrl", "shift"} /\ extended \in BOOLEAN
  /\ mode \in {"pwm", "shell"} /\ value \in Bytes
  /\ pc \in {"poll", "aux2", "aux3", "put", "queue", "take",
             "key1", "key2", "key3", "init"}

Polled == ~(interrupts /\ unmasked)

\* While pWM polls a mouse it has started, event i is the mouse's packet i, and no
\* byte is lost on the way from the output byte through the packet into the queue.
MotionsInOrder ==
  (Polled /\ ready /\ pc # "init") =>
    /\ \A i \in 1 .. Len(events) : \A j \in 1 .. PacketLength :
         events[i][j] = (handled + i - 1) * PacketLength + j - 1
    /\ sent = (handled + Len(events)) * PacketLength + Len(packet)
                + (IF Aux THEN 1 ELSE 0) + (IF pc = "put" THEN 1 ELSE 0)

\* Polled, the keyboard reader takes nothing for a key but what the keyboard sent.
KeysAreTyped == (Polled /\ pc = "key3") => Full /\ out.src = "kbd"

\* When every scancode was read, the driver's modifiers are the keys held down: the
\* right ctrl key, whose code differs by a prefix alone, does not count as the left one.
ModifiersTrack ==
  (Polled /\ config = "own" /\ codes = <<>> /\ ~(Full /\ out.src = "kbd")) =>
     mods = held /\ ~extended
=============================================================================
