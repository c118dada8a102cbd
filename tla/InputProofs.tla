------------------------------ MODULE InputProofs ------------------------------
(***************************************************************************)
(* Polled, the keyboard and the mouse lose and mistake nothing, for every  *)
(* set of keys, packet, ring and number of bytes; with the interrupt, the  *)
(* packet and the ring keep their bounds.                                  *)
(***************************************************************************)
EXTENDS Input, Integers, SequenceTheorems, TLAPS

-----------------------------------------------------------------------------
\* The output byte is a scancode or a byte of the mouse.
Output == out \in [full : BOOLEAN, src : {"kbd", "aux"}, byte : ScanCode \cup Bytes]

\* A packet is whole only between the steps that complete it and queue it.
Bounded == pc # "queue" => Len(packet) < PacketLength

\* What the last read of the status saw is still there: polled, nobody else takes it.
StillThere ==
  Polled => /\ pc \in {"key2", "aux3"} => Full
            /\ pc = "key3" => Full /\ out.src = "kbd"
            /\ pc = "aux3" => out.src = "aux"

\* The number of the first byte of the packet that is being put together.
Base == (handled + Len(events)) * PacketLength
Motions ==
  /\ ready => unmasked
  /\ Polled /\ ready /\ pc # "init" =>
       /\ pc \in {"aux2", "aux3", "put", "queue"} => events = <<>>
       /\ \A i \in 1 .. Len(packet) : packet[i] = Base + i - 1
       /\ pc = "put" => value = Base + Len(packet)
       /\ Aux => out.byte = sent - 1
       /\ MotionsInOrder

\* What the driver knows of the keys, after a scancode.
State == [mods : SUBSET {"ctrl", "shift"}, extended : BOOLEAN]
Decoded(s, c) ==
  IF c = Prefix THEN [mods |-> s.mods, extended |-> TRUE]
  ELSE [mods |-> IF s.extended \/ c.code \notin Modifier THEN s.mods
                 ELSE IF c.make THEN s.mods \cup {c.code} ELSE s.mods \ {c.code},
        extended |-> FALSE]
\* The scancodes C lead from s to t, through the states M.
Through(C, s, t) ==
  \E M \in [1 .. Len(C) + 1 -> State] :
    /\ M[1] = s /\ M[Len(C) + 1] = t
    /\ \A i \in 1 .. Len(C) : M[i + 1] = Decoded(M[i], C[i])
Known == [mods |-> mods, extended |-> extended]
Waiting == Full /\ out.src = "kbd"
Seen == IF Waiting THEN Decoded(Known, out.byte) ELSE Known
Tracks == Polled /\ config = "own" => Through(codes, Seen, [mods |-> held, extended |-> FALSE])

InputInv == TypeOK /\ Output /\ Bounded /\ StillThere /\ Motions /\ Tracks

-----------------------------------------------------------------------------
(* Numbers, packets and the ring.                                          *)

\* The bounds are numbers.
LEMMA Numbers ==
  /\ PacketLength \in Nat /\ PacketLength > 1 /\ QueueSize \in Nat /\ QueueSize > 1
  /\ MaxBytes \in Nat /\ 0 \in Bytes /\ PacketLength - 1 \in Bytes
  BY InputAssumption DEF Bytes

\* The first byte of every packet looks like one.
LEMMA FirstInSync ==
  ASSUME NEW k \in Nat
  PROVE  k * PacketLength \in Nat /\ InSync(k * PacketLength)
  <1>1. 0 \in Sync /\ PacketLength \in {3, 4}
    BY InputAssumption
  <1>2. CASE PacketLength = 3
    <2>1. (k * 3) % 3 = 0 /\ k * 3 \in Nat
      OBVIOUS
    <2>2. QED
      BY <1>1, <1>2, <2>1 DEF InSync
  <1>3. CASE PacketLength = 4
    <2>1. (k * 4) % 4 = 0 /\ k * 4 \in Nat
      OBVIOUS
    <2>2. QED
      BY <1>1, <1>3, <2>1 DEF InSync
  <1>4. QED
    BY <1>1, <1>2, <1>3

\* One more packet, or one less, in numbers of bytes.
LEMMA OnePacket ==
  ASSUME NEW k \in Nat
  PROVE  /\ (k + 1) * PacketLength = k * PacketLength + PacketLength
         /\ k * PacketLength \in Nat
  <1>1. PacketLength \in {3, 4}
    BY InputAssumption
  <1>2. CASE PacketLength = 3
    BY <1>2
  <1>3. CASE PacketLength = 4
    BY <1>3
  <1>4. QED
    BY <1>1, <1>2, <1>3

\* A byte is put behind the others, or dropped.
LEMMA PutIs ==
  ASSUME packet \in Seq(Bytes), NEW b \in Bytes
  PROVE  /\ Put(b) \in Seq(Bytes) /\ Len(packet) \in Nat
         /\ Len(Put(b)) \in {Len(packet), Len(packet) + 1}
         /\ packet # <<>> \/ InSync(b) =>
              /\ Len(Put(b)) = Len(packet) + 1 /\ Put(b)[Len(packet) + 1] = b
              /\ \A i \in 1 .. Len(packet) : Put(b)[i] = packet[i]
  <1>1. /\ Append(packet, b) \in Seq(Bytes) /\ Len(packet) \in Nat
        /\ Len(Append(packet, b)) = Len(packet) + 1 /\ Append(packet, b)[Len(packet) + 1] = b
        /\ \A i \in 1 .. Len(packet) : Append(packet, b)[i] = packet[i]
    BY AppendProperties, LenProperties
  <1>2. CASE packet = <<>> /\ ~InSync(b)
    <2>1. Put(b) = packet
      BY <1>2 DEF Put
    <2>2. QED
      BY <1>1, <1>2, <2>1
  <1>3. CASE ~(packet = <<>> /\ ~InSync(b))
    <2>1. Put(b) = Append(packet, b)
      BY <1>3 DEF Put
    <2>2. QED
      BY <1>1, <2>1
  <1>4. QED
    BY <1>2, <1>3

\* The ring keeps one slot free.
LEMMA QueueIs ==
  ASSUME events \in Seq(Seq(Bytes)), Len(events) < QueueSize, NEW p \in Seq(Bytes)
  PROVE  Queue(p) \in Seq(Seq(Bytes)) /\ Len(Queue(p)) < QueueSize
  <1>1. /\ Append(events, p) \in Seq(Seq(Bytes)) /\ Len(Append(events, p)) = Len(events) + 1
        /\ Len(events) \in Nat
    BY AppendProperties, LenProperties
  <1>2. CASE Len(events) = QueueSize - 1
    <2>1. Queue(p) = events
      BY <1>2 DEF Queue
    <2>2. QED
      BY <2>1
  <1>3. CASE Len(events) # QueueSize - 1
    <2>1. Queue(p) = Append(events, p)
      BY <1>3 DEF Queue
    <2>2. QED
      BY <1>1, <1>3, <2>1, Numbers
  <1>4. QED
    BY <1>2, <1>3

\* The bytes that a whole packet ends with are as many as the mouse sends.
LEMMA WholePacket ==
  ASSUME NEW p \in Seq(Bytes), PacketLength <= Len(p)
  PROVE  SubSeq(p, 1, PacketLength) \in Seq(Bytes)
  <1>1. Len(p) \in Nat /\ \A i \in 1 .. PacketLength : p[i] \in Bytes
    BY Numbers, LenProperties, ElementOfSeq
  <1>2. 1 \in Int /\ PacketLength \in Int
    BY Numbers
  <1>3. QED
    BY <1>1, <1>2, SubSeqProperties

-----------------------------------------------------------------------------
(* Scancodes, from one state of the modifiers to another.                  *)

\* A scancode is the prefix or a key's.
LEMMA DecodedState ==
  ASSUME NEW s \in State, NEW c
  PROVE  Decoded(s, c) \in State
  <1>1. Modifier \subseteq {"ctrl", "shift"}
    BY DEF Modifier
  <1>2. s.mods \in SUBSET {"ctrl", "shift"}
    BY DEF State
  <1> DEFINE m == IF s.extended \/ c.code \notin Modifier THEN s.mods
                  ELSE IF c.make THEN s.mods \cup {c.code} ELSE s.mods \ {c.code}
  <1>3. m \in SUBSET {"ctrl", "shift"}
    BY <1>1, <1>2
  <1> HIDE DEF m
  <1>4. [mods |-> m, extended |-> FALSE] \in State
    BY <1>3 DEF State
  <1>5. [mods |-> s.mods, extended |-> TRUE] \in State
    BY <1>2 DEF State
  <1>6. QED
    BY <1>4, <1>5 DEF Decoded, m

\* No scancode changes nothing.
LEMMA ThroughNone ==
  ASSUME NEW s \in State
  PROVE  Through(<<>>, s, s)
  <1> DEFINE C == <<>>
             M == [i \in 1 .. 1 |-> s]
  <1>1. Len(C) = 0
    OBVIOUS
  <1> HIDE DEF C
  <1>2. M \in [1 .. Len(C) + 1 -> State] /\ M[1] = s /\ M[Len(C) + 1] = s
    BY <1>1
  <1>3. \A i \in 1 .. Len(C) : M[i + 1] = Decoded(M[i], C[i])
    BY <1>1
  <1> HIDE DEF M
  <1>4. Through(C, s, s)
    BY <1>2, <1>3 DEF Through
  <1>5. QED
    BY <1>4 DEF C

\* And if it was none, nothing has changed.
LEMMA NoneThrough ==
  ASSUME NEW s, NEW t, Through(<<>>, s, t)
  PROVE  s = t
  <1> DEFINE C == <<>>
  <1>1. Len(C) = 0
    OBVIOUS
  <1> HIDE DEF C
  <1>2. Through(C, s, t)
    BY DEF C
  <1>3. PICK M \in [1 .. Len(C) + 1 -> State] : M[1] = s /\ M[Len(C) + 1] = t
    BY <1>2 DEF Through
  <1>4. Len(C) + 1 = 1
    BY <1>1
  <1>5. QED
    BY <1>3, <1>4

\* After the first scancode the others lead on.
LEMMA ThroughRest ==
  ASSUME NEW S, NEW C \in Seq(S), C # <<>>, NEW s, NEW t, Through(C, s, t)
  PROVE  Through(Tail(C), Decoded(s, Head(C)), t)
  <1>1. PICK M \in [1 .. Len(C) + 1 -> State] :
          /\ M[1] = s /\ M[Len(C) + 1] = t
          /\ \A i \in 1 .. Len(C) : M[i + 1] = Decoded(M[i], C[i])
    BY DEF Through
  <1>2. PICK n \in Nat : Len(C) = n + 1
    <2>1. Len(C) \in Nat /\ Len(C) # 0
      BY LenProperties, EmptySeq
    <2>2. Len(C) - 1 \in Nat /\ Len(C) = (Len(C) - 1) + 1
      BY <2>1
    <2>3. QED
      BY <2>2
  <1>3. Len(Tail(C)) = n /\ (\A i \in 1 .. n : Tail(C)[i] = C[i + 1]) /\ Head(C) = C[1]
    BY <1>2, HeadTailProperties
  <1> DEFINE N == [i \in 1 .. n + 1 |-> M[i + 1]]
  <1>4. N \in [1 .. n + 1 -> State]
    <2>1. \A i \in 1 .. n + 1 : M[i + 1] \in State
      BY <1>2
    <2>2. QED
      BY <2>1
  <1>5. N[1] = Decoded(s, Head(C)) /\ N[n + 1] = t
    BY <1>1, <1>2, <1>3
  <1>6. \A i \in 1 .. n : N[i + 1] = Decoded(N[i], Tail(C)[i])
    <2> TAKE i \in 1 .. n
    <2>1. i \in 1 .. n + 1 /\ i + 1 \in 1 .. n + 1 /\ i + 1 \in 1 .. Len(C)
      BY <1>2
    <2>2. N[i] = M[i + 1] /\ N[i + 1] = M[(i + 1) + 1]
      BY <2>1
    <2>3. M[(i + 1) + 1] = Decoded(M[i + 1], C[i + 1])
      BY <1>1, <2>1
    <2>4. QED
      BY <1>3, <2>2, <2>3
  <1> HIDE DEF N
  <1>7. QED
    BY <1>3, <1>4, <1>5, <1>6 DEF Through

\* One more scancode leads one state further.
LEMMA ThroughMore ==
  ASSUME NEW S, NEW C \in Seq(S), NEW c \in S, NEW s, NEW t \in State, Through(C, s, t)
  PROVE  Through(Append(C, c), s, Decoded(t, c))
  <1>1. PICK M \in [1 .. Len(C) + 1 -> State] :
          /\ M[1] = s /\ M[Len(C) + 1] = t
          /\ \A i \in 1 .. Len(C) : M[i + 1] = Decoded(M[i], C[i])
    BY DEF Through
  <1>2. PICK n \in Nat : n = Len(C)
    BY LenProperties
  <1> DEFINE D == Append(C, c)
             u == Decoded(t, c)
             N == [i \in 1 .. n + 2 |-> IF i = n + 2 THEN u ELSE M[i]]
  <1>3. Len(D) = n + 1 /\ D[n + 1] = c /\ \A i \in 1 .. n : D[i] = C[i]
    BY <1>2, AppendProperties
  <1>4. u \in State
    BY DecodedState
  <1> HIDE DEF D
  <1>5. N \in [1 .. n + 2 -> State]
    <2>1. \A i \in 1 .. n + 2 : i # n + 2 => M[i] \in State
      BY <1>2
    <2> HIDE DEF u
    <2>2. QED
      BY <1>4, <2>1
  <1>6. N[1] = s /\ N[n + 2] = u /\ N[n + 1] = t
    BY <1>1, <1>2
  <1>7. \A i \in 1 .. n + 1 : N[i + 1] = Decoded(N[i], D[i])
    <2> TAKE i \in 1 .. n + 1
    <2>1. CASE i = n + 1
      <3>1. i + 1 = n + 2
        BY <2>1
      <3>2. QED
        BY <1>3, <1>6, <2>1, <3>1
    <2>2. CASE i # n + 1
      <3>1. i \in 1 .. n /\ i + 1 # n + 2 /\ i # n + 2 /\ i \in 1 .. n + 2 /\ i + 1 \in 1 .. n + 2
        BY <2>2
      <3>2. N[i] = M[i] /\ N[i + 1] = M[i + 1]
        BY <3>1
      <3>3. QED
        BY <1>1, <1>2, <1>3, <3>1, <3>2
    <2>3. QED
      BY <2>1, <2>2
  <1> HIDE DEF N, u
  <1>8. Len(D) + 1 = n + 2
    BY <1>3
  <1>9. Through(D, s, u)
    BY <1>3, <1>5, <1>6, <1>7, <1>8 DEF Through
  <1>10. QED
    BY <1>9 DEF D, u

-----------------------------------------------------------------------------
(* The steps, by what they leave alone.                                    *)

\* The scancodes on their way are the same as before.
LEMMA SameKeys ==
  ASSUME Tracks, Polled' => Polled, config' = "own" => config = "own",
         UNCHANGED <<keyboard, decoder>>, Waiting' <=> Waiting, Waiting => out'.byte = out.byte
  PROVE  Tracks'
  <1>1. codes' = codes /\ held' = held /\ mods' = mods /\ extended' = extended
    BY DEF keyboard, decoder
  <1>2. Seen' = Seen
    BY <1>1 DEF Seen, Known
  <1>3. Polled /\ config = "own" => Through(codes, Seen, [mods |-> held, extended |-> FALSE])
    BY DEF Tracks
  <1>4. Polled' /\ config' = "own" => Through(codes', Seen', [mods |-> held', extended |-> FALSE])
    BY <1>1, <1>2, <1>3
  <1>5. QED
    BY <1>4 DEF Tracks

\* The bytes of the mouse are where they were, and the foreground took none.
LEMMA SameMotions ==
  ASSUME Motions, UNCHANGED <<setup, sent, driver, value>>,
         Aux' <=> Aux, Aux => out'.byte = out.byte,
         Polled /\ ready /\ pc' \in {"aux2", "aux3", "put", "queue"} => events = <<>>,
         pc = "init" => pc' = "init", pc' = "put" <=> pc = "put"
  PROVE  Motions'
  <1>1. /\ sent' = sent /\ packet' = packet /\ events' = events /\ handled' = handled
        /\ ready' = ready /\ unmasked' = unmasked /\ interrupts' = interrupts /\ value' = value
    BY DEF setup, driver
  <1>2. Base' = Base
    BY <1>1 DEF Base
  <1>3. MotionsInOrder' <=> (Polled /\ ready /\ pc' # "init" =>
          /\ \A i \in 1 .. Len(events) : \A j \in 1 .. PacketLength :
               events[i][j] = (handled + i - 1) * PacketLength + j - 1
          /\ sent = (handled + Len(events)) * PacketLength + Len(packet)
                      + (IF Aux THEN 1 ELSE 0) + (IF pc = "put" THEN 1 ELSE 0))
    BY <1>1 DEF MotionsInOrder, Polled
  <1>4. Polled /\ ready /\ pc # "init" => MotionsInOrder
    BY DEF Motions
  <1>5. Polled /\ ready /\ pc' # "init" => MotionsInOrder'
    BY <1>3, <1>4 DEF MotionsInOrder
  <1>6. QED
    BY <1>1, <1>2, <1>5 DEF Motions, Polled

\* The foreground goes on; what it shares with the devices stays.
LEMMA GoesOn ==
  ASSUME InputInv, UNCHANGED <<setup, out, keyboard, sent, driver, decoder, mode, value>>,
         pc # "init", pc # "put", pc # "queue",
         pc' \in {"poll", "aux2", "aux3", "take", "key1", "key2", "key3"},
         Polled /\ ready /\ pc' \in {"aux2", "aux3"} => events = <<>>,
         Polled => /\ pc' \in {"key2", "aux3"} => Full
                   /\ pc' = "key3" => Full /\ out.src = "kbd"
                   /\ pc' = "aux3" => out.src = "aux"
  PROVE  InputInv'
  <1>1. TypeOK /\ Output /\ Bounded /\ StillThere /\ Motions /\ Tracks
    BY DEF InputInv
  <1>2. TypeOK'
    BY <1>1 DEF TypeOK, setup, keyboard, driver, decoder
  <1>3. Output' /\ Bounded'
    BY <1>1 DEF Output, Bounded, driver
  <1>4. StillThere'
    BY DEF StillThere, Polled, Full, setup
  <1>5. Motions'
    BY <1>1, SameMotions DEF Aux
  <1>6. Tracks'
    BY <1>1, SameKeys DEF Polled, setup, Waiting, Full
  <1>7. QED
    BY <1>2, <1>3, <1>4, <1>5, <1>6 DEF InputInv

-----------------------------------------------------------------------------
(* The foreground.                                                         *)

\* The steps that only look.
LEMMA LooksKeep ==
  ASSUME InputInv, Aux1 \/ Aux2 \/ Key1 \/ Key2
  PROVE  InputInv'
  <1>1. Output /\ StillThere /\ Motions
    BY DEF InputInv
  <1>2. Loop \in {"poll", "key1"}
    BY DEF Loop
  <1>3. CASE Aux1
    <2>1. /\ pc = "poll" /\ pc' = (IF events = <<>> /\ Full THEN "aux2" ELSE "take")
          /\ UNCHANGED <<setup, out, keyboard, sent, driver, decoder, mode, value>>
      BY <1>3 DEF Aux1, Goto
    <2>2. QED
      BY <2>1, GoesOn
  <1>4. CASE Aux2
    <2>1. /\ pc = "aux2" /\ pc' = (IF Aux THEN "aux3" ELSE "take")
          /\ UNCHANGED <<setup, out, keyboard, sent, driver, decoder, mode, value>>
      BY <1>4 DEF Aux2, Goto
    <2>2. Polled /\ ready => events = <<>>
      BY <1>1, <2>1 DEF Motions
    <2>3. QED
      BY <2>1, <2>2, GoesOn DEF Aux, Full
  <1>5. CASE Key1
    <2>1. /\ pc = "key1" /\ pc' = (IF Full THEN "key2" ELSE Loop)
          /\ UNCHANGED <<setup, out, keyboard, sent, driver, decoder, mode, value>>
      BY <1>5 DEF Key1, Goto
    <2>2. QED
      BY <1>2, <2>1, GoesOn
  <1>6. CASE Key2
    <2>1. /\ pc = "key2" /\ pc' = (IF Aux THEN Loop ELSE "key3")
          /\ UNCHANGED <<setup, out, keyboard, sent, driver, decoder, mode, value>>
      BY <1>6 DEF Key2, Goto
    <2>2. Polled /\ pc' = "key3" => Full /\ out.src = "kbd"
      BY <1>1, <1>2, <2>1 DEF StillThere, Aux, Full, Output
    <2>3. QED
      BY <1>2, <2>1, <2>2, GoesOn
  <1>7. QED
    BY <1>3, <1>4, <1>5, <1>6

\* read_aux takes the byte it saw; without the interrupt that is the mouse's.
LEMMA Aux3Keeps ==
  ASSUME InputInv, Aux3
  PROVE  InputInv'
  <1>1. TypeOK /\ Output /\ Bounded /\ StillThere /\ Motions /\ Tracks
    BY DEF InputInv
  <1>2. /\ pc = "aux3" /\ pc' = "put" /\ value' \in AsMouseByte /\ out' = NoByte
        /\ UNCHANGED <<setup, keyboard, sent, driver, decoder, mode>>
    BY DEF Aux3, Goto
  <1>3. value' \in Bytes
    BY <1>1, <1>2, Numbers DEF AsMouseByte, TypeOK
  <1>4. out' \in [full : BOOLEAN, src : {"kbd", "aux"}, byte : ScanCode \cup Bytes]
        /\ out'.full = FALSE /\ out'.src = "kbd" /\ out'.byte \in ScanCode
    BY <1>2 DEF NoByte, ScanCode
  <1>5. TypeOK'
    BY <1>1, <1>2, <1>3, <1>4 DEF TypeOK, setup, keyboard, driver, decoder
  <1>6. Output' /\ Bounded' /\ StillThere'
    BY <1>1, <1>2, <1>4 DEF Output, Bounded, StillThere, driver
  <1>7. Polled => Full /\ out.src = "aux" /\ Aux /\ ~Waiting
    BY <1>1, <1>2 DEF StillThere, Aux, Full, Waiting
  <1>8. Motions'
    <2>1. SUFFICES ASSUME Polled', ready', pc' # "init"
                   PROVE  /\ pc' \in {"aux2", "aux3", "put", "queue"} => events' = <<>>
                          /\ \A i \in 1 .. Len(packet') : packet'[i] = Base' + i - 1
                          /\ pc' = "put" => value' = Base' + Len(packet')
                          /\ Aux' => out'.byte = sent' - 1
                          /\ MotionsInOrder'
      BY <1>1, <1>2 DEF Motions, setup
    <2>2. /\ Polled /\ ready /\ pc # "init" /\ sent' = sent /\ packet' = packet /\ events' = events
          /\ handled' = handled
      BY <1>2, <2>1 DEF Polled, setup, driver
    <2>3. Base' = Base
      BY <2>2 DEF Base
    <2>4. ~Aux'
      BY <1>4 DEF Aux
    <2>5. /\ events = <<>> /\ (\A i \in 1 .. Len(packet) : packet[i] = Base + i - 1)
          /\ out.byte = sent - 1 /\ MotionsInOrder
      BY <1>1, <1>2, <1>7, <2>2 DEF Motions
    <2>6. value' = sent - 1
      BY <1>2, <1>7, <2>2, <2>5 DEF AsMouseByte
    <2>7. sent = Base + Len(packet) + 1 + 0
      BY <1>2, <1>7, <2>2, <2>5 DEF MotionsInOrder, Base
    <2>8. Base \in Nat /\ Len(packet) \in Nat
      <3>1. handled \in Nat /\ Len(events) \in Nat /\ Len(packet) \in Nat
        BY <1>1, LenProperties DEF TypeOK
      <3>2. PICK k \in Nat : k = handled + Len(events)
        BY <3>1
      <3>3. QED
        BY <3>1, <3>2, OnePacket DEF Base
    <2>9. value' = Base + Len(packet) /\ sent = Base + Len(packet) + 0 + 1
      BY <2>6, <2>7, <2>8
    <2>10. MotionsInOrder'
      <3>1. \A i \in 1 .. Len(events') : \A j \in 1 .. PacketLength :
              events'[i][j] = (handled' + i - 1) * PacketLength + j - 1
        BY <2>2, <2>5 DEF MotionsInOrder
      <3>2. sent' = Base' + Len(packet') + (IF Aux' THEN 1 ELSE 0) + (IF pc' = "put" THEN 1 ELSE 0)
        BY <1>2, <2>2, <2>3, <2>4, <2>9
      <3>3. QED
        BY <3>1, <3>2 DEF MotionsInOrder, Base
    <2>11. QED
      BY <2>2, <2>3, <2>4, <2>5, <2>9, <2>10
  <1>9. Tracks'
    <2>1. CASE Polled
      <3>1. ~Waiting /\ ~Waiting'
        BY <1>4, <1>7, <2>1 DEF Waiting, Full
      <3>2. QED
        BY <1>1, <1>2, <3>1, SameKeys DEF Polled, setup
    <2>2. CASE ~Polled
      BY <1>2, <2>2 DEF Tracks, Polled, setup
    <2>3. QED
      BY <2>1, <2>2
  <1>10. QED
    BY <1>5, <1>6, <1>8, <1>9 DEF InputInv

\* The byte goes into the packet.
LEMMA PutKeeps ==
  ASSUME InputInv, PutByte
  PROVE  InputInv'
  <1>1. TypeOK /\ Output /\ Bounded /\ StillThere /\ Motions /\ Tracks
    BY DEF InputInv
  <1>2. /\ pc = "put" /\ pc' = "queue" /\ packet' = Put(value) /\ value' = 0
        /\ UNCHANGED <<setup, out, keyboard, sent, events, handled, decoder, mode>>
    BY DEF PutByte, Goto
  <1>3. packet \in Seq(Bytes) /\ value \in Bytes /\ Len(packet) < PacketLength
        /\ handled \in Nat /\ Len(events) \in Nat
    BY <1>1, <1>2, LenProperties DEF TypeOK, Bounded
  <1>4. /\ packet' \in Seq(Bytes) /\ Len(packet) \in Nat
        /\ Len(packet') \in {Len(packet), Len(packet) + 1}
    BY <1>2, <1>3, PutIs
  <1>5. Len(packet') <= PacketLength
    BY <1>3, <1>4, Numbers
  <1>6. TypeOK'
    BY <1>1, <1>2, <1>4, <1>5, Numbers DEF TypeOK, setup, keyboard, decoder
  <1>7. Output' /\ Bounded' /\ StillThere'
    BY <1>1, <1>2 DEF Output, Bounded, StillThere
  <1>8. Motions'
    <2>1. SUFFICES ASSUME Polled', ready', pc' # "init"
                   PROVE  /\ pc' \in {"aux2", "aux3", "put", "queue"} => events' = <<>>
                          /\ \A i \in 1 .. Len(packet') : packet'[i] = Base' + i - 1
                          /\ pc' = "put" => value' = Base' + Len(packet')
                          /\ Aux' => out'.byte = sent' - 1
                          /\ MotionsInOrder'
      BY <1>1, <1>2 DEF Motions, setup
    <2>2. /\ Polled /\ ready /\ pc # "init" /\ sent' = sent /\ events' = events
          /\ handled' = handled /\ (Aux' <=> Aux) /\ out' = out
      BY <1>2, <2>1 DEF Polled, setup, Aux
    <2>3. Base' = Base
      BY <2>2 DEF Base
    <2>4. /\ events = <<>> /\ (\A i \in 1 .. Len(packet) : packet[i] = Base + i - 1)
          /\ value = Base + Len(packet)
          /\ (Aux => out.byte = sent - 1) /\ MotionsInOrder
      BY <1>1, <1>2, <2>2 DEF Motions
    <2>5. Base \in Nat /\ InSync(Base)
      <3>1. PICK k \in Nat : k = handled + Len(events)
        BY <1>3
      <3>2. QED
        BY <3>1, FirstInSync DEF Base
    <2>6. packet # <<>> \/ InSync(value)
      <3>1. CASE packet = <<>>
        <4>1. Len(packet) = 0
          BY <3>1
        <4>2. value = Base
          BY <2>4, <2>5, <4>1
        <4>3. QED
          BY <2>5, <4>2
      <3>2. QED
        BY <3>1
    <2>7. /\ Len(packet') = Len(packet) + 1 /\ packet'[Len(packet) + 1] = value
          /\ \A i \in 1 .. Len(packet) : packet'[i] = packet[i]
      BY <1>2, <1>3, <2>6, PutIs
    <2>8. \A i \in 1 .. Len(packet') : packet'[i] = Base' + i - 1
      <3> TAKE i \in 1 .. Len(packet')
      <3>1. CASE i = Len(packet) + 1
        BY <1>4, <2>3, <2>4, <2>5, <2>7, <3>1
      <3>2. CASE i # Len(packet) + 1
        <4>1. i \in 1 .. Len(packet)
          BY <1>4, <2>7, <3>2
        <4>2. QED
          BY <2>3, <2>4, <2>7, <4>1
      <3>3. QED
        BY <3>1, <3>2
    <2>9. MotionsInOrder'
      <3>1. \A i \in 1 .. Len(events') : \A j \in 1 .. PacketLength :
              events'[i][j] = (handled' + i - 1) * PacketLength + j - 1
        BY <2>2, <2>4 DEF MotionsInOrder
      <3>2. sent = Base + Len(packet) + (IF Aux THEN 1 ELSE 0) + 1
        BY <1>2, <2>2, <2>4 DEF MotionsInOrder, Base
      <3>3. sent' = Base' + Len(packet') + (IF Aux' THEN 1 ELSE 0) + 0
        BY <1>4, <2>2, <2>3, <2>5, <2>7, <3>2
      <3>4. sent' = Base' + Len(packet') + (IF Aux' THEN 1 ELSE 0) + (IF pc' = "put" THEN 1 ELSE 0)
        BY <1>2, <3>3
      <3>5. QED
        BY <3>1, <3>4 DEF MotionsInOrder, Base
    <2>10. QED
      BY <1>2, <2>2, <2>4, <2>8, <2>9
  <1>9. Tracks'
    BY <1>1, <1>2, SameKeys DEF Polled, setup, Waiting, Full
  <1>10. QED
    BY <1>6, <1>7, <1>8, <1>9 DEF InputInv

\* A whole packet goes into the ring, which is empty when nobody else fills it.
LEMMA QueueKeeps ==
  ASSUME InputInv, QueuePacket
  PROVE  InputInv'
  <1>1. TypeOK /\ Output /\ Bounded /\ StillThere /\ Motions /\ Tracks
    BY DEF InputInv
  <1>2. /\ pc = "queue" /\ pc' = "take"
        /\ IF Len(packet) < PacketLength THEN UNCHANGED <<packet, events>>
           ELSE events' = Queue(packet) /\ packet' = <<>>
        /\ UNCHANGED <<setup, out, keyboard, sent, handled, decoder, mode, value>>
    BY DEF QueuePacket, Goto
  <1>3. /\ packet \in Seq(Bytes) /\ Len(packet) \in Nat /\ Len(packet) <= PacketLength
        /\ events \in Seq(Seq(Bytes)) /\ Len(events) < QueueSize /\ handled \in Nat
    BY <1>1, LenProperties DEF TypeOK
  <1>4. /\ packet' \in Seq(Bytes) /\ Len(packet') < PacketLength
        /\ events' \in Seq(Seq(Bytes)) /\ Len(events') < QueueSize
    <2>1. CASE Len(packet) < PacketLength
      BY <1>2, <1>3, <2>1
    <2>2. CASE ~(Len(packet) < PacketLength)
      <3>1. packet' = <<>> /\ events' = Queue(packet)
        BY <1>2, <2>2
      <3>2. packet' \in Seq(Bytes) /\ Len(packet') = 0
        BY <3>1, EmptySeq
      <3>3. QED
        BY <1>3, <3>1, <3>2, QueueIs, Numbers
    <2>3. QED
      BY <2>1, <2>2
  <1>5. TypeOK'
    BY <1>1, <1>2, <1>3, <1>4, Numbers DEF TypeOK, setup, keyboard, decoder
  <1>6. Output' /\ Bounded' /\ StillThere'
    BY <1>1, <1>2, <1>4 DEF Output, Bounded, StillThere
  <1>7. Motions'
    <2>1. SUFFICES ASSUME Polled', ready', pc' # "init"
                   PROVE  /\ pc' \in {"aux2", "aux3", "put", "queue"} => events' = <<>>
                          /\ \A i \in 1 .. Len(packet') : packet'[i] = Base' + i - 1
                          /\ pc' = "put" => value' = Base' + Len(packet')
                          /\ Aux' => out'.byte = sent' - 1
                          /\ MotionsInOrder'
      BY <1>1, <1>2 DEF Motions, setup
    <2>2. /\ Polled /\ ready /\ pc # "init" /\ pc # "put" /\ sent' = sent
          /\ handled' = handled /\ (Aux' <=> Aux) /\ out' = out
      BY <1>2, <2>1 DEF Polled, setup, Aux
    <2>3. /\ events = <<>> /\ (\A i \in 1 .. Len(packet) : packet[i] = Base + i - 1)
          /\ (Aux => out.byte = sent - 1) /\ MotionsInOrder
      BY <1>1, <1>2, <2>2 DEF Motions
    <2>4. Len(events) = 0
      BY <2>3
    <2>5. sent = Base + Len(packet) + (IF Aux THEN 1 ELSE 0) + 0
      BY <2>2, <2>3 DEF MotionsInOrder, Base
    <2>6. CASE Len(packet) < PacketLength
      <3>1. packet' = packet /\ events' = events
        BY <1>2, <2>6
      <3>2. Base' = Base
        BY <2>2, <3>1 DEF Base
      <3>3. MotionsInOrder'
        <4>1. \A i \in 1 .. Len(events') : \A j \in 1 .. PacketLength :
                events'[i][j] = (handled' + i - 1) * PacketLength + j - 1
          BY <2>4, <3>1
        <4>2. sent' = Base' + Len(packet') + (IF Aux' THEN 1 ELSE 0) + (IF pc' = "put" THEN 1 ELSE 0)
          BY <1>2, <2>2, <2>5, <3>1, <3>2
        <4>3. QED
          BY <4>1, <4>2 DEF MotionsInOrder, Base
      <3>4. QED
        BY <1>2, <2>2, <2>3, <3>1, <3>2, <3>3
    <2>7. CASE ~(Len(packet) < PacketLength)
      <3>1. Len(packet) = PacketLength /\ packet' = <<>> /\ events' = Queue(packet)
        BY <1>2, <1>3, <2>7, Numbers
      <3>2. events' = Append(events, packet)
        BY <2>4, <3>1, Numbers DEF Queue
      <3>3. Len(events') = 1 /\ events'[1] = packet
        BY <1>3, <2>4, <3>2, AppendProperties
      <3>4. Len(packet') = 0
        BY <3>1
      <3>5. Base = handled * PacketLength /\ Base' = (handled + 1) * PacketLength
        BY <1>3, <2>2, <2>4, <3>3 DEF Base
      <3>6. Base' = Base + PacketLength /\ Base \in Nat
        BY <1>3, <3>5, OnePacket
      <3>7. MotionsInOrder'
        <4>1. \A j \in 1 .. PacketLength : events'[1][j] = (handled' + 1 - 1) * PacketLength + j - 1
          <5>1. (handled' + 1 - 1) * PacketLength = Base
            BY <1>3, <2>2, <3>5
          <5>2. QED
            BY <2>3, <3>1, <3>3, <5>1
        <4>2. \A i \in 1 .. Len(events') : \A j \in 1 .. PacketLength :
                events'[i][j] = (handled' + i - 1) * PacketLength + j - 1
          BY <3>3, <4>1
        <4>3. sent' = Base' + Len(packet') + (IF Aux' THEN 1 ELSE 0) + (IF pc' = "put" THEN 1 ELSE 0)
          BY <1>2, <2>2, <2>5, <3>1, <3>4, <3>6, Numbers
        <4>4. QED
          BY <4>2, <4>3 DEF MotionsInOrder, Base
      <3>8. QED
        BY <1>2, <2>2, <2>3, <3>4, <3>7
    <2>8. QED
      BY <2>6, <2>7
  <1>8. Tracks'
    BY <1>1, <1>2, SameKeys DEF Polled, setup, Waiting, Full
  <1>9. QED
    BY <1>5, <1>6, <1>7, <1>8 DEF InputInv

\* The loop of pWM takes an event, or goes on to the keyboard.
LEMMA TakeKeeps ==
  ASSUME InputInv, Take
  PROVE  InputInv'
  <1>1. TypeOK /\ Output /\ Bounded /\ StillThere /\ Motions /\ Tracks
    BY DEF InputInv
  <1>2. /\ pc = "take"
        /\ IF events = <<>> THEN pc' = "key1" /\ UNCHANGED <<events, handled>>
           ELSE events' = Tail(events) /\ handled' = handled + 1 /\ pc' = "poll"
        /\ UNCHANGED <<setup, out, keyboard, sent, packet, decoder, mode, value>>
    BY DEF Take, Goto
  <1>3. CASE events = <<>>
    BY <1>2, <1>3, GoesOn DEF driver
  <1>4. CASE events # <<>>
    <2>1. events' = Tail(events) /\ handled' = handled + 1 /\ pc' = "poll"
      BY <1>2, <1>4
    <2>2. /\ events \in Seq(Seq(Bytes)) /\ Len(events) < QueueSize /\ handled \in Nat
          /\ packet \in Seq(Bytes) /\ Len(packet) \in Nat
      BY <1>1, LenProperties DEF TypeOK
    <2>3. PICK n \in Nat : Len(events) = n + 1
      <3>1. Len(events) \in Nat /\ Len(events) # 0
        BY <1>4, <2>2, LenProperties, EmptySeq
      <3>2. Len(events) - 1 \in Nat /\ Len(events) = (Len(events) - 1) + 1
        BY <3>1
      <3>3. QED
        BY <3>2
    <2>4. /\ events' \in Seq(Seq(Bytes)) /\ Len(events') = n
          /\ \A i \in 1 .. n : events'[i] = events[i + 1]
      BY <1>4, <2>1, <2>2, <2>3, HeadTailProperties
    <2>5. TypeOK'
      BY <1>1, <1>2, <2>1, <2>2, <2>3, <2>4, Numbers DEF TypeOK, setup, keyboard, decoder
    <2>6. Output' /\ Bounded' /\ StillThere'
      BY <1>1, <1>2, <2>1 DEF Output, Bounded, StillThere
    <2>7. Motions'
      <3>1. SUFFICES ASSUME Polled', ready', pc' # "init"
                     PROVE  /\ pc' \in {"aux2", "aux3", "put", "queue"} => events' = <<>>
                            /\ \A i \in 1 .. Len(packet') : packet'[i] = Base' + i - 1
                            /\ pc' = "put" => value' = Base' + Len(packet')
                            /\ Aux' => out'.byte = sent' - 1
                            /\ MotionsInOrder'
        BY <1>1, <1>2 DEF Motions, setup
      <3>2. /\ Polled /\ ready /\ pc # "init" /\ pc # "put" /\ sent' = sent /\ packet' = packet
            /\ (Aux' <=> Aux) /\ out' = out
        BY <1>2, <3>1 DEF Polled, setup, Aux
      <3>3. /\ (\A i \in 1 .. Len(packet) : packet[i] = Base + i - 1)
            /\ (Aux => out.byte = sent - 1) /\ MotionsInOrder
        BY <1>1, <1>2, <3>2 DEF Motions
      <3>4. handled' + Len(events') = handled + Len(events)
        <4>1. handled \in Nat /\ handled' = handled + 1 /\ Len(events') = n /\ Len(events) = n + 1
          BY <2>1, <2>2, <2>3, <2>4
        <4>2. QED
          BY <4>1
      <3>5. Base' = Base
        BY <3>4 DEF Base
      <3>6. MotionsInOrder'
        <4>1. \A i \in 1 .. Len(events') : \A j \in 1 .. PacketLength :
                events'[i][j] = (handled' + i - 1) * PacketLength + j - 1
          <5> TAKE i \in 1 .. Len(events')
          <5> TAKE j \in 1 .. PacketLength
          <5>1. i + 1 \in 1 .. Len(events) /\ events'[i] = events[i + 1]
            BY <2>3, <2>4
          <5>2. events[i + 1][j] = (handled + (i + 1) - 1) * PacketLength + j - 1
            BY <3>2, <3>3, <5>1 DEF MotionsInOrder
          <5>3. handled + (i + 1) - 1 = handled' + i - 1
            BY <2>1, <2>2
          <5>4. QED
            BY <5>1, <5>2, <5>3
        <4>2. sent = Base + Len(packet) + (IF Aux THEN 1 ELSE 0) + (IF pc = "put" THEN 1 ELSE 0)
          BY <3>2, <3>3 DEF MotionsInOrder, Base
        <4>3. sent' = Base' + Len(packet') + (IF Aux' THEN 1 ELSE 0) + (IF pc' = "put" THEN 1 ELSE 0)
          BY <2>1, <3>2, <3>5, <4>2
        <4>4. QED
          BY <4>1, <4>3 DEF MotionsInOrder, Base
      <3>7. QED
        BY <2>1, <3>2, <3>3, <3>5, <3>6
    <2>8. Tracks'
      BY <1>1, <1>2, SameKeys DEF Polled, setup, Waiting, Full
    <2>9. QED
      BY <2>5, <2>6, <2>7, <2>8 DEF InputInv
  <1>5. QED
    BY <1>3, <1>4

\* A byte taken for a key is one that the keyboard sent, when nobody else takes bytes.
LEMMA KeyKeeps ==
  ASSUME InputInv, NEW c \in ScanCode, Key3(c)
  PROVE  InputInv'
  <1>1. TypeOK /\ Output /\ Bounded /\ StillThere /\ Motions /\ Tracks
    BY DEF InputInv
  <1>2. /\ pc = "key3" /\ c \in AsScanCode /\ out' = NoByte
        /\ DecodePrefix(c) \/ DecodeExtended(c) \/ DecodePlain(c)
        /\ pc' \in {"poll", "key1", "init"} /\ mode' \in {"pwm", "shell"}
        /\ UNCHANGED <<setup, keyboard, sent, driver, value>>
    BY <1>1 DEF Key3, Goto, Loop, TypeOK
  <1>3. mods \subseteq {"ctrl", "shift"} /\ extended \in BOOLEAN
    BY <1>1 DEF TypeOK
  <1>4. /\ mods' \subseteq {"ctrl", "shift"} /\ extended' \in BOOLEAN
        /\ [mods |-> mods', extended |-> extended'] = Decoded([mods |-> mods, extended |-> extended], c)
    <2>1. CASE DecodePrefix(c)
      BY <1>3, <2>1 DEF DecodePrefix, Decoded
    <2>2. CASE DecodeExtended(c)
      BY <1>3, <2>2 DEF DecodeExtended, Decoded
    <2>3. CASE DecodePlain(c)
      BY <1>3, <2>3 DEF DecodePlain, Decoded, Modifier
    <2>4. QED
      BY <1>2, <2>1, <2>2, <2>3
  <1>5. out' \in [full : BOOLEAN, src : {"kbd", "aux"}, byte : ScanCode \cup Bytes]
        /\ out'.full = FALSE /\ out'.src = "kbd" /\ out'.byte \in ScanCode
    BY <1>2 DEF NoByte, ScanCode
  <1>6. TypeOK'
    BY <1>1, <1>2, <1>4, <1>5 DEF TypeOK, setup, keyboard, driver
  <1>7. Output' /\ Bounded' /\ StillThere'
    BY <1>1, <1>2, <1>5 DEF Output, Bounded, StillThere, driver
  <1>8. Polled => Waiting /\ ~Aux /\ ~Waiting' /\ ~Aux'
    BY <1>1, <1>2, <1>5 DEF StillThere, Aux, Full, Waiting
  <1>9. Motions'
    <2>1. CASE Polled
      BY <1>1, <1>2, <1>8, <2>1, SameMotions
    <2>2. CASE ~Polled
      BY <1>1, <1>2, <2>2 DEF Motions, Polled, setup
    <2>3. QED
      BY <2>1, <2>2
  <1>10. Tracks'
    <2>1. SUFFICES ASSUME Polled', config' = "own"
                   PROVE  Through(codes', Seen', [mods |-> held', extended |-> FALSE])
      BY DEF Tracks
    <2>2. Polled /\ config = "own" /\ codes' = codes /\ held' = held
      BY <1>2, <2>1 DEF Polled, setup, keyboard
    <2>3. Through(codes, Seen, [mods |-> held, extended |-> FALSE])
      BY <1>1, <2>2 DEF Tracks
    <2>4. c = out.byte
      BY <1>2, <1>8, <2>2 DEF Waiting, AsScanCode
    <2>5. Seen = Decoded(Known, c)
      BY <1>8, <2>2, <2>4 DEF Seen
    <2>6. Seen' = Known'
      BY <1>8, <2>2 DEF Seen
    <2>7. Seen' = Seen
      BY <1>4, <2>5, <2>6 DEF Known
    <2>8. QED
      BY <2>2, <2>3, <2>7
  <1>11. QED
    BY <1>6, <1>7, <1>9, <1>10 DEF InputInv

\* mouse_init starts the mouse anew, or leaves the driver as it was.
LEMMA StartKeeps ==
  ASSUME InputInv, InitOk \/ InitFails
  PROVE  InputInv'
  <1>1. TypeOK /\ Output /\ Bounded /\ StillThere /\ Motions /\ Tracks
    BY DEF InputInv
  <1>2. /\ pc = "init" /\ pc' = "poll" /\ out' = NoByte
        /\ config' = (IF TakesCode THEN "scancode" ELSE config)
        /\ UNCHANGED <<interrupts, keyboard, decoder, mode, value>>
    BY DEF InitOk, InitFails, InitCommon, Goto
  <1>3. out' \in [full : BOOLEAN, src : {"kbd", "aux"}, byte : ScanCode \cup Bytes]
        /\ out'.full = FALSE /\ out'.src = "kbd" /\ out'.byte \in ScanCode
    BY <1>2 DEF NoByte, ScanCode
  <1>4. ~Aux' /\ ~Waiting'
    BY <1>3 DEF Aux, Waiting, Full
  <1>5. config' \in {"own", "scancode"}
    BY <1>1, <1>2 DEF TypeOK
  <1>6. Polled' => Polled
    BY <1>2 DEF Polled, InitOk, InitFails
  <1>7. Output' /\ StillThere'
    BY <1>2, <1>3 DEF Output, StillThere
  <1>8. Tracks'
    <2>1. CASE config' = "own"
      <3>1. config = "own" /\ ~Waiting
        BY <1>2, <2>1 DEF TakesCode, Waiting
      <3>2. QED
        BY <1>1, <1>2, <1>4, <1>6, <3>1, SameKeys
    <2>2. CASE config' # "own"
      BY <2>2 DEF Tracks
    <2>3. QED
      BY <2>1, <2>2
  <1>9. CASE InitOk
    <2>1. /\ streams' = TRUE /\ ready' = TRUE /\ unmasked' = TRUE
          /\ sent' = 0 /\ handled' = 0 /\ packet' = <<>> /\ events' = <<>>
      BY <1>9 DEF InitOk
    <2>2. /\ Len(packet') = 0 /\ Len(events') = 0
          /\ packet' \in Seq(Bytes) /\ events' \in Seq(Seq(Bytes))
      BY <2>1, EmptySeq
    <2>3. 0 \in 0 .. MaxBytes
      BY Numbers
    <2>4. TypeOK'
      BY <1>1, <1>2, <1>3, <1>5, <2>1, <2>2, <2>3, Numbers DEF TypeOK, keyboard, decoder
    <2>5. Bounded'
      BY <2>2, Numbers DEF Bounded
    <2>6. Motions'
      <3>1. Base' = 0
        BY <2>1, <2>2, Numbers DEF Base
      <3>2. MotionsInOrder'
        BY <1>2, <1>4, <2>1, <2>2, <3>1 DEF MotionsInOrder, Base
      <3>3. QED
        BY <1>2, <1>4, <2>1, <2>2, <3>2 DEF Motions
    <2>7. QED
      BY <1>7, <1>8, <2>4, <2>5, <2>6 DEF InputInv
  <1>10. CASE InitFails
    <2>1. streams' \in {streams, FALSE} /\ ready' = FALSE /\ UNCHANGED <<unmasked, sent, driver>>
      BY <1>10 DEF InitFails
    <2>2. TypeOK'
      BY <1>1, <1>2, <1>3, <1>5, <2>1 DEF TypeOK, keyboard, decoder, driver
    <2>3. Bounded' /\ Motions'
      BY <1>1, <1>2, <2>1 DEF Bounded, Motions, driver
    <2>4. QED
      BY <1>7, <1>8, <2>2, <2>3 DEF InputInv
  <1>11. QED
    BY <1>9, <1>10

-----------------------------------------------------------------------------
(* The interrupt and the devices.                                          *)

\* The interrupt keeps the bounds; of motions and keys nothing is said when there is one.
LEMMA InterruptKeeps ==
  ASSUME InputInv, Interrupt
  PROVE  InputInv'
  <1>1. TypeOK /\ Output /\ Bounded /\ StillThere /\ Motions /\ Tracks
    BY DEF InputInv
  <1>2. /\ interrupts /\ unmasked /\ Aux /\ out' = [out EXCEPT !.full = FALSE]
        /\ IF Len(Put(out.byte)) < PacketLength
             THEN packet' = Put(out.byte) /\ UNCHANGED events
             ELSE packet' = <<>> /\ events' = Queue(SubSeq(Put(out.byte), 1, PacketLength))
        /\ UNCHANGED <<setup, keyboard, sent, handled, decoder, mode, pc, value>>
    BY DEF Interrupt
  <1>3. ~Polled /\ ~Polled' /\ (ready' => unmasked')
    BY <1>1, <1>2 DEF Polled, setup, Motions
  <1>4. StillThere' /\ Motions' /\ Tracks'
    BY <1>3 DEF StillThere, Motions, Tracks
  <1>5. out.byte \in Bytes /\ out.src = "aux"
    BY <1>1, <1>2 DEF TypeOK, Aux
  <1>6. out'.full = FALSE /\ out'.src = "aux" /\ out'.byte = out.byte /\ Output'
    BY <1>1, <1>2, <1>5 DEF Output
  <1>7. PICK p \in Seq(Bytes) : p = Put(out.byte) /\ Len(p) \in Nat
    <2>1. packet \in Seq(Bytes)
      BY <1>1 DEF TypeOK
    <2>2. Put(out.byte) \in Seq(Bytes)
      BY <1>5, <2>1, PutIs
    <2>3. QED
      BY <2>2, LenProperties
  <1>8. events \in Seq(Seq(Bytes)) /\ Len(events) < QueueSize
    BY <1>1 DEF TypeOK
  <1>9. /\ packet' \in Seq(Bytes) /\ Len(packet') < PacketLength
        /\ events' \in Seq(Seq(Bytes)) /\ Len(events') < QueueSize
    <2>1. CASE Len(p) < PacketLength
      BY <1>2, <1>7, <1>8, <2>1
    <2>2. CASE ~(Len(p) < PacketLength)
      <3>1. packet' = <<>> /\ events' = Queue(SubSeq(p, 1, PacketLength))
        BY <1>2, <1>7, <2>2
      <3>2. PacketLength <= Len(p)
        BY <1>7, <2>2, Numbers
      <3>3. SubSeq(p, 1, PacketLength) \in Seq(Bytes)
        BY <3>2, WholePacket
      <3>4. packet' \in Seq(Bytes) /\ Len(packet') = 0
        BY <3>1, EmptySeq
      <3>5. events' \in Seq(Seq(Bytes)) /\ Len(events') < QueueSize
        BY <1>8, <3>1, <3>3, QueueIs
      <3>6. QED
        BY <3>4, <3>5, Numbers
    <2>3. QED
      BY <2>1, <2>2
  <1>10. Bounded'
    BY <1>9 DEF Bounded
  <1>11. Len(packet') <= PacketLength
    BY <1>9, LenProperties, Numbers
  <1>12. TypeOK'
    BY <1>1, <1>2, <1>5, <1>6, <1>9, <1>11 DEF TypeOK, setup, keyboard, decoder
  <1>13. QED
    BY <1>4, <1>6, <1>10, <1>12 DEF InputInv

\* A key sends one scancode, or the prefix and one.
LEMMA ScanIs ==
  ASSUME NEW k \in Key, NEW m \in BOOLEAN
  PROVE  Scan(k, m) \in Seq(ScanCode)
  <1> DEFINE c == [code |-> Code[k], make |-> m]
             a == Prefix
  <1>1. c \in ScanCode /\ a \in ScanCode
    BY DEF ScanCode
  <1>2. Scan(k, m) = IF k = "rctrl" THEN <<a, c>> ELSE <<c>>
    BY DEF Scan
  <1> HIDE DEF a, c
  <1>3. <<a, c>> \in Seq(ScanCode) /\ <<c>> \in Seq(ScanCode)
    BY <1>1
  <1>4. QED
    BY <1>2, <1>3

\* The scancodes of a key lead from what is held down to what is held down then.
LEMMA Struck ==
  ASSUME NEW C \in Seq(ScanCode), NEW k \in Key, NEW m \in BOOLEAN, NEW s,
         NEW h \in SUBSET Modifier, NEW g \in SUBSET Modifier,
         g = IF k \in Modifier THEN (IF m THEN h \cup {k} ELSE h \ {k}) ELSE h,
         Through(C, s, [mods |-> h, extended |-> FALSE])
  PROVE  /\ C \o Scan(k, m) \in Seq(ScanCode)
         /\ Through(C \o Scan(k, m), s, [mods |-> g, extended |-> FALSE])
  <1> DEFINE c == [code |-> Code[k], make |-> m]
             t == [mods |-> h, extended |-> FALSE]
             u == [mods |-> g, extended |-> FALSE]
             e == [mods |-> h, extended |-> TRUE]
  <1>1. c \in ScanCode /\ Prefix \in ScanCode
    BY DEF ScanCode
  <1>2. Modifier \subseteq {"ctrl", "shift"}
    BY DEF Modifier
  <1>3. t \in State /\ u \in State /\ e \in State
    BY <1>2 DEF State
  <1>4. k \in {"char", "ctrl", "rctrl", "shift"}
    BY InputAssumption DEF Code
  <1>5. Code["char"] = "char" /\ Code["ctrl"] = "ctrl" /\ Code["rctrl"] = "ctrl" /\ Code["shift"] = "shift"
    BY DEF Code
  <1>6. c.code \in {"char", "ctrl", "shift"} /\ c # Prefix
    BY <1>4, <1>5 DEF Prefix
  <1>7. CASE k = "rctrl"
    <2>1. Scan(k, m) = <<Prefix, c>> /\ g = h
      BY <1>2, <1>7 DEF Scan
    <2>2. Decoded(t, Prefix) = e
      BY DEF Decoded
    <2>3. Decoded(e, c) = u
      BY <1>6, <2>1 DEF Decoded
    <2> HIDE DEF c, t, u, e
    <2>4. Append(C, Prefix) \in Seq(ScanCode)
      BY <1>1, AppendProperties
    <2>5. Through(Append(C, Prefix), s, e)
      BY <1>1, <1>3, <2>2, ThroughMore DEF t
    <2>6. Through(Append(Append(C, Prefix), c), s, u)
      BY <1>1, <1>3, <2>3, <2>4, <2>5, ThroughMore
    <2>7. C \o Scan(k, m) = Append(Append(C, Prefix), c)
      <3>1. Append(Append(C, Prefix), c) = (C \o <<Prefix>>) \o <<c>>
        BY <1>1, <2>4, AppendIsConcat
      <3>2. <<Prefix>> \in Seq(ScanCode) /\ <<c>> \in Seq(ScanCode)
        BY <1>1
      <3>3. (C \o <<Prefix>>) \o <<c>> = C \o (<<Prefix>> \o <<c>>)
        BY <3>2, ConcatAssociative
      <3>4. <<Prefix>> \o <<c>> = <<Prefix, c>>
        <4> DEFINE a == Prefix
               p == <<a>>
               q == <<c>>
               r == <<a, c>>
        <4>1. p \in Seq(ScanCode) /\ q \in Seq(ScanCode) /\ r \in Seq(ScanCode)
          <5> HIDE DEF a
          <5>1. a \in ScanCode
            BY <1>1 DEF a
          <5>2. QED
            BY <1>1, <5>1
        <4>2. Len(p) = 1 /\ p[1] = a /\ Len(q) = 1 /\ q[1] = c /\ Len(r) = 2 /\ r[1] = a /\ r[2] = c
          <5> HIDE DEF a
          <5>1. QED
            OBVIOUS
        <4> HIDE DEF a, p, q, r
        <4>3. /\ p \o q \in Seq(ScanCode) /\ Len(p \o q) = 2
              /\ (p \o q)[1] = a /\ (p \o q)[2] = c
          <5>1. /\ p \o q \in Seq(ScanCode) /\ Len(p \o q) = Len(p) + Len(q)
                /\ \A i \in 1 .. Len(p) + Len(q) : (p \o q)[i] = IF i <= Len(p) THEN p[i] ELSE q[i - Len(p)]
            BY <4>1, ConcatProperties
          <5>2. Len(p \o q) = 2 /\ \A i \in 1 .. 2 : (p \o q)[i] = IF i <= 1 THEN p[i] ELSE q[i - 1]
            BY <4>2, <5>1
          <5>3. (p \o q)[1] = p[1] /\ (p \o q)[2] = q[1]
            BY <5>2
          <5>4. QED
            BY <4>2, <5>1, <5>2, <5>3
        <4>4. p \o q = r
          BY <4>1, <4>2, <4>3, SeqEqual
        <4>5. QED
          BY <4>4 DEF a, p, q, r
      <3>5. QED
        BY <2>1, <3>1, <3>3, <3>4
    <2>8. QED
      BY <1>1, <2>4, <2>6, <2>7, AppendProperties DEF u
  <1>8. CASE k # "rctrl"
    <2>1. Scan(k, m) = <<c>>
      BY <1>8 DEF Scan
    <2>2. c.code = k /\ c.make = m
      BY <1>4, <1>5, <1>8
    <2>3. Decoded(t, c) = u
      BY <1>6, <2>2 DEF Decoded
    <2> HIDE DEF c, t, u, e
    <2>4. Through(Append(C, c), s, u)
      BY <1>1, <1>3, <2>3, ThroughMore DEF t
    <2>5. C \o Scan(k, m) = Append(C, c)
      BY <1>1, <2>1, AppendIsConcat
    <2>6. QED
      BY <1>1, <2>4, <2>5, AppendProperties DEF u
  <1>9. QED
    BY <1>7, <1>8

\* A key is struck or let go.
LEMMA StrikeKeeps ==
  ASSUME InputInv, NEW k \in Key, NEW m \in BOOLEAN, Strike(k, m)
  PROVE  InputInv'
  <1>1. TypeOK /\ Output /\ Bounded /\ StillThere /\ Motions /\ Tracks
    BY DEF InputInv
  <1>2. /\ config = "own"
        /\ held' = IF k \in Modifier THEN (IF m THEN held \cup {k} ELSE held \ {k}) ELSE held
        /\ codes' = codes \o Scan(k, m)
        /\ UNCHANGED <<setup, out, sent, driver, decoder, mode, pc, value>>
    BY DEF Strike
  <1>3. held \in SUBSET Modifier /\ codes \in Seq(ScanCode)
    BY <1>1 DEF TypeOK
  <1>4. held' \in SUBSET Modifier
    BY <1>2, <1>3
  <1>5. codes' \in Seq(ScanCode)
    BY <1>2, <1>3, ScanIs, ConcatProperties
  <1>6. TypeOK'
    BY <1>1, <1>2, <1>4, <1>5 DEF TypeOK, setup, driver, decoder
  <1>7. Output' /\ Bounded' /\ StillThere'
    BY <1>1, <1>2 DEF Output, Bounded, StillThere, Polled, Full, setup, driver
  <1>8. Motions'
    BY <1>1, <1>2, SameMotions DEF Aux, Motions
  <1>9. Tracks'
    <2>1. SUFFICES ASSUME Polled', config' = "own"
                   PROVE  Through(codes', Seen', [mods |-> held', extended |-> FALSE])
      BY DEF Tracks
    <2>2. Polled /\ Seen' = Seen
      BY <1>2, <2>1 DEF Polled, setup, Seen, Known, Waiting, Full, decoder
    <2>3. Through(codes, Seen, [mods |-> held, extended |-> FALSE])
      BY <1>1, <1>2, <2>2 DEF Tracks
    <2>4. Through(codes \o Scan(k, m), Seen, [mods |-> held', extended |-> FALSE])
      BY <1>2, <1>3, <1>4, <2>3, Struck
    <2>5. QED
      BY <1>2, <2>2, <2>4
  <1>10. QED
    BY <1>6, <1>7, <1>8, <1>9 DEF InputInv

\* The keyboard's first scancode becomes the output byte.
LEMMA SendCodeKeeps ==
  ASSUME InputInv, SendCode
  PROVE  InputInv'
  <1>1. TypeOK /\ Output /\ Bounded /\ StillThere /\ Motions /\ Tracks
    BY DEF InputInv
  <1>2. /\ ~Full /\ codes # <<>> /\ config = "own"
        /\ out' = [full |-> TRUE, src |-> "kbd", byte |-> Head(codes)] /\ codes' = Tail(codes)
        /\ UNCHANGED <<setup, held, sent, driver, decoder, mode, pc, value>>
    BY DEF SendCode
  <1>3. codes \in Seq(ScanCode)
    BY <1>1 DEF TypeOK
  <1>4. Head(codes) \in ScanCode /\ codes' \in Seq(ScanCode)
    BY <1>2, <1>3, HeadTailProperties
  <1>5. /\ out' \in [full : BOOLEAN, src : {"kbd", "aux"}, byte : ScanCode \cup Bytes]
        /\ out'.full /\ out'.src = "kbd" /\ out'.byte = Head(codes)
    BY <1>2, <1>4
  <1>6. TypeOK'
    BY <1>1, <1>2, <1>4, <1>5 DEF TypeOK, setup, driver, decoder
  <1>7. Output' /\ Bounded'
    BY <1>1, <1>2, <1>5 DEF Output, Bounded, driver
  <1>8. Polled' => Polled
    BY <1>2 DEF Polled, setup
  <1>9. StillThere'
    BY <1>1, <1>2, <1>5, <1>8 DEF StillThere, Full
  <1>10. Waiting' /\ ~Waiting /\ ~Aux /\ ~Aux'
    BY <1>2, <1>5 DEF Waiting, Aux, Full
  <1>11. Motions'
    BY <1>1, <1>2, <1>10, SameMotions DEF Motions
  <1>12. Tracks'
    <2>1. SUFFICES ASSUME Polled', config' = "own"
                   PROVE  Through(codes', Seen', [mods |-> held', extended |-> FALSE])
      BY DEF Tracks
    <2>2. Polled /\ Known' = Known /\ held' = held
      BY <1>2, <1>8, <2>1 DEF Known, decoder
    <2>3. Seen = Known
      BY <1>10 DEF Seen
    <2>4. Through(codes, Seen, [mods |-> held, extended |-> FALSE])
      BY <1>1, <1>2, <2>2 DEF Tracks
    <2>5. Through(codes', Decoded(Seen, Head(codes)), [mods |-> held, extended |-> FALSE])
      BY <1>2, <1>3, <2>4, ThroughRest
    <2>6. Seen' = Decoded(Known', out'.byte)
      BY <1>10 DEF Seen
    <2>7. QED
      BY <1>5, <2>2, <2>3, <2>5, <2>6
  <1>13. QED
    BY <1>6, <1>7, <1>9, <1>11, <1>12 DEF InputInv

\* The mouse's next byte becomes the output byte.
LEMMA SendMotionKeeps ==
  ASSUME InputInv, SendMotion
  PROVE  InputInv'
  <1>1. TypeOK /\ Output /\ Bounded /\ StillThere /\ Motions /\ Tracks
    BY DEF InputInv
  <1>2. /\ ~Full /\ sent < MaxBytes
        /\ out' = [full |-> TRUE, src |-> "aux", byte |-> sent] /\ sent' = sent + 1
        /\ UNCHANGED <<setup, keyboard, driver, decoder, mode, pc, value>>
    BY DEF SendMotion
  <1>3. sent \in Nat /\ sent \in Bytes /\ sent' \in 0 .. MaxBytes
    BY <1>1, <1>2, Numbers DEF TypeOK, Bytes
  <1>4. /\ out' \in [full : BOOLEAN, src : {"kbd", "aux"}, byte : ScanCode \cup Bytes]
        /\ out'.full /\ out'.src = "aux" /\ out'.byte = sent
    BY <1>2, <1>3
  <1>5. TypeOK'
    BY <1>1, <1>2, <1>3, <1>4 DEF TypeOK, setup, keyboard, driver, decoder
  <1>6. Output' /\ Bounded'
    BY <1>1, <1>2, <1>4 DEF Output, Bounded, driver
  <1>7. Polled' => Polled
    BY <1>2 DEF Polled, setup
  <1>8. StillThere'
    BY <1>1, <1>2, <1>4, <1>7 DEF StillThere, Full
  <1>9. ~Waiting' /\ ~Waiting /\ ~Aux /\ Aux'
    BY <1>2, <1>4 DEF Waiting, Aux, Full
  <1>10. Tracks'
    BY <1>1, <1>2, <1>7, <1>9, SameKeys DEF setup
  <1>11. Motions'
    <2>1. SUFFICES ASSUME Polled', ready', pc' # "init"
                   PROVE  /\ pc' \in {"aux2", "aux3", "put", "queue"} => events' = <<>>
                          /\ \A i \in 1 .. Len(packet') : packet'[i] = Base' + i - 1
                          /\ pc' = "put" => value' = Base' + Len(packet')
                          /\ Aux' => out'.byte = sent' - 1
                          /\ MotionsInOrder'
      BY <1>1, <1>2 DEF Motions, setup
    <2>2. /\ Polled /\ ready /\ pc # "init" /\ pc' = pc /\ packet' = packet
          /\ events' = events /\ handled' = handled /\ value' = value
      BY <1>2, <1>7, <2>1 DEF setup, driver
    <2>3. Base' = Base
      BY <2>2 DEF Base
    <2>4. /\ pc \in {"aux2", "aux3", "put", "queue"} => events = <<>>
          /\ \A i \in 1 .. Len(packet) : packet[i] = Base + i - 1
          /\ pc = "put" => value = Base + Len(packet)
          /\ MotionsInOrder
      BY <1>1, <2>2 DEF Motions
    <2>5. out'.byte = sent' - 1
      BY <1>2, <1>3, <1>4
    <2>6. Base \in Nat /\ Len(packet) \in Nat
      <3>1. handled \in Nat /\ Len(events) \in Nat /\ Len(packet) \in Nat
        BY <1>1, LenProperties DEF TypeOK
      <3>2. PICK n \in Nat : n = handled + Len(events)
        BY <3>1
      <3>3. QED
        BY <3>1, <3>2, OnePacket DEF Base
    <2>7. MotionsInOrder'
      <3>1. \A i \in 1 .. Len(events') : \A j \in 1 .. PacketLength :
              events'[i][j] = (handled' + i - 1) * PacketLength + j - 1
        BY <2>2, <2>4 DEF MotionsInOrder
      <3>2. sent = Base + Len(packet) + 0 + (IF pc = "put" THEN 1 ELSE 0)
        BY <1>9, <2>2, <2>4 DEF MotionsInOrder, Base
      <3>3. sent + 1 = Base + Len(packet) + 1 + (IF pc = "put" THEN 1 ELSE 0)
        BY <2>6, <3>2
      <3>4. sent' = Base' + Len(packet') + (IF Aux' THEN 1 ELSE 0) + (IF pc' = "put" THEN 1 ELSE 0)
        BY <1>2, <1>9, <2>2, <2>3, <3>3
      <3>5. QED
        BY <3>1, <3>4 DEF MotionsInOrder, Base
    <2>8. QED
      BY <2>2, <2>3, <2>4, <2>5, <2>7
  <1>12. QED
    BY <1>5, <1>6, <1>8, <1>10, <1>11 DEF InputInv

-----------------------------------------------------------------------------
(* What holds in every behaviour.                                          *)

\* It holds when the system starts.
LEMMA InitHolds ==
  ASSUME Init
  PROVE  InputInv
  <1>1. /\ interrupts \in BOOLEAN /\ unmasked = FALSE /\ ready = FALSE /\ config = "own"
        /\ out = NoByte /\ held = {} /\ codes = <<>> /\ sent = 0 /\ streams = FALSE
        /\ packet = <<>> /\ events = <<>> /\ handled = 0
        /\ mods = {} /\ extended = FALSE
        /\ mode = "shell" /\ pc = "key1" /\ value = 0
    BY DEF Init
  <1>2. /\ Len(packet) = 0 /\ Len(events) = 0 /\ packet \in Seq(Bytes)
        /\ events \in Seq(Seq(Bytes)) /\ codes \in Seq(ScanCode)
    BY <1>1, EmptySeq
  <1>3. /\ out \in [full : BOOLEAN, src : {"kbd", "aux"}, byte : ScanCode \cup Bytes]
        /\ out.full = FALSE /\ out.src = "kbd" /\ out.byte \in ScanCode
    BY <1>1 DEF NoByte, ScanCode
  <1>4. sent \in 0 .. MaxBytes /\ value \in Bytes
    BY <1>1, Numbers DEF Bytes
  <1>5. TypeOK
    <2>1. Len(packet) <= PacketLength /\ Len(events) < QueueSize
      BY <1>2, Numbers
    <2>2. handled \in Nat /\ held \subseteq Modifier /\ mods \subseteq {"ctrl", "shift"}
      BY <1>1
    <2>3. QED
      BY <1>1, <1>2, <1>3, <1>4, <2>1, <2>2 DEF TypeOK
  <1>6. Output /\ Bounded /\ StillThere /\ Motions
    BY <1>1, <1>2, <1>3, Numbers DEF Output, Bounded, StillThere, Motions
  <1>7. Tracks
    <2>1. Known \in State /\ Seen = Known /\ [mods |-> held, extended |-> FALSE] = Known
      BY <1>1, <1>3 DEF Known, State, Seen, Waiting, Full
    <2>2. Through(<<>>, Known, Known)
      BY <2>1, ThroughNone
    <2>3. QED
      BY <1>1, <2>1, <2>2 DEF Tracks
  <1>8. QED
    BY <1>5, <1>6, <1>7 DEF InputInv

\* And every step keeps it.
LEMMA StepKeeps ==
  ASSUME InputInv, [Next]_vars
  PROVE  InputInv'
  <1>1. CASE Foreground
    <2>1. CASE KeyboardReader
      BY <2>1, LooksKeep, KeyKeeps DEF KeyboardReader
    <2>2. CASE MousePoll
      BY <2>2, LooksKeep, Aux3Keeps, PutKeeps, QueueKeeps, TakeKeeps DEF MousePoll
    <2>3. CASE InitOk \/ InitFails
      BY <2>3, StartKeeps
    <2>4. QED
      BY <1>1, <2>1, <2>2, <2>3 DEF Foreground
  <1>2. CASE Interrupt
    BY <1>2, InterruptKeeps
  <1>3. CASE Devices
    BY <1>3, StrikeKeeps, SendCodeKeeps, SendMotionKeeps DEF Devices
  <1>4. CASE UNCHANGED vars
    <2>1. TypeOK /\ Output /\ Bounded /\ StillThere /\ Motions /\ Tracks
      BY DEF InputInv
    <2>2. UNCHANGED <<setup, out, keyboard, sent, driver, decoder, mode, pc, value>>
      BY <1>4 DEF vars
    <2>3. TypeOK'
      BY <2>1, <2>2 DEF TypeOK, setup, keyboard, driver, decoder
    <2>4. Output' /\ Bounded' /\ StillThere'
      BY <2>1, <2>2 DEF Output, Bounded, StillThere, Polled, Full, setup, driver
    <2>5. Motions'
      BY <2>1, <2>2, SameMotions DEF Aux, Motions
    <2>6. Tracks'
      BY <2>1, <2>2, SameKeys DEF Polled, setup, Waiting, Full
    <2>7. QED
      BY <2>3, <2>4, <2>5, <2>6 DEF InputInv
  <1>5. QED
    BY <1>1, <1>2, <1>3, <1>4 DEF Next

\* The inductive invariant, on which the theorems below rest.
THEOREM InputInvariant == Spec => []InputInv
  <1>1. Init => InputInv
    BY InitHolds
  <1>2. InputInv /\ [Next]_vars => InputInv'
    BY StepKeeps
  <1>3. QED
    BY <1>1, <1>2, PTL DEF Spec

\* With and without the interrupt the variables keep their types: of the ring one slot
\* stays free, and the packet does not grow beyond its length (mouse_irq_handler).
THEOREM TypesHold == Spec => []TypeOK
  <1>1. InputInv => TypeOK
    BY DEF InputInv
  <1>2. QED
    BY <1>1, InputInvariant, PTL

\* While pWM polls a mouse it has started, no byte of a motion is lost, taken twice or
\* put into another packet, whatever the keyboard does in between (mouse_poll).
THEOREM MotionsAreInOrder == Spec => []MotionsInOrder
  <1>1. InputInv => MotionsInOrder
    BY DEF InputInv, Motions, MotionsInOrder
  <1>2. QED
    BY <1>1, InputInvariant, PTL

\* Polled, the keyboard's reader decodes no byte of the mouse (keyboard_try_read_char).
THEOREM KeysAreTheKeyboards == Spec => []KeysAreTyped
  <1>1. InputInv => KeysAreTyped
    BY DEF InputInv, StillThere, KeysAreTyped
  <1>2. QED
    BY <1>1, InputInvariant, PTL

\* When all scancodes are read, the driver's modifiers are the keys that are held down,
\* whatever was struck and in whatever order pWM and the shell have read it (decode_scancode).
THEOREM ModifiersAreHeld == Spec => []ModifiersTrack
  <1>1. InputInv => ModifiersTrack
    <2>1. SUFFICES ASSUME InputInv, Polled, config = "own", codes = <<>>, ~(Full /\ out.src = "kbd")
                   PROVE  mods = held /\ ~extended
      BY DEF ModifiersTrack
    <2>2. Seen = Known
      BY <2>1 DEF Seen, Waiting
    <2>3. Through(<<>>, Known, [mods |-> held, extended |-> FALSE])
      BY <2>1, <2>2 DEF InputInv, Tracks
    <2>4. Known = [mods |-> held, extended |-> FALSE]
      BY <2>3, NoneThrough
    <2>5. Known.mods = held /\ Known.extended = FALSE
      BY <2>4
    <2>6. QED
      BY <2>5 DEF Known
  <1>2. QED
    BY <1>1, InputInvariant, PTL
================================================================================
