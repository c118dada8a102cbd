---------------------------- MODULE NetStackProofs ----------------------------
(***************************************************************************)
(* What NetStack keeps for every number of neighbours, connections and     *)
(* pieces, whatever the network loses, repeats and delays.                 *)
(***************************************************************************)
EXTENDS NetStack, Integers, FiniteSetTheorems, FunctionTheorems, SequenceTheorems, TLAPS

-----------------------------------------------------------------------------
(* What holds however small the ARP cache is.                              *)

Flag == {"SYN", "RST", "DATA", "FIN"}
Outcome == {"wait", "sent", "failed"}
Place == {"idle", "connect_send", "connect_poll", "connect_check", "request_send",
          "read_poll", "read_take"}
Tcp == [state : {"closed", "syn_sent", "established"}, port : 0 .. MaxConns, recvNext : Nat,
        peerClosed : BOOLEAN, buf : {NoData} \cup (Conn \X (1 .. Length))]
Server1 == [syn : BOOLEAN, req : BOOLEAN, rst : BOOLEAN, acked : Nat]

\* Only the replies to a neighbour's echo requests carry no port, and go elsewhere than to
\* the gateway.
Segment1 == {s \in SegmentSet : s.flag = "echo" => s.port = 0}
Call == {c \in [k : Callers, seg : Segment1, hop : Host, at : Outcome] :
           c.hop = Gateway \/ (c.k = "echo" /\ c.seg = EchoReply)}

Types ==
  /\ cache \in [0 .. Slots - 1 -> Host \cup {NoHost}] /\ slot \in 0 .. Slots - 1
  /\ buffer \subseteq Flag
  /\ tcp \in Tcp /\ (tcp.peerClosed => tcp.state = "closed")
  /\ pc \in Place /\ wire \subseteq Segment1
  /\ srv \in [Conn -> Server1]

\* Calls wait inside each other.
Stack ==
  /\ calls \in Seq(Call)
  /\ \A i \in 1 .. Len(calls) - 1 : calls[i].at = "wait"

Opened == tcp.state = "established" => tcp.port \in Conn /\ srv[tcp.port].syn

StackInv == Types /\ Stack /\ Opened

-----------------------------------------------------------------------------
(* What holds when the cache has room for all neighbours, and only those   *)
(* it knows ask for an echo: then the gateway, once found, is never        *)
(* forgotten, and no segment is sent while another one waits.              *)

Room == Polite /\ IsFiniteSet(Host) /\ Cardinality(Host) <= Slots

Filled ==
  /\ \A s, t \in 0 .. Slots - 1 : cache[s] = cache[t] /\ cache[s] # NoHost => s = t
  /\ \/ \A s \in 0 .. Slots - 1 : cache[s] # NoHost <=> s < slot
     \/ Host \subseteq Cached

\* What the server has heard was sent, on a connection that was opened, to a gateway that
\* is known.
Heard ==
  /\ \A seg \in wire : seg.port <= tcp.port /\ (seg.flag # "echo" => Gateway \in Cached)
  /\ \A p \in Conn : srv[p].syn \/ srv[p].req \/ srv[p].rst => p <= tcp.port /\ Gateway \in Cached

\* The only call that waits is the one that sends the SYN; an echo may be answered inside it.
Nested ==
  /\ Len(calls) <= 2
  /\ calls # <<>> /\ calls[1].at = "wait" => calls[1].k = "syn"
  /\ Len(calls) = 2 => calls[1].k = "syn" /\ calls[2].k = "echo" /\ calls[2].at = "sent"
  /\ calls # <<>> => /\ calls[1].k = "syn" <=> pc = "connect_send"
                     /\ calls[1].k = "request" <=> pc = "request_send"
                     /\ calls[1].seg.port <= tcp.port
                     /\ calls[1].k = "syn" => calls[1].seg.flag = "SYN"
                     /\ calls[1].k \notin {"syn", "echo"} => Gateway \in Cached
  /\ calls = <<>> => pc \notin {"connect_send", "request_send"}

Finishing == calls # <<>> /\ calls[1].k = "fin"

\* Before the first read nothing has come, and between the reads at most the next piece.
Progress ==
  /\ pc \in {"connect_send", "connect_poll"} => tcp.state = "syn_sent"
  /\ pc = "connect_check" => tcp.state \in {"syn_sent", "established"}
  /\ pc \in {"connect_send", "connect_poll", "connect_check", "request_send"} =>
       /\ got = <<>> /\ tcp.buf = NoData
       /\ calls # <<>> => calls[1].k \notin {"data", "fin"}
       /\ tcp.state = "established" => tcp.recvNext = 1
  /\ pc = "request_send" => tcp.state = "established"
  /\ pc \in {"idle", "read_poll", "read_take"} => tcp.state # "syn_sent"
  /\ pc \in {"read_poll", "read_take"} => tcp.state = "established" \/ tcp.peerClosed
  /\ pc = "read_poll" => tcp.buf = NoData /\ calls = <<>>
  /\ pc = "read_take" /\ tcp.buf # NoData => tcp.buf = <<tcp.port, Len(got) + 1>>
  /\ pc \in {"read_poll", "read_take"} /\ tcp.state = "established" /\ ~Finishing =>
       tcp.recvNext = Len(got) + (IF tcp.buf = NoData THEN 1 ELSE 2)

\* What was read is the server's data, in order; what was acknowledged has come.
InStep ==
  /\ got \in Seq(Conn \X (1 .. Length))
  /\ \A i \in 1 .. Len(got) : got[i] = <<tcp.port, i>>
  /\ tcp.state = "established" /\ ~Finishing => \A seg \in wire :
       seg.flag = "ACK" /\ seg.port = tcp.port => seg.ack <= tcp.recvNext
  /\ tcp.state = "syn_sent" => \A seg \in wire : seg.port = tcp.port => seg.flag # "ACK"

\* A FIN is only taken from the server.
Ended(p) == p \in Conn /\ CanSend(p, Length)
Ends ==
  /\ Finishing => Ended(tcp.port)
  /\ calls # <<>> /\ calls[1].k = "data" /\ "FIN" \in buffer => Ended(tcp.port)
  /\ tcp.peerClosed => tcp.port \in Conn /\ (srv[tcp.port].rst \/ CanSend(tcp.port, Length))

NetInv == Filled /\ Heard /\ Nested /\ Progress /\ InStep /\ Ends
-----------------------------------------------------------------------------
(* The frames, and the calls that wait inside each other.                  *)

\* The bounds are numbers.
LEMMA Bounds ==
  /\ Gateway \in Host /\ NoHost \notin Host /\ Slots \in Nat /\ Slots > 0
  /\ Length \in Nat /\ Length > 0 /\ Window \in Nat /\ MaxConns \in Nat /\ MaxDepth \in Nat
  BY NetAssumption DEF NoHost

\* A frame of the server belongs to a connection it has heard of.
LEMMA ServerFrame ==
  ASSUME Types, NEW m \in ServerFrames
  PROVE  /\ m.kind = "tcp" /\ m.port \in Conn /\ m.seq \in Nat /\ m.flags \subseteq Flag
         /\ srv[m.port].syn \/ srv[m.port].req \/ srv[m.port].rst
         /\ "SYN" \in m.flags => m.seq = 0 /\ srv[m.port].syn
         /\ "RST" \in m.flags => srv[m.port].rst
         /\ "DATA" \in m.flags => m.seq \in 1 .. Length
         /\ "FIN" \in m.flags => CanSend(m.port, Length)
  <1>1. ASSUME NEW p, NEW s, NEW f
        PROVE  LET n == TcpFrame(p, s, f) IN n.kind = "tcp" /\ n.port = p /\ n.seq = s /\ n.flags = f
    BY DEF TcpFrame
  <1>2. Length \in Nat /\ Length \in 1 .. Length /\ Length + 1 \in Nat
    BY Bounds
  <1>3. CASE \E p \in Conn : srv[p].syn /\ m = TcpFrame(p, 0, {"SYN"})
    BY <1>1, <1>3 DEF Flag
  <1>4. CASE \E p \in Conn : srv[p].rst /\ m = TcpFrame(p, 0, {"RST"})
    BY <1>1, <1>4 DEF Flag
  <1>5. CASE \E p \in Conn : CanSend(p, Length) /\ m = TcpFrame(p, Length, {"DATA", "FIN"})
    <2>1. PICK p \in Conn : CanSend(p, Length) /\ m = TcpFrame(p, Length, {"DATA", "FIN"})
      BY <1>5
    <2>2. m.kind = "tcp" /\ m.port = p /\ m.seq = Length /\ m.flags = {"DATA", "FIN"} /\ srv[p].req
      BY <1>1, <2>1 DEF CanSend
    <2>3. QED
      BY <1>2, <2>1, <2>2 DEF Flag
  <1>6. CASE \E p \in Conn : CanSend(p, Length) /\ m = TcpFrame(p, Length + 1, {"FIN"})
    <2>1. PICK p \in Conn : CanSend(p, Length) /\ m = TcpFrame(p, Length + 1, {"FIN"})
      BY <1>6
    <2>2. m.kind = "tcp" /\ m.port = p /\ m.seq = Length + 1 /\ m.flags = {"FIN"} /\ srv[p].req
      BY <1>1, <2>1 DEF CanSend
    <2>3. QED
      BY <1>2, <2>1, <2>2 DEF Flag
  <1>7. CASE \E p \in Conn : \E k \in 1 .. Length : CanSend(p, k) /\ m = TcpFrame(p, k, {"DATA"})
    <2>1. PICK p \in Conn, k \in 1 .. Length : CanSend(p, k) /\ m = TcpFrame(p, k, {"DATA"})
      BY <1>7
    <2>2. m.kind = "tcp" /\ m.port = p /\ m.seq = k /\ m.flags = {"DATA"} /\ srv[p].req
      BY <1>1, <2>1 DEF CanSend
    <2>3. QED
      BY <1>2, <2>1, <2>2 DEF Flag
  <1>8. QED
    BY <1>3, <1>4, <1>5, <1>6, <1>7 DEF ServerFrames

\* A frame of a neighbour; who asks for an echo is known when neighbours are polite.
LEMMA NeighbourFrame ==
  ASSUME NEW m \in NeighbourFrames
  PROVE  /\ m.kind \in {"arp", "echo"} /\ m.from \in Host /\ m.flags \subseteq Flag
         /\ m.kind = "echo" /\ Polite => m.from \in Cached
  <1>1. CASE \E h \in Host : m = ArpFrame(h)
    BY <1>1 DEF ArpFrame, Flag
  <1>2. CASE \E h \in Host, f \in {{}, {"FIN"}} : m = EchoFrame(h, f) /\ (Polite => h \in Cached)
    BY <1>2 DEF EchoFrame, Flag
  <1>3. QED
    BY <1>1, <1>2 DEF NeighbourFrames

\* Where a frame comes from shows what it can hold.
LEMMA FrameFacts ==
  ASSUME Types, NEW m \in Frames
  PROVE  /\ m.flags \subseteq Flag /\ m.kind \in {"tcp", "arp", "echo"}
         /\ m.kind = "tcp" => m \in ServerFrames
         /\ m.kind # "tcp" => m \in NeighbourFrames
  BY ServerFrame, NeighbourFrame DEF Frames

\* ip_send called by whoever waits or by nobody.
LEMMA Pushed ==
  ASSUME Stack, calls = <<>> \/ Top.at = "wait", NEW c \in Call, calls' = Append(calls, c)
  PROVE  /\ Stack' /\ Len(calls) \in Nat /\ Len(calls') = Len(calls) + 1
         /\ calls'[Len(calls) + 1] = c /\ \A i \in 1 .. Len(calls) : calls'[i] = calls[i]
  <1>1. calls \in Seq(Call) /\ Len(calls) \in Nat
    BY DEF Stack
  <1>2. /\ calls' \in Seq(Call) /\ Len(calls') = Len(calls) + 1
        /\ calls'[Len(calls) + 1] = c /\ \A i \in 1 .. Len(calls) : calls'[i] = calls[i]
    BY <1>1, AppendProperties
  <1>3. ASSUME NEW i \in 1 .. Len(calls) PROVE calls[i].at = "wait"
    <2>1. CASE i = Len(calls)
      <3>1. calls # <<>>
        BY <1>1
      <3>2. QED
        BY <2>1, <3>1 DEF Top
    <2>2. CASE i # Len(calls)
      BY <1>1, <2>2 DEF Stack
    <2>3. QED
      BY <2>1, <2>2
  <1>4. \A i \in 1 .. Len(calls') - 1 : calls'[i].at = "wait"
    BY <1>1, <1>2, <1>3
  <1>5. QED
    BY <1>1, <1>2, <1>4 DEF Stack

\* The innermost call returns.
LEMMA Popped ==
  ASSUME Stack, calls # <<>>
  PROVE  /\ Below \in Seq(Call) /\ Len(calls) \in Nat \ {0} /\ Len(Below) = Len(calls) - 1
         /\ \A i \in 1 .. Len(calls) - 1 : Below[i] = calls[i] /\ calls[i].at = "wait"
         /\ Top \in Call /\ Top = calls[Len(calls)]
  <1>1. calls \in Seq(Call) /\ Len(calls) \in Nat \ {0}
    BY DEF Stack
  <1>2. \A i \in 1 .. Len(calls) : calls[i] \in Call
    BY <1>1, ElementOfSeq
  <1>3. /\ Below \in Seq(Call) /\ Len(Below) = Len(calls) - 1
        /\ \A i \in 1 .. Len(calls) - 1 : Below[i] = calls[i]
    <2> DEFINE n == Len(calls) - 1
    <2>1. 1 \in Int /\ n \in Nat /\ (\A i \in 1 .. n : calls[i] \in Call) /\ Below = SubSeq(calls, 1, n)
      BY <1>1, <1>2 DEF Below
    <2> HIDE DEF n
    <2>2. /\ Below \in Seq(Call) /\ Len(Below) = IF 1 <= n THEN n - 1 + 1 ELSE 0
          /\ \A i \in 1 .. n - 1 + 1 : Below[i] = calls[1 + i - 1]
      BY <2>1, SubSeqProperties
    <2>3. Len(Below) = n
      BY <2>1, <2>2
    <2>4. \A i \in 1 .. n : Below[i] = calls[i]
      BY <2>1, <2>2
    <2>5. QED
      BY <2>2, <2>3, <2>4 DEF n
  <1>4. Top \in Call /\ Top = calls[Len(calls)]
    BY <1>1, <1>2 DEF Top
  <1>5. QED
    BY <1>1, <1>3, <1>4 DEF Stack

\* The innermost call has returned: those below it still wait.
LEMMA Dropped ==
  ASSUME Stack, calls # <<>>, calls' = Below
  PROVE  Stack'
  <1>1. /\ calls' \in Seq(Call) /\ Len(calls) \in Nat \ {0} /\ Len(calls') = Len(calls) - 1
        /\ \A i \in 1 .. Len(calls) - 1 : calls'[i] = calls[i] /\ calls[i].at = "wait"
    BY Popped
  <1>2. \A i \in 1 .. Len(calls') - 1 : calls'[i].at = "wait"
    BY <1>1
  <1>3. QED
    BY <1>1, <1>2 DEF Stack

\* The innermost call has an answer, or gives way to another one.
LEMMA Replaced ==
  ASSUME Stack, calls # <<>>, NEW c \in Call, calls' = Append(Below, c)
  PROVE  /\ Stack' /\ Len(calls) \in Nat \ {0} /\ Len(calls') = Len(calls)
         /\ calls'[Len(calls)] = c /\ \A i \in 1 .. Len(calls) - 1 : calls'[i] = calls[i]
  <1>1. /\ Below \in Seq(Call) /\ Len(calls) \in Nat \ {0} /\ Len(Below) = Len(calls) - 1
        /\ \A i \in 1 .. Len(calls) - 1 : Below[i] = calls[i] /\ calls[i].at = "wait"
    BY Popped
  <1> DEFINE b == Below
  <1>2. /\ b \in Seq(Call) /\ Len(b) = Len(calls) - 1 /\ calls' = Append(b, c)
        /\ \A i \in 1 .. Len(calls) - 1 : b[i] = calls[i]
    BY <1>1
  <1> HIDE DEF b
  <1>3. /\ calls' \in Seq(Call) /\ Len(calls') = Len(b) + 1 /\ calls'[Len(b) + 1] = c
        /\ \A i \in 1 .. Len(b) : calls'[i] = b[i]
    BY <1>2, AppendProperties
  <1>4. /\ Len(calls') = Len(calls) /\ calls'[Len(calls)] = c
        /\ \A i \in 1 .. Len(calls) - 1 : calls'[i] = calls[i]
    BY <1>1, <1>2, <1>3
  <1>5. \A i \in 1 .. Len(calls') - 1 : calls'[i].at = "wait"
    BY <1>1, <1>4
  <1>6. QED
    BY <1>1, <1>3, <1>4, <1>5 DEF Stack
-----------------------------------------------------------------------------
(* The cache of any size: types, and the client's connection is the        *)
(* server's.                                                               *)

\* What tcp.c changes of its variables.
LEMMA TcpTypes ==
  ASSUME tcp \in Tcp
  PROVE  /\ tcp.recvNext \in Nat /\ tcp.port \in Nat
         /\ \A n \in Nat : [tcp EXCEPT !.recvNext = n] \in Tcp
         /\ \A n \in Nat : [tcp EXCEPT !.recvNext = n, !.state = "established"] \in Tcp
         /\ [tcp EXCEPT !.state = "closed", !.peerClosed = TRUE] \in Tcp
         /\ [tcp EXCEPT !.peerClosed = TRUE, !.state = "closed"] \in Tcp
         /\ [tcp EXCEPT !.state = "closed"] \in Tcp
         /\ [tcp EXCEPT !.buf = NoData] \in Tcp
  <1>1. tcp.recvNext \in Nat /\ tcp.port \in Nat
    BY Bounds DEF Tcp
  <1>2. ASSUME NEW n \in Nat PROVE [tcp EXCEPT !.recvNext = n] \in Tcp
    BY DEF Tcp
  <1>3. ASSUME NEW n \in Nat PROVE [tcp EXCEPT !.recvNext = n, !.state = "established"] \in Tcp
    BY DEF Tcp
  <1>4. /\ [tcp EXCEPT !.state = "closed", !.peerClosed = TRUE] \in Tcp
        /\ [tcp EXCEPT !.peerClosed = TRUE, !.state = "closed"] \in Tcp
        /\ [tcp EXCEPT !.state = "closed"] \in Tcp
        /\ [tcp EXCEPT !.buf = NoData] \in Tcp
    BY DEF Tcp
  <1>5. QED
    BY <1>1, <1>2, <1>3, <1>4

\* The segments the client sends are well formed.
LEMMA SegmentFacts ==
  /\ EchoReply \in Segment1 /\ EchoReply.port = 0 /\ EchoReply.flag = "echo"
  /\ \A f \in {"SYN", "REQ", "ACK"}, p \in Nat, n \in Nat :
       /\ Segment(f, p, n) \in Segment1 /\ Segment(f, p, n).port = p
       /\ Segment(f, p, n).flag = f /\ Segment(f, p, n).ack = n
  <1>1. EchoReply \in Segment1 /\ EchoReply.port = 0 /\ EchoReply.flag = "echo"
    BY DEF EchoReply, Segment, Segment1, SegmentSet
  <1>2. ASSUME NEW f \in {"SYN", "REQ", "ACK"}, NEW p \in Nat, NEW n \in Nat
        PROVE  /\ Segment(f, p, n) \in Segment1 /\ Segment(f, p, n).port = p
               /\ Segment(f, p, n).flag = f /\ Segment(f, p, n).ack = n
    BY DEF Segment, Segment1, SegmentSet
  <1>3. QED
    BY <1>1, <1>2

\* A call of ip_send.
LEMMA CallFacts ==
  ASSUME NEW k \in Callers, NEW seg \in Segment1, NEW hop \in Host, NEW at \in Outcome,
         hop = Gateway \/ (k = "echo" /\ seg = EchoReply)
  PROVE  LET c == [k |-> k, seg |-> seg, hop |-> hop, at |-> at]
         IN  c \in Call /\ c.k = k /\ c.seg = seg /\ c.hop = hop /\ c.at = at
  BY DEF Call

\* ip_send, from whoever may call it.
LEMMA Sending ==
  ASSUME Stack, wire \subseteq Segment1, calls = <<>> \/ Waiting,
         NEW k \in Callers, NEW seg \in Segment1, NEW hop \in Host,
         hop = Gateway \/ (k = "echo" /\ seg = EchoReply),
         IpSend(seg, hop, k)
  PROVE  Stack' /\ wire' \subseteq Segment1
  <1> DEFINE at == IF hop \in Cached THEN "sent" ELSE "wait"
             c == [k |-> k, seg |-> seg, hop |-> hop, at |-> at]
  <1>1. c \in Call
    BY CallFacts DEF Outcome
  <1>2. calls' = Append(calls, c)
    BY DEF IpSend
  <1> HIDE DEF c
  <1>3. Stack'
    BY <1>1, <1>2, Pushed DEF Waiting
  <1>4. wire' \subseteq Segment1
    BY DEF IpSend
  <1>5. QED
    BY <1>3, <1>4

\* arp_cache_insert forgets nobody but the one in its slot.
LEMMA InsertTypes ==
  ASSUME Types, NEW h \in Host, Insert(h)
  PROVE  cache' \in [0 .. Slots - 1 -> Host \cup {NoHost}] /\ slot' \in 0 .. Slots - 1
  <1>1. CASE h \in Cached
    BY <1>1 DEF Insert, Types
  <1>2. CASE h \notin Cached
    <2>1. cache' = [cache EXCEPT ![slot] = h] /\ slot' = (slot + 1) % Slots
      BY <1>2 DEF Insert
    <2>2. slot' \in 0 .. Slots - 1
      BY <2>1, Bounds DEF Types
    <2>3. QED
      BY <2>1, <2>2 DEF Types
  <1>3. QED
    BY <1>1, <1>2

\* tcp_handle_packet.
LEMMA HandlerTypes ==
  ASSUME StackInv, calls = <<>> \/ Waiting, NEW m \in ServerFrames, TcpHandle(m), srv' = srv
  PROVE  /\ Stack' /\ wire' \subseteq Segment1
         /\ tcp' \in Tcp /\ (tcp'.peerClosed => tcp'.state = "closed") /\ Opened'
  <1>1. /\ m.port \in Conn /\ m.seq \in Nat /\ ("SYN" \in m.flags => srv[m.port].syn)
        /\ ("DATA" \in m.flags => m.seq \in 1 .. Length)
    BY ServerFrame DEF StackInv
  <1>2. /\ tcp \in Tcp /\ (tcp.peerClosed => tcp.state = "closed") /\ wire \subseteq Segment1
        /\ Stack /\ Opened /\ Gateway \in Host /\ tcp.recvNext \in Nat /\ tcp.recvNext + 1 \in Nat
        /\ m.seq + 1 \in Nat /\ tcp.port \in Nat
    <2>1. /\ tcp \in Tcp /\ (tcp.peerClosed => tcp.state = "closed") /\ wire \subseteq Segment1
          /\ Stack /\ Opened
      BY DEF StackInv, Types
    <2>2. tcp.recvNext \in Nat /\ tcp.port \in Nat
      BY <2>1, TcpTypes
    <2>3. Gateway \in Host
      BY Bounds
    <2>4. QED
      BY <1>1, <2>1, <2>2, <2>3
  <1>3. CASE HandleSynAck(m)
    <2>1. /\ m.port = tcp.port /\ tcp.state = "syn_sent" /\ "SYN" \in m.flags
          /\ tcp' = [tcp EXCEPT !.recvNext = m.seq + 1, !.state = "established"]
          /\ IpSend(Segment("ACK", tcp.port, m.seq + 1), Gateway, "ack")
      BY <1>3 DEF HandleSynAck
    <2> DEFINE seg == Segment("ACK", tcp.port, m.seq + 1)
    <2>2. seg \in Segment1
      BY <1>1, <1>2, <2>1, SegmentFacts
    <2> HIDE DEF seg
    <2>3. Stack' /\ wire' \subseteq Segment1
      <3>1. IpSend(seg, Gateway, "ack") /\ "ack" \in Callers
        BY <2>1 DEF seg, Callers
      <3>2. QED
        BY <1>2, <2>2, <3>1, Sending
    <2>4. tcp' \in Tcp
      BY <1>2, <2>1, TcpTypes
    <2>5. tcp'.state = "established" /\ tcp'.port = tcp.port /\ tcp'.peerClosed = tcp.peerClosed
      BY <1>2, <2>1 DEF Tcp
    <2>6. QED
      BY <1>1, <1>2, <2>1, <2>3, <2>4, <2>5 DEF Opened
  <1>4. CASE HandleReset(m)
    <2>1. /\ tcp' = [tcp EXCEPT !.state = "closed", !.peerClosed = TRUE]
          /\ UNCHANGED <<calls, wire>>
      BY <1>4 DEF HandleReset
    <2>2. tcp' \in Tcp /\ tcp'.state = "closed"
      BY <1>2, <2>1, TcpTypes DEF Tcp
    <2>3. QED
      BY <1>2, <2>1, <2>2 DEF Stack, Opened
  <1>5. CASE HandleData(m) \/ HandleFin(m)
    <2>1. /\ m.port = tcp.port /\ tcp.state = "established"
          /\ \/ /\ tcp' = [tcp EXCEPT !.buf = <<m.port, m.seq>>, !.recvNext = tcp.recvNext + 1]
                /\ m.seq \in 1 .. Length
             \/ tcp' = [tcp EXCEPT !.recvNext = tcp.recvNext + 1]
          /\ \E k \in Callers : IpSend(Segment("ACK", tcp.port, tcp.recvNext + 1), Gateway, k)
      <3>1. m.port = tcp.port /\ tcp.state = "established"
        BY <1>5 DEF HandleData, HandleFin, Open
      <3>2. \/ /\ tcp' = [tcp EXCEPT !.buf = <<m.port, m.seq>>, !.recvNext = tcp.recvNext + 1]
               /\ m.seq \in 1 .. Length
            \/ tcp' = [tcp EXCEPT !.recvNext = tcp.recvNext + 1]
        BY <1>1, <1>5 DEF HandleData, HandleFin, InOrder
      <3>3. "data" \in Callers /\ "fin" \in Callers
        BY DEF Callers
      <3>4. QED
        BY <1>5, <3>1, <3>2, <3>3 DEF HandleData, HandleFin
    <2> DEFINE seg == Segment("ACK", tcp.port, tcp.recvNext + 1)
    <2>2. seg \in Segment1
      BY <1>1, <1>2, <2>1, SegmentFacts
    <2>3. PICK k \in Callers : IpSend(seg, Gateway, k)
      BY <2>1
    <2> HIDE DEF seg
    <2>4. Stack' /\ wire' \subseteq Segment1
      <3>1. Stack /\ wire \subseteq Segment1 /\ Gateway \in Host
        BY <1>2
      <3>2. QED
        BY <2>2, <2>3, <3>1, Sending
    <2>5. tcp' \in Tcp
      <3>1. CASE tcp' = [tcp EXCEPT !.recvNext = tcp.recvNext + 1]
        BY <1>2, <3>1, TcpTypes
      <3>2. CASE /\ tcp' = [tcp EXCEPT !.buf = <<m.port, m.seq>>, !.recvNext = tcp.recvNext + 1]
                 /\ m.seq \in 1 .. Length
        <4> DEFINE b == <<m.port, m.seq>>
        <4>1. b \in Conn \X (1 .. Length)
          BY <1>1, <3>2
        <4> HIDE DEF b
        <4>2. tcp' = [tcp EXCEPT !.buf = b, !.recvNext = tcp.recvNext + 1]
          BY <3>2 DEF b
        <4>3. QED
          BY <1>2, <4>1, <4>2 DEF Tcp
      <3>3. QED
        BY <2>1, <3>1, <3>2
    <2>6. tcp'.state = tcp.state /\ tcp'.port = tcp.port /\ tcp'.peerClosed = tcp.peerClosed
      BY <1>2, <2>1 DEF Tcp
    <2>7. QED
      BY <1>2, <2>4, <2>5, <2>6 DEF Opened
  <1>6. CASE HandleOther(m)
    <2>1. UNCHANGED <<tcp, calls, wire>>
      BY <1>6 DEF HandleOther
    <2>2. QED
      BY <1>2, <2>1 DEF Stack, Opened
  <1>7. QED
    BY <1>3, <1>4, <1>5, <1>6 DEF TcpHandle

\* net_poll with any frame, called by whoever waits for an address or by the caller of tcp.c.
LEMMA PollTypes ==
  ASSUME StackInv, calls = <<>> \/ Waiting, NEW m \in Frames, NetPoll(m), srv' = srv, pc' \in Place
  PROVE  StackInv'
  <1>1. /\ m.flags \subseteq Flag /\ m.kind \in {"tcp", "arp", "echo"}
        /\ m.kind = "tcp" => m \in ServerFrames
        /\ m.kind # "tcp" => m.from \in Host
    BY FrameFacts, NeighbourFrame DEF StackInv
  <1>2. buffer' \subseteq Flag
    BY <1>1 DEF NetPoll
  <1>3. CASE m.kind = "arp"
    <2>1. Insert(m.from) /\ UNCHANGED <<tcp, calls, wire>>
      BY <1>3 DEF NetPoll
    <2>2. cache' \in [0 .. Slots - 1 -> Host \cup {NoHost}] /\ slot' \in 0 .. Slots - 1
      BY <1>1, <1>3, <2>1, InsertTypes DEF StackInv
    <2>3. Types'
      BY <1>2, <2>1, <2>2 DEF StackInv, Types
    <2>4. Stack' /\ Opened'
      BY <2>1 DEF StackInv, Stack, Opened
    <2>5. QED
      BY <2>3, <2>4 DEF StackInv
  <1>4. CASE m.kind = "echo"
    <2>1. IpSend(EchoReply, m.from, "echo") /\ UNCHANGED <<cache, slot, tcp>>
      BY <1>4 DEF NetPoll
    <2>2. "echo" \in Callers /\ Stack /\ wire \subseteq Segment1 /\ m.from \in Host
      BY <1>1, <1>4 DEF Callers, StackInv, Types
    <2>3. Stack' /\ wire' \subseteq Segment1
      BY <2>1, <2>2, SegmentFacts, Sending
    <2>4. Types' /\ Opened'
      BY <1>2, <2>1, <2>3 DEF StackInv, Types, Opened
    <2>5. QED
      BY <2>3, <2>4 DEF StackInv
  <1>5. CASE m.kind = "tcp"
    <2>1. TcpHandle(m) /\ UNCHANGED <<cache, slot>> /\ m \in ServerFrames
      BY <1>1, <1>5 DEF NetPoll
    <2>2. /\ Stack' /\ wire' \subseteq Segment1
          /\ tcp' \in Tcp /\ (tcp'.peerClosed => tcp'.state = "closed") /\ Opened'
      BY <2>1, HandlerTypes
    <2>3. Types'
      BY <1>2, <2>1, <2>2 DEF StackInv, Types
    <2>4. QED
      BY <2>2, <2>3 DEF StackInv
  <1>6. QED
    BY <1>1, <1>3, <1>4, <1>5

\* The steps of the callers, and the server's.
LEMMA StepTypes ==
  ASSUME StackInv, Step
  PROVE  StackInv'
  <1>1. /\ tcp \in Tcp /\ (tcp.peerClosed => tcp.state = "closed") /\ Stack /\ Opened
        /\ wire \subseteq Segment1
    BY DEF StackInv, Types
  <1>2. tcp.recvNext \in Nat /\ tcp.port \in Nat /\ tcp.recvNext + 1 \in Nat /\ Gateway \in Host
    <2>1. tcp.recvNext \in Nat /\ tcp.port \in Nat
      BY <1>1, TcpTypes
    <2>2. QED
      BY <2>1, Bounds
  <1>3. ASSUME UNCHANGED <<cache, slot, buffer, tcp, srv>>, Stack', wire' \subseteq Segment1, pc' \in Place
        PROVE  StackInv'
    BY <1>3 DEF StackInv, Types, Opened
  <1>4. ASSUME NEW o \in Outcome, calls # <<>>, Return(o)
        PROVE  Stack'
    <2> DEFINE c == [Top EXCEPT !.at = o]
    <2>1. Top \in Call /\ Stack
      BY <1>1, <1>4, Popped
    <2>2. c \in Call
      BY <2>1 DEF Call
    <2>3. calls' = Append(Below, c)
      BY <1>4 DEF Return
    <2> HIDE DEF c
    <2>4. QED
      BY <1>4, <2>1, <2>2, <2>3, Replaced
  <1>5. CASE Resolved \/ ResolveFails
    <2>1. Stack'
      BY <1>4, <1>5 DEF Resolved, ResolveFails, Waiting, Outcome
    <2>2. wire' \subseteq Segment1
      <3>1. CASE Resolved
        <4>1. Top \in Call
          BY <1>1, <3>1, Popped DEF Resolved, Waiting
        <4>2. Top.seg \in Segment1
          BY <4>1 DEF Call
        <4>3. QED
          BY <1>1, <3>1, <4>2 DEF Resolved
      <3>2. CASE ResolveFails
        BY <1>1, <3>2 DEF ResolveFails
      <3>3. QED
        BY <1>5, <3>1, <3>2
    <2>3. UNCHANGED <<cache, slot, buffer, tcp, srv, pc>>
      BY <1>5 DEF Resolved, ResolveFails
    <2>4. QED
      BY <1>3, <2>1, <2>2, <2>3 DEF StackInv, Types
  <1>6. CASE AckDone \/ SynDone \/ RequestDone
    <2>1. /\ calls # <<>> /\ calls' = Below /\ UNCHANGED <<cache, slot, buffer, tcp, srv, wire>>
          /\ pc' = pc \/ pc' = "connect_poll" \/ pc' = "read_poll" \/ pc' = "idle"
      BY <1>6 DEF AckDone, SynDone, RequestDone, Back
    <2>2. pc' \in Place
      BY <2>1 DEF StackInv, Types, Place
    <2>3. Stack'
      BY <1>1, <2>1, Dropped
    <2>4. QED
      BY <1>1, <1>3, <2>1, <2>2, <2>3
  <1>7. CASE DataDone
    <2>1. calls # <<>> /\ UNCHANGED <<cache, slot, buffer, pc, srv>>
      BY <1>7 DEF DataDone, Back
    <2>2. CASE "FIN" \in buffer
      <3> DEFINE seg == Segment("ACK", tcp.port, tcp.recvNext + 1)
                 at == IF Gateway \in Cached THEN "sent" ELSE "wait"
                 c == [k |-> "fin", seg |-> seg, hop |-> Gateway, at |-> at]
      <3>1. tcp' = [tcp EXCEPT !.recvNext = tcp.recvNext + 1]
        BY <1>7, <2>2 DEF DataDone
      <3>2. calls' = Append(Below, c)
        BY <1>7, <2>2 DEF DataDone
      <3>3. wire' = wire \/ wire' = wire \cup {seg}
        BY <1>7, <2>2 DEF DataDone
      <3>4. seg \in Segment1 /\ at \in Outcome /\ "fin" \in Callers
        <4>1. at \in Outcome /\ "fin" \in Callers
          BY DEF Outcome, Callers
        <4>2. seg \in Segment1
          BY <1>2, SegmentFacts
        <4>3. QED
          BY <4>1, <4>2
      <3> HIDE DEF seg, at
      <3>5. c \in Call
        BY <1>2, <3>4, CallFacts
      <3> HIDE DEF c
      <3>6. Stack' /\ wire' \subseteq Segment1
        BY <1>1, <2>1, <3>2, <3>3, <3>4, <3>5, Replaced
      <3>7. /\ tcp' \in Tcp /\ tcp'.state = tcp.state /\ tcp'.port = tcp.port
            /\ tcp'.peerClosed = tcp.peerClosed
        BY <1>1, <1>2, <3>1 DEF Tcp
      <3>8. QED
        BY <1>1, <2>1, <3>6, <3>7 DEF StackInv, Types, Opened
    <2>3. CASE "FIN" \notin buffer
      <3>1. calls' = Below /\ UNCHANGED <<tcp, wire>>
        BY <1>7, <2>3 DEF DataDone
      <3>2. Stack'
        BY <1>1, <2>1, <3>1, Dropped
      <3>3. QED
        BY <1>1, <1>3, <2>1, <3>1, <3>2 DEF StackInv, Types
    <2>4. QED
      BY <2>2, <2>3
  <1>8. CASE FinDone \/ ConnectFails \/ Take
    <2>1. /\ UNCHANGED <<cache, slot, buffer, srv, wire>>
          /\ calls' = calls \/ (calls # <<>> /\ calls' = Below)
      BY <1>8 DEF FinDone, ConnectFails, Take, Back
    <2>2. pc' \in Place
      BY <1>8 DEF FinDone, ConnectFails, Take, StackInv, Types, Place
    <2>3. Stack'
      <3>1. CASE calls' = calls
        BY <1>1, <3>1 DEF Stack
      <3>2. CASE calls # <<>> /\ calls' = Below
        BY <1>1, <3>2, Dropped
      <3>3. QED
        BY <2>1, <3>1, <3>2
    <2>4. \/ tcp' = [tcp EXCEPT !.peerClosed = TRUE, !.state = "closed"]
          \/ tcp' = [tcp EXCEPT !.state = "closed"]
          \/ tcp' = [tcp EXCEPT !.buf = NoData]
          \/ tcp' = tcp
      BY <1>8 DEF FinDone, ConnectFails, Take
    <2>5. tcp' \in Tcp
      BY <1>1, <2>4, TcpTypes
    <2>6. (tcp'.peerClosed => tcp'.state = "closed") /\ Opened'
      BY <1>1, <2>1, <2>4 DEF Tcp, Opened
    <2>7. QED
      BY <1>1, <2>1, <2>2, <2>3, <2>5, <2>6 DEF StackInv, Types
  <1>9. CASE EmptyPoll
    <2>1. UNCHANGED <<cache, slot, buffer, tcp, calls, srv, wire>> /\ pc' \in Place
      BY <1>9 DEF EmptyPoll, After, Place
    <2>2. QED
      BY <1>1, <1>3, <2>1 DEF Stack
  <1>10. CASE ConnectCheck
    <2>1. UNCHANGED <<cache, slot, buffer, tcp, srv>> /\ pc' \in Place /\ calls = <<>>
      BY <1>10 DEF ConnectCheck, Place, Running
    <2>2. CASE tcp.state = "established"
      <3> DEFINE seg == Segment("REQ", tcp.port, tcp.recvNext)
      <3>1. IpSend(seg, Gateway, "request") /\ "request" \in Callers
        BY <1>10, <2>2 DEF ConnectCheck, Callers
      <3>2. seg \in Segment1
        BY <1>2, SegmentFacts
      <3> HIDE DEF seg
      <3>3. Stack' /\ wire' \subseteq Segment1
        BY <1>1, <1>2, <2>1, <3>1, <3>2, Sending
      <3>4. QED
        BY <1>3, <2>1, <3>3
    <2>3. CASE tcp.state # "established"
      <3>1. UNCHANGED <<calls, wire>>
        BY <1>10, <2>3 DEF ConnectCheck
      <3>2. QED
        BY <1>1, <1>3, <2>1, <3>1 DEF Stack
    <2>4. QED
      BY <2>2, <2>3
  <1>11. QED
    BY <1>5, <1>6, <1>7, <1>8, <1>9, <1>10 DEF Step

\* What the server learns from a segment it never forgets.
LEMMA Learning ==
  ASSUME NEW s \in Server1, NEW seg \in Segment1, seg.port \in Conn
  PROVE  LET r == Learned(s, seg)
         IN  /\ r \in Server1 /\ (s.syn => r.syn) /\ (s.req => r.req) /\ r.rst = s.rst
             /\ s.acked <= r.acked
             /\ seg.flag # "echo"
             /\ r.syn => s.syn \/ seg.flag = "SYN"
  <1>1. seg \in SegmentSet /\ seg.port # 0 /\ seg.flag # "echo" /\ seg.ack \in Nat
    BY Bounds DEF Segment1, SegmentSet, Conn
  <1>2. seg.flag \in {"SYN", "REQ", "ACK"}
    BY <1>1 DEF SegmentSet
  <1>3. CASE seg.flag = "SYN"
    <2>1. Learned(s, seg) = [s EXCEPT !.syn = TRUE]
      BY <1>3 DEF Learned
    <2> DEFINE r == Learned(s, seg)
    <2>2. r = [s EXCEPT !.syn = TRUE]
      BY <2>1
    <2> HIDE DEF r
    <2>3. /\ r \in Server1 /\ r.syn = TRUE /\ r.req = s.req /\ r.rst = s.rst
          /\ r.acked = s.acked /\ s.acked \in Nat
      BY <2>2 DEF Server1
    <2>4. s.acked <= r.acked
      BY <2>3
    <2>5. QED
      BY <1>1, <1>3, <2>3, <2>4 DEF r
  <1>4. CASE seg.flag = "REQ"
    <2>1. Learned(s, seg) = [s EXCEPT !.req = TRUE]
      BY <1>4 DEF Learned
    <2> DEFINE r == Learned(s, seg)
    <2>2. r = [s EXCEPT !.req = TRUE]
      BY <2>1
    <2> HIDE DEF r
    <2>3. /\ r \in Server1 /\ r.req = TRUE /\ r.syn = s.syn /\ r.rst = s.rst
          /\ r.acked = s.acked /\ s.acked \in Nat
      BY <2>2 DEF Server1
    <2>4. s.acked <= r.acked
      BY <2>3
    <2>5. QED
      BY <1>1, <1>4, <2>3, <2>4 DEF r
  <1>5. CASE seg.flag = "ACK"
    <2> DEFINE a == IF s.acked < seg.ack - 1 THEN seg.ack - 1 ELSE s.acked
    <2>1. a \in Nat /\ s.acked <= a
      BY <1>1 DEF Server1
    <2>2. Learned(s, seg) = [s EXCEPT !.acked = a]
      BY <1>5 DEF Learned
    <2> HIDE DEF a
    <2>3. QED
      BY <1>5, <2>1, <2>2 DEF Server1
  <1>6. QED
    BY <1>1, <1>2, <1>3, <1>4, <1>5

\* The server's steps: it knows more of its connections, and the kernel sees nothing.
LEMMA ServerSteps ==
  ASSUME Types, Server
  PROVE  /\ UNCHANGED kernel /\ srv' \in [Conn -> Server1]
         /\ \A p \in Conn :
              /\ srv[p].syn => srv'[p].syn
              /\ srv[p].req => srv'[p].req
              /\ srv[p].rst => srv'[p].rst
              /\ srv[p].acked <= srv'[p].acked
              /\ srv'[p].syn \/ srv'[p].req \/ srv'[p].rst =>
                   \/ srv[p].syn \/ srv[p].req \/ srv[p].rst
                   \/ \E seg \in wire : seg.port = p /\ seg.flag # "echo"
  <1>1. srv \in [Conn -> Server1] /\ wire \subseteq Segment1
    BY DEF Types
  <1>2. \A p \in Conn : srv[p] \in Server1 /\ srv[p].acked <= srv[p].acked
    <2>1. \A p \in Conn : srv[p] \in Server1
      BY <1>1
    <2>2. \A s \in Server1 : s.acked <= s.acked
      BY DEF Server1
    <2>3. QED
      BY <2>1, <2>2
  <1>3. ASSUME NEW q \in Conn, NEW r \in Server1, srv' = [srv EXCEPT ![q] = r],
               srv[q].syn => r.syn, srv[q].req => r.req, srv[q].rst => r.rst,
               srv[q].acked <= r.acked,
               srv[q].syn \/ srv[q].req \/ srv[q].rst \/ \E seg \in wire : seg.port = q /\ seg.flag # "echo"
        PROVE  /\ srv' \in [Conn -> Server1]
               /\ \A p \in Conn :
                    /\ srv[p].syn => srv'[p].syn
                    /\ srv[p].req => srv'[p].req
                    /\ srv[p].rst => srv'[p].rst
                    /\ srv[p].acked <= srv'[p].acked
                    /\ srv'[p].syn \/ srv'[p].req \/ srv'[p].rst =>
                         \/ srv[p].syn \/ srv[p].req \/ srv[p].rst
                         \/ \E seg \in wire : seg.port = p /\ seg.flag # "echo"
    <2>1. srv' \in [Conn -> Server1] /\ \A p \in Conn : srv'[p] = IF p = q THEN r ELSE srv[p]
      BY <1>1, <1>3
    <2>2. ASSUME NEW p \in Conn
          PROVE  /\ srv[p].syn => srv'[p].syn
                 /\ srv[p].req => srv'[p].req
                 /\ srv[p].rst => srv'[p].rst
                 /\ srv[p].acked <= srv'[p].acked
                 /\ srv'[p].syn \/ srv'[p].req \/ srv'[p].rst =>
                      \/ srv[p].syn \/ srv[p].req \/ srv[p].rst
                      \/ \E seg \in wire : seg.port = p /\ seg.flag # "echo"
      <3>1. CASE p = q
        BY <1>3, <2>1, <3>1
      <3>2. CASE p # q
        BY <1>2, <2>1, <3>2
      <3>3. QED
        BY <3>1, <3>2
    <2>3. QED
      BY <2>1, <2>2
  <1>4. CASE \E seg \in wire : ServerReceive(seg)
    <2>1. PICK seg \in wire : ServerReceive(seg)
      BY <1>4
    <2>2. seg.port \in Conn /\ UNCHANGED kernel /\ seg \in Segment1
          /\ srv' = [srv EXCEPT ![seg.port] = Learned(srv[seg.port], seg)]
      BY <1>1, <2>1 DEF ServerReceive
    <2>3. PICK s \in Server1 : s = srv[seg.port]
      BY <1>2, <2>2
    <2>4. PICK r : r = Learned(s, seg)
      OBVIOUS
    <2>5. /\ r \in Server1 /\ (s.syn => r.syn) /\ (s.req => r.req) /\ r.rst = s.rst
          /\ s.acked <= r.acked /\ seg.flag # "echo"
      BY <2>2, <2>4, Learning
    <2>6. srv' = [srv EXCEPT ![seg.port] = r]
      BY <2>2, <2>3, <2>4
    <2>7. PICK q \in Conn : q = seg.port
      BY <2>2
    <2>8. QED
      BY <1>3, <2>2, <2>3, <2>5, <2>6, <2>7
  <1>5. CASE \E p \in Conn : ServerAborts(p)
    <2>1. PICK p \in Conn : ServerAborts(p)
      BY <1>5
    <2>2. srv[p].syn /\ UNCHANGED kernel /\ srv' = [srv EXCEPT ![p].rst = TRUE]
      BY <2>1 DEF ServerAborts
    <2>3. PICK s \in Server1 : s = srv[p]
      BY <1>2
    <2>4. PICK r : r = [s EXCEPT !.rst = TRUE]
      OBVIOUS
    <2>5. r \in Server1 /\ r.syn = s.syn /\ r.req = s.req /\ r.rst /\ r.acked = s.acked
      BY <2>4 DEF Server1
    <2>6. srv' = [srv EXCEPT ![p] = r]
      BY <2>2, <2>3, <2>4
    <2>7. s.acked <= s.acked
      BY DEF Server1
    <2>8. QED
      BY <1>3, <2>2, <2>3, <2>5, <2>6, <2>7
  <1>6. QED
    BY <1>4, <1>5 DEF Server

\* tcp_connect starts anew.
LEMMA ConnectFacts ==
  ASSUME StackInv, Connect
  PROVE  /\ tcp' \in Tcp /\ tcp'.state = "syn_sent" /\ tcp'.port = tcp.port + 1
         /\ tcp'.recvNext = 0 /\ tcp'.peerClosed = FALSE /\ tcp'.buf = NoData
         /\ calls = <<>> /\ Stack' /\ wire' \subseteq Segment1 /\ got' = <<>> /\ pc' = "connect_send"
         /\ UNCHANGED <<cache, slot, buffer, srv>> /\ tcp.port + 1 \in Conn /\ tcp.port \in Nat
         /\ LET c == [k |-> "syn", seg |-> Segment("SYN", tcp.port + 1, 0), hop |-> Gateway,
                      at |-> IF Gateway \in Cached THEN "sent" ELSE "wait"]
            IN  c \in Call /\ calls' = Append(calls, c)
         /\ wire' = IF Gateway \in Cached THEN wire \cup {Segment("SYN", tcp.port + 1, 0)} ELSE wire
  <1>1. /\ calls = <<>> /\ tcp.port < MaxConns /\ got' = <<>> /\ pc' = "connect_send"
        /\ tcp' = [state |-> "syn_sent", port |-> tcp.port + 1, recvNext |-> 0,
                   peerClosed |-> FALSE, buf |-> NoData]
        /\ IpSend(Segment("SYN", tcp.port + 1, 0), Gateway, "syn")
        /\ UNCHANGED <<cache, slot, buffer, srv>>
    BY DEF Connect, Running
  <1>2. tcp \in Tcp /\ Stack /\ wire \subseteq Segment1
    BY DEF StackInv, Types
  <1>3. tcp.port \in Nat /\ tcp.port + 1 \in 0 .. MaxConns /\ tcp.port + 1 \in Conn
    <2>1. tcp.port \in Nat
      BY <1>2, TcpTypes
    <2>2. QED
      BY <1>1, <2>1, Bounds DEF Conn
  <1>4. tcp' \in Tcp /\ tcp'.state = "syn_sent" /\ tcp'.port = tcp.port + 1
        /\ tcp'.recvNext = 0 /\ tcp'.peerClosed = FALSE /\ tcp'.buf = NoData
    <2> DEFINE p == tcp.port + 1
    <2>1. p \in 0 .. MaxConns
      BY <1>3
    <2>2. tcp' = [state |-> "syn_sent", port |-> p, recvNext |-> 0, peerClosed |-> FALSE, buf |-> NoData]
      BY <1>1
    <2> HIDE DEF p
    <2>3. tcp' \in Tcp /\ tcp'.state = "syn_sent" /\ tcp'.port = p
          /\ tcp'.recvNext = 0 /\ tcp'.peerClosed = FALSE /\ tcp'.buf = NoData
      BY <2>1, <2>2 DEF Tcp
    <2>4. QED
      BY <2>3 DEF p
  <1> DEFINE seg == Segment("SYN", tcp.port + 1, 0)
             at == IF Gateway \in Cached THEN "sent" ELSE "wait"
  <1>5. seg \in Segment1 /\ "syn" \in Callers /\ at \in Outcome /\ Gateway \in Host
    <2>1. seg \in Segment1
      BY <1>3, SegmentFacts
    <2>2. QED
      BY <2>1, Bounds DEF Callers, Outcome
  <1>6. /\ calls' = Append(calls, [k |-> "syn", seg |-> seg, hop |-> Gateway, at |-> at])
        /\ wire' = IF Gateway \in Cached THEN wire \cup {seg} ELSE wire
        /\ IpSend(seg, Gateway, "syn")
    BY <1>1 DEF IpSend
  <1> HIDE DEF seg, at
  <1>7. [k |-> "syn", seg |-> seg, hop |-> Gateway, at |-> at] \in Call
    BY <1>5, CallFacts
  <1>8. Stack' /\ wire' \subseteq Segment1
    BY <1>1, <1>2, <1>5, <1>6, Sending
  <1>9. QED
    BY <1>1, <1>3, <1>4, <1>6, <1>7, <1>8 DEF seg, at

\* net_init: the cache is empty, no connection was opened, nothing was sent.
LEMMA StackInit ==
  ASSUME Init
  PROVE  StackInv
  <1>1. /\ cache = [s \in 0 .. Slots - 1 |-> NoHost] /\ slot = 0 /\ buffer = {}
        /\ tcp = [state |-> "closed", port |-> 0, recvNext |-> 0, peerClosed |-> FALSE, buf |-> NoData]
        /\ calls = <<>> /\ pc = "idle" /\ wire = {}
        /\ srv = [p \in Conn |-> [syn |-> FALSE, req |-> FALSE, rst |-> FALSE, acked |-> 0]]
    BY DEF Init
  <1>2. tcp \in Tcp /\ tcp.state = "closed"
    <2>1. 0 \in 0 .. MaxConns /\ 0 \in Nat
      BY Bounds
    <2>2. QED
      BY <1>1, <2>1 DEF Tcp
  <1>3. srv \in [Conn -> Server1]
    BY <1>1 DEF Server1
  <1>4. cache \in [0 .. Slots - 1 -> Host \cup {NoHost}] /\ slot \in 0 .. Slots - 1
    BY <1>1, Bounds
  <1>5. Types
    BY <1>1, <1>2, <1>3, <1>4 DEF Types, Place
  <1>6. Stack
    <2>1. calls \in Seq(Call) /\ Len(calls) = 0
      BY <1>1
    <2>2. QED
      BY <2>1 DEF Stack
  <1>7. QED
    BY <1>2, <1>5, <1>6 DEF StackInv, Opened

\* Every step keeps the types, the order of the calls and what opens a connection.
LEMMA StackNext ==
  ASSUME StackInv, [Next]_vars
  PROVE  StackInv'
  <1>1. CASE Step
    BY <1>1, StepTypes
  <1>2. CASE Poll
    <2>1. PICK m \in Frames : ResolvePoll(m) \/ CallerPoll(m)
      BY <1>2 DEF Poll
    <2>2. NetPoll(m) /\ srv' = srv /\ (calls = <<>> \/ Waiting)
      BY <2>1 DEF ResolvePoll, CallerPoll, Running
    <2>3. pc' \in Place
      BY <2>1 DEF ResolvePoll, CallerPoll, After, StackInv, Types, Place
    <2>4. QED
      BY <2>2, <2>3, PollTypes
  <1>3. CASE Connect
    <2>1. /\ tcp' \in Tcp /\ tcp'.state = "syn_sent" /\ tcp'.peerClosed = FALSE
          /\ Stack' /\ wire' \subseteq Segment1 /\ pc' = "connect_send"
          /\ UNCHANGED <<cache, slot, buffer, srv>>
      BY <1>3, ConnectFacts
    <2>2. Types'
      BY <2>1 DEF StackInv, Types, Place
    <2>3. Opened'
      BY <2>1 DEF Opened
    <2>4. QED
      BY <2>1, <2>2, <2>3 DEF StackInv
  <1>4. CASE Server
    <2>1. /\ UNCHANGED kernel /\ srv' \in [Conn -> Server1]
          /\ \A p \in Conn : srv[p].syn => srv'[p].syn
      BY <1>4, ServerSteps DEF StackInv
    <2>2. UNCHANGED <<cache, slot, buffer, tcp, calls, pc, wire>>
      BY <2>1 DEF kernel
    <2>3. Types'
      BY <2>1, <2>2 DEF StackInv, Types
    <2>4. Stack' /\ Opened'
      BY <2>1, <2>2 DEF StackInv, Stack, Opened
    <2>5. QED
      BY <2>3, <2>4 DEF StackInv
  <1>5. CASE UNCHANGED vars
    BY <1>5 DEF vars, kernel, StackInv, Types, Stack, Opened
  <1>6. QED
    BY <1>1, <1>2, <1>3, <1>4, <1>5 DEF Next

\* Whatever the size of the ARP cache, and whoever asks for echoes.
THEOREM StackInvariant == Spec => []StackInv
  <1>1. Init => StackInv
    BY StackInit
  <1>2. StackInv /\ [Next]_vars => StackInv'
    BY StackNext
  <1>3. QED
    BY <1>1, <1>2, PTL DEF Spec

\* tcp.c, arp.c: the static variables keep their types; of the calls inside each other only
\* the innermost has an answer; and when the peer has closed, the state says so.
THEOREM TypesHold == Spec => []TypeOK
  <1>1. StackInv => TypeOK
    <2>1. SUFFICES ASSUME StackInv PROVE TypeOK
      OBVIOUS
    <2>2. /\ cache \in [0 .. Slots - 1 -> Host \cup {NoHost}] /\ slot \in 0 .. Slots - 1
          /\ buffer \subseteq {"SYN", "RST", "DATA", "FIN"} /\ (tcp.peerClosed => tcp.state = "closed")
          /\ wire \subseteq SegmentSet /\ tcp \in Tcp
          /\ pc \in {"idle", "connect_send", "connect_poll", "connect_check", "request_send",
                     "read_poll", "read_take"}
          /\ \A i \in 1 .. Len(calls) - 1 : calls[i].at = "wait"
      BY <2>1 DEF StackInv, Types, Stack, Flag, Place, Segment1
    <2>3. calls \in Seq([k : Callers, seg : SegmentSet, hop : Host, at : {"wait", "sent", "failed"}])
      <3>1. calls \in Seq(Call)
        BY <2>1 DEF StackInv, Stack
      <3>2. Call \subseteq [k : Callers, seg : SegmentSet, hop : Host, at : {"wait", "sent", "failed"}]
        <4>1. Segment1 \subseteq SegmentSet
          BY DEF Segment1
        <4>2. QED
          BY <4>1 DEF Call, Outcome
      <3> DEFINE B == [k : Callers, seg : SegmentSet, hop : Host, at : {"wait", "sent", "failed"}]
      <3>3. Call \subseteq B
        BY <3>2
      <3> HIDE DEF B
      <3>4. calls \in Seq(B)
        BY <3>1, <3>3
      <3>5. QED
        BY <3>4 DEF B
    <2>4. srv \in [Conn -> [syn : BOOLEAN, req : BOOLEAN, rst : BOOLEAN, acked : Nat]]
      BY <2>1 DEF StackInv, Types, Server1
    <2>5. /\ tcp.state \in {"closed", "syn_sent", "established"}
          /\ tcp.port \in 0 .. MaxConns /\ tcp.recvNext \in Nat /\ tcp.peerClosed \in BOOLEAN
          /\ tcp.buf = NoData \/ tcp.buf \in Conn \X (1 .. Length)
      BY <2>2 DEF Tcp
    <2>6. QED
      BY <2>2, <2>3, <2>4, <2>5 DEF TypeOK
  <1>2. QED
    BY <1>1, StackInvariant, PTL

\* tcp.c: an answer to an earlier SYN never opens the next connection, however late it comes.
THEOREM ConnectionsAreShared == Spec => []BothKnow
  <1>1. StackInv => BothKnow
    BY DEF StackInv, Opened, BothKnow, Open
  <1>2. QED
    BY <1>1, StackInvariant, PTL

-----------------------------------------------------------------------------
(* A cache with room for everybody forgets nobody.                         *)

\* arp_cache_insert finds a free slot while anyone is missing.
LEMMA InsertKeeps ==
  ASSUME Room, Types, Filled, NEW h \in Host, Insert(h)
  PROVE  Filled' /\ \A g \in Host : g \in Cached => g \in Cached'
  <1> DEFINE Places == 0 .. Slots - 1
  <1>1. /\ cache \in [Places -> Host \cup {NoHost}] /\ slot \in Places
        /\ \A s, t \in Places : cache[s] = cache[t] /\ cache[s] # NoHost => s = t
        /\ NoHost \notin Host /\ Slots \in Nat /\ Slots > 0
    BY Bounds DEF Types, Filled
  <1>2. CASE h \in Cached
    <2>1. cache' = cache /\ slot' = slot
      BY <1>2 DEF Insert
    <2>2. Cached' = Cached
      BY <2>1 DEF Cached
    <2>3. QED
      BY <2>1, <2>2 DEF Filled
  <1>3. CASE h \notin Cached
    <2>1. cache' = [cache EXCEPT ![slot] = h] /\ slot' = (slot + 1) % Slots
      BY <1>3 DEF Insert
    <2>2. \A s \in Places : cache[s] # NoHost <=> s < slot
      BY <1>3 DEF Filled
    <2>3. \A s \in Places : cache[s] # h
      BY <1>3 DEF Cached
    <2>4. \A s \in Places : cache'[s] = IF s = slot THEN h ELSE cache[s]
      BY <1>1, <2>1
    <2>5. cache[slot] = NoHost /\ h # NoHost
      BY <1>1, <2>2
    <2>6. \A s, t \in Places : cache'[s] = cache'[t] /\ cache'[s] # NoHost => s = t
      BY <1>1, <2>3, <2>4
    <2>7. ASSUME NEW g \in Host, g \in Cached PROVE g \in Cached'
      <3>1. PICK s \in Places : cache[s] = g
        BY <2>7 DEF Cached
      <3>2. cache'[s] = g
        BY <1>1, <2>4, <2>5, <3>1
      <3>3. QED
        BY <3>2 DEF Cached
    <2>8. CASE slot + 1 < Slots
      <3>1. slot' = slot + 1
        BY <1>1, <2>1, <2>8
      <3>2. \A s \in Places : cache'[s] # NoHost <=> s < slot'
        BY <1>1, <2>2, <2>4, <2>5, <3>1
      <3>3. QED
        BY <2>6, <2>7, <3>2 DEF Filled
    <2>9. CASE slot + 1 = Slots
      <3>1. slot' = 0
        BY <1>1, <2>1, <2>9
      <3>2. \A s \in Places : cache'[s] # NoHost
        BY <1>1, <2>2, <2>4, <2>5, <2>9
      <3>3. cache' \in [Places -> Host]
        BY <1>1, <2>1, <2>4, <3>2
      <3>4. Host \subseteq Cached'
        <4>1. SUFFICES ASSUME NEW g \in Host, g \notin Cached' PROVE FALSE
          OBVIOUS
        <4>2. cache' \in [Places -> Host \ {g}]
          <5>1. \A s \in Places : cache'[s] # g
            BY <4>1 DEF Cached
          <5>2. QED
            BY <3>3, <5>1
        <4>3. cache' \in Injection(Places, Host \ {g})
          BY <2>6, <3>2, <4>2 DEF Injection, IsInjective
        <4>4. IsFiniteSet(Host) /\ Cardinality(Host) <= Slots /\ Cardinality(Host) \in Nat
          BY FS_CardinalityType DEF Room
        <4>5. IsFiniteSet(Host \ {g}) /\ Cardinality(Host \ {g}) = Cardinality(Host) - 1
          BY <4>1, <4>4, FS_RemoveElement
        <4>6. Cardinality(Places) <= Cardinality(Host \ {g})
          BY <4>3, <4>5, FS_Injection
        <4>7. Cardinality(Places) = Slots
          <5>1. 0 \in Int /\ Slots - 1 \in Int /\ ~(0 > Slots - 1) /\ Slots - 1 - 0 + 1 = Slots
            BY <1>1
          <5>2. QED
            BY <5>1, FS_Interval
        <4>8. QED
          BY <1>1, <4>4, <4>5, <4>6, <4>7
      <3>5. QED
        BY <2>6, <2>7, <3>4 DEF Filled
    <2>10. slot + 1 < Slots \/ slot + 1 = Slots
      BY <1>1
    <2>11. QED
      BY <2>8, <2>9, <2>10
  <1>4. QED
    BY <1>2, <1>3

-----------------------------------------------------------------------------
(* net_poll, in a cache with room for everybody.                           *)

\* The calls: none, one, or an echo that is answered inside the SYN's.
LEMMA Shape ==
  ASSUME StackInv, Nested, calls # <<>>
  PROVE  /\ calls[1] \in Call /\ Len(calls) \in {1, 2}
         /\ Len(calls) = 1 => Top = calls[1]
         /\ Len(calls) = 2 => Top = calls[2] /\ Top.k = "echo" /\ Top.at = "sent" /\ calls[1].k = "syn"
         /\ Waiting => Len(calls) = 1 /\ Top = calls[1] /\ Top.k = "syn" /\ Top.hop = Gateway
  <1>1. calls \in Seq(Call) /\ Len(calls) \in Nat /\ Len(calls) > 0 /\ Len(calls) <= 2
    BY DEF StackInv, Stack, Nested
  <1>2. calls[1] \in Call /\ Len(calls) \in {1, 2}
    <2>1. 1 \in 1 .. Len(calls) /\ Len(calls) \in {1, 2}
      <3>1. PICK n \in Nat : n = Len(calls)
        BY <1>1
      <3>2. n = 1 \/ n = 2
        BY <1>1, <3>1
      <3>3. QED
        BY <3>1, <3>2
    <2>2. calls[1] \in Call
      BY <1>1, <2>1, ElementOfSeq
    <2>3. QED
      BY <2>1, <2>2
  <1>3. Len(calls) = 1 => Top = calls[1]
    BY DEF Top
  <1>4. Len(calls) = 2 => Top = calls[2] /\ Top.k = "echo" /\ Top.at = "sent" /\ calls[1].k = "syn"
    BY DEF Top, Nested
  <1>5. Waiting => Len(calls) = 1 /\ Top = calls[1] /\ Top.k = "syn" /\ Top.hop = Gateway
    <2>1. SUFFICES ASSUME Waiting PROVE Len(calls) = 1 /\ Top = calls[1] /\ Top.k = "syn" /\ Top.hop = Gateway
      OBVIOUS
    <2>2. Top.at = "wait"
      BY <2>1 DEF Waiting
    <2>3. Len(calls) = 1 /\ Top = calls[1]
      BY <1>2, <1>3, <1>4, <2>2
    <2>4. Top.k = "syn"
      BY <2>2, <2>3 DEF Nested
    <2>5. Top.hop = Gateway
      BY <1>2, <2>3, <2>4 DEF Call
    <2>6. QED
      BY <2>3, <2>4, <2>5
  <1>6. QED
    BY <1>2, <1>3, <1>4, <1>5

\* A frame of the server shows that the gateway is known.
LEMMA FromServer ==
  ASSUME Types, Heard, NEW m \in ServerFrames
  PROVE  Gateway \in Cached /\ m.port <= tcp.port
  <1>1. m.port \in Conn /\ (srv[m.port].syn \/ srv[m.port].req \/ srv[m.port].rst)
    BY ServerFrame
  <1>2. QED
    BY <1>1 DEF Heard

\* The places a caller polls from.
LEMMA PollPlaces ==
  ASSUME pc \in DOMAIN After, pc' = After[pc]
  PROVE  \/ pc = "idle" /\ pc' = "idle"
         \/ pc = "connect_poll" /\ pc' = "connect_check"
         \/ pc = "read_poll" /\ pc' = "read_take"
  BY DEF After

\* A step that finds the connection, the calls and the wire as they were.
LEMMA NothingNew ==
  ASSUME StackInv, NetInv, UNCHANGED <<tcp, calls, wire, got, srv>>,
         pc' = pc \/ (calls = <<>> /\ pc \in DOMAIN After /\ pc' = After[pc]),
         \A g \in Host : g \in Cached => g \in Cached', Filled',
         buffer' = buffer \/ calls = <<>> \/ calls[1].k = "syn"
  PROVE  NetInv'
  <1>1. Filled /\ Heard /\ Nested /\ Progress /\ InStep /\ Ends /\ Gateway \in Host
    BY Bounds DEF NetInv
  <1>2. \/ pc' = pc
        \/ calls = <<>> /\ pc = "idle" /\ pc' = "idle"
        \/ calls = <<>> /\ pc = "connect_poll" /\ pc' = "connect_check"
        \/ calls = <<>> /\ pc = "read_poll" /\ pc' = "read_take"
    BY PollPlaces
  <1>3. Heard'
    BY <1>1 DEF Heard
  <1>4. Nested'
    BY <1>1, <1>2 DEF Nested
  <1>5. Progress'
    BY <1>1, <1>2 DEF Progress, Finishing
  <1>6. InStep'
    BY <1>1 DEF InStep, Finishing
  <1>7. Ends'
    BY <1>1 DEF Ends, Finishing, Ended, CanSend
  <1>8. QED
    BY <1>3, <1>4, <1>5, <1>6, <1>7 DEF NetInv

\* An echo is answered, by a caller of tcp.c or inside the wait for the gateway.
LEMMA EchoKeeps ==
  ASSUME Room, StackInv, NetInv, NEW m \in NeighbourFrames, m.kind = "echo",
         IpSend(EchoReply, m.from, "echo"), UNCHANGED <<cache, slot, tcp, got, srv>>,
         \/ Waiting /\ Top.hop \notin Cached /\ pc' = pc
         \/ calls = <<>> /\ pc \in DOMAIN After /\ pc' = After[pc]
  PROVE  NetInv'
  <1>1. Filled /\ Heard /\ Nested /\ Progress /\ InStep /\ Ends /\ Gateway \in Host
    BY Bounds DEF NetInv
  <1>2. m.from \in Host /\ m.from \in Cached
    BY NeighbourFrame DEF Room
  <1> DEFINE c == [k |-> "echo", seg |-> EchoReply, hop |-> m.from, at |-> "sent"]
  <1>3. calls' = Append(calls, c) /\ wire' = wire \cup {EchoReply}
    BY <1>2 DEF IpSend
  <1>4. c \in Call /\ c.k = "echo" /\ c.at = "sent" /\ c.seg = EchoReply
    BY <1>2, CallFacts, SegmentFacts DEF Callers, Outcome
  <1> HIDE DEF c
  <1>5. Stack /\ tcp.port \in Nat /\ wire \subseteq Segment1
    BY TcpTypes DEF StackInv, Types
  <1>6. /\ Len(calls) \in Nat /\ Len(calls') = Len(calls) + 1
        /\ calls'[Len(calls) + 1] = c /\ \A i \in 1 .. Len(calls) : calls'[i] = calls[i]
    BY <1>3, <1>4, <1>5, Pushed DEF Waiting
  <1>7. calls' # <<>>
    BY <1>6
  <1>8. Cached' = Cached /\ Filled'
    BY <1>1 DEF Cached, Filled
  <1>9. Heard'
    BY <1>1, <1>3, <1>5, <1>8, SegmentFacts DEF Heard
  <1>10. CASE calls = <<>> /\ pc \in DOMAIN After /\ pc' = After[pc]
    <2>1. calls'[1] = c /\ Len(calls') = 1
      BY <1>6, <1>10
    <2>2. \/ pc = "idle" /\ pc' = "idle"
          \/ pc = "connect_poll" /\ pc' = "connect_check"
          \/ pc = "read_poll" /\ pc' = "read_take"
      BY <1>10, PollPlaces
    <2>3. Nested'
      BY <1>4, <1>5, <1>7, <2>1, <2>2, SegmentFacts DEF Nested
    <2>4. ~Finishing' /\ ~Finishing /\ calls'[1].k = "echo"
      BY <1>4, <1>10, <2>1 DEF Finishing
    <2>5. Progress'
      BY <1>1, <1>10, <2>2, <2>4 DEF Progress
    <2>6. InStep'
      BY <1>1, <1>3, <2>4, SegmentFacts DEF InStep
    <2>7. Ends'
      BY <1>1, <2>4 DEF Ends, Ended, CanSend
    <2>8. QED
      BY <1>8, <1>9, <2>3, <2>5, <2>6, <2>7 DEF NetInv
  <1>11. CASE Waiting /\ pc' = pc
    <2>1. calls # <<>> /\ Len(calls) = 1 /\ calls[1].k = "syn"
      BY <1>1, <1>11, Shape DEF Waiting
    <2>2. calls'[1] = calls[1] /\ calls'[2] = c /\ Len(calls') = 2
      BY <1>6, <2>1
    <2>3. Nested'
      BY <1>1, <1>4, <1>7, <1>8, <1>11, <2>1, <2>2 DEF Nested
    <2>4. ~Finishing' /\ ~Finishing
      BY <2>1, <2>2 DEF Finishing
    <2>5. Progress'
      BY <1>1, <1>7, <1>11, <2>1, <2>2, <2>4 DEF Progress
    <2>6. InStep'
      BY <1>1, <1>3, <2>4, SegmentFacts DEF InStep
    <2>7. Ends'
      BY <1>1, <2>1, <2>2, <2>4 DEF Ends, Ended, CanSend
    <2>8. QED
      BY <1>8, <1>9, <2>3, <2>5, <2>6, <2>7 DEF NetInv
  <1>12. QED
    BY <1>10, <1>11

\* ip_send of a segment for the server, once the gateway is known: it is on the wire, and the
\* call waits for nothing.
LEMMA ToServer ==
  ASSUME StackInv, calls = <<>>, Gateway \in Cached, NEW seg \in Segment1, NEW k \in Callers,
         IpSend(seg, Gateway, k)
  PROVE  /\ Len(calls') = 1 /\ calls' # <<>> /\ wire' = wire \cup {seg}
         /\ calls'[1].k = k /\ calls'[1].seg = seg /\ calls'[1].at = "sent"
  <1> DEFINE c == [k |-> k, seg |-> seg, hop |-> Gateway, at |-> "sent"]
  <1>1. calls' = Append(calls, c) /\ wire' = wire \cup {seg}
    BY DEF IpSend
  <1>2. c \in Call /\ c.k = k /\ c.at = "sent" /\ c.seg = seg
    BY CallFacts, Bounds DEF Outcome
  <1> HIDE DEF c
  <1>3. Stack
    BY DEF StackInv
  <1>4. Len(calls') = Len(calls) + 1 /\ calls'[Len(calls) + 1] = c
    BY <1>1, <1>2, <1>3, Pushed
  <1>5. Len(calls) = 0
    OBVIOUS
  <1>6. Len(calls') = 1 /\ calls'[1] = c
    BY <1>4, <1>5
  <1>7. QED
    BY <1>1, <1>2, <1>6

\* tcp_handle_packet, called by a caller of tcp.c.
LEMMA HandlerKeeps ==
  ASSUME Room, StackInv, NetInv, NEW m \in ServerFrames, TcpHandle(m), buffer' = m.flags,
         UNCHANGED <<cache, slot, got, srv>>,
         calls = <<>>, pc \in DOMAIN After, pc' = After[pc]
  PROVE  NetInv'
  <1>1. Filled /\ Heard /\ Nested /\ Progress /\ InStep /\ Ends
    BY DEF NetInv
  <1>2. \/ pc = "idle" /\ pc' = "idle"
        \/ pc = "connect_poll" /\ pc' = "connect_check"
        \/ pc = "read_poll" /\ pc' = "read_take"
    BY PollPlaces
  <1>3. Types /\ tcp \in Tcp /\ tcp.port \in Nat /\ tcp.recvNext \in Nat /\ wire \subseteq Segment1
    BY TcpTypes DEF StackInv, Types
  <1>4. /\ m.port \in Conn /\ m.seq \in Nat /\ Gateway \in Cached
        /\ "SYN" \in m.flags => m.seq = 0
        /\ "RST" \in m.flags => srv[m.port].rst
        /\ "DATA" \in m.flags => m.seq \in 1 .. Length
        /\ "FIN" \in m.flags => Ended(m.port)
    BY <1>1, <1>3, ServerFrame, FromServer DEF Ended
  <1>5. Cached' = Cached /\ Filled'
    BY <1>1 DEF Cached, Filled
  <1>6. Ended(tcp.port)' <=> Ended(tcp'.port)
    BY DEF Ended, CanSend
  <1>7. ~Finishing
    BY DEF Finishing
  <1>8. CASE HandleSynAck(m)
    <2>1. /\ m.port = tcp.port /\ tcp.state = "syn_sent" /\ m.seq = 0
          /\ tcp' = [tcp EXCEPT !.recvNext = m.seq + 1, !.state = "established"]
          /\ IpSend(Segment("ACK", tcp.port, m.seq + 1), Gateway, "ack")
      BY <1>4, <1>8 DEF HandleSynAck
    <2> DEFINE seg == Segment("ACK", tcp.port, 1)
    <2>2. seg \in Segment1 /\ seg.port = tcp.port /\ seg.flag = "ACK" /\ seg.ack = 1
      BY <1>3, SegmentFacts
    <2>3. IpSend(seg, Gateway, "ack") /\ "ack" \in Callers
      BY <2>1 DEF Callers
    <2> HIDE DEF seg
    <2>4. /\ Len(calls') = 1 /\ calls' # <<>> /\ wire' = wire \cup {seg}
          /\ calls'[1].k = "ack" /\ calls'[1].seg = seg /\ calls'[1].at = "sent"
      BY <1>4, <2>2, <2>3, ToServer
    <2>5. /\ tcp'.state = "established" /\ tcp'.port = tcp.port /\ tcp'.recvNext = 1
          /\ tcp'.peerClosed = tcp.peerClosed /\ tcp'.buf = tcp.buf
      BY <1>3, <2>1 DEF Tcp
    <2>6. ~tcp.peerClosed
      BY <2>1 DEF StackInv, Types
    <2>7. Heard'
      BY <1>1, <1>3, <1>4, <1>5, <2>2, <2>4, <2>5 DEF Heard
    <2>8. pc # "read_poll"
      BY <1>1, <2>1, <2>6 DEF Progress
    <2>9. Nested'
      BY <1>2, <1>3, <1>4, <1>5, <2>2, <2>4, <2>5, <2>8 DEF Nested
    <2>10. Progress'
      BY <1>1, <1>2, <2>4, <2>5, <2>8 DEF Progress
    <2>11. InStep'
      BY <1>1, <2>1, <2>2, <2>4, <2>5 DEF InStep
    <2>12. Ends'
      BY <2>4, <2>5, <2>6 DEF Ends, Finishing
    <2>13. QED
      BY <1>5, <2>7, <2>9, <2>10, <2>11, <2>12 DEF NetInv
  <1>9. CASE HandleReset(m)
    <2>1. /\ m.port = tcp.port /\ tcp.state = "established" /\ srv[m.port].rst
          /\ tcp' = [tcp EXCEPT !.state = "closed", !.peerClosed = TRUE]
          /\ UNCHANGED <<calls, wire>>
      BY <1>4, <1>9 DEF HandleReset, Open
    <2>2. /\ tcp'.state = "closed" /\ tcp'.port = tcp.port /\ tcp'.recvNext = tcp.recvNext
          /\ tcp'.peerClosed = TRUE /\ tcp'.buf = tcp.buf
      BY <1>3, <2>1 DEF Tcp
    <2>3. Heard'
      BY <1>1, <1>5, <2>1, <2>2 DEF Heard
    <2>4. pc # "connect_poll"
      BY <1>1, <2>1 DEF Progress
    <2>5. Nested'
      BY <1>1, <1>2, <1>5, <2>1, <2>2, <2>4 DEF Nested
    <2>6. Progress'
      BY <1>1, <1>2, <2>1, <2>2, <2>4 DEF Progress
    <2>7. InStep'
      BY <1>1, <2>1, <2>2 DEF InStep
    <2>8. Ends'
      BY <1>4, <2>1, <2>2 DEF Ends, Finishing
    <2>9. QED
      BY <1>5, <2>3, <2>5, <2>6, <2>7, <2>8 DEF NetInv
  <1>10. CASE HandleData(m) \/ HandleFin(m)
    <2>1. /\ m.port = tcp.port /\ tcp.state = "established"
          /\ \/ /\ tcp' = [tcp EXCEPT !.buf = <<m.port, m.seq>>, !.recvNext = tcp.recvNext + 1]
                /\ m.seq = tcp.recvNext
                /\ IpSend(Segment("ACK", tcp.port, tcp.recvNext + 1), Gateway, "data")
             \/ /\ tcp' = [tcp EXCEPT !.recvNext = tcp.recvNext + 1]
                /\ IpSend(Segment("ACK", tcp.port, tcp.recvNext + 1), Gateway, "fin")
                /\ "FIN" \in m.flags
      BY <1>10 DEF HandleData, HandleFin, Open, InOrder
    <2> DEFINE seg == Segment("ACK", tcp.port, tcp.recvNext + 1)
    <2>2. seg \in Segment1 /\ seg.port = tcp.port /\ seg.flag = "ACK" /\ seg.ack = tcp.recvNext + 1
      BY <1>3, SegmentFacts
    <2>3. PICK k \in {"data", "fin"} :
            /\ IpSend(seg, Gateway, k)
            /\ k = "data" => /\ tcp' = [tcp EXCEPT !.buf = <<m.port, m.seq>>, !.recvNext = tcp.recvNext + 1]
                             /\ m.seq = tcp.recvNext
            /\ k = "fin" => tcp' = [tcp EXCEPT !.recvNext = tcp.recvNext + 1] /\ "FIN" \in m.flags
      <3> HIDE DEF seg
      <3>1. CASE /\ tcp' = [tcp EXCEPT !.buf = <<m.port, m.seq>>, !.recvNext = tcp.recvNext + 1]
                 /\ m.seq = tcp.recvNext
                 /\ IpSend(seg, Gateway, "data")
        <4>1. "data" # "fin"
          OBVIOUS
        <4>2. QED
          BY <3>1, <4>1
      <3>2. CASE /\ tcp' = [tcp EXCEPT !.recvNext = tcp.recvNext + 1]
                 /\ IpSend(seg, Gateway, "fin")
                 /\ "FIN" \in m.flags
        <4>1. "data" # "fin"
          OBVIOUS
        <4>2. QED
          BY <3>2, <4>1
      <3>3. QED
        BY <2>1, <3>1, <3>2 DEF seg
    <2> HIDE DEF seg
    <2>4. /\ Len(calls') = 1 /\ calls' # <<>> /\ wire' = wire \cup {seg}
          /\ calls'[1].k = k /\ calls'[1].seg = seg /\ calls'[1].at = "sent"
      BY <1>4, <2>2, <2>3, ToServer DEF Callers
    <2>5. /\ tcp'.state = "established" /\ tcp'.port = tcp.port /\ tcp'.recvNext = tcp.recvNext + 1
          /\ tcp'.peerClosed = tcp.peerClosed
          /\ k = "data" => tcp'.buf = <<m.port, m.seq>>
          /\ k = "fin" => tcp'.buf = tcp.buf
      <3>1. CASE k = "data"
        <4> DEFINE b == <<m.port, m.seq>>
        <4>1. tcp' = [tcp EXCEPT !.buf = b, !.recvNext = tcp.recvNext + 1]
          BY <2>3, <3>1
        <4> HIDE DEF b
        <4>2. /\ tcp'.state = tcp.state /\ tcp'.port = tcp.port /\ tcp'.recvNext = tcp.recvNext + 1
              /\ tcp'.peerClosed = tcp.peerClosed /\ tcp'.buf = b
          BY <1>3, <4>1 DEF Tcp
        <4>3. QED
          BY <2>1, <3>1, <4>2 DEF b
      <3>2. CASE k = "fin"
        <4>1. tcp' = [tcp EXCEPT !.recvNext = tcp.recvNext + 1]
          BY <2>3, <3>2
        <4>2. QED
          BY <1>3, <2>1, <3>2, <4>1 DEF Tcp
      <3>3. QED
        BY <3>1, <3>2
    <2>6. ~tcp.peerClosed /\ (Finishing' <=> k = "fin")
      BY <2>1, <2>4 DEF StackInv, Types, Finishing
    <2>7. Heard'
      BY <1>1, <1>3, <1>4, <1>5, <2>2, <2>4, <2>5 DEF Heard
    <2>8. pc # "connect_poll"
      BY <1>1, <2>1 DEF Progress
    <2>9. Nested'
      BY <1>2, <1>3, <1>4, <1>5, <2>2, <2>3, <2>4, <2>5, <2>8 DEF Nested
    <2>10. Progress'
      <3>1. pc = "read_poll" => tcp.buf = NoData /\ tcp.recvNext = Len(got) + 1
        BY <1>1, <1>7, <2>1 DEF Progress
      <3>2. Len(got) \in Nat
        BY <1>1 DEF InStep
      <3>3. k = "data" => tcp'.buf # NoData /\ tcp'.buf = <<tcp.port, tcp.recvNext>>
        <4>1. PICK p, q : p = tcp.port /\ q = tcp.recvNext
          OBVIOUS
        <4>2. <<p, q>> # NoData
          BY DEF NoData
        <4>3. k = "data" => tcp'.buf = <<p, q>>
          BY <2>1, <2>3, <2>5, <4>1
        <4>4. QED
          BY <4>1, <4>2, <4>3
      <3>4. pc' = "read_take" /\ tcp'.buf # NoData => tcp'.buf = <<tcp.port, Len(got) + 1>>
        BY <1>2, <2>3, <2>5, <3>1, <3>3
      <3>5. pc' = "read_take" /\ ~Finishing' => tcp'.recvNext = Len(got) + 2 /\ tcp'.buf # NoData
        BY <1>2, <2>3, <2>5, <2>6, <3>1, <3>2, <3>3
      <3>6. pc' \in {"idle", "read_take"}
        BY <1>2, <2>8
      <3>7. QED
        BY <2>5, <3>4, <3>5, <3>6 DEF Progress
    <2>11. InStep'
      <3>1. \A s \in wire' : s.flag = "ACK" /\ s.port = tcp.port => s.ack <= tcp.recvNext + 1
        <4>1. ASSUME NEW s \in wire, s.flag = "ACK", s.port = tcp.port
              PROVE  s.ack <= tcp.recvNext + 1
          <5>1. s.ack <= tcp.recvNext /\ s.ack \in Nat
            BY <1>1, <1>3, <1>7, <2>1, <4>1 DEF InStep, Segment1, SegmentSet
          <5>2. QED
            BY <1>3, <5>1
        <4>2. seg.ack <= tcp.recvNext + 1
          BY <1>3, <2>2
        <4>3. QED
          BY <2>4, <4>1, <4>2
      <3>2. QED
        BY <1>1, <2>5, <3>1 DEF InStep
    <2>12. Ends'
      <3>1. k = "fin" => Ended(tcp.port)
        BY <1>4, <2>1, <2>3
      <3>2. "FIN" \in buffer' => Ended(tcp.port)
        BY <1>4, <2>1
      <3>3. Ended(tcp.port) <=> Ended(tcp.port)'
        BY <1>6, <2>5
      <3>4. QED
        BY <2>5, <2>6, <3>1, <3>2, <3>3 DEF Ends
    <2>13. QED
      BY <1>5, <2>7, <2>9, <2>10, <2>11, <2>12 DEF NetInv
  <1>11. CASE HandleOther(m)
    <2>1. UNCHANGED <<tcp, calls, wire>>
      BY <1>11 DEF HandleOther
    <2>2. QED
      BY <1>5, <2>1, NothingNew
  <1>12. QED
    BY <1>8, <1>9, <1>10, <1>11 DEF TcpHandle

\* net_poll with any frame, from a caller of tcp.c or from arp_resolve.
LEMMA PollKeeps ==
  ASSUME Room, StackInv, NetInv, Poll
  PROVE  NetInv'
  <1>1. PICK m \in Frames : ResolvePoll(m) \/ CallerPoll(m)
    BY DEF Poll
  <1>2. Types /\ Filled /\ Heard /\ Nested
    BY DEF StackInv, NetInv
  <1>3. /\ NetPoll(m) /\ UNCHANGED <<got, srv>>
        /\ \/ Waiting /\ Top.hop \notin Cached /\ pc' = pc
           \/ calls = <<>> /\ pc \in DOMAIN After /\ pc' = After[pc]
    BY <1>1 DEF ResolvePoll, CallerPoll, Running
  <1>4. Waiting => calls # <<>> /\ calls[1].k = "syn" /\ Top.hop = Gateway
    BY <1>2, Shape DEF Waiting
  <1>5. /\ m.kind \in {"tcp", "arp", "echo"}
        /\ m.kind = "tcp" => m \in ServerFrames
        /\ m.kind # "tcp" => m \in NeighbourFrames
    BY <1>2, FrameFacts
  <1>6. CASE m.kind = "arp"
    <2>1. Insert(m.from) /\ UNCHANGED <<tcp, calls, wire>>
      BY <1>3, <1>6 DEF NetPoll
    <2>2. m.from \in Host
      BY <1>5, <1>6, NeighbourFrame
    <2>3. Filled' /\ \A g \in Host : g \in Cached => g \in Cached'
      BY <1>2, <2>1, <2>2, InsertKeeps
    <2>4. buffer' = buffer \/ calls = <<>> \/ calls[1].k = "syn"
      BY <1>3, <1>4
    <2>5. QED
      BY <1>3, <2>1, <2>3, <2>4, NothingNew
  <1>7. CASE m.kind = "echo"
    <2>1. IpSend(EchoReply, m.from, "echo") /\ UNCHANGED <<cache, slot, tcp>>
      BY <1>3, <1>7 DEF NetPoll
    <2>2. m \in NeighbourFrames
      BY <1>5, <1>7
    <2>3. QED
      BY <1>3, <1>7, <2>1, <2>2, EchoKeeps
  <1>8. CASE m.kind = "tcp"
    <2>1. TcpHandle(m) /\ UNCHANGED <<cache, slot>> /\ buffer' = m.flags
      BY <1>3, <1>8 DEF NetPoll
    <2>2. m \in ServerFrames
      BY <1>5, <1>8
    <2>3. Gateway \in Cached
      BY <1>2, <2>2, FromServer
    <2>4. calls = <<>> /\ pc \in DOMAIN After /\ pc' = After[pc]
      BY <1>3, <1>4, <2>3
    <2>5. QED
      BY <1>3, <2>1, <2>2, <2>4, HandlerKeeps
  <1>9. QED
    BY <1>5, <1>6, <1>7, <1>8

-----------------------------------------------------------------------------
(* The answers, and the callers.                                           *)

\* arp_resolve comes to an end: the SYN is on the wire, or given up.
LEMMA ResolvedKeeps ==
  ASSUME StackInv, NetInv, Resolved \/ ResolveFails
  PROVE  NetInv'
  <1>1. Filled /\ Heard /\ Nested /\ Progress /\ InStep /\ Ends
    BY DEF NetInv
  <1>2. Waiting /\ UNCHANGED <<cache, slot, buffer, tcp, pc, got, srv>>
    BY DEF Resolved, ResolveFails
  <1>3. /\ calls # <<>> /\ Len(calls) = 1 /\ Top = calls[1] /\ calls[1] \in Call
        /\ calls[1].k = "syn" /\ Top.hop = Gateway
    BY <1>1, <1>2, Shape DEF Waiting
  <1>4. PICK o \in {"sent", "failed"} :
          /\ Return(o)
          /\ wire' = wire \/ (wire' = wire \cup {calls[1].seg} /\ Gateway \in Cached)
    BY <1>3 DEF Resolved, ResolveFails
  <1> DEFINE c == [calls[1] EXCEPT !.at = o]
  <1>5. c \in Call /\ c.k = calls[1].k /\ c.seg = calls[1].seg /\ c.at = o
    BY <1>3 DEF Call, Outcome
  <1>6. calls' = Append(Below, c)
    BY <1>3, <1>4 DEF Return
  <1> HIDE DEF c
  <1>7. Len(calls') = 1 /\ calls'[1] = c
    BY <1>3, <1>5, <1>6, Replaced DEF StackInv
  <1>8. calls' # <<>>
    BY <1>7
  <1>9. Cached' = Cached /\ Filled'
    BY <1>1, <1>2 DEF Cached, Filled
  <1>10. calls[1].seg.flag = "SYN" /\ calls[1].seg.port <= tcp.port /\ pc = "connect_send"
    BY <1>1, <1>3 DEF Nested
  <1>11. Heard'
    BY <1>1, <1>2, <1>4, <1>9, <1>10 DEF Heard
  <1>12. Nested'
    BY <1>2, <1>3, <1>4, <1>5, <1>7, <1>8, <1>10 DEF Nested
  <1>13. ~Finishing /\ ~Finishing'
    BY <1>3, <1>5, <1>7 DEF Finishing
  <1>14. Progress'
    BY <1>1, <1>2, <1>3, <1>5, <1>7, <1>10, <1>13 DEF Progress
  <1>15. InStep'
    BY <1>1, <1>2, <1>4, <1>10, <1>13 DEF InStep
  <1>16. Ends'
    BY <1>1, <1>2, <1>3, <1>5, <1>7, <1>13 DEF Ends, Ended, CanSend
  <1>17. QED
    BY <1>9, <1>11, <1>12, <1>14, <1>15, <1>16 DEF NetInv

\* The only call is over.
LEMMA Over ==
  ASSUME StackInv, Nested, calls # <<>>, Len(calls) = 1, calls' = Below
  PROVE  calls' = <<>> /\ Len(calls') = 0
  <1>1. Below \in Seq(Call) /\ Len(Below) = 0
    BY Popped DEF StackInv
  <1>2. QED
    BY <1>1

\* An acknowledgement, an echo, the SYN or the request was sent.
LEMMA SentKeeps ==
  ASSUME StackInv, NetInv, AckDone \/ SynDone \/ RequestDone
  PROVE  NetInv'
  <1>1. Filled /\ Heard /\ Nested /\ Progress /\ InStep /\ Ends
    BY DEF NetInv
  <1>2. /\ calls # <<>> /\ calls' = Below /\ UNCHANGED <<cache, slot, buffer, tcp, got, srv, wire>>
        /\ \/ Top.k \in {"ack", "echo"} /\ pc' = pc
           \/ Top.k = "syn" /\ pc' = "connect_poll"
           \/ Top.k = "request" /\ pc' \in {"read_poll", "idle"}
    BY DEF AckDone, SynDone, RequestDone, Back
  <1>3. Cached' = Cached /\ Filled'
    BY <1>1, <1>2 DEF Cached, Filled
  <1>4. Heard'
    BY <1>1, <1>2, <1>3 DEF Heard
  <1>5. CASE Len(calls) = 1
    <2>1. calls' = <<>> /\ Top = calls[1] /\ Len(calls') = 0
      BY <1>1, <1>2, <1>5, Over, Shape
    <2>2. ~Finishing /\ ~Finishing'
      BY <1>2, <2>1 DEF Finishing
    <2>3. Nested'
      BY <1>1, <1>2, <2>1 DEF Nested
    <2>4. Progress'
      <3>1. Top.k = "syn" => pc = "connect_send"
        BY <1>1, <1>2, <2>1 DEF Nested
      <3>2. Top.k = "request" => pc = "request_send"
        BY <1>1, <1>2, <2>1 DEF Nested
      <3>3. got = <<>> => Len(got) = 0
        OBVIOUS
      <3>4. QED
        BY <1>1, <1>2, <2>1, <2>2, <3>1, <3>2, <3>3 DEF Progress
    <2>5. InStep'
      BY <1>1, <1>2, <2>2 DEF InStep
    <2>6. Ends'
      BY <1>1, <1>2, <2>1, <2>2 DEF Ends, Ended, CanSend
    <2>7. QED
      BY <1>3, <1>4, <2>3, <2>4, <2>5, <2>6 DEF NetInv
  <1>6. CASE Len(calls) = 2
    <2>1. calls[1].k = "syn" /\ Top.k = "echo"
      BY <1>1, <1>2, <1>6, Shape
    <2>2. Len(calls') = 1 /\ calls'[1] = calls[1]
      BY <1>2, <1>6, Popped DEF StackInv
    <2>3. calls' # <<>> /\ pc' = pc
      BY <1>2, <2>1, <2>2
    <2>4. ~Finishing /\ ~Finishing'
      BY <2>1, <2>2 DEF Finishing
    <2>5. Nested'
      BY <1>1, <1>2, <1>3, <2>1, <2>2, <2>3 DEF Nested
    <2>6. Progress'
      BY <1>1, <1>2, <2>1, <2>2, <2>3, <2>4 DEF Progress
    <2>7. InStep'
      BY <1>1, <1>2, <2>4 DEF InStep
    <2>8. Ends'
      BY <1>1, <1>2, <2>1, <2>2, <2>4 DEF Ends, Ended, CanSend
    <2>9. QED
      BY <1>3, <1>4, <2>5, <2>6, <2>7, <2>8 DEF NetInv
  <1>7. QED
    BY <1>1, <1>2, <1>5, <1>6, Shape

\* tcp_handle_packet goes on after its acknowledgement: with the FIN of the same segment.
LEMMA DataDoneKeeps ==
  ASSUME StackInv, NetInv, DataDone
  PROVE  NetInv'
  <1>1. Filled /\ Heard /\ Nested /\ Progress /\ InStep /\ Ends
    BY DEF NetInv
  <1>2. calls # <<>> /\ Top.k = "data" /\ UNCHANGED <<cache, slot, buffer, pc, got, srv>>
    BY DEF DataDone, Back
  <1>3. Len(calls) = 1 /\ Top = calls[1] /\ calls[1] \in Call
    BY <1>1, <1>2, Shape
  <1>4. Cached' = Cached /\ Filled' /\ Gateway \in Cached
    <2>1. Cached' = Cached /\ Filled'
      BY <1>1, <1>2 DEF Cached, Filled
    <2>2. Gateway \in Cached
      BY <1>1, <1>2, <1>3 DEF Nested
    <2>3. QED
      BY <2>1, <2>2
  <1>5. pc \notin {"connect_send", "connect_poll", "connect_check", "request_send", "read_poll"}
    BY <1>1, <1>2, <1>3 DEF Progress
  <1>6. ~Finishing
    BY <1>2, <1>3 DEF Finishing
  <1>7. tcp \in Tcp /\ tcp.port \in Nat /\ tcp.recvNext \in Nat
    BY TcpTypes DEF StackInv, Types
  <1>8. CASE "FIN" \in buffer
    <2> DEFINE seg == Segment("ACK", tcp.port, tcp.recvNext + 1)
               c == [k |-> "fin", seg |-> seg, hop |-> Gateway, at |-> "sent"]
    <2>1. /\ tcp' = [tcp EXCEPT !.recvNext = tcp.recvNext + 1]
          /\ calls' = Append(Below, c) /\ wire' = wire \cup {seg}
      BY <1>4, <1>8 DEF DataDone
    <2>2. seg \in Segment1 /\ seg.port = tcp.port /\ seg.flag = "ACK"
      BY <1>7, SegmentFacts
    <2> HIDE DEF seg
    <2>3. c \in Call /\ c.k = "fin" /\ c.seg = seg /\ c.at = "sent"
      BY <2>2, CallFacts, Bounds DEF Callers, Outcome
    <2> HIDE DEF c
    <2>4. Len(calls') = 1 /\ calls'[1] = c
      BY <1>2, <1>3, <2>1, <2>3, Replaced DEF StackInv
    <2>5. calls' # <<>> /\ Finishing'
      <3>1. calls' # <<>>
        BY <2>4
      <3>2. calls'[1].k = "fin"
        BY <2>3, <2>4
      <3>3. QED
        BY <3>1, <3>2 DEF Finishing
    <2>6. /\ tcp'.state = tcp.state /\ tcp'.port = tcp.port /\ tcp'.peerClosed = tcp.peerClosed
          /\ tcp'.buf = tcp.buf
      BY <1>7, <2>1 DEF Tcp
    <2>7. Heard'
      BY <1>1, <1>2, <1>4, <1>7, <2>1, <2>2, <2>6 DEF Heard
    <2>8. Nested'
      BY <1>2, <1>4, <1>5, <1>7, <2>2, <2>3, <2>4, <2>5, <2>6 DEF Nested
    <2>9. Progress'
      BY <1>1, <1>2, <1>5, <2>5, <2>6 DEF Progress
    <2>10. InStep'
      <3>1. tcp.state # "syn_sent"
        BY <1>1, <1>5 DEF Progress, StackInv, Types, Place
      <3>2. QED
        BY <1>1, <1>2, <2>5, <2>6, <3>1 DEF InStep
    <2>11. Ends'
      <3>1. Ended(tcp.port)
        BY <1>1, <1>2, <1>3, <1>8 DEF Ends
      <3>2. QED
        BY <1>1, <1>2, <2>3, <2>4, <2>6, <3>1 DEF Ends, Ended, CanSend
    <2>12. QED
      BY <1>4, <2>7, <2>8, <2>9, <2>10, <2>11 DEF NetInv
  <1>9. CASE "FIN" \notin buffer
    <2>1. calls' = Below /\ UNCHANGED <<tcp, wire>>
      BY <1>9 DEF DataDone
    <2>2. calls' = <<>> /\ Len(calls') = 0
      BY <1>1, <1>2, <1>3, <2>1, Over
    <2>3. ~Finishing'
      BY <2>2 DEF Finishing
    <2>4. Heard'
      BY <1>1, <1>2, <1>4, <2>1 DEF Heard
    <2>5. Nested'
      BY <1>2, <1>5, <2>2 DEF Nested
    <2>6. Progress'
      BY <1>1, <1>2, <1>5, <1>6, <2>1, <2>2, <2>3 DEF Progress
    <2>7. InStep'
      BY <1>1, <1>2, <1>6, <2>1, <2>3 DEF InStep
    <2>8. Ends'
      BY <1>1, <1>2, <2>1, <2>2, <2>3 DEF Ends, Ended, CanSend
    <2>9. QED
      BY <1>4, <2>4, <2>5, <2>6, <2>7, <2>8 DEF NetInv
  <1>10. QED
    BY <1>8, <1>9

\* The FIN is handled: the peer has closed.
LEMMA FinDoneKeeps ==
  ASSUME StackInv, NetInv, FinDone
  PROVE  NetInv'
  <1>1. Filled /\ Heard /\ Nested /\ Progress /\ InStep /\ Ends
    BY DEF NetInv
  <1>2. /\ calls # <<>> /\ Top.k = "fin" /\ calls' = Below
        /\ tcp' = [tcp EXCEPT !.peerClosed = TRUE, !.state = "closed"]
        /\ UNCHANGED <<cache, slot, buffer, pc, got, wire, srv>>
    BY DEF FinDone, Back
  <1>3. Len(calls) = 1 /\ Top = calls[1]
    BY <1>1, <1>2, Shape
  <1>4. calls' = <<>> /\ Len(calls') = 0 /\ Finishing
    BY <1>1, <1>2, <1>3, Over DEF Finishing
  <1>5. ~Finishing'
    BY <1>4 DEF Finishing
  <1>6. Cached' = Cached /\ Filled'
    BY <1>1, <1>2 DEF Cached, Filled
  <1>7. /\ tcp'.state = "closed" /\ tcp'.port = tcp.port /\ tcp'.peerClosed = TRUE
        /\ tcp'.buf = tcp.buf
    BY <1>2 DEF StackInv, Types, Tcp
  <1>8. pc \notin {"connect_send", "connect_poll", "connect_check", "request_send", "read_poll"}
    BY <1>1, <1>2, <1>3 DEF Progress
  <1>9. Heard'
    BY <1>1, <1>2, <1>6, <1>7 DEF Heard
  <1>10. Nested'
    BY <1>2, <1>4, <1>8 DEF Nested
  <1>11. Progress'
    BY <1>1, <1>2, <1>7, <1>8 DEF Progress
  <1>12. InStep'
    BY <1>1, <1>2, <1>7 DEF InStep
  <1>13. Ends'
    BY <1>1, <1>2, <1>4, <1>5, <1>7 DEF Ends, Ended, CanSend
  <1>14. QED
    BY <1>6, <1>9, <1>10, <1>11, <1>12, <1>13 DEF NetInv

\* The poll finds an empty ring.
LEMMA EmptyKeeps ==
  ASSUME StackInv, NetInv, EmptyPoll
  PROVE  NetInv'
  <1>1. /\ calls = <<>> /\ pc \in DOMAIN After /\ pc' = After[pc]
        /\ UNCHANGED <<cache, slot, buffer, tcp, calls, got, wire, srv>>
    BY DEF EmptyPoll, After, Running
  <1>2. Filled /\ Cached' = Cached
    BY <1>1 DEF NetInv, Cached
  <1>3. Filled'
    BY <1>1, <1>2 DEF Filled
  <1>4. QED
    BY <1>1, <1>2, <1>3, NothingNew

\* tcp_connect sees the SYN-ACK, and http.c sends its request; or it polls again.
LEMMA CheckKeeps ==
  ASSUME StackInv, NetInv, ConnectCheck
  PROVE  NetInv'
  <1>1. Filled /\ Heard /\ Nested /\ Progress /\ InStep /\ Ends
    BY DEF NetInv
  <1>2. /\ calls = <<>> /\ pc = "connect_check" /\ UNCHANGED <<cache, slot, buffer, tcp, got, srv>>
        /\ tcp.state \in {"syn_sent", "established"}
    BY <1>1 DEF ConnectCheck, Running, Progress
  <1>3. Cached' = Cached /\ Filled'
    BY <1>1, <1>2 DEF Cached, Filled
  <1>4. tcp \in Tcp /\ tcp.port \in Nat /\ tcp.recvNext \in Nat /\ wire \subseteq Segment1
    BY TcpTypes DEF StackInv, Types
  <1>5. ~Finishing
    BY <1>2 DEF Finishing
  <1>6. CASE tcp.state = "established"
    <2> DEFINE seg == Segment("REQ", tcp.port, tcp.recvNext)
    <2>1. IpSend(seg, Gateway, "request") /\ pc' = "request_send" /\ "request" \in Callers
      BY <1>6 DEF ConnectCheck, Callers
    <2>2. seg \in Segment1 /\ seg.port = tcp.port /\ seg.flag = "REQ"
      BY <1>4, SegmentFacts
    <2> HIDE DEF seg
    <2>3. Gateway \in Cached
      <3>1. tcp.port \in Conn /\ srv[tcp.port].syn
        BY <1>6 DEF StackInv, Opened
      <3>2. QED
        BY <1>1, <3>1 DEF Heard
    <2>4. /\ Len(calls') = 1 /\ calls' # <<>> /\ wire' = wire \cup {seg}
          /\ calls'[1].k = "request" /\ calls'[1].seg = seg /\ calls'[1].at = "sent"
      BY <1>2, <2>1, <2>2, <2>3, ToServer
    <2>5. ~Finishing'
      BY <2>4 DEF Finishing
    <2>6. Heard'
      BY <1>1, <1>2, <1>3, <1>4, <2>2, <2>3, <2>4 DEF Heard
    <2>7. Nested'
      BY <1>2, <1>3, <1>4, <2>1, <2>2, <2>3, <2>4 DEF Nested
    <2>8. Progress'
      BY <1>1, <1>2, <1>6, <2>1, <2>4 DEF Progress
    <2>9. InStep'
      BY <1>1, <1>2, <1>5, <1>6, <2>2, <2>4 DEF InStep
    <2>10. Ends'
      BY <1>1, <1>2, <2>4, <2>5 DEF Ends, Ended, CanSend
    <2>11. QED
      BY <1>3, <2>6, <2>7, <2>8, <2>9, <2>10 DEF NetInv
  <1>7. CASE tcp.state # "established"
    <2>1. pc' = "connect_poll" /\ UNCHANGED <<calls, wire>> /\ tcp.state = "syn_sent"
      BY <1>2, <1>7 DEF ConnectCheck
    <2>2. ~Finishing'
      BY <1>2, <2>1 DEF Finishing
    <2>3. Heard'
      BY <1>1, <1>2, <1>3, <2>1 DEF Heard
    <2>4. Nested'
      BY <1>1, <1>2, <1>3, <2>1 DEF Nested
    <2>5. Progress'
      BY <1>1, <1>2, <2>1 DEF Progress
    <2>6. InStep'
      BY <1>1, <1>2, <1>7, <2>1 DEF InStep
    <2>7. Ends'
      BY <1>1, <1>2, <2>1, <2>2 DEF Ends, Ended, CanSend
    <2>8. QED
      BY <1>3, <2>3, <2>4, <2>5, <2>6, <2>7 DEF NetInv
  <1>8. QED
    BY <1>6, <1>7

\* tcp_connect gives up.
LEMMA FailsKeeps ==
  ASSUME StackInv, NetInv, ConnectFails
  PROVE  NetInv'
  <1>1. Filled /\ Heard /\ Nested /\ Progress /\ InStep /\ Ends
    BY DEF NetInv
  <1>2. /\ calls = <<>> /\ pc = "connect_check" /\ pc' = "idle"
        /\ UNCHANGED <<cache, slot, buffer, calls, got, wire, srv>>
        /\ tcp' = [tcp EXCEPT !.state = "closed"]
    BY DEF ConnectFails, Running
  <1>3. Cached' = Cached /\ Filled'
    BY <1>1, <1>2 DEF Cached, Filled
  <1>4. /\ tcp'.state = "closed" /\ tcp'.port = tcp.port /\ tcp'.buf = tcp.buf
        /\ tcp'.peerClosed = tcp.peerClosed
    BY <1>2 DEF StackInv, Types, Tcp
  <1>5. ~Finishing'
    BY <1>2 DEF Finishing
  <1>6. Heard'
    BY <1>1, <1>2, <1>3, <1>4 DEF Heard
  <1>7. Nested'
    BY <1>1, <1>2, <1>3, <1>4 DEF Nested
  <1>8. Progress'
    BY <1>2, <1>4 DEF Progress
  <1>9. InStep'
    BY <1>1, <1>2, <1>4 DEF InStep
  <1>10. Ends'
    BY <1>1, <1>2, <1>4, <1>5 DEF Ends, Ended, CanSend
  <1>11. QED
    BY <1>3, <1>6, <1>7, <1>8, <1>9, <1>10 DEF NetInv

\* What is taken from the receive buffer is the next piece.
LEMMA Taken ==
  ASSUME StackInv, NetInv, Take, tcp.buf # NoData
  PROVE  /\ tcp.buf = <<tcp.port, Len(got) + 1>> /\ got' = Append(got, tcp.buf)
         /\ Len(got) \in Nat /\ Len(got) + 1 <= Length
         /\ got' \in Seq(Conn \X (1 .. Length)) /\ Len(got') = Len(got) + 1
         /\ \A i \in 1 .. Len(got') : got'[i] = <<tcp.port, i>>
  <1>1. Progress /\ InStep
    BY DEF NetInv
  <1>2. pc = "read_take" /\ got' = Append(got, tcp.buf)
    BY DEF Take
  <1>3. tcp.buf = <<tcp.port, Len(got) + 1>> /\ got \in Seq(Conn \X (1 .. Length))
    BY <1>1, <1>2 DEF Progress, InStep
  <1>4. Len(got) \in Nat
    BY <1>3
  <1>5. tcp.buf \in Conn \X (1 .. Length)
    BY DEF StackInv, Types, Tcp
  <1>6. Len(got) + 1 \in 1 .. Length
    <2>1. PICK p \in Conn, k \in 1 .. Length : tcp.buf = <<p, k>>
      BY <1>5
    <2>2. k = Len(got) + 1
      BY <1>3, <2>1
    <2>3. QED
      BY <2>1, <2>2
  <1> DEFINE P == Conn \X (1 .. Length)
             b == tcp.buf
  <1>7. got \in Seq(P) /\ b \in P /\ got' = Append(got, b)
    BY <1>2, <1>3, <1>5
  <1> HIDE DEF P, b
  <1>8. /\ got' \in Seq(P) /\ Len(got') = Len(got) + 1
        /\ \A i \in 1 .. Len(got) : got'[i] = got[i] /\ got'[Len(got) + 1] = b
        /\ got'[Len(got) + 1] = b
    BY <1>4, <1>7, AppendProperties
  <1>9. \A i \in 1 .. Len(got') : got'[i] = <<tcp.port, i>>
    <2>1. ASSUME NEW i \in 1 .. Len(got')
          PROVE  got'[i] = <<tcp.port, i>>
      <3>1. i \in 1 .. Len(got) \/ i = Len(got) + 1
        BY <1>4, <1>8
      <3>2. CASE i \in 1 .. Len(got)
        <4>1. got'[i] = got[i]
          BY <1>8, <3>2
        <4>2. got[i] = <<tcp.port, i>>
          BY <1>1, <3>2 DEF InStep
        <4>3. QED
          BY <4>1, <4>2
      <3>3. CASE i = Len(got) + 1
        <4>1. got'[i] = tcp.buf
          BY <1>8, <3>3 DEF b
        <4>2. QED
          BY <1>3, <3>3, <4>1
      <3>4. QED
        BY <3>1, <3>2, <3>3
    <2>2. QED
      BY <2>1
  <1>10. QED
    BY <1>2, <1>3, <1>4, <1>6, <1>8, <1>9 DEF P

\* tcp_receive, and the end of the loop.
LEMMA TakeKeeps ==
  ASSUME StackInv, NetInv, Take
  PROVE  NetInv'
  <1>1. Filled /\ Heard /\ Nested /\ Progress /\ InStep /\ Ends
    BY DEF NetInv
  <1>2. /\ calls = <<>> /\ pc = "read_take" /\ pc' \in {"idle", "read_poll"}
        /\ UNCHANGED <<cache, slot, buffer, calls, wire, srv>>
        /\ tcp.state = "established" \/ tcp.peerClosed
    BY <1>1 DEF Take, Running, Progress
  <1>3. Cached' = Cached /\ Filled'
    BY <1>1, <1>2 DEF Cached, Filled
  <1>4. /\ tcp'.state = tcp.state /\ tcp'.port = tcp.port /\ tcp'.recvNext = tcp.recvNext
        /\ tcp'.peerClosed = tcp.peerClosed /\ tcp'.buf = NoData
    BY DEF Take, StackInv, Types, Tcp
  <1>5. ~Finishing /\ ~Finishing'
    BY <1>2 DEF Finishing
  <1>6. tcp.state # "syn_sent" /\ (tcp.state = "established" => ~tcp.peerClosed)
    BY <1>1, <1>2 DEF Progress, StackInv, Types
  <1>7. Heard'
    BY <1>1, <1>2, <1>3, <1>4 DEF Heard
  <1>8. Nested'
    BY <1>1, <1>2, <1>3, <1>4 DEF Nested
  <1>9. /\ got' \in Seq(Conn \X (1 .. Length))
        /\ \A i \in 1 .. Len(got') : got'[i] = <<tcp.port, i>>
        /\ tcp.buf # NoData => Len(got') = Len(got) + 1
        /\ tcp.buf = NoData => got' = got
    <2>1. CASE tcp.buf # NoData
      BY <2>1, Taken
    <2>2. CASE tcp.buf = NoData
      <3>1. got' = got
        BY <2>2 DEF Take
      <3>2. QED
        BY <1>1, <2>2, <3>1 DEF InStep
    <2>3. QED
      BY <2>1, <2>2
  <1>10. tcp.state = "established" => tcp.recvNext = Len(got') + 1
    <2>1. Len(got) \in Nat
      BY <1>1 DEF InStep
    <2>2. QED
      BY <1>1, <1>2, <1>5, <1>9, <2>1 DEF Progress
  <1>11. Progress'
    BY <1>2, <1>4, <1>5, <1>6, <1>10 DEF Progress
  <1>12. InStep'
    BY <1>1, <1>2, <1>4, <1>5, <1>6, <1>9 DEF InStep
  <1>13. Ends'
    BY <1>1, <1>2, <1>4, <1>5 DEF Ends, Ended, CanSend
  <1>14. QED
    BY <1>3, <1>7, <1>8, <1>11, <1>12, <1>13 DEF NetInv

\* tcp_connect sends its SYN, with a new port.
LEMMA ConnectKeeps ==
  ASSUME StackInv, NetInv, Connect
  PROVE  NetInv'
  <1>1. Filled /\ Heard /\ Nested /\ Progress /\ InStep /\ Ends
    BY DEF NetInv
  <1>2. /\ tcp'.state = "syn_sent" /\ tcp'.port = tcp.port + 1 /\ tcp'.peerClosed = FALSE
        /\ tcp'.buf = NoData /\ calls = <<>> /\ got' = <<>> /\ pc' = "connect_send"
        /\ UNCHANGED <<cache, slot, buffer, srv>> /\ tcp.port + 1 \in Conn /\ tcp.port \in Nat
    BY ConnectFacts
  <1> DEFINE seg == Segment("SYN", tcp.port + 1, 0)
             at == IF Gateway \in Cached THEN "sent" ELSE "wait"
             c == [k |-> "syn", seg |-> seg, hop |-> Gateway, at |-> at]
  <1>3. seg.port = tcp.port + 1 /\ seg.flag = "SYN"
    BY <1>2, SegmentFacts
  <1>4. c \in Call /\ calls' = Append(calls, c) /\ c.k = "syn" /\ c.seg = seg
    BY ConnectFacts
  <1>5. wire' = (IF Gateway \in Cached THEN wire \cup {seg} ELSE wire)
    BY ConnectFacts
  <1> HIDE DEF c, seg
  <1>6. Stack /\ wire \subseteq Segment1
    BY DEF StackInv, Types
  <1>7. Len(calls') = Len(calls) + 1 /\ calls'[Len(calls) + 1] = c
    BY <1>2, <1>4, <1>6, Pushed
  <1>8. Len(calls') = 1 /\ calls'[1] = c /\ calls' # <<>>
    <2>1. Len(calls) = 0
      BY <1>2
    <2>2. Len(calls') = 1 /\ calls'[1] = c
      BY <1>7, <2>1
    <2>3. QED
      BY <2>2
  <1>9. Cached' = Cached /\ Filled'
    BY <1>1, <1>2 DEF Cached, Filled
  <1>10. ~Finishing'
    BY <1>4, <1>8 DEF Finishing
  <1>11. \A s \in wire : s.port <= tcp.port + 1 /\ s.port # tcp.port + 1
    <2>1. ASSUME NEW s \in wire PROVE s.port <= tcp.port + 1 /\ s.port # tcp.port + 1
      <3>1. s.port <= tcp.port /\ s.port \in Nat
        BY <1>1, <1>6 DEF Heard, Segment1, SegmentSet
      <3>2. QED
        BY <1>2, <3>1
    <2>2. QED
      BY <2>1
  <1>12. Heard'
    <2>1. \A s \in wire' : s.port <= tcp'.port /\ (s.flag # "echo" => Gateway \in Cached')
      <3>1. \A s \in wire : s.flag # "echo" => Gateway \in Cached
        BY <1>1 DEF Heard
      <3>2. seg.port <= tcp.port + 1
        BY <1>2, <1>3
      <3>3. CASE Gateway \in Cached
        BY <1>2, <1>5, <1>9, <1>11, <3>2, <3>3
      <3>4. CASE Gateway \notin Cached
        BY <1>2, <1>5, <1>9, <1>11, <3>1, <3>4
      <3>5. QED
        BY <3>3, <3>4
    <2>2. \A p \in Conn : srv[p].syn \/ srv[p].req \/ srv[p].rst => p <= tcp.port + 1 /\ Gateway \in Cached
      <3>1. ASSUME NEW p \in Conn, p <= tcp.port PROVE p <= tcp.port + 1
        BY <1>2, <3>1, Bounds DEF Conn
      <3>2. QED
        BY <1>1, <3>1 DEF Heard
    <2>3. QED
      BY <1>2, <1>9, <2>1, <2>2 DEF Heard
  <1>13. Nested'
    BY <1>2, <1>3, <1>4, <1>8 DEF Nested
  <1>14. Progress'
    BY <1>2, <1>4, <1>8 DEF Progress
  <1>15. InStep'
    <2>1. got' \in Seq(Conn \X (1 .. Length)) /\ Len(got') = 0
      BY <1>2
    <2>2. \A s \in wire' : s.port = tcp'.port => s.flag # "ACK"
      BY <1>2, <1>3, <1>5, <1>11
    <2>3. QED
      BY <1>2, <2>1, <2>2 DEF InStep
  <1>16. Ends'
    BY <1>2, <1>4, <1>8, <1>10 DEF Ends
  <1>17. QED
    BY <1>9, <1>12, <1>13, <1>14, <1>15, <1>16 DEF NetInv

\* The server hears a segment or aborts.
LEMMA ServerKeeps ==
  ASSUME StackInv, NetInv, Server
  PROVE  NetInv'
  <1>1. Filled /\ Heard /\ Nested /\ Progress /\ InStep /\ Ends
    BY DEF NetInv
  <1>2. UNCHANGED <<cache, slot, buffer, tcp, calls, pc, got, wire>>
    BY ServerSteps DEF StackInv, kernel
  <1>3. Cached' = Cached /\ Filled' /\ (Finishing' <=> Finishing)
    BY <1>1, <1>2 DEF Cached, Filled, Finishing
  <1>4. Nested' /\ Progress' /\ InStep'
    BY <1>1, <1>2, <1>3 DEF Nested, Progress, InStep
  <1>5. Heard'
    <2>1. ASSUME NEW p \in Conn, srv'[p].syn \/ srv'[p].req \/ srv'[p].rst
          PROVE  p <= tcp.port /\ Gateway \in Cached
      <3>1. \/ srv[p].syn \/ srv[p].req \/ srv[p].rst
            \/ \E seg \in wire : seg.port = p /\ seg.flag # "echo"
        BY <2>1, ServerSteps DEF StackInv
      <3>2. QED
        BY <1>1, <3>1 DEF Heard
    <2>2. QED
      BY <1>1, <1>2, <1>3, <2>1 DEF Heard
  <1>6. \A p \in Conn : (srv[p].rst => srv'[p].rst) /\ (CanSend(p, Length) => CanSend(p, Length)')
    <2>1. ASSUME NEW p \in Conn
          PROVE  (srv[p].rst => srv'[p].rst) /\ (CanSend(p, Length) => CanSend(p, Length)')
      <3>1. /\ srv[p].rst => srv'[p].rst
            /\ srv[p].req => srv'[p].req
            /\ srv[p].acked <= srv'[p].acked
        BY ServerSteps DEF StackInv
      <3>2. srv[p].acked \in Nat /\ srv'[p].acked \in Nat
        BY ServerSteps DEF StackInv, Types, Server1
      <3>3. Length <= srv[p].acked + Window => Length <= srv'[p].acked + Window
        BY <3>1, <3>2, Bounds
      <3>4. QED
        BY <3>1, <3>3 DEF CanSend
    <2>2. QED
      BY <2>1
  <1>7. Ended(tcp.port) => Ended(tcp.port)'
    BY <1>2, <1>6 DEF Ended
  <1>8. Ends'
    <2>1. /\ Finishing' => Ended(tcp.port)'
          /\ calls' # <<>> /\ calls'[1].k = "data" /\ "FIN" \in buffer' => Ended(tcp.port)'
      BY <1>1, <1>2, <1>3, <1>7 DEF Ends
    <2>2. tcp'.peerClosed => tcp'.port \in Conn /\ (srv'[tcp'.port].rst \/ CanSend(tcp.port, Length)')
      BY <1>1, <1>2, <1>6 DEF Ends
    <2>3. QED
      BY <2>1, <2>2 DEF Ends
  <1>9. QED
    BY <1>3, <1>4, <1>5, <1>8 DEF NetInv

\* net_init: nothing is cached, no connection was opened.
LEMMA NetInit ==
  ASSUME Init
  PROVE  NetInv
  <1>1. /\ cache = [s \in 0 .. Slots - 1 |-> NoHost] /\ slot = 0 /\ buffer = {}
        /\ tcp.state = "closed" /\ tcp.port = 0 /\ tcp.peerClosed = FALSE /\ tcp.buf = NoData
        /\ calls = <<>> /\ pc = "idle" /\ got = <<>> /\ wire = {}
        /\ srv = [p \in Conn |-> [syn |-> FALSE, req |-> FALSE, rst |-> FALSE, acked |-> 0]]
    BY DEF Init
  <1>2. Filled
    BY <1>1, Bounds DEF Filled
  <1>3. Heard
    BY <1>1 DEF Heard
  <1>4. Nested
    BY <1>1 DEF Nested
  <1>5. Progress
    BY <1>1 DEF Progress
  <1>6. InStep
    <2>1. got \in Seq(Conn \X (1 .. Length)) /\ Len(got) = 0
      BY <1>1
    <2>2. QED
      BY <1>1, <2>1 DEF InStep
  <1>7. Ends
    BY <1>1 DEF Ends, Finishing
  <1>8. QED
    BY <1>2, <1>3, <1>4, <1>5, <1>6, <1>7 DEF NetInv

\* Every step keeps what the client and the server know of each other.
LEMMA NetNext ==
  ASSUME Room, StackInv, NetInv, [Next]_vars
  PROVE  NetInv'
  <1>1. CASE Poll
    BY <1>1, PollKeeps
  <1>2. CASE Resolved \/ ResolveFails
    BY <1>2, ResolvedKeeps
  <1>3. CASE AckDone \/ SynDone \/ RequestDone
    BY <1>3, SentKeeps
  <1>4. CASE DataDone
    BY <1>4, DataDoneKeeps
  <1>5. CASE FinDone
    BY <1>5, FinDoneKeeps
  <1>6. CASE EmptyPoll
    BY <1>6, EmptyKeeps
  <1>7. CASE ConnectCheck
    BY <1>7, CheckKeeps
  <1>8. CASE ConnectFails
    BY <1>8, FailsKeeps
  <1>9. CASE Take
    BY <1>9, TakeKeeps
  <1>10. CASE Connect
    BY <1>10, ConnectKeeps
  <1>11. CASE Server
    BY <1>11, ServerKeeps
  <1>12. CASE UNCHANGED vars
    BY <1>12 DEF vars, kernel, NetInv, Filled, Heard, Nested, Progress, InStep, Ends, Finishing,
                 Ended, CanSend, Cached
  <1>13. QED
    BY <1>1, <1>2, <1>3, <1>4, <1>5, <1>6, <1>7, <1>8, <1>9, <1>10, <1>11, <1>12 DEF Next, Step

\* Why both invariants hold from the start on.
THEOREM NetInvariant ==
  ASSUME Room
  PROVE  Spec => [](StackInv /\ NetInv)
  <1>1. Init => StackInv /\ NetInv
    BY StackInit, NetInit
  <1>2. StackInv /\ NetInv /\ [Next]_vars => (StackInv /\ NetInv)'
    BY StackNext, NetNext
  <1>3. QED
    BY <1>1, <1>2, PTL DEF Spec

\* tcp.c, tcp_handle_packet: the client takes the connection for closed by the peer only when
\* this connection's server has sent its FIN or a reset.
THEOREM PeersClose ==
  ASSUME Room
  PROVE  Spec => []ClosedByPeer
  <1>1. StackInv /\ NetInv => ClosedByPeer
    BY DEF NetInv, Ends, ClosedByPeer
  <1>2. QED
    BY <1>1, NetInvariant, PTL

\* While a caller reads, what the client has acknowledged was read or lies in the buffer.
LEMMA Acknowledged ==
  ASSUME StackInv, NetInv
  PROVE  AckedIsHeld
  <1>1. Filled /\ Heard /\ Nested /\ Progress /\ InStep /\ Ends
    BY DEF NetInv
  <1>2. SUFFICES ASSUME pc \in {"request_send", "read_poll", "read_take"}, NEW seg \in wire,
                        seg.flag = "ACK", seg.port = tcp.port, ~tcp.peerClosed,
                        Running \/ Top.k # "fin", NEW k \in 1 .. seg.ack - 1
                 PROVE  <<tcp.port, k>> = tcp.buf \/ \E i \in 1 .. Len(got) : got[i] = <<tcp.port, k>>
    BY DEF AckedIsHeld
  <1>3. tcp.state = "established"
    BY <1>1, <1>2 DEF Progress
  <1>4. ~Finishing
    <2>1. SUFFICES ASSUME Finishing PROVE FALSE
      OBVIOUS
    <2>2. calls # <<>> /\ calls[1].k = "fin"
      BY <2>1 DEF Finishing
    <2>3. Top = calls[1] \/ calls[1].k = "syn"
      BY <1>1, <2>2, Shape
    <2>4. QED
      BY <1>2, <2>2, <2>3 DEF Running
  <1>5. Len(got) \in Nat /\ \A i \in 1 .. Len(got) : got[i] = <<tcp.port, i>>
    BY <1>1 DEF InStep
  <1>6. seg.ack <= tcp.recvNext /\ seg.ack \in Nat /\ tcp.recvNext \in Nat
    BY <1>1, <1>2, <1>3, <1>4, TcpTypes DEF InStep, StackInv, Types, Segment1, SegmentSet
  <1>7. \/ tcp.recvNext = Len(got) + 1
        \/ tcp.recvNext = Len(got) + 2 /\ tcp.buf = <<tcp.port, Len(got) + 1>>
    <2>1. CASE pc = "request_send"
      <3>1. tcp.recvNext = 1 /\ got = <<>>
        BY <1>1, <1>3, <2>1 DEF Progress
      <3>2. Len(got) = 0
        BY <3>1
      <3>3. QED
        BY <3>1, <3>2
    <2>2. CASE pc \in {"read_poll", "read_take"}
      <3>1. tcp.recvNext = Len(got) + (IF tcp.buf = NoData THEN 1 ELSE 2)
        BY <1>1, <1>3, <1>4, <2>2 DEF Progress
      <3>2. tcp.buf # NoData => tcp.buf = <<tcp.port, Len(got) + 1>>
        BY <1>1, <2>2 DEF Progress
      <3>3. QED
        BY <3>1, <3>2
    <2>3. QED
      BY <1>2, <2>1, <2>2
  <1>8. k \in Nat /\ k >= 1 /\ k < tcp.recvNext
    BY <1>2, <1>6
  <1>9. CASE k <= Len(got)
    <2>1. k \in 1 .. Len(got)
      BY <1>5, <1>8, <1>9
    <2>2. QED
      BY <1>5, <2>1
  <1>10. CASE ~(k <= Len(got))
    <2>1. tcp.recvNext # Len(got) + 1
      BY <1>5, <1>8, <1>10
    <2>2. tcp.recvNext = Len(got) + 2 /\ tcp.buf = <<tcp.port, Len(got) + 1>>
      BY <1>7, <2>1
    <2>3. k = Len(got) + 1
      BY <1>5, <1>8, <1>10, <2>2
    <2>4. QED
      BY <2>2, <2>3
  <1>11. QED
    BY <1>9, <1>10

\* tcp.c, tcp_handle_packet: while a caller reads, what the client acknowledged, it holds.
THEOREM AcknowledgedIsHeld ==
  ASSUME Room
  PROVE  Spec => []AckedIsHeld
  <1>1. QED
    BY Acknowledged, NetInvariant, PTL

-----------------------------------------------------------------------------
(* The reader's view: ByteStream.                                          *)

\* net_init: nothing is opened and nothing is read.
LEMMA StreamInit ==
  ASSUME Init
  PROVE  Stream!Init
  BY DEF Init, Stream!Init

\* The steps that leave the reader's view alone.
LEMMA Unseen ==
  ASSUME StackInv, [Next]_vars, ~Connect, ~Take
  PROVE  tcp'.port = tcp.port /\ got' = got
  <1>1. tcp \in Tcp
    BY DEF StackInv, Types
  <1>2. CASE Poll
    <2>1. PICK m \in Frames : NetPoll(m) /\ got' = got
      BY <1>2 DEF Poll, ResolvePoll, CallerPoll
    <2>2. CASE m.kind # "tcp"
      BY <2>1, <2>2 DEF NetPoll
    <2>3. CASE TcpHandle(m)
      <3>1. CASE HandleData(m)
        <4> DEFINE b == <<m.port, m.seq>>
        <4>1. tcp' = [tcp EXCEPT !.buf = b, !.recvNext = tcp.recvNext + 1]
          BY <3>1 DEF HandleData
        <4> HIDE DEF b
        <4>2. QED
          BY <1>1, <2>1, <4>1 DEF Tcp
      <3>2. CASE HandleSynAck(m) \/ HandleReset(m) \/ HandleFin(m) \/ HandleOther(m)
        BY <1>1, <2>1, <3>2 DEF Tcp, HandleSynAck, HandleReset, HandleFin, HandleOther
      <3>3. QED
        BY <2>3, <3>1, <3>2 DEF TcpHandle
    <2>4. QED
      BY <2>1, <2>2, <2>3 DEF NetPoll
  <1>3. CASE Resolved \/ ResolveFails \/ AckDone \/ SynDone \/ RequestDone \/ EmptyPoll \/ ConnectCheck
    BY <1>3 DEF Resolved, ResolveFails, AckDone, SynDone, RequestDone, EmptyPoll, ConnectCheck
  <1>4. CASE DataDone \/ FinDone \/ ConnectFails
    BY <1>1, <1>4 DEF Tcp, DataDone, FinDone, ConnectFails
  <1>5. CASE Server \/ UNCHANGED vars
    BY <1>5, ServerSteps DEF vars, kernel, StackInv
  <1>6. QED
    BY <1>2, <1>3, <1>4, <1>5 DEF Next, Step

\* Each step opens the next connection, reads its next piece, or changes nothing a reader sees.
LEMMA StreamNext ==
  ASSUME Room, StackInv, NetInv, [Next]_vars
  PROVE  [Stream!Open \/ Stream!Read]_<<tcp.port, got>>
  <1>1. CASE Connect
    BY <1>1, ConnectFacts DEF Stream!Open
  <1>2. CASE Take
    <2>1. tcp'.port = tcp.port
      BY <1>2 DEF Take, StackInv, Types, Tcp
    <2>2. CASE tcp.buf # NoData
      <3>1. /\ got' = Append(got, <<tcp.port, Len(got) + 1>>)
            /\ Len(got) \in Nat /\ Len(got) + 1 <= Length
        BY <1>2, <2>2, Taken
      <3>2. Len(got) < Length
        BY <3>1, Bounds
      <3>3. QED
        BY <2>1, <3>1, <3>2 DEF Stream!Read
    <2>3. CASE tcp.buf = NoData
      BY <1>2, <2>1, <2>3 DEF Take
    <2>4. QED
      BY <2>2, <2>3
  <1>3. CASE ~Connect /\ ~Take
    BY <1>3, Unseen
  <1>4. QED
    BY <1>1, <1>2, <1>3

\* tcp.c, http.c: whoever reads from a connection reads what its server sent on it, in order and
\* each piece once, whatever the network loses, repeats or delays.
THEOREM ReadersSeeTheStream ==
  ASSUME Room
  PROVE  Spec => ImplementsStream
  <1>1. Init => Stream!Init
    BY StreamInit
  <1>2. StackInv /\ NetInv /\ [Next]_vars => [Stream!Open \/ Stream!Read]_<<tcp.port, got>>
    BY StreamNext
  <1>3. QED
    BY <1>1, <1>2, NetInvariant, PTL DEF Spec, ImplementsStream, Stream!Spec
================================================================================
