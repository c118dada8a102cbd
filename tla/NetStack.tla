------------------------------ MODULE NetStack ------------------------------
(***************************************************************************)
(* The polled network stack: net_poll and the handlers it calls, the ARP   *)
(* cache, arp_resolve, which calls net_poll again from inside a handler,   *)
(* the single TCP connection of tcp.c and the download loop of http.c.     *)
(*                                                                         *)
(* The network loses, repeats and reorders frames: the card may deliver    *)
(* any frame that was sent, at any poll, as often as it likes or never.    *)
(* One data segment is one piece; sequence numbers count pieces from the   *)
(* server's initial number, which the SYN occupies as 0.                   *)
(***************************************************************************)
EXTENDS Naturals, Sequences, FiniteSets

CONSTANTS
  Host,       \* neighbours on the local network
  Gateway,    \* the neighbour that leads to the server
  Slots,      \* ARP_CACHE_SIZE
  Length,     \* data segments of a response
  Window,     \* segments the server sends ahead of an acknowledgement
  Polite,     \* only neighbours the cache knows send echo requests
  MaxConns,   \* bound: connections
  MaxDepth    \* bound: sends waiting inside each other for an address

ASSUME NetAssumption ==
  /\ Gateway \in Host /\ "none" \notin Host
  /\ Slots \in Nat \ {0} /\ Length \in Nat \ {0} /\ Window \in Nat \ {0}
  /\ Polite \in BOOLEAN /\ MaxConns \in Nat /\ MaxDepth \in Nat \ {0}

VARIABLES
  cache, slot,   \* the ARP cache and next_cache_slot
  buffer,        \* net_poll's static frame: the bits at the place of the TCP flags
  tcp,           \* the static variables of tcp.c
  calls,         \* calls of ip_send that have not returned, innermost last
  pc,            \* where the caller of tcp.c is
  got,           \* what it has read from the connection
  wire,          \* segments sent to the server
  srv            \* the server's side of each connection

kernel == <<cache, slot, buffer, tcp, calls, pc, got, wire>>
vars == <<kernel, srv>>

NoHost == "none"
NoData == <<>>
Conn == 1 .. MaxConns
Cached == {cache[s] : s \in 0 .. Slots - 1}

-----------------------------------------------------------------------------
(* Frames the card may deliver.                                            *)

TcpFrame(p, s, f) == [kind |-> "tcp", port |-> p, seq |-> s, flags |-> f]
ArpFrame(h) == [kind |-> "arp", from |-> h, flags |-> {}]
\* The byte of an echo request that lies where the flags of a segment would.
EchoFrame(h, f) == [kind |-> "echo", from |-> h, flags |-> f]

CanSend(p, k) == srv[p].req /\ k <= srv[p].acked + Window

ServerFrames ==
  {TcpFrame(p, 0, {"SYN"}) : p \in {q \in Conn : srv[q].syn}}
  \cup {TcpFrame(p, 0, {"RST"}) : p \in {q \in Conn : srv[q].rst}}
  \cup {TcpFrame(p, Length, {"DATA", "FIN"}) : p \in {q \in Conn : CanSend(q, Length)}}
  \cup {TcpFrame(p, Length + 1, {"FIN"}) : p \in {q \in Conn : CanSend(q, Length)}}
  \cup UNION {{TcpFrame(p, k, {"DATA"}) : k \in {j \in 1 .. Length : CanSend(p, j)}} : p \in Conn}

NeighbourFrames ==
  {ArpFrame(h) : h \in Host}
  \cup {EchoFrame(h, f) : h \in (IF Polite THEN Host \cap Cached ELSE Host), f \in {{}, {"FIN"}}}

Frames == ServerFrames \cup NeighbourFrames

-----------------------------------------------------------------------------
(* Sending.  ip_send asks arp_resolve for the next hop; k is the statement *)
(* its caller goes on with when it returns.                                *)

Segment(f, p, n) == [flag |-> f, port |-> p, ack |-> n]
EchoReply == Segment("echo", 0, 0)

IpSend(seg, hop, k) ==
  /\ Len(calls) < MaxDepth
  /\ calls' = Append(calls, [k |-> k, seg |-> seg, hop |-> hop,
                             at |-> IF hop \in Cached THEN "sent" ELSE "wait"])
  /\ wire' = IF hop \in Cached THEN wire \cup {seg} ELSE wire

Top == calls[Len(calls)]
Below == SubSeq(calls, 1, Len(calls) - 1)
Waiting == calls # <<>> /\ Top.at = "wait"
Running == calls = <<>>

-----------------------------------------------------------------------------
(* Slips the runs have to notice, each a definition below with one change. *)

\* Insert that forgets the modulo.
InsertRunsOff(h) ==
  IF h \in Cached THEN UNCHANGED <<cache, slot>>
  ELSE cache' = [cache EXCEPT ![slot] = h] /\ slot' = slot + 1

\* InOrder that also takes what was taken before.
InOrderOrOld(m) == "DATA" \in m.flags /\ m.seq <= tcp.recvNext

\* InOrder that also takes what comes too early.
InOrderOrEarly(m) == "DATA" \in m.flags /\ m.seq >= tcp.recvNext

\* HandleSynAck without the comparison of the ports.
HandleSynAckAnyPort(m) ==
  /\ tcp.state = "syn_sent" /\ "SYN" \in m.flags
  /\ tcp' = [tcp EXCEPT !.recvNext = m.seq + 1, !.state = "established"]
  /\ IpSend(Segment("ACK", tcp.port, m.seq + 1), Gateway, "ack")

\* HandleReset without the comparison of the ports.
HandleResetAnyPort(m) ==
  /\ tcp.state = "established" /\ "RST" \in m.flags
  /\ tcp' = [tcp EXCEPT !.state = "closed", !.peerClosed = TRUE]
  /\ UNCHANGED <<calls, wire>>

-----------------------------------------------------------------------------
(* The handlers net_poll calls.                                            *)

\* arp_cache_insert; the reply to a request goes straight to the card.
Insert(h) ==
  IF h \in Cached THEN UNCHANGED <<cache, slot>>
  ELSE cache' = [cache EXCEPT ![slot] = h] /\ slot' = (slot + 1) % Slots

\* tcp_handle_packet while the SYN is out: whatever is not a SYN-ACK is dropped.
HandleSynAck(m) ==
  /\ m.port = tcp.port /\ tcp.state = "syn_sent" /\ "SYN" \in m.flags
  /\ tcp' = [tcp EXCEPT !.recvNext = m.seq + 1, !.state = "established"]
  /\ IpSend(Segment("ACK", tcp.port, m.seq + 1), Gateway, "ack")

Open == tcp.state = "established"

HandleReset(m) ==
  /\ m.port = tcp.port /\ Open /\ "RST" \in m.flags
  /\ tcp' = [tcp EXCEPT !.state = "closed", !.peerClosed = TRUE]
  /\ UNCHANGED <<calls, wire>>

InOrder(m) == "DATA" \in m.flags /\ m.seq = tcp.recvNext

\* The next segment overwrites the receive buffer and is acknowledged.
HandleData(m) ==
  /\ m.port = tcp.port /\ Open /\ "RST" \notin m.flags /\ InOrder(m)
  /\ tcp' = [tcp EXCEPT !.buf = <<m.port, m.seq>>, !.recvNext = @ + 1]
  /\ IpSend(Segment("ACK", tcp.port, tcp.recvNext + 1), Gateway, "data")

\* A FIN is taken whatever its sequence number is.
HandleFin(m) ==
  /\ m.port = tcp.port /\ Open /\ "RST" \notin m.flags /\ ~InOrder(m) /\ "FIN" \in m.flags
  /\ tcp' = [tcp EXCEPT !.recvNext = @ + 1]
  /\ IpSend(Segment("ACK", tcp.port, tcp.recvNext + 1), Gateway, "fin")

HandleOther(m) ==
  /\ \/ m.port # tcp.port
     \/ tcp.state = "closed"
     \/ tcp.state = "syn_sent" /\ "SYN" \notin m.flags
     \/ Open /\ m.flags \cap {"RST", "FIN"} = {} /\ ~InOrder(m)
  /\ UNCHANGED <<tcp, calls, wire>>

TcpHandle(m) ==
  HandleSynAck(m) \/ HandleReset(m) \/ HandleData(m) \/ HandleFin(m) \/ HandleOther(m)

\* net_poll with a frame: the buffer is static, whoever is still reading it.
NetPoll(m) ==
  /\ buffer' = m.flags
  /\ \/ m.kind = "arp" /\ Insert(m.from) /\ UNCHANGED <<tcp, calls, wire>>
     \/ m.kind = "echo" /\ IpSend(EchoReply, m.from, "echo") /\ UNCHANGED <<cache, slot, tcp>>
     \/ m.kind = "tcp" /\ TcpHandle(m) /\ UNCHANGED <<cache, slot>>

-----------------------------------------------------------------------------
(* arp_resolve: the cache is looked up after every poll.                   *)

Return(o) == calls' = Append(Below, [Top EXCEPT !.at = o])

Resolved ==
  /\ Waiting /\ Top.hop \in Cached
  /\ Return("sent") /\ wire' = wire \cup {Top.seg}
  /\ UNCHANGED <<cache, slot, buffer, tcp, pc, got, srv>>

ResolvePoll(m) ==
  /\ Waiting /\ Top.hop \notin Cached
  /\ NetPoll(m)
  /\ UNCHANGED <<pc, got, srv>>

\* ARP_RESOLVE_ATTEMPTS polls went by.
ResolveFails ==
  /\ Waiting /\ Top.hop \notin Cached
  /\ Return("failed")
  /\ UNCHANGED <<cache, slot, buffer, tcp, pc, got, wire, srv>>

-----------------------------------------------------------------------------
(* What the callers of ip_send do when it returns.                         *)

Back(k) == calls # <<>> /\ Top.at # "wait" /\ Top.k = k

AckDone ==
  /\ Back("ack") \/ Back("echo")
  /\ calls' = Below
  /\ UNCHANGED <<cache, slot, buffer, tcp, pc, got, wire, srv>>

\* tcp.c:170 reads the flags in the frame buffer again.
DataDone ==
  /\ Back("data")
  /\ IF "FIN" \in buffer
       THEN /\ tcp' = [tcp EXCEPT !.recvNext = @ + 1]
            /\ LET seg == Segment("ACK", tcp.port, tcp.recvNext + 1)
                   now == Gateway \in Cached
               IN  /\ calls' = Append(Below, [k |-> "fin", seg |-> seg, hop |-> Gateway,
                                              at |-> IF now THEN "sent" ELSE "wait"])
                   /\ wire' = IF now THEN wire \cup {seg} ELSE wire
       ELSE calls' = Below /\ UNCHANGED <<tcp, wire>>
  /\ UNCHANGED <<cache, slot, buffer, pc, got, srv>>

FinDone ==
  /\ Back("fin")
  /\ calls' = Below
  /\ tcp' = [tcp EXCEPT !.peerClosed = TRUE, !.state = "closed"]
  /\ UNCHANGED <<cache, slot, buffer, pc, got, wire, srv>>

SynDone ==
  /\ Back("syn")
  /\ calls' = Below /\ pc' = "connect_poll"
  /\ UNCHANGED <<cache, slot, buffer, tcp, got, wire, srv>>

\* http_get_to_fd goes on to read; tls_connect, whose pump never polls, gives up and
\* leaves the connection open.
RequestDone ==
  /\ Back("request")
  /\ calls' = Below
  /\ pc' \in {"read_poll", "idle"}
  /\ UNCHANGED <<cache, slot, buffer, tcp, got, wire, srv>>

-----------------------------------------------------------------------------
(* tcp_connect, http_get_to_fd and the shell that polls while it is idle.  *)

IsClosed == tcp.peerClosed \/ tcp.state = "closed"

Connect ==
  /\ pc = "idle" /\ Running /\ tcp.port < MaxConns
  /\ tcp' = [state |-> "syn_sent", port |-> tcp.port + 1, recvNext |-> 0,
             peerClosed |-> FALSE, buf |-> NoData]
  /\ got' = <<>> /\ pc' = "connect_send"
  /\ IpSend(Segment("SYN", tcp.port + 1, 0), Gateway, "syn")
  /\ UNCHANGED <<cache, slot, buffer, srv>>

After == [idle |-> "idle", connect_poll |-> "connect_check", read_poll |-> "read_take"]

\* One poll by keyboard_read_char or by tcp_wait_activity, with a frame ...
CallerPoll(m) ==
  /\ pc \in DOMAIN After /\ Running
  /\ NetPoll(m)
  /\ pc' = After[pc]
  /\ UNCHANGED <<got, srv>>

\* ... and with an empty ring.
EmptyPoll ==
  /\ pc \in {"connect_poll", "read_poll"} /\ Running
  /\ pc' = After[pc]
  /\ UNCHANGED <<cache, slot, buffer, tcp, calls, got, wire, srv>>

ConnectCheck ==
  /\ pc = "connect_check" /\ Running
  /\ IF tcp.state = "established"
       THEN /\ IpSend(Segment("REQ", tcp.port, tcp.recvNext), Gateway, "request")
            /\ pc' = "request_send"
       ELSE pc' = "connect_poll" /\ UNCHANGED <<calls, wire>>
  /\ UNCHANGED <<cache, slot, buffer, tcp, got, srv>>

\* TCP_CONNECT_ATTEMPTS polls went by.
ConnectFails ==
  /\ pc = "connect_check" /\ Running /\ tcp.state # "established"
  /\ tcp' = [tcp EXCEPT !.state = "closed"] /\ pc' = "idle"
  /\ UNCHANGED <<cache, slot, buffer, calls, got, wire, srv>>

\* tcp_receive, and the end of the loop when nothing came and the peer is gone.
Take ==
  /\ pc = "read_take" /\ Running
  /\ IF tcp.buf # NoData
       THEN got' = Append(got, tcp.buf) /\ tcp' = [tcp EXCEPT !.buf = NoData]
       ELSE UNCHANGED <<got, tcp>>
  /\ pc' = IF tcp.buf = NoData /\ IsClosed THEN "idle" ELSE "read_poll"
  /\ UNCHANGED <<cache, slot, buffer, calls, wire, srv>>

-----------------------------------------------------------------------------
(* The server: it answers what it receives and sends again whatever it     *)
(* likes.                                                                  *)

Learned(s, seg) ==
  CASE seg.flag = "SYN" -> [s EXCEPT !.syn = TRUE]
    [] seg.flag = "REQ" -> [s EXCEPT !.req = TRUE]
    [] seg.flag = "ACK" -> [s EXCEPT !.acked = IF @ < seg.ack - 1 THEN seg.ack - 1 ELSE @]

ServerReceive(seg) ==
  /\ seg \in wire /\ seg.port \in Conn
  /\ srv' = [srv EXCEPT ![seg.port] = Learned(@, seg)]
  /\ UNCHANGED kernel

ServerAborts(p) ==
  /\ srv[p].syn /\ ~srv[p].rst
  /\ srv' = [srv EXCEPT ![p].rst = TRUE]
  /\ UNCHANGED kernel

-----------------------------------------------------------------------------
Init ==
  /\ cache = [s \in 0 .. Slots - 1 |-> NoHost] /\ slot = 0
  /\ buffer = {}
  /\ tcp = [state |-> "closed", port |-> 0, recvNext |-> 0, peerClosed |-> FALSE, buf |-> NoData]
  /\ calls = <<>> /\ pc = "idle" /\ got = <<>> /\ wire = {}
  /\ srv = [p \in Conn |-> [syn |-> FALSE, req |-> FALSE, rst |-> FALSE, acked |-> 0]]

Step ==
  \/ Resolved \/ ResolveFails
  \/ AckDone \/ DataDone \/ FinDone \/ SynDone \/ RequestDone
  \/ EmptyPoll \/ ConnectCheck \/ ConnectFails \/ Take

Poll == \E m \in Frames : ResolvePoll(m) \/ CallerPoll(m)

Server == (\E seg \in wire : ServerReceive(seg)) \/ (\E p \in Conn : ServerAborts(p))

Next == Step \/ Poll \/ Connect \/ Server

Spec == Init /\ [][Next]_vars
-----------------------------------------------------------------------------
(* What has to hold.                                                       *)

Callers == {"ack", "echo", "data", "fin", "syn", "request"}
Handlers == {"ack", "echo", "data", "fin"}
SegmentSet == [flag : {"SYN", "REQ", "ACK", "echo"}, port : Nat, ack : Nat]

\* The variables keep their types; of the calls inside each other only the innermost
\* may have an answer; and when the peer has closed, the state says so, which is
\* why the tcp_close at the end of a download finds nothing to do.
TypeOK ==
  /\ cache \in [0 .. Slots - 1 -> Host \cup {NoHost}] /\ slot \in 0 .. Slots - 1
  /\ buffer \subseteq {"SYN", "RST", "DATA", "FIN"}
  /\ tcp.state \in {"closed", "syn_sent", "established"}
  /\ tcp.port \in 0 .. MaxConns /\ tcp.recvNext \in Nat /\ tcp.peerClosed \in BOOLEAN
  /\ tcp.peerClosed => tcp.state = "closed"
  /\ tcp.buf = NoData \/ tcp.buf \in Conn \X (1 .. Length)
  /\ calls \in Seq([k : Callers, seg : SegmentSet, hop : Host, at : {"wait", "sent", "failed"}])
  /\ \A i \in 1 .. Len(calls) - 1 : calls[i].at = "wait"
  /\ pc \in {"idle", "connect_send", "connect_poll", "connect_check", "request_send",
             "read_poll", "read_take"}
  /\ wire \subseteq SegmentSet
  /\ srv \in [Conn -> [syn : BOOLEAN, req : BOOLEAN, rst : BOOLEAN, acked : Nat]]

\* What a caller reads is the server's data of this connection, in order, each
\* segment once, whatever the network loses, repeats or delays.
Stream == INSTANCE ByteStream WITH conn <- tcp.port, read <- got
ImplementsStream == Stream!Spec

\* While a caller reads, every segment the client acknowledged was read or lies in
\* the receive buffer, until a FIN, which counts wherever it comes, is handled.
AckedIsHeld ==
  pc \in {"request_send", "read_poll", "read_take"} => \A seg \in wire :
    (seg.flag = "ACK" /\ seg.port = tcp.port /\ ~tcp.peerClosed
       /\ (Running \/ Top.k # "fin")) =>
      \A k \in 1 .. seg.ack - 1 :
        <<tcp.port, k>> = tcp.buf \/ \E i \in 1 .. Len(got) : got[i] = <<tcp.port, k>>

\* The client takes the connection for closed by the peer only when this
\* connection's server has sent its FIN or a reset.
ClosedByPeer ==
  tcp.peerClosed => tcp.port \in Conn /\ (srv[tcp.port].rst \/ CanSend(tcp.port, Length))

\* The client's connection is open only if the server has this connection too:
\* an answer to an earlier SYN never opens the next connection.
BothKnow == Open => tcp.port \in Conn /\ srv[tcp.port].syn

\* eth.h:18: net_poll "pumps at most one received frame through the stack": no
\* frame is handled while the handler of another one has not returned.
OneFramePerPoll ==
  \A i, j \in 1 .. Len(calls) : i < j => calls[i].k \notin Handlers \/ calls[j].k \notin Handlers
=============================================================================
