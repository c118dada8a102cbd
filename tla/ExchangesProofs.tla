---------------------------- MODULE ExchangesProofs ----------------------------
(***************************************************************************)
(* Module Exchanges takes no answer for what it is not, for every set of   *)
(* servers, addresses and hosts and every number of attempts, unless the   *)
(* answer is to another exchange.                                          *)
(***************************************************************************)
EXTENDS Exchanges, TLAPS

\* What a packet that may arrive says.
PacketOK(m) ==
  /\ m.kind \in {"offer", "ack", "nak", "answer", "echo"} /\ m.re \in 0 .. now
  /\ IsDhcp(m) => m.a \in Address \cup {NoAddress}

\* Acknowledgements to this boot are for the address that was asked for, and it is leased;
\* before the request is out there are none.
AckOK(m) ==
  m.kind = "ack" /\ m.re = now =>
    pc # "offer" /\ (pc = "ack" => m.a = op.a /\ op.a \in Address /\ lease[op.a] = Me)

\* A reply to this ping comes from its host, and none is there before the request is out.
EchoOK(m) ==
  m.kind = "echo" /\ m.re = now => pc # "sending" /\ (pc = "ping" => m.from = op.host)

Packets ==
  /\ \A m \in air : PacketOK(m) /\ AckOK(m) /\ EchoOK(m)
  /\ slot # Empty => PacketOK(slot) /\ AckOK(slot)

\* A flag that was set before the wait is that of another ping.
Flag ==
  /\ echo \in [pending : BOOLEAN, received : BOOLEAN]
  /\ echo.received /\ (pc = "ping" \/ (pc = "sending" /\ op.about = "ping")) => strayed

Leases ==
  /\ lease \in [Address -> {Free, Me, Other}]
  /\ pc = "ack" => op.a \in Address \cup {NoAddress}

\* Only an exchange that is over has an outcome of these, and none has the number of the
\* other machine's.
Outcome ==
  /\ outcome.result \in {"configured", "reply"} => pc = "idle"
  /\ outcome.result = "configured" /\ ~strayed => outcome.about.a \in Address
  /\ pc # "off" => now > OtherExchange

ExchangeInv ==
  TypeOK /\ Packets /\ Flag /\ Leases /\ Outcome /\ AddressIsLeased /\ PingIsAnswered
-----------------------------------------------------------------------------
(* One poll.                                                               *)

\* What a poll brings: a packet that is in the air, or nothing.
LEMMA Arrival ==
  ASSUME ExchangeInv, NEW m \in Arriving
  PROVE  /\ m = Nothing \/ (m \in air /\ m.kind # "nothing")
         /\ m.kind # "nothing" => m \in air /\ PacketOK(m) /\ AckOK(m) /\ EchoOK(m)
         /\ ~Udp(Nothing) /\ Nothing.kind = "nothing"
  <1>1. m = Nothing \/ m \in air
    BY DEF Arriving
  <1>2. Nothing.kind = "nothing" /\ ~Udp(Nothing)
    BY DEF Nothing, Udp, IsDhcp, Recognised
  <1>3. \A x \in air : PacketOK(x) /\ AckOK(x) /\ EchoOK(x) /\ x.kind # "nothing"
    BY DEF ExchangeInv, Packets, PacketOK
  <1>4. QED
    BY <1>1, <1>2, <1>3

\* udp_handle_packet: what is in the slot then is still a packet as any.
LEMMA SlotHolds ==
  ASSUME ExchangeInv, NEW m \in Arriving
  PROVE  /\ SlotAfter(m) = Empty \/ Udp(SlotAfter(m))
         /\ SlotAfter(m) # Empty => PacketOK(SlotAfter(m)) /\ AckOK(SlotAfter(m))
  <1>1. CASE Udp(m)
    <2>1. m.kind # "nothing" /\ SlotAfter(m) = m
      BY <1>1 DEF Udp, IsDhcp, Recognised, SlotAfter
    <2>2. QED
      BY <1>1, <2>1, Arrival
  <1>2. CASE ~Udp(m)
    <2>1. SlotAfter(m) = slot
      BY <1>2 DEF SlotAfter
    <2>2. QED
      BY <2>1 DEF ExchangeInv, Packets, TypeOK
  <1>3. QED
    BY <1>1, <1>2

\* icmp_handle_packet: the flag goes up for a reply only, and only while one is awaited.
LEMMA FlagAfter ==
  ASSUME ExchangeInv, NEW m \in Arriving
  PROVE  /\ EchoAfter(m) \in [pending : BOOLEAN, received : BOOLEAN]
         /\ EchoAfter(m).received => EchoAfter(m).pending
         /\ EchoAfter(m) # echo => m \in air /\ m.kind = "echo" /\ EchoOK(m)
  <1>1. echo \in [pending : BOOLEAN, received : BOOLEAN] /\ (echo.received => echo.pending)
    BY DEF ExchangeInv, Flag, TypeOK
  <1>2. CASE m.kind = "echo" /\ echo.pending
    <2>1. EchoAfter(m) = [echo EXCEPT !.received = TRUE]
      BY <1>2 DEF EchoAfter
    <2>2. QED
      BY <1>1, <1>2, <2>1, Arrival
  <1>3. CASE ~(m.kind = "echo" /\ echo.pending)
    <2>1. EchoAfter(m) = echo
      BY <1>3 DEF EchoAfter
    <2>2. QED
      BY <1>1, <2>1
  <1>4. QED
    BY <1>2, <1>3

\* A step that sends nothing and leaves the leases alone keeps what is known of the
\* packets, once the wait it leads to is one that they allow.
LEMMA PacketsStay ==
  ASSUME ExchangeInv, UNCHANGED <<network, now>>,
         \/ pc' \notin {"offer", "ack", "sending", "ping"}
         \/ UNCHANGED <<pc, op>>,
         NEW s, s = slot', s # Empty => PacketOK(s) /\ AckOK(s)
  PROVE  Packets' /\ Leases'
  <1>1. ASSUME NEW m, PacketOK(m) PROVE PacketOK(m)'
    BY <1>1 DEF PacketOK, IsDhcp
  <1>2. ASSUME NEW m, AckOK(m) PROVE AckOK(m)'
    BY <1>2 DEF AckOK, network
  <1>3. ASSUME NEW m, EchoOK(m) PROVE EchoOK(m)'
    BY <1>3 DEF EchoOK
  <1>4. \A m \in air' : PacketOK(m)' /\ AckOK(m)' /\ EchoOK(m)'
    BY <1>1, <1>2, <1>3 DEF ExchangeInv, Packets, network
  <1>5. s # Empty => PacketOK(s)' /\ AckOK(s)'
    BY <1>1, <1>2
  <1>6. slot' # Empty => PacketOK(slot)' /\ AckOK(slot)'
    BY <1>5 DEF PacketOK, AckOK, IsDhcp
  <1>7. Leases'
    BY DEF ExchangeInv, Leases, network
  <1>8. QED
    BY <1>4, <1>6, <1>7 DEF Packets
-----------------------------------------------------------------------------
(* The steps.                                                              *)

\* The end of an exchange: nothing is awaited.
LEMMA EndsFacts ==
  ASSUME NEW r, NEW about, Ends(Result(r, about))
  PROVE  /\ pc' = "idle" /\ attempts' = 0 /\ outcome'.result = r /\ outcome'.about = about
  BY DEF Ends, Result

\* A poll that finds nothing it wants.
LEMMA UnwantedKeeps ==
  ASSUME ExchangeInv, NEW m \in Arriving, attempts > 0, Unwanted(m),
         pc \in {"offer", "ack", "lookup"},
         UNCHANGED <<address, pc, op, outcome, network, now, strayed>>
  PROVE  ExchangeInv'
  <1>1. slot' = Empty /\ echo' = EchoAfter(m) /\ attempts' = attempts - 1
    BY DEF Unwanted
  <1>2. Packets' /\ Leases'
    BY <1>1, PacketsStay
  <1>3. Flag'
    BY <1>1, FlagAfter DEF Flag
  <1>4. TypeOK'
    BY <1>1, FlagAfter, ExchangesAssumption DEF ExchangeInv, TypeOK
  <1>5. Outcome' /\ AddressIsLeased' /\ PingIsAnswered'
    BY DEF ExchangeInv, Outcome, AddressIsLeased, PingIsAnswered, network
  <1>6. QED
    BY <1>2, <1>3, <1>4, <1>5 DEF ExchangeInv

\* dhcp_configure: the request goes out for what the offer names; nothing of this boot has
\* acknowledged anything yet, so what comes back is for that.
LEMMA RequestPackets ==
  ASSUME ExchangeInv, pc = "offer", NEW a \in Address \cup {NoAddress}, NEW s, Request(a, s),
         pc' = "ack", op' = [about |-> "dhcp", a |-> a], slot' = Empty, now' = now
  PROVE  Packets' /\ Leases'
  <1>1. now \in Nat
    BY ExchangesAssumption DEF ExchangeInv, TypeOK
  <1>2. \A m \in air : PacketOK(m) /\ m.re = now => m.kind # "ack"
    BY DEF ExchangeInv, Packets, AckOK
  <1>3. ASSUME NEW m, PacketOK(m) PROVE PacketOK(m)'
    BY <1>3 DEF PacketOK, IsDhcp
  <1>4. ASSUME NEW m \in air PROVE PacketOK(m)' /\ AckOK(m)' /\ EchoOK(m)'
    <2>1. PacketOK(m) /\ (m.re = now => m.kind # "ack")
      BY <1>2 DEF ExchangeInv, Packets
    <2>2. QED
      BY <1>3, <2>1 DEF AckOK, EchoOK
  <1>5. op'.a = a
    OBVIOUS
  <1>6. CASE UNCHANGED network
    BY <1>4, <1>6 DEF network, Packets, Leases, ExchangeInv
  <1>7. ASSUME a \in {b \in Address : ServerOf[b] = s /\ lease[b] \in {Free, Me}},
               lease' = [lease EXCEPT ![a] = Me], air' = air \cup {Dhcp("ack", a, s, now)}
        PROVE  Packets' /\ Leases'
    <2>1. a \in Address /\ lease' \in [Address -> {Free, Me, Other}] /\ lease'[a] = Me
      BY <1>7 DEF ExchangeInv, Leases
    <2> DEFINE d == Dhcp("ack", a, s, now)
    <2>2. d.kind = "ack" /\ d.a = a /\ d.re = now
      BY DEF Dhcp
    <2> HIDE DEF d
    <2>3. \A m : m = d => PacketOK(m)' /\ AckOK(m)' /\ EchoOK(m)'
      BY <1>1, <1>5, <2>1, <2>2 DEF PacketOK, AckOK, EchoOK, IsDhcp
    <2>4. air' = air \cup {d}
      BY <1>7 DEF d
    <2>5. Packets'
      BY <1>4, <2>3, <2>4 DEF Packets
    <2>6. QED
      BY <1>5, <2>1, <2>5 DEF Leases
  <1>8. ASSUME air' = air \cup {Dhcp("nak", NoAddress, s, now)}, lease' = lease
        PROVE  Packets' /\ Leases'
    <2> DEFINE d == Dhcp("nak", NoAddress, s, now)
    <2>2. d.kind = "nak" /\ d.a = NoAddress /\ d.re = now
      BY DEF Dhcp
    <2> HIDE DEF d
    <2>3. \A m : m = d => PacketOK(m)' /\ AckOK(m)' /\ EchoOK(m)'
      BY <1>1, <2>2 DEF PacketOK, AckOK, EchoOK, IsDhcp
    <2>4. air' = air \cup {d}
      BY <1>8 DEF d
    <2>5. Packets'
      BY <1>4, <2>3, <2>4 DEF Packets
    <2>6. QED
      BY <1>5, <1>8, <2>5 DEF Leases, ExchangeInv
  <1>9. QED
    BY <1>6, <1>7, <1>8 DEF Request

\* net_dhcp: the first wait.
LEMMA PollOfferKeeps ==
  ASSUME ExchangeInv, NEW m \in Arriving, PollOffer(m)
  PROVE  ExchangeInv'
  <1> DEFINE got == SlotAfter(m)
  <1>1. CASE ~Offered(got)
    BY <1>1, UnwantedKeeps DEF PollOffer
  <1>2. CASE Offered(got)
    <2>1. /\ pc = "offer" /\ pc' = "ack" /\ attempts' = Attempts
          /\ op' = [about |-> "dhcp", a |-> got.a] /\ Request(got.a, got.from)
          /\ strayed' = Strays(got) /\ slot' = Empty /\ echo' = EchoAfter(m)
          /\ UNCHANGED <<address, outcome, now>>
      BY <1>2 DEF PollOffer
    <2> HIDE DEF got
    <2>2. got # Empty /\ got.kind \in {"offer", "ack", "nak"} /\ got.a \in Address \cup {NoAddress}
      BY <1>2, SlotHolds DEF got, Offered, IsDhcp, PacketOK, Empty, Nothing
    <2>3. Packets' /\ Leases'
      BY <2>1, <2>2, RequestPackets
    <2>4. Flag'
      BY <2>1, FlagAfter DEF Flag
    <2>5. strayed' \in BOOLEAN
      BY <2>1 DEF Strays, ExchangeInv, TypeOK
    <2>6. TypeOK'
      BY <2>1, <2>5, FlagAfter, ExchangesAssumption DEF ExchangeInv, TypeOK
    <2>7. outcome.result \notin {"configured", "reply"}
      BY <2>1 DEF ExchangeInv, Outcome
    <2>8. Outcome' /\ AddressIsLeased' /\ PingIsAnswered'
      BY <2>1, <2>7 DEF ExchangeInv, Outcome, AddressIsLeased, PingIsAnswered
    <2>9. QED
      BY <2>3, <2>4, <2>6, <2>8 DEF ExchangeInv
  <1>3. QED
    BY <1>1, <1>2

\* The second: what acknowledges this boot acknowledges what it asked for.
LEMMA PollAckKeeps ==
  ASSUME ExchangeInv, NEW m \in Arriving, PollAck(m)
  PROVE  ExchangeInv'
  <1> DEFINE got == SlotAfter(m)
  <1>1. CASE ~Acknowledged(got)
    BY <1>1, UnwantedKeeps DEF PollAck
  <1>2. CASE Acknowledged(got)
    <2>1. /\ pc = "ack" /\ address' = op.a /\ strayed' = Strays(got)
          /\ Ends(Result("configured", op)) /\ slot' = Empty /\ echo' = EchoAfter(m)
          /\ UNCHANGED <<network, now>>
      BY <1>2 DEF PollAck
    <2> HIDE DEF got
    <2>2. /\ pc' = "idle" /\ attempts' = 0 /\ outcome'.result = "configured" /\ outcome'.about = op
      BY <2>1, EndsFacts
    <2>3. Packets' /\ Leases'
      BY <2>1, <2>2, PacketsStay
    <2>4. Flag'
      BY <2>1, <2>2, FlagAfter DEF Flag
    <2>5. strayed' \in BOOLEAN /\ op.a \in Address \cup {NoAddress}
      BY <2>1 DEF Strays, ExchangeInv, TypeOK, Leases
    <2>6. TypeOK'
      BY <2>1, <2>2, <2>5, FlagAfter, ExchangesAssumption DEF ExchangeInv, TypeOK
    <2>7. ~strayed' => op.a \in Address /\ lease[op.a] = Me
      <3>1. got # Empty /\ got.kind = "ack" /\ AckOK(got)
        BY <1>2, SlotHolds DEF got, Acknowledged, Empty, Nothing
      <3>2. ~strayed' => got.re = now
        BY <2>1 DEF Strays
      <3>3. QED
        BY <2>1, <3>1, <3>2 DEF AckOK
    <2>8. Outcome' /\ AddressIsLeased' /\ PingIsAnswered'
      BY <2>1, <2>2, <2>7 DEF ExchangeInv, Outcome, AddressIsLeased, PingIsAnswered, network
    <2>9. QED
      BY <2>3, <2>4, <2>6, <2>8 DEF ExchangeInv
  <1>3. QED
    BY <1>1, <1>2

\* net_dns_query: whatever the answer, no address comes of it.
LEMMA PollAnswerKeeps ==
  ASSUME ExchangeInv, NEW m \in Arriving, PollAnswer(m)
  PROVE  ExchangeInv'
  <1> DEFINE got == SlotAfter(m)
  <1>1. CASE ~Recognised(got)
    BY <1>1, UnwantedKeeps DEF PollAnswer
  <1>2. CASE Recognised(got)
    <2>1. /\ pc = "lookup" /\ strayed' = Strays(got)
          /\ Ends(Result("unknown", op)) /\ slot' = Empty /\ echo' = EchoAfter(m)
          /\ UNCHANGED <<address, network, now>>
      BY <1>2 DEF PollAnswer
    <2> HIDE DEF got
    <2>2. /\ pc' = "idle" /\ attempts' = 0 /\ outcome'.result = "unknown" /\ outcome'.about = op
      BY <2>1, EndsFacts
    <2>3. Packets' /\ Leases'
      BY <2>1, <2>2, PacketsStay
    <2>4. Flag'
      BY <2>1, <2>2, FlagAfter DEF Flag
    <2>5. strayed' \in BOOLEAN
      BY <2>1 DEF Strays, ExchangeInv, TypeOK
    <2>6. TypeOK'
      BY <2>1, <2>2, <2>5, FlagAfter, ExchangesAssumption DEF ExchangeInv, TypeOK
    <2>7. Outcome' /\ AddressIsLeased' /\ PingIsAnswered'
      BY <2>1, <2>2 DEF ExchangeInv, Outcome, AddressIsLeased, PingIsAnswered
    <2>8. QED
      BY <2>3, <2>4, <2>6, <2>7 DEF ExchangeInv
  <1>3. QED
    BY <1>1, <1>2

\* icmp_wait_echo_reply: the reply is there, or the flag was set before and that is known.
LEMMA PollPingKeeps ==
  ASSUME ExchangeInv, NEW m \in Arriving, PollPing(m)
  PROVE  ExchangeInv'
  <1>1. /\ pc = "ping" /\ attempts > 0 /\ slot' = SlotAfter(m) /\ echo' = EchoAfter(m)
        /\ strayed' = IF echo' # echo THEN Strays(m) ELSE strayed
        /\ UNCHANGED <<address, network, now>>
    BY DEF PollPing
  <1>2. slot' = Empty \/ Udp(slot')
    BY <1>1, SlotHolds
  <1>3. strayed' \in BOOLEAN
    BY <1>1 DEF Strays, ExchangeInv, TypeOK
  <1>4. CASE echo'.received
    <2>1. /\ pc' = "idle" /\ attempts' = 0 /\ outcome'.result = "reply" /\ outcome'.about = op
      BY <1>4, EndsFacts DEF PollPing
    <2>2. Packets' /\ Leases'
      BY <1>1, <2>1, PacketsStay, SlotHolds
    <2>3. Flag'
      BY <1>1, <2>1, FlagAfter DEF Flag
    <2>4. TypeOK'
      BY <1>1, <1>2, <1>3, <2>1, FlagAfter, ExchangesAssumption DEF ExchangeInv, TypeOK, Udp, IsDhcp, Recognised
    <2>5. ~strayed' => \E x \in air : x.kind = "echo" /\ x.from = op.host /\ x.re = now
      <3>1. CASE echo' = echo
        BY <1>1, <1>4, <3>1 DEF ExchangeInv, Flag
      <3>2. CASE echo' # echo
        <4>1. m \in air /\ m.kind = "echo" /\ EchoOK(m)
          BY <1>1, <3>2, FlagAfter
        <4>2. ~strayed' => m.re = now
          BY <1>1, <3>2 DEF Strays
        <4>3. QED
          BY <1>1, <4>1, <4>2 DEF EchoOK
      <3>3. QED
        BY <3>1, <3>2
    <2>6. Outcome' /\ AddressIsLeased' /\ PingIsAnswered'
      BY <1>1, <2>1, <2>5 DEF ExchangeInv, Outcome, AddressIsLeased, PingIsAnswered, network
    <2>7. QED
      BY <2>2, <2>3, <2>4, <2>6 DEF ExchangeInv
  <1>5. CASE ~echo'.received
    <2>1. attempts' = attempts - 1 /\ UNCHANGED <<pc, op, outcome>>
      BY <1>5 DEF PollPing
    <2>2. Packets' /\ Leases'
      BY <1>1, <2>1, PacketsStay, SlotHolds
    <2>3. Flag'
      BY <1>1, <1>5, FlagAfter DEF Flag
    <2>4. TypeOK'
      BY <1>1, <1>2, <1>3, <2>1, FlagAfter, ExchangesAssumption DEF ExchangeInv, TypeOK, Udp, IsDhcp, Recognised
    <2>5. outcome.result \notin {"configured", "reply"}
      BY <1>1 DEF ExchangeInv, Outcome
    <2>6. Outcome' /\ AddressIsLeased' /\ PingIsAnswered'
      BY <1>1, <2>1, <2>5 DEF ExchangeInv, Outcome, AddressIsLeased, PingIsAnswered
    <2>7. QED
      BY <2>2, <2>3, <2>4, <2>6 DEF ExchangeInv
  <1>6. QED
    BY <1>4, <1>5

\* net_poll outside a wait.
LEMMA IdlePollKeeps ==
  ASSUME ExchangeInv, NEW m \in Arriving, IdlePoll(m)
  PROVE  ExchangeInv'
  <1>1. /\ pc \in {"idle", "sending"} /\ slot' = SlotAfter(m) /\ echo' = EchoAfter(m)
        /\ strayed' = IF pc = "sending" /\ EchoAfter(m) # echo THEN Strays(m) ELSE strayed
        /\ UNCHANGED <<address, pc, attempts, op, outcome, network, now>>
    BY DEF IdlePoll
  <1>2. slot' = Empty \/ Udp(slot')
    BY <1>1, SlotHolds
  <1>3. strayed' \in BOOLEAN
    BY <1>1 DEF Strays, ExchangeInv, TypeOK
  <1>4. Packets' /\ Leases'
    BY <1>1, PacketsStay, SlotHolds
  <1>5. Flag'
    <2>1. CASE EchoAfter(m) = echo
      BY <1>1, <2>1 DEF ExchangeInv, Flag
    <2>2. CASE EchoAfter(m) # echo
      <3>1. m \in air /\ m.kind = "echo" /\ EchoOK(m)
        BY <2>2, FlagAfter
      <3>2. pc = "sending" => strayed'
        BY <1>1, <2>2, <3>1 DEF EchoOK, Strays
      <3>3. QED
        BY <1>1, <3>2, FlagAfter DEF Flag
    <2>3. QED
      BY <2>1, <2>2
  <1>6. TypeOK'
    BY <1>1, <1>2, <1>3, FlagAfter DEF ExchangeInv, TypeOK, Udp, IsDhcp, Recognised
  <1>7. pc = "sending" => outcome.result \notin {"configured", "reply"}
    BY DEF ExchangeInv, Outcome
  <1>8. Outcome' /\ AddressIsLeased' /\ PingIsAnswered'
    BY <1>1, <1>7 DEF ExchangeInv, Outcome, AddressIsLeased, PingIsAnswered, network
  <1>9. QED
    BY <1>4, <1>5, <1>6, <1>8 DEF ExchangeInv

\* A new exchange: what is in the air belongs to those before it.
LEMMA BeginMakesOld ==
  ASSUME ExchangeInv, Begin, NEW m, PacketOK(m)
  PROVE  PacketOK(m)' /\ AckOK(m)' /\ EchoOK(m)'
  <1>1. now \in Nat /\ now' = now + 1
    BY DEF ExchangeInv, TypeOK, Begin
  <1>2. m.re \in 0 .. now' /\ m.re # now'
    BY <1>1 DEF PacketOK
  <1>3. QED
    BY <1>2 DEF PacketOK, AckOK, EchoOK, IsDhcp

\* The number of an exchange is within its bound, and nothing has strayed yet.
LEMMA BeginFacts ==
  ASSUME ExchangeInv, Begin
  PROVE  /\ now \in Nat /\ now' \in Nat /\ now' \in 0 .. MaxExchanges /\ now' > OtherExchange
         /\ strayed' \in BOOLEAN /\ ~strayed'
  <1>1. now \in 0 .. MaxExchanges
    BY DEF ExchangeInv, TypeOK
  <1>2. MaxExchanges \in Nat
    BY ExchangesAssumption
  <1>3. now < MaxExchanges /\ now' = now + 1 /\ strayed' = FALSE
    BY DEF Begin
  <1>4. now \in Nat /\ now' \in Nat /\ now' \in 0 .. MaxExchanges /\ now' > OtherExchange
    BY <1>1, <1>2, <1>3 DEF OtherExchange
  <1>5. strayed' \in BOOLEAN /\ ~strayed'
    BY <1>3
  <1>6. QED
    BY <1>4, <1>5

\* dhcp_configure: at boot the memory is fresh, and only offers answer this boot.
LEMMA BootKeeps ==
  ASSUME ExchangeInv, Boot
  PROVE  ExchangeInv'
  <1>1. /\ Begin /\ address' = Default /\ slot' = Empty
        /\ echo' = [pending |-> FALSE, received |-> FALSE]
        /\ pc' = "offer" /\ attempts' = Attempts /\ outcome'.result = "none" /\ lease' = lease
    BY DEF Boot, Result
  <1>2. /\ now \in Nat /\ now' \in Nat /\ now' \in 0 .. MaxExchanges /\ now' > OtherExchange
        /\ strayed' \in BOOLEAN /\ ~strayed'
    BY <1>1, BeginFacts
  <1>3. PICK as \in SUBSET Address :
          air' = air \cup {Dhcp("offer", a, ServerOf[a], now') : a \in as}
    BY DEF Boot
  <1>4. ASSUME NEW a \in as, NEW m, m = Dhcp("offer", a, ServerOf[a], now')
        PROVE  PacketOK(m)' /\ AckOK(m)' /\ EchoOK(m)'
    <2>1. m.kind = "offer" /\ m.a = a /\ m.re = now'
      BY <1>4 DEF Dhcp
    <2>2. m.re \in 0 .. now'
      BY <1>2, <2>1
    <2>3. a \in Address
      BY <1>3
    <2>4. QED
      BY <2>1, <2>2, <2>3 DEF PacketOK, AckOK, EchoOK
  <1>5. \A m \in air : PacketOK(m)' /\ AckOK(m)' /\ EchoOK(m)'
    BY <1>1, BeginMakesOld DEF ExchangeInv, Packets
  <1>6. Packets'
    BY <1>1, <1>3, <1>4, <1>5 DEF Packets
  <1>7. Leases' /\ Flag'
    BY <1>1 DEF ExchangeInv, Leases, Flag
  <1>8. TypeOK'
    BY <1>1, <1>2, ExchangesAssumption DEF TypeOK
  <1>9. Outcome' /\ AddressIsLeased' /\ PingIsAnswered'
    BY <1>1, <1>2 DEF ExchangeInv, Outcome, AddressIsLeased, PingIsAnswered
  <1>10. QED
    BY <1>6, <1>7, <1>8, <1>9 DEF ExchangeInv

\* Ping and Lookup: the flag of the ping before is down, the slot keeps what it held.
LEMMA CommandKeeps ==
  ASSUME ExchangeInv, (\E h \in Host : Ping(h)) \/ Lookup
  PROVE  ExchangeInv'
  <1>1. /\ pc = "idle" /\ Begin /\ pc' = "sending" /\ attempts' = Attempts
        /\ outcome'.result = "none" /\ UNCHANGED <<address, slot, network>>
        /\ echo' \in [pending : BOOLEAN, received : BOOLEAN] /\ (echo'.received => echo'.pending)
        /\ op'.about = "ping" => ~echo'.received
    <2>1. echo \in [pending : BOOLEAN, received : BOOLEAN] /\ (echo.received => echo.pending)
      BY DEF ExchangeInv, Flag, TypeOK
    <2>2. ASSUME NEW h \in Host, Ping(h)
          PROVE  /\ echo' = [pending |-> TRUE, received |-> FALSE] /\ outcome'.result = "none"
                 /\ echo'.received = FALSE /\ echo' \in [pending : BOOLEAN, received : BOOLEAN]
      BY <2>2 DEF Ping, ForgetReplies, Result
    <2>3. ASSUME Lookup
          PROVE  echo' = echo /\ op'.about # "ping" /\ outcome'.result = "none"
      BY <2>3 DEF Lookup, Result
    <2>4. /\ pc = "idle" /\ Begin /\ pc' = "sending" /\ attempts' = Attempts
          /\ UNCHANGED <<address, slot, network>>
      BY DEF Ping, Lookup
    <2>5. QED
      BY <2>1, <2>2, <2>3, <2>4
  <1>2. /\ now \in Nat /\ now' \in Nat /\ now' \in 0 .. MaxExchanges /\ now' > OtherExchange
        /\ strayed' \in BOOLEAN /\ ~strayed'
    BY <1>1, BeginFacts
  <1>3. \A m \in air : PacketOK(m)' /\ AckOK(m)' /\ EchoOK(m)'
    BY <1>1, BeginMakesOld DEF ExchangeInv, Packets
  <1>4. \A s : s = slot /\ s # Empty => PacketOK(s)' /\ AckOK(s)'
    BY <1>1, BeginMakesOld DEF ExchangeInv, Packets
  <1>5. slot' # Empty => PacketOK(slot)' /\ AckOK(slot)'
    BY <1>1, <1>4 DEF PacketOK, AckOK, IsDhcp
  <1>6. Packets'
    BY <1>1, <1>3, <1>5 DEF Packets, network
  <1>7. Leases' /\ Flag'
    BY <1>1 DEF ExchangeInv, Leases, Flag, network
  <1>8. TypeOK'
    BY <1>1, <1>2, ExchangesAssumption DEF ExchangeInv, TypeOK, Udp, IsDhcp, Recognised
  <1>9. Outcome' /\ AddressIsLeased' /\ PingIsAnswered'
    BY <1>1, <1>2 DEF ExchangeInv, Outcome, AddressIsLeased, PingIsAnswered
  <1>10. QED
    BY <1>6, <1>7, <1>8, <1>9 DEF ExchangeInv

\* The request is out: its answer, when there will be one, is in the air.
LEMMA SendKeeps ==
  ASSUME ExchangeInv, SendPing \/ SendQuestion
  PROVE  ExchangeInv'
  <1>1. /\ pc = "sending" /\ UNCHANGED <<address, slot, echo, lease, now, strayed>>
        /\ now \in Nat
    BY DEF SendPing, SendQuestion, ExchangeInv, TypeOK
  <1>2. outcome.result \notin {"configured", "reply"}
    BY <1>1 DEF ExchangeInv, Outcome
  <1>3. \A m : PacketOK(m) => PacketOK(m)'
    BY <1>1 DEF PacketOK, IsDhcp
  <1>4. \A m \in air : PacketOK(m) /\ (m.re = now => m.kind # "echo")
    BY <1>1 DEF ExchangeInv, Packets, EchoOK
  <1>5. ASSUME pc' \in {"ping", "lookup", "idle"}, NEW d, PacketOK(d), d.kind \in {"answer", "echo"},
               d.kind = "echo" /\ pc' = "ping" => d.from = op'.host, air' \in {air, air \cup {d}}
        PROVE  Packets' /\ Leases'
    <2>1. \A m \in air : PacketOK(m)' /\ AckOK(m)' /\ EchoOK(m)'
      BY <1>1, <1>3, <1>4, <1>5 DEF AckOK, EchoOK
    <2>2. PacketOK(d)' /\ AckOK(d)' /\ EchoOK(d)'
      BY <1>1, <1>3, <1>5 DEF AckOK, EchoOK
    <2>3. \A s : s = slot /\ s # Empty => PacketOK(s)' /\ AckOK(s)'
      BY <1>3, <1>5 DEF ExchangeInv, Packets, AckOK
    <2>4. slot' # Empty => PacketOK(slot)' /\ AckOK(slot)'
      BY <1>1, <2>3 DEF PacketOK, AckOK, IsDhcp
    <2>5. QED
      BY <1>1, <1>5, <2>1, <2>2, <2>4 DEF Packets, Leases, ExchangeInv
  <1>6. CASE SendPing
    <2> DEFINE d == Echo(op.host, address, now)
    <2>1. /\ op.about = "ping" /\ pc' = "ping" /\ attempts' = Attempts /\ UNCHANGED <<op, outcome>>
          /\ air' \in {air, air \cup {d}}
      BY <1>6 DEF SendPing
    <2>2. d.kind = "echo" /\ d.re = now /\ d.from = op.host
      BY DEF Echo
    <2> HIDE DEF d
    <2>3. PacketOK(d)
      BY <1>1, <2>2 DEF PacketOK, IsDhcp
    <2>4. Packets' /\ Leases'
      BY <1>5, <2>1, <2>2, <2>3
    <2>5. Flag'
      BY <1>1, <2>1 DEF ExchangeInv, Flag
    <2>6. TypeOK'
      BY <1>1, <2>1, ExchangesAssumption DEF ExchangeInv, TypeOK, Udp, IsDhcp, Recognised
    <2>7. Outcome' /\ AddressIsLeased' /\ PingIsAnswered'
      BY <1>1, <1>2, <2>1 DEF ExchangeInv, Outcome, AddressIsLeased, PingIsAnswered
    <2>8. QED
      BY <2>4, <2>5, <2>6, <2>7 DEF ExchangeInv
  <1>7. CASE SendQuestion
    <2> DEFINE d == Dns(address, now)
    <2>1. /\ air' \in {air, air \cup {d}} /\ pc' \in {"lookup", "idle"}
          /\ attempts' \in {0, Attempts} /\ (pc' = "idle" => attempts' = 0)
          /\ outcome'.result \notin {"configured", "reply"}
      BY <1>2, <1>7, EndsFacts DEF SendQuestion
    <2>2. d.kind = "answer" /\ d.re = now
      BY DEF Dns
    <2> HIDE DEF d
    <2>3. PacketOK(d)
      BY <1>1, <2>2 DEF PacketOK, IsDhcp
    <2>4. Packets' /\ Leases'
      BY <1>5, <2>1, <2>2, <2>3
    <2>5. Flag'
      BY <1>1, <2>1 DEF ExchangeInv, Flag
    <2>6. TypeOK'
      BY <1>1, <2>1, ExchangesAssumption DEF ExchangeInv, TypeOK, Udp, IsDhcp, Recognised
    <2>7. Outcome' /\ AddressIsLeased' /\ PingIsAnswered'
      BY <1>1, <2>1 DEF ExchangeInv, Outcome, AddressIsLeased, PingIsAnswered
    <2>8. QED
      BY <2>4, <2>5, <2>6, <2>7 DEF ExchangeInv
  <1>8. QED
    BY <1>6, <1>7

\* A wait whose attempts are used up says so, and nothing else.
LEMMA TimesOutKeeps ==
  ASSUME ExchangeInv, TimesOut
  PROVE  ExchangeInv'
  <1>1. /\ pc \in {"offer", "ack", "ping", "lookup"} /\ pc' = "idle" /\ attempts' = 0
        /\ outcome'.result = "timeout" /\ UNCHANGED <<address, slot, echo, network, now, strayed>>
    BY EndsFacts DEF TimesOut
  <1>2. Packets' /\ Leases'
    <2>1. \A s : s = slot' /\ s # Empty => PacketOK(s) /\ AckOK(s)
      BY <1>1 DEF ExchangeInv, Packets
    <2>2. QED
      BY <1>1, <2>1, PacketsStay
  <1>3. Flag'
    BY <1>1 DEF ExchangeInv, Flag
  <1>4. TypeOK'
    BY <1>1, ExchangesAssumption DEF ExchangeInv, TypeOK, Udp, IsDhcp, Recognised
  <1>5. Outcome' /\ AddressIsLeased' /\ PingIsAnswered'
    BY <1>1 DEF ExchangeInv, Outcome, AddressIsLeased, PingIsAnswered
  <1>6. QED
    BY <1>2, <1>3, <1>4, <1>5 DEF ExchangeInv

\* net config, and a step of something else.
LEMMA ConfigureKeeps ==
  ASSUME ExchangeInv, Configure \/ UNCHANGED vars
  PROVE  ExchangeInv'
  <1>1. /\ UNCHANGED <<slot, echo, pc, attempts, op, network, now, strayed>>
        /\ \/ pc = "idle" /\ address' = Default /\ outcome'.result = "none"
           \/ UNCHANGED <<address, outcome>>
    BY DEF Configure, Result, vars, kernel
  <1>2. Packets' /\ Leases'
    <2>1. \A s : s = slot' /\ s # Empty => PacketOK(s) /\ AckOK(s)
      BY <1>1 DEF ExchangeInv, Packets
    <2>2. QED
      BY <1>1, <2>1, PacketsStay
  <1>3. Flag'
    BY <1>1 DEF ExchangeInv, Flag
  <1>4. TypeOK'
    BY <1>1 DEF ExchangeInv, TypeOK, Udp, IsDhcp, Recognised
  <1>5. Outcome' /\ AddressIsLeased' /\ PingIsAnswered'
    BY <1>1 DEF ExchangeInv, Outcome, AddressIsLeased, PingIsAnswered, network
  <1>6. QED
    BY <1>2, <1>3, <1>4, <1>5 DEF ExchangeInv


\* The other machine gets an address that was free: none of this machine's goes to it.
LEMMA OtherMachineKeeps ==
  ASSUME ExchangeInv, NEW a \in Address, OtherMachine(a)
  PROVE  ExchangeInv'
  <1>1. /\ lease[a] = Free /\ lease' = [lease EXCEPT ![a] = Other]
        /\ air' = air \cup {Dhcp(k, a, ServerOf[a], OtherExchange) : k \in {"offer", "ack"}}
        /\ UNCHANGED <<address, slot, echo, pc, attempts, op, outcome, now, strayed>>
    BY DEF OtherMachine, kernel
  <1>2. /\ lease' \in [Address -> {Free, Me, Other}] /\ now \in Nat
        /\ \A b \in Address : lease[b] = Me => lease'[b] = Me
    BY <1>1 DEF ExchangeInv, Leases, TypeOK, Free, Me
  <1>3. ASSUME NEW m, PacketOK(m), AckOK(m) PROVE PacketOK(m)' /\ AckOK(m)'
    <2>1. PacketOK(m)'
      BY <1>1, <1>3 DEF PacketOK, IsDhcp
    <2>2. AckOK(m)'
      BY <1>1, <1>2, <1>3 DEF AckOK
    <2>3. QED
      BY <2>1, <2>2
  <1>4. \A m \in air : PacketOK(m)' /\ AckOK(m)' /\ EchoOK(m)'
    BY <1>1, <1>3 DEF ExchangeInv, Packets, EchoOK
  <1>5. ASSUME NEW k \in {"offer", "ack"}, NEW m, m = Dhcp(k, a, ServerOf[a], OtherExchange)
        PROVE  PacketOK(m)' /\ AckOK(m)' /\ EchoOK(m)'
    <2>1. m.kind = k /\ m.a = a /\ m.re = OtherExchange
      BY <1>5 DEF Dhcp
    <2>2. m.re \in 0 .. now' /\ m.kind \in {"offer", "ack"}
      BY <1>1, <1>2, <2>1 DEF OtherExchange
    <2>3. m.re = now' => pc' = "off"
      BY <1>1, <1>2, <2>1 DEF ExchangeInv, Outcome, OtherExchange
    <2>4. PacketOK(m)'
      BY <2>1, <2>2 DEF PacketOK
    <2>5. QED
      BY <2>2, <2>3, <2>4 DEF AckOK, EchoOK
  <1>6. \A s : s = slot /\ s # Empty => PacketOK(s)' /\ AckOK(s)'
    BY <1>3 DEF ExchangeInv, Packets
  <1>7. slot' # Empty => PacketOK(slot)' /\ AckOK(slot)'
    BY <1>1, <1>6 DEF PacketOK, AckOK, IsDhcp
  <1>8. Packets'
    <2>1. \A m \in air' : PacketOK(m)' /\ AckOK(m)' /\ EchoOK(m)'
      BY <1>1, <1>4, <1>5
    <2>2. QED
      BY <1>7, <2>1 DEF Packets
  <1>9. Leases' /\ Flag'
    BY <1>1, <1>2 DEF ExchangeInv, Leases, Flag
  <1>10. TypeOK'
    BY <1>1 DEF ExchangeInv, TypeOK, Udp, IsDhcp, Recognised
  <1>11. Outcome' /\ AddressIsLeased'
    BY <1>1, <1>2 DEF ExchangeInv, Outcome, AddressIsLeased
  <1>12. PingIsAnswered'
    BY <1>1 DEF ExchangeInv, PingIsAnswered
  <1>13. QED
    BY <1>8, <1>9, <1>10, <1>11, <1>12 DEF ExchangeInv

\* Before the first boot nothing is in the air, and nothing is leased.
LEMMA InitHolds == Init => ExchangeInv
  <1> SUFFICES ASSUME Init PROVE ExchangeInv
    OBVIOUS
  <1>1. TypeOK
    <2>1. attempts = 0 /\ 0 \in 0 .. Attempts /\ now = 0 /\ 0 \in 0 .. MaxExchanges
      BY ExchangesAssumption DEF Init
    <2>2. pc = "off" /\ address = Default /\ slot = Empty /\ ~echo.received
      BY DEF Init
    <2>3. strayed \in BOOLEAN
      BY DEF Init
    <2>4. QED
      BY <2>1, <2>2, <2>3 DEF TypeOK
  <1>2. Packets /\ Flag /\ Leases
    BY DEF Init, Packets, Flag, Leases
  <1>3. Outcome /\ AddressIsLeased /\ PingIsAnswered
    BY DEF Init, Outcome, AddressIsLeased, PingIsAnswered, Result
  <1>4. QED
    BY <1>1, <1>2, <1>3 DEF ExchangeInv

\* The inductive invariant: what is known of a packet that says it answers this exchange.
THEOREM ExchangeInvariant == Spec => []ExchangeInv
  <1>1. Init => ExchangeInv
    BY InitHolds
  <1>2. ExchangeInv /\ [Next]_vars => ExchangeInv'
    <2> SUFFICES ASSUME ExchangeInv, [Next]_vars PROVE ExchangeInv'
      OBVIOUS
    <2>1. ASSUME Kernel PROVE ExchangeInv'
      BY <2>1, PollOfferKeeps, PollAckKeeps, PollPingKeeps, PollAnswerKeeps, TimesOutKeeps, SendKeeps
      DEF Kernel, Waits
    <2>2. ASSUME Commands PROVE ExchangeInv'
      BY <2>2, BootKeeps, CommandKeeps, ConfigureKeeps DEF Commands
    <2>3. ASSUME NEW a \in Address, OtherMachine(a) PROVE ExchangeInv'
      BY <2>3, OtherMachineKeeps
    <2>4. ASSUME NEW m \in Arriving, IdlePoll(m) PROVE ExchangeInv'
      BY <2>4, IdlePollKeeps
    <2>5. ASSUME UNCHANGED vars PROVE ExchangeInv'
      BY <2>5, ConfigureKeeps
    <2>6. QED
      BY <2>1, <2>2, <2>3, <2>4, <2>5 DEF Next
  <1>3. QED
    BY <1>1, <1>2, PTL DEF Spec

\* udp.c and icmp.c: the waits count down to zero and not below, and the slot and the flag
\* are what their handlers leave.
THEOREM TypesHold == Spec => []TypeOK
  <1>1. ExchangeInv => TypeOK
    BY DEF ExchangeInv
  <1>2. QED
    BY <1>1, ExchangeInvariant, PTL

\* dhcp_configure: however many servers there are and whatever is lost, repeated or late, an
\* address is configured only when it is leased to this machine, or a stray answer was taken.
THEOREM AddressesAreLeased == Spec => []AddressIsLeased
  <1>1. ExchangeInv => AddressIsLeased
    BY DEF ExchangeInv
  <1>2. QED
    BY <1>1, ExchangeInvariant, PTL

\* icmp_wait_echo_reply: a ping that says a host replied has the reply of that host to this
\* request, or took that of another ping for it.
THEOREM PingsAreAnswered == Spec => []PingIsAnswered
  <1>1. ExchangeInv => PingIsAnswered
    BY DEF ExchangeInv
  <1>2. QED
    BY <1>1, ExchangeInvariant, PTL
================================================================================
