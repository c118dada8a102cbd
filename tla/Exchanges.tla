-------------------------------- MODULE Exchanges --------------------------------
(***************************************************************************)
(* Questions and answers over datagrams: DHCP at boot, ping and the lookup *)
(* of names.  Each sends a request and polls a bounded number of times for *)
(* an answer it recognises by numbers that are the same in every exchange. *)
(* UDP keeps the last datagram in one slot, whatever its port, and ICMP    *)
(* one flag.  The network loses, delays, repeats and reorders: the other   *)
(* end answers a request when it is sent or never, and whatever is in the  *)
(* air may arrive at any later poll, and after a reboot.  Another machine  *)
(* with this kernel may get an address at the same time.                   *)
(***************************************************************************)
EXTENDS Integers

CONSTANTS
  Server,        \* DHCP servers
  Address,       \* the addresses they give
  ServerOf,      \* the server that has each of them
  Host,          \* hosts that answer pings
  Attempts,      \* polls of a wait (200000, 500000)
  MaxExchanges   \* bound: boots, pings and lookups

ASSUME ExchangesAssumption ==
  /\ ServerOf \in [Address -> Server]
  /\ Attempts \in Nat \ {0} /\ MaxExchanges \in Nat

VARIABLES
  address,    \* local_ip
  slot,       \* the datagram of udp.c, or Empty
  echo,       \* reply_pending and reply_received of icmp.c
  pc,         \* the wait the kernel is in
  attempts,   \* polls it has left
  op,         \* what the exchange is about
  outcome,    \* of the last exchange
  air,        \* packets that may arrive
  lease,      \* what each server has given its address to
  now,        \* the number of the exchange: no packet carries it
  strayed     \* whether this exchange took an answer to another one

kernel == <<address, slot, echo, pc, attempts, op, outcome>>
network == <<air, lease>>
vars == <<kernel, network, now, strayed>>

Free == "free"
Me == "me"
Other == "other"
Default == "10.0.2.15"   \* local_ip at power on
NoAddress == "0.0.0.0"
Broadcast == "broadcast"
OtherExchange == 0       \* the exchange of the other machine

Nothing == [kind |-> "nothing"]
Empty == Nothing
NoOp == [about |-> "none"]

\* Offers and acknowledgements are broadcast, as the requests ask for.
Dhcp(k, a, s, r) == [kind |-> k, a |-> a, from |-> s, to |-> Broadcast, re |-> r]
\* An answer with an error code is passed over, like one that never comes.
Dns(to, r) == [kind |-> "answer", to |-> to, re |-> r]
Echo(h, to, r) == [kind |-> "echo", from |-> h, to |-> to, re |-> r]
IsDhcp(m) == m.kind \in {"offer", "ack", "nak"}
Recognised(m) == m.kind = "answer"
Udp(m) == IsDhcp(m) \/ Recognised(m)

-----------------------------------------------------------------------------
(* Polling.                                                                *)

\* net_poll brings one frame, ip_handle_packet takes what is for this machine.
Arriving == {m \in air : m.to \in {address, Broadcast}} \cup {Nothing}

\* udp_handle_packet overwrites whatever is there.
SlotAfter(m) == IF Udp(m) THEN m ELSE slot
\* A slip: no request needs to be out.
EchoAfterAny(m) == IF m.kind = "echo" THEN [echo EXCEPT !.received = TRUE] ELSE echo
\* Every echo request has identifier 1 and sequence 1, and so has every reply.
EchoAfter(m) ==
  IF m.kind = "echo" /\ echo.pending THEN [echo EXCEPT !.received = TRUE] ELSE echo
Strays(m) == strayed \/ m.re # now

Ends(result) ==
  /\ pc' = "idle" /\ op' = NoOp /\ attempts' = 0 /\ outcome' = result

Result(r, about) == [result |-> r, about |-> about]

\* A slip: a datagram of something else starts the wait over.
UnwantedRestarts(m) ==
  /\ slot' = Empty /\ echo' = EchoAfter(m)
  /\ attempts' = IF SlotAfter(m) = Empty THEN attempts - 1 ELSE Attempts

\* One attempt, whose frame is m, found nothing in the slot that is wanted.
Unwanted(m) == /\ slot' = Empty /\ echo' = EchoAfter(m) /\ attempts' = attempts - 1

\* The shell polls while it waits for a key, and ip_send while it waits for an address.
IdlePoll(m) ==
  /\ pc \in {"idle", "sending"}
  /\ slot' = SlotAfter(m) /\ echo' = EchoAfter(m)
  /\ strayed' = IF pc = "sending" /\ EchoAfter(m) # echo THEN Strays(m) ELSE strayed
  /\ (slot' # slot \/ echo' # echo)
  /\ UNCHANGED <<address, pc, attempts, op, outcome, network, now>>

Begin == now < MaxExchanges /\ now' = now + 1 /\ strayed' = FALSE

-----------------------------------------------------------------------------
(* dhcp_configure.                                                         *)

\* A reply, the transaction and the magic: not the type, not the hardware address.
Offered(m) == IsDhcp(m)
\* A slip: the type is not looked at here either.
AcknowledgedByAny(m) == IsDhcp(m)
\* The type, but not who sends it nor for which address.
Acknowledged(m) == m.kind = "ack"

\* Power on, or a reboot in whatever the kernel was doing: its memory starts afresh.
Boot ==
  /\ Begin
  /\ address' = Default /\ slot' = Empty /\ echo' = [pending |-> FALSE, received |-> FALSE]
  /\ pc' = "offer" /\ attempts' = Attempts /\ op' = NoOp /\ outcome' = Result("none", NoOp)
  /\ \E as \in SUBSET {a \in Address : lease[a] \in {Free, Me}} :
       air' = air \cup {Dhcp("offer", a, ServerOf[a], now') : a \in as}
  /\ UNCHANGED lease

\* The server that is named decides, when the request reaches it; a refusal names no address.
Request(a, s) ==
  \/ UNCHANGED network
  \/ IF a \in {b \in Address : ServerOf[b] = s /\ lease[b] \in {Free, Me}}
     THEN lease' = [lease EXCEPT ![a] = Me] /\ air' = air \cup {Dhcp("ack", a, s, now)}
     ELSE air' = air \cup {Dhcp("nak", NoAddress, s, now)} /\ UNCHANGED lease

PollOffer(m) ==
  /\ pc = "offer" /\ attempts > 0
  /\ LET got == SlotAfter(m)
     IN  IF Offered(got)
         THEN /\ pc' = "ack" /\ attempts' = Attempts
              /\ op' = [about |-> "dhcp", a |-> got.a]
              /\ Request(got.a, got.from)
              /\ strayed' = Strays(got)
              /\ slot' = Empty /\ echo' = EchoAfter(m)
         ELSE Unwanted(m) /\ UNCHANGED <<pc, op, network, strayed>>
  /\ UNCHANGED <<address, outcome, now>>

PollAck(m) ==
  /\ pc = "ack" /\ attempts > 0
  /\ LET got == SlotAfter(m)
     IN  IF Acknowledged(got)
         THEN /\ address' = op.a /\ strayed' = Strays(got)
              /\ Ends(Result("configured", op))
              /\ slot' = Empty /\ echo' = EchoAfter(m)
         ELSE Unwanted(m) /\ UNCHANGED <<address, pc, op, outcome, strayed>>
  /\ UNCHANGED <<network, now>>

-----------------------------------------------------------------------------
(* icmp_send_echo_request and icmp_wait_echo_reply.                        *)

\* A slip: the flag of the last ping stays.
ForgetRepliesNot == [echo EXCEPT !.pending = TRUE]

ForgetReplies == [pending |-> TRUE, received |-> FALSE]

Ping(h) ==
  /\ pc = "idle" /\ Begin
  /\ echo' = ForgetReplies
  /\ pc' = "sending" /\ attempts' = Attempts /\ op' = [about |-> "ping", host |-> h]
  /\ outcome' = Result("none", NoOp)
  /\ UNCHANGED <<address, slot, network>>

\* The result of the sending is ignored: the wait follows all the same.
SendPing ==
  /\ pc = "sending" /\ op.about = "ping"
  /\ air' \in {air, air \cup {Echo(op.host, address, now)}}
  /\ pc' = "ping" /\ attempts' = Attempts
  /\ UNCHANGED <<address, slot, echo, op, outcome, lease, now, strayed>>

PollPing(m) ==
  /\ pc = "ping" /\ attempts > 0
  /\ slot' = SlotAfter(m) /\ echo' = EchoAfter(m)
  /\ strayed' = IF echo' # echo THEN Strays(m) ELSE strayed
  /\ IF echo'.received THEN Ends(Result("reply", op))
     ELSE attempts' = attempts - 1 /\ UNCHANGED <<pc, op, outcome>>
  /\ UNCHANGED <<address, network, now>>

-----------------------------------------------------------------------------
(* net_dns_query.  A label starts a byte after where the one before ends,  *)
(* and the name is read back with the same slip: no server can tell what   *)
(* is asked, and no address can be found in what it says.                  *)

Lookup ==
  /\ pc = "idle" /\ Begin
  /\ pc' = "sending" /\ attempts' = Attempts /\ op' = [about |-> "lookup"]
  /\ outcome' = Result("none", NoOp)
  /\ UNCHANGED <<address, slot, echo, network>>

SendQuestion ==
  /\ pc = "sending" /\ op.about = "lookup"
  /\ \/ /\ air' \in {air, air \cup {Dns(address, now)}}
        /\ pc' = "lookup" /\ attempts' = Attempts /\ UNCHANGED <<op, outcome>>
     \/ Ends(Result("unknown", op)) /\ UNCHANGED air
  /\ UNCHANGED <<address, slot, echo, lease, now, strayed>>

PollAnswer(m) ==
  /\ pc = "lookup" /\ attempts > 0
  /\ LET got == SlotAfter(m)
     IN  IF Recognised(got)
         THEN /\ Ends(Result("unknown", op)) /\ strayed' = Strays(got)
              /\ slot' = Empty /\ echo' = EchoAfter(m)
         ELSE Unwanted(m) /\ UNCHANGED <<pc, op, outcome, strayed>>
  /\ UNCHANGED <<address, network, now>>

-----------------------------------------------------------------------------
\* The attempts are used up.
TimesOut ==
  /\ pc \in {"offer", "ack", "ping", "lookup"} /\ attempts = 0
  /\ Ends(Result("timeout", op))
  /\ UNCHANGED <<address, slot, echo, network, now, strayed>>

\* net config.
Configure ==
  /\ pc = "idle" /\ address' = Default /\ address # Default
  /\ outcome' = Result("none", NoOp)
  /\ UNCHANGED <<slot, echo, pc, attempts, op, network, now, strayed>>

-----------------------------------------------------------------------------
\* What the servers broadcast for the other machine, which has the same transaction number.
OtherMachine(a) ==
  /\ lease[a] = Free /\ \A b \in Address : lease[b] # Other
  /\ lease' = [lease EXCEPT ![a] = Other]
  /\ air' = air \cup {Dhcp(k, a, ServerOf[a], OtherExchange) : k \in {"offer", "ack"}}
  /\ UNCHANGED <<kernel, now, strayed>>

-----------------------------------------------------------------------------
Init ==
  /\ address = Default /\ slot = Empty /\ echo = [pending |-> FALSE, received |-> FALSE]
  /\ pc = "off" /\ attempts = 0 /\ op = NoOp /\ outcome = Result("none", NoOp)
  /\ air = {} /\ lease = [a \in Address |-> Free]
  /\ now = 0 /\ strayed = FALSE

Waits == \E m \in Arriving : PollOffer(m) \/ PollAck(m) \/ PollPing(m) \/ PollAnswer(m)
Kernel == Waits \/ TimesOut \/ SendPing \/ SendQuestion
Commands == Boot \/ Lookup \/ Configure \/ \E h \in Host : Ping(h)

Next ==
  \/ Kernel \/ Commands
  \/ \E a \in Address : OtherMachine(a)
  \/ \E m \in Arriving : IdlePoll(m)

Spec == Init /\ [][Next]_vars

\* The kernel's one thread runs on; nothing says that any answer arrives.
FairSpec == Spec /\ WF_vars(Kernel)
-----------------------------------------------------------------------------
(* What has to hold.                                                       *)

\* The waits count down to zero and not below, the slot and the flag of ICMP are what their
\* handlers leave, an address is one that was offered, 0.0.0.0 when that was a stray refusal.
TypeOK ==
  /\ pc \in {"off", "idle", "sending", "offer", "ack", "ping", "lookup"}
  /\ attempts \in 0 .. Attempts /\ (pc = "idle" => attempts = 0)
  /\ address \in Address \cup {Default, NoAddress}
  /\ slot = Empty \/ Udp(slot)
  /\ echo.received => echo.pending
  /\ strayed \in BOOLEAN /\ now \in 0 .. MaxExchanges

\* dhcp_configure: between two servers, with answers lost, repeated and out of order, an
\* address is configured only when its server gave it to this machine.  An answer to another
\* boot or to the other machine, which the fixed number lets in, is what can break it.
AddressIsLeased ==
  outcome.result = "configured" /\ ~strayed =>
    lease[outcome.about.a] = Me /\ address = outcome.about.a

\* icmp.c: a ping says that a host replied only when that host answered this very request,
\* unless the late answer to an earlier ping was taken for it.
PingIsAnswered ==
  outcome.result = "reply" /\ ~strayed =>
    \E m \in air : m.kind = "echo" /\ m.from = outcome.about.host /\ m.re = now

\* Every wait ends, whatever arrives or does not and however often.
ExchangeEnds == pc \notin {"off", "idle"} ~> pc = "idle"
=============================================================================
