-------------------------- MODULE ReliableInbound --------------------------
(***************************************************************************)
(* The reliable layer of one client connection, in the direction client to *)
(* server: Worker.handleMessage and the fields nextExpectedNonce and       *)
(* unorderedMessageMap of Connection (Hindenburg).                         *)
(*                                                                         *)
(* handleMessage is an async function that the UDP socket calls once per   *)
(* datagram and that nobody awaits.  It gives up the event loop three      *)
(* times: while the acknowledgement is sent, while the handlers of the     *)
(* packet run, and while the handlers of each held packet run.  Between    *)
(* two of those points it is atomic; at those points other invocations of  *)
(* the same function run.  Invocation is the set of invocations that may   *)
(* be suspended at the same time: with one element, a datagram is only     *)
(* received after the previous one has been dealt with.                    *)
(*                                                                         *)
(* The client is external: it numbers its reliable packets 1, 2, ... on 16 *)
(* bits, resends what is not acknowledged, and the first packet of the     *)
(* connection is its Hello.  A packet is its index in the order of         *)
(* sending.                                                                *)
(***************************************************************************)
EXTENDS Integers, Sequences, FiniteSets

CONSTANTS
    Invocation,      \* invocations of handleMessage that may overlap
    MaxSent,         \* bound: packets the client sends
    NonceLimit,      \* largest nonce on the wire (65535 in the code)
    MessageOrdering, \* config.socket.messageOrdering
    HandlersThrow,   \* whether the handlers of a packet may throw
    StrayDatagram    \* whether a datagram of unknown type may come first

ASSUME InboundAssumption ==
    /\ MaxSent \in Nat \ {0}
    /\ NonceLimit \in Nat \ {0}
    /\ MessageOrdering \in BOOLEAN
    /\ HandlersThrow \in BOOLEAN
    /\ StrayDatagram \in BOOLEAN

VARIABLES
    sent,       \* number of packets the client has sent
    wire,       \* packets in flight from client to server
    ackWire,    \* nonces of the acknowledgements in flight to the client
    acked,      \* packets the client knows to be acknowledged
    connected,  \* worker.connections has this client
    next,       \* connection.nextExpectedNonce
    held,       \* connection.unorderedMessageMap: the packets in it
    task,       \* what each invocation of handleMessage is suspended on
    handled     \* packets whose handlers were started, in that order

clientVars == <<sent, acked>>
vars == <<sent, wire, ackWire, acked, connected, next, held, task, handled>>

Packet == 1 .. MaxSent
Hello == 1
Idle == [stage |-> "idle", packet |-> Hello]
Stage == {"idle", "hello", "ack", "emit", "drain"}

\* Mutant of Nonce: the counter is read before it is incremented.
NonceFromZero(i) == (i - 1) % NonceLimit

\* The 16-bit nonce that packet i carries: 1 follows the largest one.
Nonce(i) == ((i - 1) % NonceLimit) + 1

-----------------------------------------------------------------------------
Init ==
    /\ sent = 0
    /\ wire = {}
    /\ ackWire = {}
    /\ acked = {}
    /\ connected = FALSE
    /\ next = 0
    /\ held = {}
    /\ task = [t \in Invocation |-> Idle]
    /\ handled = <<>>

-----------------------------------------------------------------------------
(* The client and the network. *)

\* The client sends its next reliable packet.
Send ==
    /\ sent < MaxSent
    /\ sent' = sent + 1
    /\ wire' = wire \cup {sent + 1}
    /\ UNCHANGED <<ackWire, acked, connected, next, held, task, handled>>

\* The client sends a packet again that it has no acknowledgement for.
Resend ==
    /\ \E i \in (1 .. sent) \ (acked \cup wire) : wire' = wire \cup {i}
    /\ UNCHANGED <<sent, ackWire, acked, connected, next, held, task, handled>>

\* The client receives an acknowledgement.
ReceiveAck ==
    /\ \E v \in ackWire :
        /\ ackWire' = ackWire \ {v}
        /\ acked' = acked \cup {i \in 1 .. sent : Nonce(i) = v}
    /\ UNCHANGED <<sent, wire, connected, next, held, task, handled>>

\* UDP loses a datagram.
Lose ==
    /\ \/ /\ \E i \in wire : wire' = wire \ {i}
          /\ UNCHANGED ackWire
       \/ /\ \E v \in ackWire : ackWire' = ackWire \ {v}
          /\ UNCHANGED wire
    /\ UNCHANGED <<sent, acked, connected, next, held, task, handled>>

-----------------------------------------------------------------------------
(* The server. *)

\* A datagram with packet i reaches the socket: UDP may deliver it again.
Arrives(i) ==
    /\ i \in wire
    /\ wire' \in {wire, wire \ {i}}

\* Start the handlers of packet i (emitDecoded) in invocation t.
StartHandlers(t, i, stage) ==
    /\ handled' = Append(handled, i)
    /\ task' = [task EXCEPT ![t] = [stage |-> stage, packet |-> i]]

\* The first Hello of an unknown address makes the connection; the handler
\* of Hello acknowledges it.
ReceiveHello(t) ==
    /\ task[t].stage = "idle"
    /\ ~connected
    /\ Arrives(Hello)
    /\ connected' = TRUE
    /\ next' = Nonce(Hello) + 1
    /\ ackWire' = ackWire \cup {Nonce(Hello)}
    /\ StartHandlers(t, Hello, "hello")
    /\ UNCHANGED <<sent, acked, held>>

\* Anything else from an unknown address is ignored.
IgnoreUnknown(t) ==
    /\ task[t].stage = "idle"
    /\ ~connected
    /\ \E i \in wire \ {Hello} : Arrives(i)
    /\ UNCHANGED <<sent, ackWire, acked, connected, next, held, task, handled>>

\* A datagram that starts with an unknown packet type: a connection is made
\* for its address, which expects nonce 0, and nothing else happens.
ReceiveUnknownRoot(t) ==
    /\ StrayDatagram
    /\ task[t].stage = "idle"
    /\ ~connected
    /\ connected' = TRUE
    /\ UNCHANGED <<sent, wire, ackWire, acked, next, held, task, handled>>

\* A reliable packet of the connection: it is acknowledged first, whatever
\* is done with it afterwards.
Receive(t) ==
    /\ task[t].stage = "idle"
    /\ connected
    /\ \E i \in wire :
        /\ Arrives(i)
        /\ ackWire' = ackWire \cup {Nonce(i)}
        /\ task' = [task EXCEPT ![t] = [stage |-> "ack", packet |-> i]]
    /\ UNCHANGED <<sent, acked, connected, next, held, handled>>

\* The acknowledgement is sent and the nonce is behind: drop the packet.
DropBehind(t) ==
    /\ task[t].stage = "ack"
    /\ Nonce(task[t].packet) < next
    /\ task' = [task EXCEPT ![t] = Idle]
    /\ UNCHANGED <<sent, wire, ackWire, acked, connected, next, held, handled>>

\* Mutant of Hold: the early packet is dropped like a late one.
HoldDrops(t) ==
    /\ task[t].stage = "ack"
    /\ MessageOrdering
    /\ Nonce(task[t].packet) > next
    /\ task' = [task EXCEPT ![t] = Idle]
    /\ UNCHANGED <<sent, wire, ackWire, acked, connected, next, held, handled>>

\* The acknowledgement is sent and the packet is early: keep it for later.
Hold(t) ==
    LET i == task[t].packet IN
    /\ task[t].stage = "ack"
    /\ MessageOrdering
    /\ Nonce(i) > next
    /\ held' = IF \E j \in held : Nonce(j) = Nonce(i)
               THEN held
               ELSE held \cup {i}
    /\ task' = [task EXCEPT ![t] = Idle]
    /\ UNCHANGED <<sent, wire, ackWire, acked, connected, next, handled>>

\* Mutants of Accept: an early packet is accepted; a late one is accepted.
AcceptEarly(t) ==
    /\ task[t].stage = "ack"
    /\ Nonce(task[t].packet) >= next
    /\ next' = Nonce(task[t].packet) + 1
    /\ StartHandlers(t, task[t].packet, "emit")
    /\ UNCHANGED <<sent, wire, ackWire, acked, connected, held>>

AcceptLate(t) ==
    /\ task[t].stage = "ack"
    /\ MessageOrdering => Nonce(task[t].packet) <= next
    /\ next' = Nonce(task[t].packet) + 1
    /\ StartHandlers(t, task[t].packet, "emit")
    /\ UNCHANGED <<sent, wire, ackWire, acked, connected, held>>

\* The acknowledgement is sent and the packet is due.  Without message
\* ordering any packet that is not behind is due.
Accept(t) ==
    LET i == task[t].packet IN
    /\ task[t].stage = "ack"
    /\ Nonce(i) >= next
    /\ MessageOrdering => Nonce(i) = next
    /\ next' = Nonce(i) + 1
    /\ StartHandlers(t, i, "emit")
    /\ UNCHANGED <<sent, wire, ackWire, acked, connected, held>>

\* One turn of the loop over the held packets: start the one whose nonce is
\* n, or leave the loop.
DrainFrom(t, n, map) ==
    \/ \E i \in map : Nonce(i) = n /\ StartHandlers(t, i, "drain")
    \/ /\ \A i \in map : Nonce(i) # n
       /\ task' = [task EXCEPT ![t] = Idle]
       /\ UNCHANGED handled

\* Mutant of FinishHandlers: the held packets are not looked at.
FinishHandlersOnly(t) ==
    /\ task[t].stage = "emit"
    /\ task' = [task EXCEPT ![t] = Idle]
    /\ UNCHANGED <<sent, wire, ackWire, acked, connected, next, held, handled>>

\* The handlers of an accepted packet are done.
FinishHandlers(t) ==
    /\ task[t].stage = "emit"
    /\ IF MessageOrdering
       THEN DrainFrom(t, next, held)
       ELSE /\ task' = [task EXCEPT ![t] = Idle]
            /\ UNCHANGED handled
    /\ UNCHANGED <<sent, wire, ackWire, acked, connected, next, held>>

\* The handlers of a held packet are done: the entry at the nonce that is
\* expected now is deleted, and the loop goes on.
FinishDrained(t) ==
    LET rest == {i \in held : Nonce(i) # next} IN
    /\ task[t].stage = "drain"
    /\ held' = rest
    /\ next' = next + 1
    /\ DrainFrom(t, next + 1, rest)
    /\ UNCHANGED <<sent, wire, ackWire, acked, connected>>

\* The handler of Hello is done; that branch does not look at held packets.
FinishHello(t) ==
    /\ task[t].stage = "hello"
    /\ task' = [task EXCEPT ![t] = Idle]
    /\ UNCHANGED <<sent, wire, ackWire, acked, connected, next, held, handled>>

\* A handler throws: the error is logged and the rest is skipped.
Throw(t) ==
    /\ HandlersThrow
    /\ task[t].stage \in {"hello", "emit", "drain"}
    /\ task' = [task EXCEPT ![t] = Idle]
    /\ UNCHANGED <<sent, wire, ackWire, acked, connected, next, held, handled>>

-----------------------------------------------------------------------------
Continue(t) ==
    \/ DropBehind(t)
    \/ Hold(t)
    \/ Accept(t)
    \/ FinishHandlers(t)
    \/ FinishDrained(t)
    \/ FinishHello(t)
    \/ Throw(t)

Deliver(t) ==
    \/ ReceiveHello(t)
    \/ IgnoreUnknown(t)
    \/ ReceiveUnknownRoot(t)
    \/ Receive(t)

Client == Send \/ Resend \/ ReceiveAck

Next == Client \/ Lose \/ \E t \in Invocation : Deliver(t) \/ Continue(t)

Spec == Init /\ [][Next]_vars

(* A promise that is awaited settles, the client goes on resending what is *)
(* not acknowledged, a datagram does not stay in the socket for ever, and  *)
(* the network does not lose every copy of a packet.                       *)
ResendPacket(i) == Resend /\ i \notin wire /\ wire' = wire \cup {i}

DeliverPacket(i) ==
    /\ i \in wire
    /\ wire' = wire \ {i}
    /\ \E t \in Invocation : Deliver(t)

FairLoss(i) ==
    []<><<ResendPacket(i)>>_vars => []<><<DeliverPacket(i)>>_vars

Fairness ==
    /\ WF_vars(Send)
    /\ \A t \in Invocation : WF_vars(Continue(t))
    /\ \A i \in Packet :
        /\ WF_vars(ResendPacket(i))
        /\ SF_vars(DeliverPacket(i))
        /\ FairLoss(i)

FairSpec == Spec /\ Fairness
-----------------------------------------------------------------------------
(* Properties. *)

TypeOK ==
    /\ sent \in 0 .. MaxSent
    /\ wire \subseteq 1 .. sent
    /\ ackWire \subseteq 1 .. NonceLimit
    /\ acked \subseteq 1 .. sent
    /\ connected \in BOOLEAN
    /\ next \in Nat
    /\ held \subseteq 1 .. sent
    /\ task \in [Invocation -> [stage : Stage, packet : Packet]]
    /\ \A t \in Invocation : task[t].stage # "idle" => task[t].packet <= sent
    /\ handled \in Seq(Packet)

\* "Used to prevent duplicate packets with the same nonce" (Connection.ts):
\* the handlers never run twice for one nonce, however often UDP delivers
\* the packet and however the invocations overlap; moreover a packet whose
\* handlers start later was sent later.
HandledInOrder ==
    \A a, b \in 1 .. Len(handled) :
        a < b => Nonce(handled[a]) < Nonce(handled[b])

\* An acknowledged packet is safe: the client will not send it again, so the
\* server has handled it, holds it, or is about to decide about it.
AckedIsKept ==
    \A i \in acked :
        \/ i \in held
        \/ \E k \in 1 .. Len(handled) : handled[k] = i
        \/ \E t \in Invocation : task[t].stage = "ack" /\ task[t].packet = i

\* Every packet the client sends has its handlers run in the end.
SentIsHandled ==
    \A i \in Packet :
        sent >= i ~> \E k \in 1 .. Len(handled) : handled[k] = i

\* What handleMessage promises when datagrams are dealt with one at a time.
Ordered ==
    INSTANCE OrderedDelivery WITH sent <- sent, handled <- handled, MaxSent <- MaxSent
DeliveredInOrder == Ordered!Spec
AllDeliveredInOrder == Ordered!FairSpec
=============================================================================
