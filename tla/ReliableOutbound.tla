-------------------------- MODULE ReliableOutbound --------------------------
(***************************************************************************)
(* The reliable layer of one client connection, in the direction server to *)
(* client: Worker.sendPacket, the handler of AcknowledgePacket and         *)
(* Worker.pollClientReliability, with unackedPackets and the nonce counter *)
(* of Connection (Hindenburg).                                             *)
(*                                                                         *)
(* Time passes in ticks of half a second.  pollClientReliability runs      *)
(* every PollEvery ticks and is atomic: nothing in it waits before the     *)
(* last resend is handed to the socket.  The client and the network are    *)
(* external: a copy of a packet and the acknowledgement it provokes take   *)
(* less than a tick, unless the copy or the acknowledgement is lost, which *)
(* happens to at most MaxLost copies of one packet.  A client that has     *)
(* died acknowledges nothing.                                              *)
(***************************************************************************)
EXTENDS Integers, FiniteSets

CONSTANTS
    PollEvery,      \* ticks between two polls (4: 2000 ms)
    ResendAfter,    \* an older packet is sent again (3: 1500 ms)
    DropAfter,      \* an older packet may cost the connection (16: 8000 ms)
    Window,         \* packets that may be unacknowledged (8)
    NonceLimit,     \* largest nonce that can be written (65535)
    MaxTicks,       \* bound: ticks
    MaxSends,       \* bound: packets sent by rooms and handlers
    MaxLost,        \* copies of one packet that may be lost
    MayDie          \* whether the client may die

ASSUME OutboundAssumption ==
    /\ PollEvery \in Nat \ {0}
    /\ {ResendAfter, DropAfter, Window, NonceLimit} \subseteq Nat
    /\ {MaxTicks, MaxSends, MaxLost} \subseteq Nat
    /\ MayDie \in BOOLEAN

VARIABLES
    now,        \* ticks since the connection was made
    polled,     \* the tick of the last poll
    nonce,      \* connection._incrNonce
    unacked,    \* connection.unackedPackets: [nonce, sentAt]
    requested,  \* packets that sendPacket was called for
    sends,      \* how many of those were sent by rooms and handlers
    flight,     \* nonces of the copies, or their acknowledgements, in flight
    lost,       \* copies lost of each packet
    acked,      \* nonces the server has seen acknowledged
    connected,  \* worker.connections has this client
    closing,    \* a call of disconnect waits for its packet to be sent
    diedAt      \* the tick at which the client died, or Alive

vars == <<now, polled, nonce, unacked, requested, sends, flight, lost, acked,
          connected, closing, diedAt>>

Alive == -1
alive == diedAt = Alive

\* Pings and other packets together never use more nonces than this.
MaxNonce == MaxTicks + MaxSends + 1
Nonces == 1 .. MaxNonce

-----------------------------------------------------------------------------
Init ==
    /\ now = 0
    /\ polled = 0
    /\ nonce = 0
    /\ unacked = {}
    /\ requested = 0
    /\ sends = 0
    /\ flight = {}
    /\ lost = [n \in Nonces |-> 0]
    /\ acked = {}
    /\ connected = TRUE
    /\ closing = FALSE
    /\ diedAt = Alive

-----------------------------------------------------------------------------
\* Mutant of SendReliable: the nonce is read before it is incremented.
SendReliableFromZero(old, copies) ==
    /\ nonce' = nonce + 1
    /\ requested' = requested + 1
    /\ IF nonce <= NonceLimit
       THEN /\ unacked' = old \cup {[nonce |-> nonce, sentAt |-> now]}
            /\ flight' = flight \cup copies \cup {nonce}
       ELSE /\ unacked' = old
            /\ flight' = flight \cup copies

\* The part of sendPacket that a caller with the next nonce triggers: the
\* nonce is written on 16 bits, or nothing more happens; the packet is
\* recorded and its first copy leaves.  old is what was recorded before, and
\* copies are those that leave in the same step.
SendReliable(old, copies) ==
    /\ nonce' = nonce + 1
    /\ requested' = requested + 1
    /\ IF nonce + 1 <= NonceLimit
       THEN /\ unacked' = old \cup {[nonce |-> nonce + 1, sentAt |-> now]}
            /\ flight' = flight \cup copies \cup {nonce + 1}
       ELSE /\ unacked' = old
            /\ flight' = flight \cup copies

\* A room or a handler sends a reliable packet.
Send ==
    /\ connected
    /\ sends < MaxSends
    /\ sends' = sends + 1
    /\ SendReliable(unacked, {})
    /\ UNCHANGED <<now, polled, lost, acked, connected, closing, diedAt>>

\* Mutant of Acknowledge: the acknowledgement stands for older packets too.
AcknowledgeUpTo ==
    /\ connected
    /\ alive
    /\ \E n \in flight :
        /\ flight' = flight \ {n}
        /\ unacked' = {p \in unacked : p.nonce > n}
        /\ acked' = acked \cup {n}
        /\ lost' = [lost EXCEPT ![n] = 0]
    /\ UNCHANGED <<now, polled, nonce, requested, sends, connected, closing,
                   diedAt>>

\* The client acknowledges a copy and the acknowledgement arrives.
Acknowledge ==
    /\ connected
    /\ alive
    /\ \E n \in flight :
        /\ flight' = flight \ {n}
        /\ unacked' = {p \in unacked : p.nonce # n}
        /\ acked' = acked \cup {n}
        /\ lost' = [lost EXCEPT ![n] = 0]
    /\ UNCHANGED <<now, polled, nonce, requested, sends, connected, closing,
                   diedAt>>

\* A copy or its acknowledgement is lost.
Lose ==
    /\ alive
    /\ \E n \in flight :
        /\ lost[n] < MaxLost
        /\ lost' = [lost EXCEPT ![n] = @ + 1]
        /\ flight' = flight \ {n}
    /\ UNCHANGED <<now, polled, nonce, unacked, requested, sends, acked,
                   connected, closing, diedAt>>

\* What is in flight comes to nothing once one of the two is gone.
Vanish ==
    /\ ~alive \/ ~connected
    /\ flight # {}
    /\ flight' = {}
    /\ UNCHANGED <<now, polled, nonce, unacked, requested, sends, lost, acked,
                   connected, closing, diedAt>>

\* The client dies without a word.
Die ==
    /\ MayDie
    /\ alive
    /\ diedAt' = now
    /\ UNCHANGED <<now, polled, nonce, unacked, requested, sends, flight, lost,
                   acked, connected, closing>>

-----------------------------------------------------------------------------
Due == connected /\ now = polled + PollEvery

Older(age) == {p \in unacked : now - p.sentAt > age}

\* Mutant of First: the last entry.
Last == CHOOSE p \in unacked : \A q \in unacked : p.nonce >= q.nonce

\* The first entry of unackedPackets: the one with the smallest nonce.
First == CHOOSE p \in unacked : \A q \in unacked : p.nonce <= q.nonce

Overdue == Cardinality(unacked) > Window /\ First \in Older(DropAfter)

\* pollClientReliability gives the client up: it calls disconnect and does
\* not wait for it.
PollDrops ==
    /\ Due
    /\ Overdue
    /\ polled' = now
    /\ closing' = TRUE
    /\ UNCHANGED <<now, nonce, unacked, requested, sends, flight, lost, acked,
                   connected, diedAt>>

\* Mutant of PollResends: nothing is sent again.
PollPings ==
    /\ Due
    /\ ~Overdue
    /\ polled' = now
    /\ SendReliable(unacked, {})
    /\ UNCHANGED <<now, sends, lost, acked, connected, closing, diedAt>>

\* pollClientReliability pings the client and sends what is old again.
PollResends ==
    /\ Due
    /\ ~Overdue
    /\ polled' = now
    /\ SendReliable(unacked, {p.nonce : p \in Older(ResendAfter)})
    /\ UNCHANGED <<now, sends, lost, acked, connected, closing, diedAt>>

\* The disconnect packet is sent: disconnect removes the connection.
FinishDisconnect ==
    /\ closing
    /\ closing' = FALSE
    /\ connected' = FALSE
    /\ UNCHANGED <<now, polled, nonce, unacked, requested, sends, flight, lost,
                   acked, diedAt>>

\* Time passes when there is nothing left that takes less than a tick.
Tick ==
    /\ now < MaxTicks
    /\ flight = {}
    /\ ~Due
    /\ ~closing
    /\ now' = now + 1
    /\ UNCHANGED <<polled, nonce, unacked, requested, sends, flight, lost,
                   acked, connected, closing, diedAt>>

Next ==
    \/ Send
    \/ Acknowledge
    \/ Lose
    \/ Vanish
    \/ Die
    \/ PollDrops
    \/ PollResends
    \/ FinishDisconnect
    \/ Tick

Spec == Init /\ [][Next]_vars

-----------------------------------------------------------------------------
TypeOK ==
    /\ now \in 0 .. MaxTicks
    /\ polled \in 0 .. now
    /\ nonce \in 0 .. MaxNonce
    /\ requested \in 0 .. MaxNonce
    /\ sends \in 0 .. MaxSends
    /\ unacked \subseteq [nonce : 1 .. nonce, sentAt : 0 .. now]
    /\ flight \subseteq 1 .. nonce
    /\ lost \in [Nonces -> Nat]
    /\ acked \subseteq 1 .. nonce
    /\ connected \in BOOLEAN
    /\ closing \in BOOLEAN
    /\ diedAt \in {Alive} \cup 0 .. now

\* A client that answers is kept, whatever is sent to it, while no packet
\* loses more than MaxLost of its copies: the polls resend a packet often
\* enough before its age can cost the connection.
RespondingIsKept == alive => connected /\ ~closing

\* A client that has died is removed: the pings alone fill the window, and
\* a poll after that finds the first of them overdue.
PollsToRemove == 2 + (IF Window > DropAfter \div PollEvery
                      THEN Window ELSE DropAfter \div PollEvery)
DeadIsRemoved ==
    ~alive /\ connected => now <= diedAt + PollsToRemove * PollEvery

\* "For reliable packets, packets sent will be reliably recorded and marked
\* for re-sending if the client does not send an acknowledgement"
\* (Connection.sendPacket).
ReliablyRecorded ==
    1 .. requested = acked \cup {p.nonce : p \in unacked}
=============================================================================
