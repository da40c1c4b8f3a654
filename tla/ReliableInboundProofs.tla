----------------------- MODULE ReliableInboundProofs -----------------------
(***************************************************************************)
(* Proofs about ReliableInbound, for every number of packets, every nonce  *)
(* width and every set of invocations:                                     *)
(*   - TypeCorrect: the type invariant;                                    *)
(*   - NeverTwiceUnordered: without message ordering, no nonce is handled  *)
(*     twice or late, however the invocations overlap;                     *)
(*   - OneAtATimeIsOrdered: with message ordering and one invocation at a  *)
(*     time, handleMessage implements OrderedDelivery;                     *)
(*   - AckedStaysKept: in that setting no acknowledged packet is dropped,  *)
(*     even when handlers throw.                                           *)
(***************************************************************************)
EXTENDS ReliableInbound, TLAPS

LEMMA NonceType ==
    ASSUME NEW i \in Packet
    PROVE  Nonce(i) \in 1 .. NonceLimit
  BY InboundAssumption DEF Nonce, Packet

LEMMA NonceIsIndex ==
    ASSUME NEW i \in Packet, MaxSent <= NonceLimit
    PROVE  Nonce(i) = i
  BY InboundAssumption DEF Nonce, Packet

-----------------------------------------------------------------------------
(* The type invariant. *)

\* What TypeOK says of the variables that a suspended invocation changes.
TaskType ==
    /\ task \in [Invocation -> [stage : Stage, packet : Packet]]
    /\ \A t \in Invocation : task[t].stage # "idle" => task[t].packet <= sent
    /\ handled \in Seq(Packet)

\* An invocation that returns keeps the types.
LEMMA IdleType ==
    ASSUME TypeOK, NEW t \in Invocation, task' = [task EXCEPT ![t] = Idle],
           UNCHANGED <<sent, handled>>
    PROVE  TaskType'
<1>1. Idle \in [stage : Stage, packet : Packet] /\ Idle.stage = "idle"
  BY InboundAssumption DEF Idle, Hello, Packet, Stage
<1>. QED
  BY <1>1 DEF TypeOK, TaskType

\* Starting the handlers of a packet that was sent keeps the types.
LEMMA StartType ==
    ASSUME TypeOK, NEW t \in Invocation, NEW i \in 1 .. sent,
           NEW stage \in Stage, StartHandlers(t, i, stage), UNCHANGED sent
    PROVE  TaskType'
<1>1. i \in Packet /\ i <= sent
  BY InboundAssumption DEF TypeOK, Packet
<1>2. /\ task' \in [Invocation -> [stage : Stage, packet : Packet]]
      /\ \A u \in Invocation : task'[u].stage # "idle" => task'[u].packet <= sent
  BY <1>1 DEF StartHandlers, TypeOK
<1>3. handled' \in Seq(Packet)
  BY <1>1 DEF StartHandlers, TypeOK
<1>. QED
  BY <1>2, <1>3 DEF TaskType

\* One turn of the loop over held packets keeps the types.
LEMMA DrainFromType ==
    ASSUME TypeOK, NEW t \in Invocation, NEW n, NEW map,
           map \subseteq held, DrainFrom(t, n, map), UNCHANGED sent
    PROVE  TaskType'
<1>1. ASSUME NEW i \in map, StartHandlers(t, i, "drain")
      PROVE  TaskType'
  <2>1. i \in 1 .. sent /\ "drain" \in Stage
    BY DEF TypeOK, Stage
  <2>. QED
    BY <1>1, <2>1, StartType
<1>2. CASE task' = [task EXCEPT ![t] = Idle] /\ UNCHANGED handled
  BY <1>2, IdleType
<1>. QED
  BY <1>1, <1>2 DEF DrainFrom

LEMMA TypeInit == Init => TypeOK
<1>. SUFFICES ASSUME Init PROVE TypeOK
  OBVIOUS
<1>1. /\ task \in [Invocation -> [stage : Stage, packet : Packet]]
      /\ \A t \in Invocation : task[t].stage = "idle"
  BY InboundAssumption DEF Init, Idle, Hello, Packet, Stage
<1>2. handled \in Seq(Packet)
  BY DEF Init
<1>3. sent \in 0 .. MaxSent /\ next \in Nat
  BY InboundAssumption DEF Init
<1>5. connected \in BOOLEAN
  BY DEF Init
<1>4. /\ wire \subseteq 1 .. sent
      /\ ackWire \subseteq 1 .. NonceLimit
      /\ acked \subseteq 1 .. sent
      /\ held \subseteq 1 .. sent
  BY DEF Init
<1>. QED
  BY <1>1, <1>2, <1>3, <1>4, <1>5 DEF TypeOK

\* Every step keeps the types: one step of the proof per action.
LEMMA TypeStep ==
    ASSUME TypeOK, [Next]_vars
    PROVE  TypeOK'
<1>. USE InboundAssumption
<1>1. CASE Send
  <2>1. sent' \in 0 .. MaxSent /\ sent' = sent + 1
    BY <1>1 DEF Send, TypeOK
  <2>2. 1 .. sent \subseteq 1 .. sent' /\ sent' \in 1 .. sent'
    BY <2>1 DEF TypeOK
  <2>3. /\ wire' \subseteq 1 .. sent'
        /\ acked' \subseteq 1 .. sent'
        /\ held' \subseteq 1 .. sent'
    BY <1>1, <2>1, <2>2 DEF Send, TypeOK
  <2>4. \A t \in Invocation : task'[t].stage # "idle" => task'[t].packet <= sent'
    BY <1>1, <2>1 DEF Send, TypeOK, Packet
  <2>. QED
    BY <1>1, <2>1, <2>3, <2>4 DEF Send, TypeOK
<1>2. CASE Resend
  BY <1>2 DEF Resend, TypeOK
<1>3. CASE ReceiveAck
  BY <1>3 DEF ReceiveAck, TypeOK
<1>4. CASE Lose
  BY <1>4 DEF Lose, TypeOK
<1>5. ASSUME NEW t \in Invocation, ReceiveHello(t) PROVE TypeOK'
  <2>1. /\ Hello \in 1 .. sent
        /\ wire' \subseteq 1 .. sent'
        /\ "hello" \in Stage
    BY <1>5 DEF ReceiveHello, Arrives, TypeOK, Stage
  <2>2. Nonce(Hello) \in 1 .. NonceLimit
    BY NonceType DEF Hello, Packet
  <2>3. TaskType'
    BY <1>5, <2>1, StartType DEF ReceiveHello
  <2>4. ackWire' \subseteq 1 .. NonceLimit
    BY <1>5, <2>2 DEF ReceiveHello, TypeOK
  <2>5. next' \in Nat
    BY <1>5, <2>2 DEF ReceiveHello
  <2>. QED
    BY <1>5, <2>1, <2>3, <2>4, <2>5 DEF ReceiveHello, TypeOK, TaskType
<1>6. ASSUME NEW t \in Invocation, IgnoreUnknown(t) PROVE TypeOK'
  BY <1>6 DEF IgnoreUnknown, Arrives, TypeOK
<1>7. ASSUME NEW t \in Invocation, ReceiveUnknownRoot(t) PROVE TypeOK'
  BY <1>7 DEF ReceiveUnknownRoot, TypeOK
<1>8. ASSUME NEW t \in Invocation, Receive(t) PROVE TypeOK'
  <2>1. PICK i \in wire :
          /\ Arrives(i)
          /\ ackWire' = ackWire \cup {Nonce(i)}
          /\ task' = [task EXCEPT ![t] = [stage |-> "ack", packet |-> i]]
    BY <1>8 DEF Receive
  <2>2. i \in Packet /\ i <= sent /\ Nonce(i) \in 1 .. NonceLimit
    BY NonceType DEF TypeOK, Packet
  <2>3. TaskType'
    BY <1>8, <2>1, <2>2 DEF Receive, TypeOK, TaskType, Stage
  <2>4. wire' \subseteq 1 .. sent /\ ackWire' \subseteq 1 .. NonceLimit
    BY <2>1, <2>2 DEF Arrives, TypeOK
  <2>. QED
    BY <1>8, <2>3, <2>4 DEF Receive, TypeOK, TaskType
<1>9. ASSUME NEW t \in Invocation, DropBehind(t) PROVE TypeOK'
  <2>1. TaskType'
    BY <1>9, IdleType DEF DropBehind
  <2>. QED
    BY <1>9, <2>1 DEF DropBehind, TypeOK, TaskType
<1>10. ASSUME NEW t \in Invocation, Hold(t) PROVE TypeOK'
  <2>1. TaskType'
    BY <1>10, IdleType DEF Hold
  <2>2. task[t].packet \in 1 .. sent
    BY <1>10 DEF Hold, TypeOK, Packet
  <2>3. held' \subseteq 1 .. sent
    BY <1>10, <2>2 DEF Hold, TypeOK
  <2>. QED
    BY <1>10, <2>1, <2>3 DEF Hold, TypeOK, TaskType
<1>11. ASSUME NEW t \in Invocation, Accept(t) PROVE TypeOK'
  <2>1. /\ task[t].packet \in 1 .. sent
        /\ task[t].packet \in Packet
        /\ "emit" \in Stage
    BY <1>11 DEF Accept, TypeOK, Packet, Stage
  <2>2. TaskType'
    BY <1>11, <2>1, StartType DEF Accept
  <2>3. next' \in Nat
    BY <1>11, <2>1, NonceType DEF Accept
  <2>. QED
    BY <1>11, <2>2, <2>3 DEF Accept, TypeOK, TaskType
<1>12. ASSUME NEW t \in Invocation, FinishHandlers(t) PROVE TypeOK'
  <2>1. TaskType'
    <3>1. CASE MessageOrdering
      BY <1>12, <3>1, DrainFromType DEF FinishHandlers
    <3>2. CASE ~MessageOrdering
      BY <1>12, <3>2, IdleType DEF FinishHandlers
    <3>. QED
      BY <3>1, <3>2
  <2>. QED
    BY <1>12, <2>1 DEF FinishHandlers, TypeOK, TaskType
<1>13. ASSUME NEW t \in Invocation, FinishDrained(t) PROVE TypeOK'
  <2>1. TaskType'
    BY <1>13, DrainFromType DEF FinishDrained
  <2>2. held' \subseteq held
    BY <1>13 DEF FinishDrained
  <2>3. next' \in Nat
    BY <1>13 DEF FinishDrained, TypeOK
  <2>. QED
    BY <1>13, <2>1, <2>2, <2>3 DEF FinishDrained, TypeOK, TaskType
<1>14. ASSUME NEW t \in Invocation, FinishHello(t) PROVE TypeOK'
  <2>1. TaskType'
    BY <1>14, IdleType DEF FinishHello
  <2>. QED
    BY <1>14, <2>1 DEF FinishHello, TypeOK, TaskType
<1>15. ASSUME NEW t \in Invocation, Throw(t) PROVE TypeOK'
  <2>1. TaskType'
    BY <1>15, IdleType DEF Throw
  <2>. QED
    BY <1>15, <2>1 DEF Throw, TypeOK, TaskType
<1>16. CASE UNCHANGED vars
  BY <1>16 DEF vars, TypeOK
<1>. QED
  BY <1>1, <1>2, <1>3, <1>4, <1>5, <1>6, <1>7, <1>8, <1>9, <1>10, <1>11,
     <1>12, <1>13, <1>14, <1>15, <1>16
  DEF Next, Client, Deliver, Continue

\* Every variable keeps its type: nothing is acknowledged, held, handled or
\* in flight that the client has not sent.
THEOREM TypeCorrect == Spec => []TypeOK
<1>1. Init => TypeOK
  BY TypeInit
<1>2. TypeOK /\ [Next]_vars => TypeOK'
  BY TypeStep
<1>. QED
  BY <1>1, <1>2, PTL DEF Spec

-----------------------------------------------------------------------------
(* Without message ordering nothing is handled twice or late.              *)
(*                                                                         *)
(* HandledInOrder alone is not inductive: that the next packet accepted is *)
(* later than all those handled follows from nextExpectedNonce being       *)
(* beyond all of them, which every acceptance restores before it lets      *)
(* another invocation run; and Hello is the first of all because nothing   *)
(* is handled for an unknown address.                                      *)
UnknownIsUntouched ==
    ~connected => /\ next = 0
                  /\ handled = <<>>
                  /\ \A t \in Invocation : task[t].stage = "idle"

UnorderedInv ==
    /\ UnknownIsUntouched
    /\ \A t \in Invocation : task[t].stage # "drain"
    /\ \A k \in 1 .. Len(handled) : Nonce(handled[k]) < next
    /\ HandledInOrder

\* Handling a packet whose nonce is not behind keeps the order.
LEMMA AppendInOrder ==
    ASSUME TypeOK, UnorderedInv, NEW i \in Packet, Nonce(i) >= next,
           handled' = Append(handled, i), next' = Nonce(i) + 1
    PROVE  /\ \A k \in 1 .. Len(handled') : Nonce(handled'[k]) < next'
           /\ HandledInOrder'
<1>. DEFINE n == Len(handled)
<1>1. /\ n \in Nat
      /\ Len(handled') = n + 1
      /\ handled'[n + 1] = i
      /\ \A k \in 1 .. n : handled'[k] = handled[k] /\ handled[k] \in Packet
  BY DEF TypeOK
<1>2. next \in Nat /\ Nonce(i) \in Nat
  BY NonceType DEF TypeOK
<1>3. \A k \in 1 .. n : Nonce(handled[k]) \in Nat /\ Nonce(handled[k]) < next
  BY <1>1, NonceType DEF UnorderedInv
<1>4. \A k \in 1 .. n + 1 : k \in 1 .. n \/ k = n + 1
  BY <1>1
<1>5. \A k \in 1 .. n + 1 : Nonce(handled'[k]) < next'
  BY <1>1, <1>2, <1>3, <1>4
<1>6. ASSUME NEW a \in 1 .. n + 1, NEW b \in 1 .. n + 1, a < b
      PROVE  Nonce(handled'[a]) < Nonce(handled'[b])
  <2>1. a \in 1 .. n
    BY <1>1, <1>6
  <2>2. CASE b \in 1 .. n
    BY <1>1, <1>6, <2>1, <2>2 DEF UnorderedInv, HandledInOrder
  <2>3. CASE b = n + 1
    BY <1>1, <1>2, <1>3, <2>1, <2>3
  <2>. QED
    BY <1>4, <2>2, <2>3
<1>. QED
  BY <1>1, <1>5, <1>6 DEF HandledInOrder

LEMMA UnorderedStep ==
    ASSUME TypeOK, UnorderedInv, ~MessageOrdering, [Next]_vars
    PROVE  UnorderedInv'
<1>1. ASSUME NEW t \in Invocation, ReceiveHello(t) PROVE UnorderedInv'
  <2>1. Hello \in Packet /\ Nonce(Hello) \in Nat
    BY InboundAssumption, NonceType DEF Hello, Packet
  <2>2. /\ handled = <<>>
        /\ handled' = <<Hello>>
        /\ next' = Nonce(Hello) + 1
        /\ connected'
    BY <1>1 DEF ReceiveHello, StartHandlers, UnorderedInv, UnknownIsUntouched
  <2>3. /\ \A k \in 1 .. Len(handled') : Nonce(handled'[k]) < next'
        /\ HandledInOrder'
    BY <2>1, <2>2 DEF HandledInOrder
  <2>4. \A u \in Invocation : task'[u].stage # "drain"
    BY <1>1 DEF ReceiveHello, StartHandlers, UnorderedInv, TypeOK
  <2>. QED
    BY <2>2, <2>3, <2>4 DEF UnorderedInv, UnknownIsUntouched
<1>2. ASSUME NEW t \in Invocation, Accept(t) PROVE UnorderedInv'
  <2>1. /\ task[t].packet \in Packet
        /\ Nonce(task[t].packet) >= next
        /\ handled' = Append(handled, task[t].packet)
        /\ next' = Nonce(task[t].packet) + 1
    BY <1>2 DEF Accept, StartHandlers, TypeOK
  <2>2. /\ \A k \in 1 .. Len(handled') : Nonce(handled'[k]) < next'
        /\ HandledInOrder'
    BY <2>1, AppendInOrder
  <2>3. \A u \in Invocation : task'[u].stage # "drain"
    BY <1>2 DEF Accept, StartHandlers, UnorderedInv, TypeOK
  <2>4. connected'
    BY <1>2 DEF Accept, UnorderedInv, UnknownIsUntouched
  <2>. QED
    BY <2>2, <2>3, <2>4 DEF UnorderedInv, UnknownIsUntouched
\* The other actions of an invocation handle nothing.
<1>3. ASSUME NEW t \in Invocation,
             \/ IgnoreUnknown(t) \/ ReceiveUnknownRoot(t) \/ Receive(t)
             \/ DropBehind(t) \/ Hold(t)
             \/ FinishHandlers(t) \/ FinishHello(t) \/ Throw(t)
      PROVE  UnorderedInv'
  <2>1. UNCHANGED <<next, handled>>
    BY <1>3 DEF IgnoreUnknown, ReceiveUnknownRoot, Receive, DropBehind, Hold,
                FinishHandlers, FinishHello, Throw
  <2>2. \A u \in Invocation : task'[u].stage # "drain"
    BY <1>3 DEF IgnoreUnknown, ReceiveUnknownRoot, Receive, DropBehind, Hold,
                FinishHandlers, FinishHello, Throw, Idle, UnorderedInv, TypeOK
  <2>3. connected' \/ UNCHANGED <<connected, task>>
    BY <1>3 DEF IgnoreUnknown, ReceiveUnknownRoot, Receive, DropBehind, Hold,
                FinishHandlers, FinishHello, Throw,
                UnorderedInv, UnknownIsUntouched
  <2>. QED
    BY <2>1, <2>2, <2>3
    DEF UnorderedInv, UnknownIsUntouched, HandledInOrder
<1>4. ASSUME NEW t \in Invocation, FinishDrained(t) PROVE UnorderedInv'
  BY <1>4 DEF FinishDrained, UnorderedInv
<1>5. CASE Client \/ Lose \/ UNCHANGED vars
  <2>1. UNCHANGED <<connected, next, task, handled>>
    BY <1>5 DEF Client, Send, Resend, ReceiveAck, Lose, vars
  <2>. QED
    BY <2>1 DEF UnorderedInv, UnknownIsUntouched, HandledInOrder
<1>. QED
  BY <1>1, <1>2, <1>3, <1>4, <1>5 DEF Next, Deliver, Continue

\* Without message ordering, the handlers never run twice for a nonce and
\* never for a nonce behind one that ran, whatever UDP duplicates, reorders
\* or loses and however the invocations of handleMessage overlap.
THEOREM NeverTwiceUnordered ==
    ASSUME ~MessageOrdering
    PROVE  Spec => []HandledInOrder
<1>. DEFINE IInv == TypeOK /\ UnorderedInv
<1>1. Init => IInv
  <2>1. ASSUME Init PROVE UnorderedInv
    <3>1. \A t \in Invocation : task[t].stage = "idle"
      BY <2>1 DEF Init, Idle
    <3>. QED
      BY <2>1, <3>1
      DEF Init, UnorderedInv, UnknownIsUntouched, HandledInOrder
  <2>. QED
    BY <2>1, TypeInit
<1>2. IInv /\ [Next]_vars => IInv'
  BY TypeStep, UnorderedStep
<1>3. IInv => HandledInOrder
  BY DEF UnorderedInv
<1>. QED
  BY <1>1, <1>2, <1>3, PTL DEF Spec

-----------------------------------------------------------------------------
(* With message ordering, and one invocation t at a time, the handled      *)
(* packets are 1, 2, ..., as OrderedDelivery demands.                      *)
(*                                                                         *)
(* The invariant ties the number of handled packets to nextExpectedNonce:  *)
(* it is one behind, except while a held packet runs, whose nonce is only  *)
(* passed when its handlers are done.  That exception is what a second     *)
(* invocation, or a handler that throws, would turn into a repetition.     *)
OrderedInv(t) ==
    /\ UnknownIsUntouched
    /\ \A k \in 1 .. Len(handled) : handled[k] = k
    /\ next = 0 => handled = <<>> /\ task[t].stage \in {"idle", "ack"}
    /\ next # 0 /\ task[t].stage = "drain" => Len(handled) = next
    /\ next # 0 /\ task[t].stage # "drain" => Len(handled) = next - 1

\* Starting the handlers of the packet after the handled ones is a step of
\* the abstract specification, and keeps the handled packets a prefix.
LEMMA StartNext ==
    ASSUME TypeOK, NEW t \in Invocation, OrderedInv(t), NEW stage,
           NEW i \in 1 .. sent, i = Len(handled) + 1,
           StartHandlers(t, i, stage), UNCHANGED sent
    PROVE  /\ Ordered!Handle
           /\ Len(handled') = i
           /\ \A k \in 1 .. Len(handled') : handled'[k] = k
           /\ task'[t].stage = stage
<1>1. handled' = Append(handled, i) /\ Len(handled) \in Nat /\ sent \in Nat
  BY DEF StartHandlers, TypeOK
<1>2. Ordered!Handle
  BY <1>1 DEF Ordered!Handle
<1>3. Len(handled') = i /\ \A k \in 1 .. Len(handled') : handled'[k] = k
  BY <1>1 DEF OrderedInv, TypeOK
<1>4. task'[t].stage = stage
  BY DEF StartHandlers, TypeOK
<1>. QED
  BY <1>2, <1>3, <1>4

\* One turn of the loop over held packets, when n is the next nonce due.
LEMMA DrainNext ==
    ASSUME TypeOK, MaxSent <= NonceLimit, NEW t \in Invocation, OrderedInv(t),
           NEW map, map \subseteq held, DrainFrom(t, Len(handled) + 1, map),
           UNCHANGED sent
    PROVE  /\ \A k \in 1 .. Len(handled') : handled'[k] = k
           /\ \/ /\ Ordered!Handle
                 /\ task'[t].stage = "drain"
                 /\ Len(handled') = Len(handled) + 1
              \/ /\ UNCHANGED handled
                 /\ task'[t].stage = "idle"
<1>1. ASSUME NEW i \in map, Nonce(i) = Len(handled) + 1,
             StartHandlers(t, i, "drain")
      PROVE  /\ \A k \in 1 .. Len(handled') : handled'[k] = k
             /\ Ordered!Handle
             /\ task'[t].stage = "drain"
             /\ Len(handled') = Len(handled) + 1
  <2>1. i \in 1 .. sent /\ i \in Packet
    BY InboundAssumption DEF TypeOK, Packet
  <2>2. i = Len(handled) + 1
    BY <1>1, <2>1, NonceIsIndex
  <2>. QED
    BY <1>1, <2>1, <2>2, StartNext
<1>2. CASE task' = [task EXCEPT ![t] = Idle] /\ UNCHANGED handled
  BY <1>2 DEF Idle, OrderedInv, TypeOK
<1>. QED
  BY <1>1, <1>2 DEF DrainFrom

\* Every step keeps the invariant and is a step of the abstract
\* specification or leaves its variables alone.
LEMMA OrderedStep ==
    ASSUME TypeOK, NEW t, Invocation = {t}, OrderedInv(t), [Next]_vars,
           MessageOrdering, ~HandlersThrow, MaxSent <= NonceLimit
    PROVE  OrderedInv(t)' /\ [Ordered!Next]_(Ordered!vars)
<1>. DEFINE Goal == OrderedInv(t)' /\ [Ordered!Next]_(Ordered!vars)
<1>. USE DEF Ordered!Next, Ordered!vars
<1>0. t \in Invocation /\ next \in Nat /\ Len(handled) \in Nat
  BY DEF TypeOK
<1>1. CASE ReceiveHello(t)
  <2>1. /\ Hello \in 1 .. sent
        /\ Hello = Len(handled) + 1
        /\ Nonce(Hello) = Hello
    BY <1>1, InboundAssumption, NonceIsIndex
    DEF ReceiveHello, Arrives, Hello, Packet, OrderedInv, UnknownIsUntouched, TypeOK
  <2>2. /\ Ordered!Handle
        /\ Len(handled') = 1
        /\ \A k \in 1 .. Len(handled') : handled'[k] = k
        /\ task'[t].stage = "hello"
    BY <1>0, <1>1, <2>1, StartNext DEF ReceiveHello, Hello
  <2>3. next' = 2 /\ connected'
    BY <1>1, <2>1 DEF ReceiveHello, Hello
  <2>. QED
    BY <2>2, <2>3 DEF OrderedInv, UnknownIsUntouched
<1>2. CASE Accept(t)
  <2>. DEFINE i == task[t].packet
  <2>1. /\ i \in 1 .. sent
        /\ i \in Packet
    BY <1>0, <1>2 DEF Accept, TypeOK, Packet
  <2>2. Nonce(i) = i /\ i = next
    BY <1>2, <2>1, NonceIsIndex DEF Accept
  <2>3. i = Len(handled) + 1
    BY <1>0, <1>2, <2>1, <2>2 DEF Accept, OrderedInv
  <2>4. /\ Ordered!Handle
        /\ Len(handled') = i
        /\ \A k \in 1 .. Len(handled') : handled'[k] = k
        /\ task'[t].stage = "emit"
    BY <1>0, <1>2, <2>1, <2>3, StartNext DEF Accept
  <2>5. next' = i + 1 /\ connected'
    BY <1>0, <1>2, <2>2 DEF Accept, OrderedInv, UnknownIsUntouched
  <2>. QED
    BY <1>0, <2>1, <2>4, <2>5 DEF OrderedInv, UnknownIsUntouched
<1>3. CASE FinishHandlers(t)
  <2>1. next # 0 /\ Len(handled) + 1 = next /\ connected
    BY <1>0, <1>3 DEF FinishHandlers, OrderedInv, UnknownIsUntouched
  <2>2. DrainFrom(t, Len(handled) + 1, held) /\ UNCHANGED <<sent, next, connected>>
    BY <1>3, <2>1 DEF FinishHandlers
  <2>3. /\ \A k \in 1 .. Len(handled') : handled'[k] = k
        /\ \/ /\ Ordered!Handle
              /\ task'[t].stage = "drain"
              /\ Len(handled') = Len(handled) + 1
           \/ /\ UNCHANGED handled
              /\ task'[t].stage = "idle"
    BY <1>0, <2>2, DrainNext
  <2>. QED
    BY <1>0, <2>1, <2>2, <2>3 DEF OrderedInv, UnknownIsUntouched
<1>4. CASE FinishDrained(t)
  <2>1. next # 0 /\ Len(handled) = next /\ connected
    BY <1>0, <1>4 DEF FinishDrained, OrderedInv, UnknownIsUntouched
  <2>2. /\ DrainFrom(t, Len(handled) + 1, {i \in held : Nonce(i) # next})
        /\ next' = next + 1
        /\ UNCHANGED <<sent, connected>>
    BY <1>4, <2>1 DEF FinishDrained
  <2>3. /\ \A k \in 1 .. Len(handled') : handled'[k] = k
        /\ \/ /\ Ordered!Handle
              /\ task'[t].stage = "drain"
              /\ Len(handled') = Len(handled) + 1
           \/ /\ UNCHANGED handled
              /\ task'[t].stage = "idle"
    BY <1>0, <2>2, DrainNext
  <2>. QED
    BY <1>0, <2>1, <2>2, <2>3 DEF OrderedInv, UnknownIsUntouched
\* The remaining actions handle nothing.
<1>5. CASE \/ IgnoreUnknown(t) \/ ReceiveUnknownRoot(t) \/ Receive(t)
           \/ DropBehind(t) \/ Hold(t) \/ FinishHello(t)
  <2>1. UNCHANGED <<sent, next, handled>>
    BY <1>5 DEF IgnoreUnknown, ReceiveUnknownRoot, Receive, DropBehind, Hold,
                FinishHello
  <2>2. task[t].stage # "drain" /\ task'[t].stage \in {"idle", "ack"}
    BY <1>0, <1>5
    DEF IgnoreUnknown, ReceiveUnknownRoot, Receive, DropBehind, Hold,
        FinishHello, Idle, TypeOK
  <2>3. connected' \/ UNCHANGED <<connected, task>>
    BY <1>0, <1>5
    DEF IgnoreUnknown, ReceiveUnknownRoot, Receive, DropBehind, Hold,
        FinishHello, OrderedInv, UnknownIsUntouched
  <2>. QED
    BY <2>1, <2>2, <2>3 DEF OrderedInv, UnknownIsUntouched
<1>6. CASE Send
  <2>1. Ordered!Send /\ UNCHANGED <<connected, next, task, handled>>
    BY <1>6 DEF Send, Ordered!Send
  <2>. QED
    BY <2>1 DEF OrderedInv, UnknownIsUntouched
<1>7. CASE Resend \/ ReceiveAck \/ Lose \/ UNCHANGED vars
  <2>1. UNCHANGED <<sent, connected, next, task, handled>>
    BY <1>7 DEF Resend, ReceiveAck, Lose, vars
  <2>. QED
    BY <2>1 DEF OrderedInv, UnknownIsUntouched
<1>8. ~Throw(t)
  BY DEF Throw
<1>9. \A u \in Invocation : u = t
  OBVIOUS
<1>. QED
  BY <1>1, <1>2, <1>3, <1>4, <1>5, <1>6, <1>7, <1>8, <1>9
  DEF Next, Client, Deliver, Continue

\* With message ordering, handleMessage implements OrderedDelivery: packets
\* are handled in the order of sending, none skipped and none twice, as long
\* as one datagram is dealt with at a time, no handler throws and the client
\* does not start its nonces again.
THEOREM OneAtATimeIsOrdered ==
    ASSUME NEW t, Invocation = {t}, MessageOrdering, ~HandlersThrow,
           MaxSent <= NonceLimit
    PROVE  Spec => DeliveredInOrder
<1>1. Init => TypeOK /\ OrderedInv(t)
  <2>1. ASSUME Init PROVE OrderedInv(t)
    <3>1. \A u \in Invocation : task[u].stage = "idle"
      BY <2>1 DEF Init, Idle
    <3>. QED
      BY <2>1, <3>1 DEF Init, OrderedInv, UnknownIsUntouched
  <2>. QED
    BY <2>1, TypeInit
<1>2. Init => Ordered!Init
  BY DEF Init, Ordered!Init
<1>3. /\ TypeOK /\ OrderedInv(t) /\ [Next]_vars
      => TypeOK' /\ OrderedInv(t)'
  BY TypeStep, OrderedStep
<1>4. TypeOK /\ OrderedInv(t) /\ [Next]_vars => [Ordered!Next]_(Ordered!vars)
  BY OrderedStep
<1>. QED
  BY <1>1, <1>2, <1>3, <1>4, PTL DEF Spec, DeliveredInOrder, Ordered!Spec
-----------------------------------------------------------------------------
(* With message ordering, and one invocation t at a time, what the client  *)
(* need not send again is not lost.                                        *)
(*                                                                         *)
(* The acknowledgement leaves before the packet is looked at, so the       *)
(* invariant must hold of the acknowledgements in flight too.  A packet is *)
(* dropped because it is behind, or deleted after it was drained: both are *)
(* harmless because everything behind nextExpectedNonce has been handled,  *)
(* and so has the packet due now while the loop over held packets runs.    *)
IsIn(i, seq) == \E k \in 1 .. Len(seq) : seq[k] = i

Kept(i, t) ==
    \/ i \in held
    \/ IsIn(i, handled)
    \/ task[t].stage = "ack" /\ task[t].packet = i

KeptInv(t) ==
    /\ ackWire \subseteq 1 .. sent
    /\ \A i \in Packet : i < next => IsIn(i, handled)
    /\ task[t].stage = "drain" => IsIn(next, handled)
    /\ \A i \in acked \cup ackWire : Kept(i, t)

\* What was handled stays handled, and a packet that is started is.
LEMMA HandledGrows ==
    ASSUME TypeOK, NEW i \in Packet, handled' = Append(handled, i)
    PROVE  /\ \A j : IsIn(j, handled) => IsIn(j, handled')
           /\ IsIn(i, handled')
<1>1. /\ Len(handled) \in Nat
      /\ Len(handled') = Len(handled) + 1
      /\ handled'[Len(handled) + 1] = i
      /\ \A k \in 1 .. Len(handled) : handled'[k] = handled[k]
  BY DEF TypeOK
<1>2. IsIn(i, handled')
  BY <1>1 DEF IsIn
<1>3. ASSUME NEW j, IsIn(j, handled) PROVE IsIn(j, handled')
  <2>1. PICK k \in 1 .. Len(handled) : handled[k] = j
    BY <1>3 DEF IsIn
  <2>. QED
    BY <1>1, <2>1 DEF IsIn
<1>. QED
  BY <1>2, <1>3

\* One turn of the loop over held packets loses no packet handled before,
\* and what it starts is the packet with the nonce it looks for.
LEMMA DrainKeeps ==
    ASSUME TypeOK, MaxSent <= NonceLimit, NEW t \in Invocation, NEW n,
           NEW map, map \subseteq held, DrainFrom(t, n, map)
    PROVE  /\ \A j : IsIn(j, handled) => IsIn(j, handled')
           /\ task'[t].stage = "drain" => IsIn(n, handled')
<1>1. ASSUME NEW i \in map, Nonce(i) = n, StartHandlers(t, i, "drain")
      PROVE  /\ \A j : IsIn(j, handled) => IsIn(j, handled')
             /\ IsIn(n, handled')
  <2>1. i \in Packet
    BY InboundAssumption DEF TypeOK, Packet
  <2>2. i = n
    BY <1>1, <2>1, NonceIsIndex
  <2>. QED
    BY <1>1, <2>1, <2>2, HandledGrows DEF StartHandlers
<1>2. CASE task' = [task EXCEPT ![t] = Idle] /\ UNCHANGED handled
  BY <1>2 DEF Idle, IsIn, TypeOK
<1>. QED
  BY <1>1, <1>2 DEF DrainFrom

LEMMA KeptStep ==
    ASSUME TypeOK, NEW t, Invocation = {t}, KeptInv(t), [Next]_vars,
           MessageOrdering, MaxSent <= NonceLimit
    PROVE  KeptInv(t)'
<1>0. /\ t \in Invocation /\ next \in Nat /\ sent \in Nat /\ sent <= MaxSent
      /\ acked \cup ackWire \subseteq 1 .. sent
      /\ 1 .. sent \subseteq Packet
  <2>1. t \in Invocation /\ next \in Nat /\ sent \in Nat /\ sent <= MaxSent
    BY InboundAssumption DEF TypeOK
  <2>2. acked \cup ackWire \subseteq 1 .. sent
    BY DEF TypeOK, KeptInv
  <2>3. 1 .. sent \subseteq Packet
    BY <2>1, InboundAssumption DEF Packet
  <2>. QED
    BY <2>1, <2>2, <2>3
<1>1. CASE ReceiveHello(t)
  <2>1. /\ Hello \in Packet /\ Hello \in 1 .. sent
        /\ Nonce(Hello) = Hello
    BY <1>0, <1>1, InboundAssumption, NonceIsIndex
    DEF ReceiveHello, Arrives, Hello, Packet, TypeOK
  <2>2. /\ \A j : IsIn(j, handled) => IsIn(j, handled')
        /\ IsIn(Hello, handled')
    BY <1>1, <2>1, HandledGrows DEF ReceiveHello, StartHandlers
  <2>3. /\ next' = 2 /\ ackWire' = ackWire \cup {Hello}
        /\ task[t].stage = "idle" /\ task'[t].stage = "hello"
        /\ UNCHANGED <<sent, acked, held>>
    BY <1>0, <1>1, <2>1 DEF ReceiveHello, StartHandlers, Hello, TypeOK
  <2>4. \A i \in Packet : i < next' => i = Hello
    BY <2>3 DEF Packet, Hello
  <2>5. \A i \in acked \cup ackWire : Kept(i, t)'
    BY <2>2, <2>3 DEF KeptInv, Kept
  <2>6. Kept(Hello, t)'
    BY <2>2 DEF Kept
  <2>. QED
    BY <2>1, <2>2, <2>3, <2>4, <2>5, <2>6 DEF KeptInv
<1>2. CASE Receive(t)
  <2>1. PICK i \in wire :
          /\ ackWire' = ackWire \cup {Nonce(i)}
          /\ task' = [task EXCEPT ![t] = [stage |-> "ack", packet |-> i]]
    BY <1>2 DEF Receive
  <2>2. i \in 1 .. sent /\ Nonce(i) = i
    BY <1>0, <2>1, NonceIsIndex DEF TypeOK
  <2>3. /\ task'[t].stage = "ack" /\ task'[t].packet = i
        /\ task[t].stage = "idle"
        /\ UNCHANGED <<sent, acked, next, held, handled>>
    BY <1>0, <1>2, <2>1 DEF Receive, TypeOK
  <2>4. \A j \in acked \cup ackWire : Kept(j, t)'
    BY <2>3 DEF KeptInv, Kept, IsIn
  <2>5. Kept(i, t)'
    BY <2>3 DEF Kept
  <2>. QED
    BY <2>1, <2>2, <2>3, <2>4, <2>5 DEF KeptInv, IsIn
<1>3. CASE DropBehind(t)
  <2>1. /\ task[t].stage = "ack" /\ task[t].packet \in Packet
        /\ task'[t].stage = "idle"
        /\ UNCHANGED <<sent, ackWire, acked, next, held, handled>>
    BY <1>0, <1>3 DEF DropBehind, Idle, TypeOK
  <2>2. IsIn(task[t].packet, handled)
    BY <1>3, <2>1, NonceIsIndex DEF DropBehind, KeptInv
  <2>. QED
    BY <2>1, <2>2 DEF KeptInv, Kept, IsIn
<1>4. CASE Hold(t)
  <2>1. /\ task[t].stage = "ack" /\ task[t].packet \in Packet
        /\ task'[t].stage = "idle"
        /\ UNCHANGED <<sent, ackWire, acked, next, handled>>
    BY <1>0, <1>4 DEF Hold, Idle, TypeOK
  <2>2. \A j \in held : Nonce(j) = j
    BY <1>0, NonceIsIndex DEF TypeOK
  <2>3. held \subseteq held' /\ task[t].packet \in held'
    BY <1>4, <2>1, <2>2, NonceIsIndex DEF Hold
  <2>. QED
    BY <2>1, <2>3 DEF KeptInv, Kept, IsIn
<1>5. CASE Accept(t)
  <2>. DEFINE i == task[t].packet
  <2>1. /\ i \in Packet /\ Nonce(i) = i /\ i = next
        /\ next' = next + 1
        /\ handled' = Append(handled, i)
        /\ task[t].stage = "ack" /\ task'[t].stage = "emit"
        /\ UNCHANGED <<sent, ackWire, acked, held>>
    BY <1>0, <1>5, NonceIsIndex DEF Accept, StartHandlers, TypeOK
  <2>2. /\ \A j : IsIn(j, handled) => IsIn(j, handled')
        /\ IsIn(i, handled')
    BY <2>1, HandledGrows
  <2>3. \A j \in Packet : j < next' => j < next \/ j = i
    BY <1>0, <2>1 DEF Packet
  <2>. QED
    BY <2>1, <2>2, <2>3 DEF KeptInv, Kept
<1>6. CASE FinishHandlers(t)
  <2>1. /\ DrainFrom(t, next, held) /\ task[t].stage = "emit"
        /\ UNCHANGED <<sent, ackWire, acked, next, held>>
    BY <1>6 DEF FinishHandlers
  <2>2. /\ \A j : IsIn(j, handled) => IsIn(j, handled')
        /\ task'[t].stage = "drain" => IsIn(next, handled')
    BY <1>0, <2>1, DrainKeeps
  <2>. QED
    BY <2>1, <2>2 DEF KeptInv, Kept
<1>7. CASE FinishDrained(t)
  <2>. DEFINE rest == {i \in held : Nonce(i) # next}
  <2>1. /\ DrainFrom(t, next + 1, rest) /\ task[t].stage = "drain"
        /\ next' = next + 1 /\ held' = rest
        /\ UNCHANGED <<sent, ackWire, acked>>
    BY <1>7 DEF FinishDrained
  <2>2. /\ \A j : IsIn(j, handled) => IsIn(j, handled')
        /\ task'[t].stage = "drain" => IsIn(next', handled')
    BY <1>0, <2>1, DrainKeeps
  <2>3. IsIn(next, handled')
    BY <2>1, <2>2 DEF KeptInv
  <2>4. \A j \in Packet : j < next' => j < next \/ j = next
    BY <1>0, <2>1 DEF Packet
  <2>5. \A j \in held : j = next \/ j \in held'
    BY <1>0, <2>1, NonceIsIndex DEF TypeOK
  <2>. QED
    BY <2>1, <2>2, <2>3, <2>4, <2>5 DEF KeptInv, Kept
<1>8. CASE IgnoreUnknown(t) \/ ReceiveUnknownRoot(t) \/ FinishHello(t) \/ Throw(t)
  <2>1. /\ UNCHANGED <<sent, ackWire, acked, next, held, handled>>
        /\ task[t].stage # "ack"
        /\ task'[t].stage \in {"idle"}
    BY <1>0, <1>8
    DEF IgnoreUnknown, ReceiveUnknownRoot, FinishHello, Throw, Idle, TypeOK
  <2>. QED
    BY <2>1 DEF KeptInv, Kept, IsIn
<1>9. CASE Send
  <2>1. /\ sent' = sent + 1
        /\ UNCHANGED <<ackWire, acked, next, held, task, handled>>
    BY <1>9 DEF Send
  <2>. QED
    BY <1>0, <2>1 DEF KeptInv, Kept, IsIn
<1>10. CASE ReceiveAck
  <2>1. PICK v \in ackWire :
          /\ ackWire' = ackWire \ {v}
          /\ acked' = acked \cup {i \in 1 .. sent : Nonce(i) = v}
    BY <1>10 DEF ReceiveAck
  <2>2. UNCHANGED <<sent, next, held, task, handled>>
    BY <1>10 DEF ReceiveAck
  <2>3. acked' \subseteq acked \cup {v}
    BY <1>0, <2>1, NonceIsIndex
  <2>. QED
    BY <2>1, <2>2, <2>3 DEF KeptInv, Kept, IsIn
<1>11. CASE Resend \/ Lose \/ UNCHANGED vars
  <2>1. ackWire' \subseteq ackWire
    BY <1>11 DEF Resend, Lose, vars
  <2>2. UNCHANGED <<sent, acked, next, held, task, handled>>
    BY <1>11 DEF Resend, Lose, vars
  <2>. QED
    BY <2>1, <2>2 DEF KeptInv, Kept, IsIn
<1>12. \A u \in Invocation : u = t
  OBVIOUS
<1>. QED
  BY <1>1, <1>2, <1>3, <1>4, <1>5, <1>6, <1>7, <1>8, <1>9, <1>10, <1>11, <1>12
  DEF Next, Client, Deliver, Continue

\* A packet the client knows to be acknowledged, and so never sends again,
\* is handled, held or being looked at: with message ordering, one datagram
\* at a time and nonces that do not start again, whatever UDP does, whether
\* or not handlers throw, and even when the connection was made by a stray
\* datagram.
THEOREM AckedStaysKept ==
    ASSUME NEW t, Invocation = {t}, MessageOrdering, MaxSent <= NonceLimit
    PROVE  Spec => []AckedIsKept
<1>1. Init => TypeOK /\ KeptInv(t)
  <2>1. ASSUME Init PROVE KeptInv(t)
    <3>1. task[t].stage = "idle" /\ \A i \in Packet : ~(i < next)
      BY <2>1 DEF Init, Idle, Packet
    <3>. QED
      BY <2>1, <3>1 DEF Init, KeptInv
  <2>. QED
    BY <2>1, TypeInit
<1>2. TypeOK /\ KeptInv(t) /\ [Next]_vars => TypeOK' /\ KeptInv(t)'
  BY TypeStep, KeptStep
<1>3. KeptInv(t) => AckedIsKept
  BY DEF KeptInv, Kept, IsIn, AckedIsKept
<1>. QED
  BY <1>1, <1>2, <1>3, PTL DEF Spec
=============================================================================
