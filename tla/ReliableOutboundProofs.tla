----------------------- MODULE ReliableOutboundProofs -----------------------
(***************************************************************************)
(* What holds of the reliable layer towards a client for every choice of   *)
(* the intervals, the window, the losses and the bounds: nothing sent is   *)
(* forgotten, a client that answers is kept (RespondingStays), and one     *)
(* that has died is removed in time (DeadAreRemoved).                      *)
(***************************************************************************)
EXTENDS ReliableOutbound, FiniteSetTheorems, WellFoundedInduction, TLAPS

\* Every packet takes one nonce, and a poll that takes one is later than the
\* one before: so there are nonces enough for the bounds.
NoncesSuffice ==
    /\ requested = nonce
    /\ nonce <= sends + polled

IInv == TypeOK /\ NoncesSuffice

LEMMA BoundsAreNat ==
    /\ MaxNonce \in Nat /\ MaxNonce >= MaxTicks + MaxSends
    /\ PollEvery \in Nat /\ PollEvery > 0
    /\ MaxTicks \in Nat /\ MaxSends \in Nat /\ NonceLimit \in Nat
  BY OutboundAssumption DEF OutboundAssumption, MaxNonce

LEMMA InitIsGood ==
    ASSUME Init
    PROVE  IInv
  <1>1. lost \in [Nonces -> Nat]
    BY DEF Init
  <1>2. acked = {} /\ unacked = {} /\ flight = {}
    BY DEF Init
  <1>3. diedAt = Alive /\ connected = TRUE /\ closing = FALSE
    BY DEF Init
  <1>4. now = 0 /\ polled = 0 /\ nonce = 0 /\ requested = 0 /\ sends = 0
    BY DEF Init
  <1>5. /\ now \in 0 .. MaxTicks /\ polled \in 0 .. now
        /\ nonce \in 0 .. MaxNonce /\ requested \in 0 .. MaxNonce
        /\ sends \in 0 .. MaxSends
        /\ NoncesSuffice
    BY <1>4, BoundsAreNat DEF NoncesSuffice
  <1>6. /\ acked \subseteq 1 .. nonce /\ flight \subseteq 1 .. nonce
        /\ unacked \subseteq [nonce : 1 .. nonce, sentAt : 0 .. now]
    BY <1>2
  <1> QED BY <1>1, <1>3, <1>5, <1>6 DEF IInv, TypeOK

\* What sendPacket keeps: the nonce it takes is new, and what it records and
\* sends has been numbered.
LEMMA SendReliableKeeps ==
    ASSUME TypeOK, requested = nonce, NEW copies \in SUBSET (1 .. nonce),
           SendReliable(unacked, copies)
    PROVE  /\ nonce' = nonce + 1
           /\ requested' = nonce'
           /\ unacked' \subseteq [nonce : 1 .. nonce', sentAt : 0 .. now]
           /\ flight' \subseteq 1 .. nonce'
  <1>1. nonce \in Nat /\ now \in Nat
    BY BoundsAreNat DEF TypeOK
  <1>2. nonce' = nonce + 1 /\ requested' = nonce'
    BY DEF SendReliable
  <1>3. [nonce |-> nonce + 1, sentAt |-> now]
            \in [nonce : 1 .. nonce', sentAt : 0 .. now]
    BY <1>1, <1>2
  <1>4. [nonce : 1 .. nonce, sentAt : 0 .. now]
            \subseteq [nonce : 1 .. nonce', sentAt : 0 .. now]
    BY <1>1, <1>2
  <1>5. unacked' \subseteq [nonce : 1 .. nonce', sentAt : 0 .. now]
    BY <1>3, <1>4 DEF SendReliable, TypeOK
  <1>6. flight' \subseteq 1 .. nonce'
    <2>1. 1 .. nonce \subseteq 1 .. nonce' /\ nonce + 1 \in 1 .. nonce'
      BY <1>1, <1>2
    <2>2. flight \cup copies \subseteq 1 .. nonce
      BY DEF TypeOK
    <2>3. flight' \subseteq flight \cup copies \cup {nonce + 1}
      BY DEF SendReliable
    <2> QED BY <2>1, <2>2, <2>3
  <1> QED BY <1>2, <1>5, <1>6

LEMMA StepIsGood ==
    ASSUME IInv, [Next]_vars
    PROVE  IInv'
  <1> USE DEF IInv, NoncesSuffice
  <1>0. /\ now \in Nat /\ polled \in Nat /\ nonce \in Nat /\ sends \in Nat
        /\ polled <= now /\ now <= MaxTicks /\ sends <= MaxSends
        /\ MaxTicks \in Nat /\ MaxSends \in Nat /\ MaxNonce \in Nat
        /\ MaxNonce >= MaxTicks + MaxSends
        /\ PollEvery \in Nat /\ PollEvery > 0
    BY BoundsAreNat DEF TypeOK
  <1>1. CASE Send
    <2>1. SendReliable(unacked, {}) BY <1>1 DEF Send
    <2>2. /\ nonce' = nonce + 1
          /\ requested' = nonce'
          /\ unacked' \subseteq [nonce : 1 .. nonce', sentAt : 0 .. now]
          /\ flight' \subseteq 1 .. nonce'
      BY <2>1, SendReliableKeeps
    <2>3. sends' = sends + 1 /\ sends' <= MaxSends
      BY <1>0, <1>1 DEF Send
    <2>4. nonce' <= sends' + polled
      BY <1>0, <2>2, <2>3
    <2>5. acked \subseteq 1 .. nonce'
      BY <1>0, <2>2 DEF TypeOK
    <2> QED BY <1>0, <1>1, <2>2, <2>3, <2>4, <2>5 DEF Send, TypeOK, Alive
  <1>2. CASE Acknowledge
    <2>1. PICK n \in flight :
              /\ flight' = flight \ {n}
              /\ unacked' = {p \in unacked : p.nonce # n}
              /\ acked' = acked \cup {n}
              /\ lost' = [lost EXCEPT ![n] = 0]
      BY <1>2 DEF Acknowledge
    <2>2. acked' \subseteq 1 .. nonce /\ lost' \in [Nonces -> Nat]
      BY <2>1 DEF TypeOK
    <2> QED BY <1>2, <2>1, <2>2 DEF Acknowledge, TypeOK
  <1>3. CASE Lose
    <2>1. PICK n \in flight :
              /\ lost' = [lost EXCEPT ![n] = @ + 1]
              /\ flight' = flight \ {n}
      BY <1>3 DEF Lose
    <2>2. lost' \in [Nonces -> Nat]
      <3>1. n \in Nonces => lost[n] + 1 \in Nat BY DEF TypeOK
      <3> QED BY <2>1, <3>1 DEF TypeOK
    <2> QED BY <1>3, <2>1, <2>2 DEF Lose, TypeOK
  <1>4. CASE Vanish
    BY <1>4 DEF Vanish, TypeOK
  <1>5. CASE Die
    BY <1>0, <1>5 DEF Die, TypeOK, Alive
  <1>6. CASE PollDrops
    <2>1. polled' = now /\ now = polled + PollEvery
      BY <1>6 DEF PollDrops, Due
    <2> QED BY <1>0, <1>6, <2>1 DEF PollDrops, TypeOK
  <1>7. CASE PollResends
    <2> DEFINE copies == {p.nonce : p \in Older(ResendAfter)}
    <2>1. copies \subseteq 1 .. nonce
      BY DEF Older, TypeOK
    <2>2. SendReliable(unacked, copies) BY <1>7 DEF PollResends
    <2> HIDE DEF copies
    <2>3. /\ nonce' = nonce + 1
          /\ requested' = nonce'
          /\ unacked' \subseteq [nonce : 1 .. nonce', sentAt : 0 .. now]
          /\ flight' \subseteq 1 .. nonce'
      BY <2>1, <2>2, SendReliableKeeps
    <2>4. polled' = now /\ now = polled + PollEvery
      BY <1>7 DEF PollResends, Due
    <2>5. nonce' <= sends + polled'
      BY <1>0, <2>3, <2>4
    <2>6. acked \subseteq 1 .. nonce'
      BY <1>0, <2>3 DEF TypeOK
    <2> QED BY <1>0, <1>7, <2>3, <2>4, <2>5, <2>6 DEF PollResends, TypeOK
  <1>8. CASE FinishDisconnect
    BY <1>8 DEF FinishDisconnect, TypeOK
  <1>9. CASE Tick
    <2>1. now' = now + 1 /\ now' <= MaxTicks
      BY <1>0, <1>9 DEF Tick
    <2>2. unacked \subseteq [nonce : 1 .. nonce, sentAt : 0 .. now']
      BY <1>0, <2>1 DEF TypeOK
    <2> QED BY <1>0, <1>9, <2>1, <2>2 DEF Tick, TypeOK, Alive
  <1>10. CASE UNCHANGED vars
    BY <1>10 DEF vars, TypeOK
  <1> QED
    BY <1>1, <1>2, <1>3, <1>4, <1>5, <1>6, <1>7, <1>8, <1>9, <1>10 DEF Next

\* The variables of the layer keep their types whatever the intervals and the
\* bounds are: only nonces that were given out are waited for, in flight or
\* acknowledged (sendPacket, pollClientReliability).
THEOREM OutboundTypeCorrect == Spec => []TypeOK
  <1>1. Init => IInv BY InitIsGood
  <1>2. IInv /\ [Next]_vars => IInv' BY StepIsGood
  <1>3. IInv => TypeOK BY DEF IInv
  <1> QED BY <1>1, <1>2, <1>3, PTL DEF Spec

-----------------------------------------------------------------------------
LEMMA RecordedAtFirst ==
    ASSUME Init
    PROVE  ReliablyRecorded
  BY DEF Init, ReliablyRecorded

LEMMA SendReliableRecords ==
    ASSUME MaxNonce <= NonceLimit, IInv, IInv', ReliablyRecorded,
           NEW copies, SendReliable(unacked, copies), acked' = acked
    PROVE  ReliablyRecorded'
  <1>1. nonce \in Nat /\ requested = nonce /\ nonce' = nonce + 1
    BY BoundsAreNat
    DEF IInv, TypeOK, NoncesSuffice, SendReliable
  <1>2. nonce + 1 <= NonceLimit
    <2>1. nonce + 1 <= MaxNonce
      BY <1>1, BoundsAreNat DEF IInv, TypeOK
    <2> QED
      BY <1>1, <2>1, BoundsAreNat
  <1>3. /\ unacked' = unacked \cup {[nonce |-> nonce + 1, sentAt |-> now]}
        /\ requested' = nonce + 1
    BY <1>1, <1>2 DEF SendReliable
  <1>4. {p.nonce : p \in unacked'} = {p.nonce : p \in unacked} \cup {nonce + 1}
    <2> DEFINE new == [nonce |-> nonce + 1, sentAt |-> now]
    <2>1. new.nonce = nonce + 1 OBVIOUS
    <2>2. unacked' = unacked \cup {new} BY <1>3
    <2> HIDE DEF new
    <2> QED BY <2>1, <2>2
  <1>5. 1 .. requested' = (1 .. nonce) \cup {nonce + 1}
    BY <1>1, <1>3
  <1> QED BY <1>1, <1>4, <1>5 DEF ReliablyRecorded

LEMMA StepRecords ==
    ASSUME MaxNonce <= NonceLimit, IInv, IInv', ReliablyRecorded, [Next]_vars
    PROVE  ReliablyRecorded'
  <1>1. CASE Send
    <2>1. SendReliable(unacked, {}) /\ acked' = acked BY <1>1 DEF Send
    <2> QED BY <2>1, SendReliableRecords
  <1>2. CASE PollResends
    <2>1. SendReliable(unacked, {p.nonce : p \in Older(ResendAfter)})
      BY <1>2 DEF PollResends
    <2>2. acked' = acked BY <1>2 DEF PollResends
    <2> QED BY <2>1, <2>2, SendReliableRecords
  <1>3. CASE Acknowledge
    <2>1. PICK n \in flight :
              /\ unacked' = {p \in unacked : p.nonce # n}
              /\ acked' = acked \cup {n}
      BY <1>3 DEF Acknowledge
    <2>2. requested' = requested BY <1>3 DEF Acknowledge
    <2>3. n \in 1 .. requested BY DEF IInv, TypeOK, NoncesSuffice
    <2>4. acked' \cup {p.nonce : p \in unacked'}
              = acked \cup {p.nonce : p \in unacked} \cup {n}
      BY <2>1
    <2> QED BY <2>2, <2>3, <2>4 DEF ReliablyRecorded
  <1>4. CASE UNCHANGED <<requested, acked, unacked>>
    BY <1>4 DEF ReliablyRecorded
  <1> QED
    BY <1>1, <1>2, <1>3, <1>4
    DEF Next, vars, Lose, Vanish, Die, PollDrops, FinishDisconnect, Tick

\* As long as the nonces fit their 16 bits, every reliable packet that was
\* given to sendPacket has been acknowledged or is recorded for another
\* resend, whatever was lost and in whatever order acknowledgements came
\* (Connection.sendPacket, the handler of AcknowledgePacket).
THEOREM RecordedWhileNoncesFit ==
    ASSUME MaxNonce <= NonceLimit
    PROVE  Spec => []ReliablyRecorded
  <1>1. Init => IInv /\ ReliablyRecorded BY InitIsGood, RecordedAtFirst
  <1>2. IInv /\ ReliablyRecorded /\ [Next]_vars
            => (IInv /\ ReliablyRecorded)'
    <2>1. IInv /\ [Next]_vars => IInv' BY StepIsGood
    <2> QED BY <2>1, StepRecords
  <1> QED BY <1>1, <1>2, PTL DEF Spec
-----------------------------------------------------------------------------
(* A client that answers is kept. *)

\* What a packet that is not acknowledged has cost so far: every copy but the
\* one in flight was lost, and there was one at every poll that found the
\* packet old enough.
Awaited(p) ==
    LET n == p.nonce IN
    /\ n \in flight \/ lost[n] >= 1
    /\ n \in flight => p.sentAt = now \/ polled = now
    /\ polled + PollEvery
        <= p.sentAt + ResendAfter + lost[n] * PollEvery
           + (IF n \in flight THEN PollEvery ELSE 0)

\* As long as the client answers, it is connected and every packet awaited.
RespondingInv ==
    /\ \A n \in Nonces : lost[n] <= MaxLost
    /\ alive => connected /\ ~closing /\ \A p \in unacked : Awaited(p)

\* The intervals, and their multiples.
LEMMA IntervalsAreNat ==
    /\ ResendAfter \in Nat /\ DropAfter \in Nat /\ Window \in Nat
    /\ MaxLost \in Nat /\ PollEvery \in Nat /\ PollEvery > 0
    /\ \A k \in Nat : k * PollEvery \in Nat
    /\ \A k \in Nat : (k + 1) * PollEvery = k * PollEvery + PollEvery
  <1>1. /\ ResendAfter \in Nat /\ DropAfter \in Nat /\ Window \in Nat
        /\ MaxLost \in Nat /\ PollEvery \in Nat /\ PollEvery > 0
    BY OutboundAssumption DEF OutboundAssumption
  <1> QED BY <1>1

\* The types of a packet that is recorded, and of the clock.
LEMMA RecordedTypes ==
    ASSUME IInv
    PROVE  /\ now \in Nat /\ polled \in Nat /\ polled <= now /\ nonce \in Nat
           /\ \A p \in unacked :
                /\ p.nonce \in Nat /\ p.nonce \in Nonces /\ p.nonce <= nonce
                /\ p.sentAt \in Nat /\ p.sentAt <= now
           /\ \A n \in Nonces : lost[n] \in Nat
  <1>1. /\ now \in Nat /\ polled \in Nat /\ polled <= now
        /\ nonce \in Nat /\ nonce <= MaxNonce /\ MaxNonce \in Nat
    BY BoundsAreNat DEF IInv, TypeOK
  <1>2. \A p \in unacked : p.nonce \in 1 .. nonce /\ p.sentAt \in 0 .. now
    BY DEF IInv, TypeOK
  <1>3. \A n \in Nonces : lost[n] \in Nat
    BY DEF IInv, TypeOK
  <1> QED BY <1>1, <1>2, <1>3 DEF Nonces

\* A new packet has its first copy in flight.
LEMMA NewIsAwaited ==
    ASSUME IInv, IInv', UNCHANGED <<now, lost>>, polled' = polled \/ polled' = now,
           NEW p \in unacked', p.nonce \in flight', p.sentAt = now
    PROVE  Awaited(p)'
  <1>1. /\ p.nonce \in Nonces /\ lost'[p.nonce] \in Nat
        /\ polled' <= now /\ polled' \in Nat /\ now \in Nat
    <2>1. /\ now \in Nat /\ polled' \in Nat /\ polled' <= now
          /\ nonce' \in Nat /\ nonce' <= MaxNonce /\ MaxNonce \in Nat
      BY BoundsAreNat DEF IInv, TypeOK
    <2>2. p.nonce \in 1 .. nonce'
      BY DEF IInv, TypeOK
    <2>3. p.nonce \in Nonces
      BY <2>1, <2>2 DEF Nonces
    <2> QED BY <2>1, <2>3 DEF IInv, TypeOK
  <1>2. lost'[p.nonce] * PollEvery \in Nat
    BY <1>1, IntervalsAreNat
  <1> QED BY <1>1, <1>2, IntervalsAreNat DEF Awaited

\* Losing a copy pays for it; a resend is paid for by the poll before it.
LEMMA StepKeepsResponding ==
    ASSUME MaxLost * PollEvery + ResendAfter <= DropAfter,
           IInv, IInv', RespondingInv, [Next]_vars
    PROVE  RespondingInv'
  <1> USE DEF RespondingInv
  <1>0. /\ now \in Nat /\ polled \in Nat /\ polled <= now
        /\ nonce \in Nat /\ MaxLost \in Nat /\ lost \in [Nonces -> Nat]
    BY RecordedTypes, IntervalsAreNat DEF IInv, TypeOK
  <1>1. CASE Send
    <2>1. /\ UNCHANGED <<now, polled, lost, connected, closing, diedAt>>
          /\ SendReliable(unacked, {})
      BY <1>1 DEF Send
    <2>2. ASSUME alive, NEW p \in unacked'
          PROVE  Awaited(p)'
      <3>1. CASE p \in unacked
        <4>1. Awaited(p) /\ p.nonce \in Nat /\ p.nonce <= nonce
          BY <2>2, <3>1, RecordedTypes
        <4>2. p.nonce \in flight' <=> p.nonce \in flight
          BY <1>0, <2>1, <4>1 DEF SendReliable
        <4> QED BY <2>1, <4>1, <4>2 DEF Awaited
      <3>2. CASE p \notin unacked
        <4>1. p.nonce \in flight' /\ p.sentAt = now
          BY <2>1, <2>2, <3>2 DEF SendReliable
        <4> QED BY <2>1, <2>2, <4>1, NewIsAwaited
      <3> QED BY <3>1, <3>2
    <2> QED BY <2>1, <2>2 DEF alive
  <1>2. CASE Acknowledge
    <2>1. /\ UNCHANGED <<now, polled, connected, closing, diedAt>> /\ alive
      BY <1>2 DEF Acknowledge
    <2>2. PICK n \in flight :
              /\ flight' = flight \ {n}
              /\ unacked' = {p \in unacked : p.nonce # n}
              /\ lost' = [lost EXCEPT ![n] = 0]
      BY <1>2 DEF Acknowledge
    <2>3. \A m \in Nonces : lost'[m] <= MaxLost
      BY <1>0, <2>2
    <2>4. ASSUME NEW p \in unacked'
          PROVE  Awaited(p)'
      <3>1. Awaited(p) /\ p.nonce \in Nonces /\ p.nonce # n
        BY <2>1, <2>2, <2>4, RecordedTypes
      <3>2. /\ lost'[p.nonce] = lost[p.nonce]
            /\ p.nonce \in flight' <=> p.nonce \in flight
        BY <1>0, <2>2, <3>1
      <3> QED BY <2>1, <3>1, <3>2 DEF Awaited
    <2> QED BY <2>1, <2>3, <2>4 DEF alive
  <1>3. CASE Lose
    <2>1. /\ UNCHANGED <<now, polled, unacked, connected, closing, diedAt>> /\ alive
      BY <1>3 DEF Lose
    <2>2. PICK n \in flight :
              /\ lost[n] < MaxLost
              /\ lost' = [lost EXCEPT ![n] = @ + 1]
              /\ flight' = flight \ {n}
      BY <1>3 DEF Lose
    <2>3. \A m \in Nonces : lost'[m] <= MaxLost
      <3>1. ASSUME NEW m \in Nonces PROVE lost'[m] <= MaxLost
        BY <1>0, <2>2
      <3> QED BY <3>1
    <2>4. ASSUME NEW p \in unacked
          PROVE  Awaited(p)'
      <3>1. Awaited(p) /\ p.nonce \in Nonces /\ lost[p.nonce] \in Nat
        BY <2>1, RecordedTypes
      <3>2. CASE p.nonce = n
        <4>1. /\ lost'[p.nonce] = lost[p.nonce] + 1
              /\ p.nonce \in flight /\ p.nonce \notin flight'
          BY <1>0, <2>2, <3>1, <3>2
        <4>2. /\ lost'[p.nonce] * PollEvery
                    = lost[p.nonce] * PollEvery + PollEvery
              /\ lost[p.nonce] * PollEvery \in Nat
          BY <3>1, <4>1, IntervalsAreNat
        <4>3. polled + PollEvery
                <= p.sentAt + ResendAfter + lost[p.nonce] * PollEvery + PollEvery
          BY <3>1, <4>1 DEF Awaited
        <4>4. p.sentAt \in Nat
          BY RecordedTypes
        <4>5. polled + PollEvery
                <= p.sentAt + ResendAfter + lost'[p.nonce] * PollEvery + 0
          BY <1>0, <4>2, <4>3, <4>4, IntervalsAreNat
        <4>6. lost'[p.nonce] >= 1
          BY <3>1, <4>1
        <4> QED BY <2>1, <4>1, <4>5, <4>6 DEF Awaited
      <3>3. CASE p.nonce # n
        <4>1. /\ lost'[p.nonce] = lost[p.nonce]
              /\ p.nonce \in flight' <=> p.nonce \in flight
          BY <1>0, <2>2, <3>1, <3>3
        <4> QED BY <2>1, <3>1, <4>1 DEF Awaited
      <3> QED BY <3>2, <3>3
    <2> QED BY <2>1, <2>3, <2>4 DEF alive
  <1>4. CASE Vanish
    BY <1>4 DEF Vanish, alive
  <1>5. CASE Die
    BY <1>0, <1>5 DEF Die, alive, Alive
  \* A packet that is due for a poll has nothing in flight if it is not of
  \* this very tick.
  <1>6. ASSUME Due, alive, NEW p \in unacked,
               now - p.sentAt > ResendAfter \/ now - p.sentAt > DropAfter
        PROVE  /\ p.nonce \notin flight /\ p.nonce \in Nonces
               /\ lost[p.nonce] \in Nat
               /\ now <= p.sentAt + ResendAfter + lost[p.nonce] * PollEvery
    <2>1. /\ p.sentAt \in Nat /\ p.nonce \in Nonces /\ lost[p.nonce] \in Nat
          /\ now = polled + PollEvery /\ Awaited(p)
      BY <1>6, RecordedTypes DEF Due
    <2>2. p.sentAt # now /\ polled # now
      BY <1>0, <1>6, <2>1, IntervalsAreNat
    <2>3. p.nonce \notin flight
      BY <2>1, <2>2 DEF Awaited
    <2>4. polled + PollEvery
            <= p.sentAt + ResendAfter + lost[p.nonce] * PollEvery + 0
      BY <2>1, <2>3 DEF Awaited
    <2>5. lost[p.nonce] * PollEvery \in Nat
      BY <2>1, IntervalsAreNat
    <2> QED BY <1>0, <2>1, <2>3, <2>4, <2>5, IntervalsAreNat
  <1>7. CASE PollDrops
    <2>1. CASE ~alive
      BY <1>7, <2>1 DEF PollDrops, alive
    <2>2. CASE alive
      <3>1. Due /\ First \in unacked /\ now - First.sentAt > DropAfter
        BY <1>7 DEF PollDrops, Overdue, Older
      <3> DEFINE l == lost[First.nonce]
      <3>2. /\ l \in Nat /\ l <= MaxLost
            /\ now <= First.sentAt + ResendAfter + l * PollEvery
        BY <1>6, <2>2, <3>1
      <3>3. First.sentAt \in Nat
        BY <3>1, RecordedTypes
      <3> HIDE DEF l
      <3>4. l * PollEvery <= MaxLost * PollEvery
        BY <3>2, IntervalsAreNat
      <3>5. l * PollEvery \in Nat /\ MaxLost * PollEvery \in Nat
        BY <3>2, IntervalsAreNat
      <3>6. FALSE
        BY <1>0, <3>1, <3>2, <3>3, <3>4, <3>5, IntervalsAreNat
      <3> QED BY <3>6
    <2> QED BY <2>1, <2>2
  <1>8. CASE PollResends
    <2> DEFINE copies == {p.nonce : p \in Older(ResendAfter)}
    <2>1. /\ UNCHANGED <<now, lost, connected, closing, diedAt>>
          /\ polled' = now /\ now = polled + PollEvery /\ Due
          /\ SendReliable(unacked, copies)
      BY <1>8 DEF PollResends, Due
    <2>2. ASSUME alive, NEW p \in unacked'
          PROVE  Awaited(p)'
      <3>1. CASE p \notin unacked
        <4>1. p.nonce \in flight' /\ p.sentAt = now
          BY <2>1, <2>2, <3>1 DEF SendReliable
        <4> QED BY <2>1, <2>2, <4>1, NewIsAwaited
      <3>2. CASE p \in unacked
        <4>1. /\ p.nonce \in Nonces /\ p.nonce \in Nat /\ p.nonce <= nonce
              /\ lost[p.nonce] \in Nat /\ p.sentAt \in Nat /\ p.sentAt <= now
          BY <3>2, RecordedTypes
        <4>2. lost[p.nonce] * PollEvery \in Nat
          BY <4>1, IntervalsAreNat
        <4>3. Awaited(p)
          BY <2>2, <3>2
        <4>4. CASE now - p.sentAt > ResendAfter
          <5>1. p.nonce \in flight'
            <6>1. p.nonce \in copies
              BY <3>2, <4>4 DEF Older
            <6> QED BY <2>1, <6>1 DEF SendReliable
          <5>2. now <= p.sentAt + ResendAfter + lost[p.nonce] * PollEvery
            BY <1>6, <2>1, <2>2, <3>2, <4>4
          <5>3. now + PollEvery <= p.sentAt + ResendAfter
                                    + lost[p.nonce] * PollEvery + PollEvery
            BY <1>0, <4>1, <4>2, <5>2, IntervalsAreNat
          <5> QED BY <2>1, <5>1, <5>3 DEF Awaited
        <4>5. CASE ~(now - p.sentAt > ResendAfter)
          <5>1. p.nonce \in flight' <=> p.nonce \in flight \/ p.nonce \in copies
            BY <1>0, <2>1, <4>1 DEF SendReliable
          <5>2. p.nonce \in flight' \/ lost'[p.nonce] >= 1
            BY <2>1, <4>3, <5>1 DEF Awaited
          <5>3. now <= p.sentAt + ResendAfter
            BY <1>0, <4>1, <4>5, IntervalsAreNat
          <5>4. CASE p.nonce \in flight'
            <6>1. now + PollEvery <= p.sentAt + ResendAfter
                                      + lost[p.nonce] * PollEvery + PollEvery
              BY <1>0, <4>1, <4>2, <5>3, IntervalsAreNat
            <6> QED BY <2>1, <5>4, <6>1 DEF Awaited
          <5>5. CASE p.nonce \notin flight'
            <6>1. lost[p.nonce] >= 1
              BY <2>1, <5>2, <5>5
            <6>2. lost[p.nonce] * PollEvery >= PollEvery
              <7>1. lost[p.nonce] - 1 \in Nat
                BY <4>1, <6>1
              <7>2. (lost[p.nonce] - 1) * PollEvery \in Nat
                BY <7>1, IntervalsAreNat
              <7>3. ((lost[p.nonce] - 1) + 1) * PollEvery
                        = (lost[p.nonce] - 1) * PollEvery + PollEvery
                BY <7>1, IntervalsAreNat
              <7>4. (lost[p.nonce] - 1) + 1 = lost[p.nonce]
                BY <4>1
              <7> QED BY <7>2, <7>3, <7>4, IntervalsAreNat
            <6>3. now + PollEvery <= p.sentAt + ResendAfter
                                      + lost[p.nonce] * PollEvery + 0
              BY <1>0, <4>1, <4>2, <5>3, <6>2, IntervalsAreNat
            <6> QED BY <2>1, <5>5, <6>1, <6>3 DEF Awaited
          <5> QED BY <5>4, <5>5
        <4> QED BY <4>4, <4>5
      <3> QED BY <3>1, <3>2
    <2> QED BY <2>1, <2>2 DEF alive
  <1>9. CASE FinishDisconnect
    BY <1>9 DEF FinishDisconnect, alive
  <1>10. CASE Tick
    <2>1. /\ UNCHANGED <<polled, unacked, flight, lost, connected, closing, diedAt>>
          /\ flight = {}
      BY <1>10 DEF Tick
    <2> QED BY <2>1 DEF alive, Awaited
  <1>11. CASE UNCHANGED vars
    BY <1>11 DEF vars, alive, Awaited
  <1> QED
    BY <1>1, <1>2, <1>3, <1>4, <1>5, <1>7, <1>8, <1>9, <1>10, <1>11 DEF Next

\* A client that answers is never given up (pollClientReliability), whatever
\* is sent to it and whichever copies are lost, as long as the resends that
\* may be lost fit between the age at which a packet is sent again and the age
\* at which it may cost the connection.  With the intervals of the code these
\* are three lost copies of one packet.
THEOREM RespondingStays ==
    ASSUME MaxLost * PollEvery + ResendAfter <= DropAfter
    PROVE  Spec => []RespondingIsKept
  <1>1. Init => IInv /\ RespondingInv
    <2>1. Init => RespondingInv
      BY IntervalsAreNat DEF Init, RespondingInv
    <2> QED BY <2>1, InitIsGood
  <1>2. IInv /\ RespondingInv /\ [Next]_vars => IInv' /\ RespondingInv'
    BY StepIsGood, StepKeepsResponding
  <1>3. RespondingInv => RespondingIsKept
    BY DEF RespondingInv, RespondingIsKept
  <1> QED BY <1>1, <1>2, <1>3, PTL DEF Spec

-----------------------------------------------------------------------------
(* A client that has died is removed. *)

\* A set of numbers has a smallest one.
LEMMA LeastExists ==
    ASSUME NEW S \in SUBSET Nat, S # {}
    PROVE  \E m \in S : \A n \in S : m <= n
  <1> DEFINE R == {ss \in Nat \X Nat : ss[1] < ss[2]}
  <1>1. IsWellFoundedOn(R, Nat)
    BY NatLessThanWellFounded DEF OpToRel
  <1>2. PICK m \in S : \A n \in S : ~(<<n, m>> \in R)
    <2> HIDE DEF R
    <2> QED BY <1>1, WFMin
  <1>3. \A n \in S : ~(n < m)
    <2> SUFFICES ASSUME NEW n \in S, n < m PROVE FALSE
      OBVIOUS
    <2>1. <<n, m>> \in R
      OBVIOUS
    <2> QED BY <1>2, <2>1
  <1> QED BY <1>3

\* The packets are recorded in the order in which they are sent.
InOrder ==
    \A p, q \in unacked : p.nonce <= q.nonce => p.sentAt <= q.sentAt

\* pollClientReliability is called in time.
PollsInTime ==
    /\ connected => now <= polled + PollEvery
    /\ closing => connected /\ now = polled

\* j polls after the first ping p to a dead client, j + 1 packets are recorded.
Unanswered(p, j) ==
    /\ p.sentAt <= diedAt + PollEvery
    /\ polled = p.sentAt + j * PollEvery
    /\ j + 1 <= Cardinality(unacked)

\* The last poll that finds a dead client, and the pings to it.
PollsOfDead ==
    ~alive /\ connected =>
        /\ closing => polled <= diedAt + PollsToRemove * PollEvery
        /\ ~closing =>
            /\ polled <= diedAt + (PollsToRemove - 1) * PollEvery
            /\ polled <= diedAt \/ \E p \in unacked, j \in Nat : Unanswered(p, j)

\* The clock, the records and the pings to a dead client together.
DeadInv == IsFiniteSet(unacked) /\ InOrder /\ PollsInTime /\ PollsOfDead

\* The first entry of unackedPackets is the oldest.
LEMMA FirstIsOldest ==
    ASSUME IInv, InOrder, NEW p \in unacked
    PROVE  First \in unacked /\ First.sentAt <= p.sentAt
  <1> DEFINE S == {q.nonce : q \in unacked}
  <1>1. S \in SUBSET Nat /\ S # {}
    BY RecordedTypes
  <1>2. PICK m \in S : \A n \in S : m <= n
    <2> HIDE DEF S
    <2> QED BY <1>1, LeastExists
  <1>3. \E q \in unacked : \A r \in unacked : q.nonce <= r.nonce
    BY <1>2
  <1>4. First \in unacked /\ \A r \in unacked : First.nonce <= r.nonce
    BY <1>3 DEF First
  <1> QED BY <1>4 DEF InOrder

\* What a new record does to those that are there.
LEMMA RecordAddsOne ==
    ASSUME IInv, MaxNonce <= NonceLimit, IsFiniteSet(unacked), InOrder,
           IInv', now' = now,
           NEW copies, SendReliable(unacked, copies)
    PROVE  /\ unacked \subseteq unacked'
           /\ \E p \in unacked' : p.sentAt = now
           /\ IsFiniteSet(unacked') /\ InOrder'
           /\ Cardinality(unacked') \in Nat
           /\ Cardinality(unacked') = Cardinality(unacked) + 1
  <1> DEFINE new == [nonce |-> nonce + 1, sentAt |-> now]
  <1>1. nonce + 1 <= NonceLimit /\ nonce \in Nat
    <2>1. /\ nonce \in Nat /\ nonce' \in Nat /\ nonce' <= MaxNonce
          /\ MaxNonce \in Nat /\ NonceLimit \in Nat
      BY BoundsAreNat DEF IInv, TypeOK
    <2>2. nonce' = nonce + 1
      BY DEF SendReliable
    <2> QED BY <2>1, <2>2
  <1>2. unacked' = unacked \cup {new}
    BY <1>1 DEF SendReliable
  <1>3. new.nonce = nonce + 1 /\ new.sentAt = now
    OBVIOUS
  <1> HIDE DEF new
  <1>4. new \notin unacked
    BY <1>1, <1>3, RecordedTypes
  <1>5. /\ IsFiniteSet(unacked') /\ Cardinality(unacked) \in Nat
        /\ Cardinality(unacked') = Cardinality(unacked) + 1
    BY <1>2, <1>4, FS_AddElement, FS_CardinalityType
  <1>6. InOrder'
    <2> SUFFICES ASSUME NEW p \in unacked', NEW q \in unacked',
                        p.nonce <= q.nonce
                 PROVE  p.sentAt <= q.sentAt
      BY DEF InOrder
    <2>1. CASE p \in unacked /\ q \in unacked
      BY <2>1 DEF InOrder
    <2>2. CASE q = new
      BY <1>2, <1>3, <2>2, RecordedTypes
    <2>3. CASE p = new /\ q \in unacked
      BY <1>1, <1>3, <2>3, RecordedTypes
    <2> QED BY <1>2, <2>1, <2>2, <2>3
  <1> QED BY <1>2, <1>3, <1>5, <1>6

\* After enough polls a dead client is overdue.
LEMMA EnoughPolls ==
    ASSUME IInv, DeadInv, ~Overdue, now = polled + PollEvery,
           NEW p \in unacked, NEW j \in Nat, Unanswered(p, j), diedAt \in Nat
    PROVE  now <= diedAt + (PollsToRemove - 1) * PollEvery
  <1> DEFINE D == DropAfter \div PollEvery
             M == IF Window > D THEN Window ELSE D
  <1>1. /\ D \in Nat /\ DropAfter < D * PollEvery + PollEvery
        /\ D * PollEvery \in Nat
    BY IntervalsAreNat
  <1>2. M \in Nat /\ Window <= M /\ D <= M /\ PollsToRemove - 1 = M + 1
    <2>1. PollsToRemove = 2 + M
      BY DEF PollsToRemove
    <2> HIDE DEF D
    <2> QED BY <1>1, <2>1, IntervalsAreNat
  <1> HIDE DEF D, M
  <1>3. /\ p.sentAt \in Nat /\ now \in Nat /\ polled \in Nat
        /\ j * PollEvery \in Nat /\ M * PollEvery \in Nat
        /\ (j + 1) * PollEvery = j * PollEvery + PollEvery
        /\ (M + 1) * PollEvery = M * PollEvery + PollEvery
    BY <1>2, RecordedTypes, IntervalsAreNat
  <1>4. Cardinality(unacked) \in Nat
    BY FS_CardinalityType DEF DeadInv
  <1>5. CASE ~(Cardinality(unacked) > Window)
    <2>1. j + 1 <= M
      BY <1>2, <1>4, <1>5, IntervalsAreNat DEF Unanswered
    <2>2. (j + 1) * PollEvery <= M * PollEvery
      BY <1>2, <2>1, IntervalsAreNat
    <2> QED BY <1>2, <1>3, <2>2, IntervalsAreNat DEF Unanswered
  <1>6. CASE ~(First \in Older(DropAfter))
    <2>1. First \in unacked /\ First.sentAt <= p.sentAt
      BY FirstIsOldest DEF DeadInv
    <2>2. ~(now - First.sentAt > DropAfter)
      BY <1>6, <2>1 DEF Older
    <2>3. First.sentAt \in Nat
      BY <2>1, RecordedTypes
    <2>4. (j + 1) * PollEvery <= DropAfter
      BY <1>3, <2>1, <2>2, <2>3, IntervalsAreNat DEF Unanswered
    <2>5. j + 1 <= D
      <3> SUFFICES ASSUME D + 1 <= j + 1 PROVE FALSE
        BY <1>1
      <3>1. (D + 1) * PollEvery <= (j + 1) * PollEvery
        BY <1>1, IntervalsAreNat
      <3>2. (D + 1) * PollEvery = D * PollEvery + PollEvery
        BY <1>1, IntervalsAreNat
      <3> QED BY <1>1, <1>3, <2>4, <3>1, <3>2, IntervalsAreNat
    <2>6. (j + 1) * PollEvery <= M * PollEvery
      BY <1>1, <1>2, <2>5, IntervalsAreNat
    <2> QED BY <1>2, <1>3, <2>6, IntervalsAreNat DEF Unanswered
  <1> QED BY <1>5, <1>6 DEF Overdue

\* The bound, and its multiples.
LEMMA PollsToRemoveIsNat ==
    /\ PollsToRemove \in Nat /\ PollsToRemove >= 2
    /\ (PollsToRemove - 1) * PollEvery \in Nat
    /\ PollEvery <= (PollsToRemove - 1) * PollEvery
    /\ PollsToRemove * PollEvery = (PollsToRemove - 1) * PollEvery + PollEvery
  <1>1. DropAfter \div PollEvery \in Nat
    BY IntervalsAreNat
  <1>2. PollsToRemove \in Nat /\ PollsToRemove >= 2
    BY <1>1, IntervalsAreNat DEF PollsToRemove
  <1>3. PICK k \in Nat : PollsToRemove = k + 2
    <2>1. PollsToRemove - 2 \in Nat /\ PollsToRemove = (PollsToRemove - 2) + 2
      BY <1>2
    <2> QED BY <2>1
  <1>4. /\ k * PollEvery \in Nat /\ (k + 1) * PollEvery \in Nat
        /\ (k + 1) * PollEvery = k * PollEvery + PollEvery
        /\ ((k + 1) + 1) * PollEvery = (k + 1) * PollEvery + PollEvery
    BY <1>3, IntervalsAreNat
  <1>5. PollsToRemove - 1 = k + 1 /\ PollsToRemove = (k + 1) + 1
    BY <1>3
  <1> QED BY <1>2, <1>4, <1>5, IntervalsAreNat

\* Nothing but time, pings and what rooms send happens to a dead client.
LEMMA StepKeepsDead ==
    ASSUME MaxNonce <= NonceLimit, IInv, IInv', DeadInv, [Next]_vars
    PROVE  DeadInv'
  <1> USE DEF DeadInv
  <1>0. /\ now \in Nat /\ polled \in Nat /\ polled <= now
        /\ diedAt \in {Alive} \cup 0 .. now
        /\ PollEvery \in Nat /\ PollEvery > 0
        /\ Cardinality(unacked) \in Nat
    BY RecordedTypes, IntervalsAreNat, FS_CardinalityType DEF IInv, TypeOK
  <1>1. CASE UNCHANGED <<now, polled, unacked, connected, closing, diedAt>>
    BY <1>1 DEF InOrder, PollsInTime, PollsOfDead, Unanswered, alive
  <1>2. CASE Send
    <2>1. /\ UNCHANGED <<now, polled, connected, closing, diedAt>>
          /\ SendReliable(unacked, {})
      BY <1>2 DEF Send
    <2>2. /\ IsFiniteSet(unacked') /\ InOrder' /\ unacked \subseteq unacked'
          /\ Cardinality(unacked') \in Nat
          /\ Cardinality(unacked') = Cardinality(unacked) + 1
      BY <2>1, RecordAddsOne
    <2>3. PollsInTime'
      BY <2>1 DEF PollsInTime
    <2>4. ASSUME NEW p \in unacked, NEW j \in Nat, Unanswered(p, j)
          PROVE  p \in unacked' /\ Unanswered(p, j)'
      BY <1>0, <2>1, <2>2, <2>4 DEF Unanswered
    <2>5. PollsOfDead'
      BY <2>1, <2>4 DEF PollsOfDead, alive
    <2> QED BY <2>2, <2>3, <2>5
  <1>3. CASE Acknowledge
    <2>1. /\ UNCHANGED <<now, polled, connected, closing, diedAt>>
          /\ alive /\ unacked' \subseteq unacked
      BY <1>3 DEF Acknowledge
    <2>2. IsFiniteSet(unacked')
      BY <2>1, FS_Subset
    <2> QED BY <2>1, <2>2 DEF InOrder, PollsInTime, PollsOfDead, alive
  <1>4. CASE Die
    <2>1. /\ UNCHANGED <<now, polled, unacked, connected, closing>>
          /\ diedAt' = now
      BY <1>4 DEF Die
    <2>2. closing => now = polled
      BY DEF PollsInTime
    <2>3. PollsOfDead'
      BY <1>0, <2>1, <2>2, PollsToRemoveIsNat DEF PollsOfDead, alive
    <2> QED BY <2>1, <2>3 DEF InOrder, PollsInTime
  <1>5. CASE PollDrops
    <2>1. /\ UNCHANGED <<now, unacked, connected, diedAt>>
          /\ polled' = now /\ now = polled + PollEvery /\ closing' /\ connected
      BY <1>5 DEF PollDrops, Due
    <2>2. ~closing
      BY <1>0, <2>1 DEF PollsInTime
    <2>3. PollsInTime' /\ InOrder' /\ IsFiniteSet(unacked')
      BY <1>0, <2>1 DEF PollsInTime, InOrder
    <2>4. PollsOfDead'
      <3> SUFFICES ASSUME ~alive
                   PROVE  now <= diedAt + PollsToRemove * PollEvery
        BY <2>1 DEF PollsOfDead, alive
      <3>1. polled <= diedAt + (PollsToRemove - 1) * PollEvery
        BY <2>1, <2>2 DEF PollsOfDead
      <3>2. diedAt \in Nat
        BY <1>0 DEF alive
      <3> QED BY <1>0, <2>1, <3>1, <3>2, PollsToRemoveIsNat
    <2> QED BY <2>3, <2>4
  <1>6. CASE PollResends
    <2> DEFINE copies == {p.nonce : p \in Older(ResendAfter)}
    <2>1. /\ UNCHANGED <<now, connected, closing, diedAt>>
          /\ polled' = now /\ now = polled + PollEvery /\ connected /\ ~Overdue
          /\ SendReliable(unacked, copies)
      BY <1>6 DEF PollResends, Due
    <2> HIDE DEF copies
    <2>2. ~closing
      BY <1>0, <2>1 DEF PollsInTime
    <2>3. /\ IsFiniteSet(unacked') /\ InOrder' /\ unacked \subseteq unacked'
          /\ \E p \in unacked' : p.sentAt = now
          /\ Cardinality(unacked') \in Nat
          /\ Cardinality(unacked') = Cardinality(unacked) + 1
      BY <2>1, RecordAddsOne
    <2>4. PollsInTime'
      BY <1>0, <2>1, <2>2 DEF PollsInTime
    <2>5. PollsOfDead'
      <3> SUFFICES ASSUME ~alive
                   PROVE  /\ now <= diedAt + (PollsToRemove - 1) * PollEvery
                          /\ \E p \in unacked', j \in Nat : Unanswered(p, j)'
        BY <2>1, <2>2 DEF PollsOfDead, alive
      <3>1. diedAt \in Nat
        BY <1>0 DEF alive
      <3>2. polled <= diedAt \/ \E p \in unacked, j \in Nat : Unanswered(p, j)
        BY <2>1, <2>2 DEF PollsOfDead
      <3>3. CASE polled <= diedAt
        <4>1. PICK p \in unacked' : p.sentAt = now
          BY <2>3
        <4>2. now <= diedAt + PollEvery /\ now = now + 0 * PollEvery
          BY <1>0, <2>1, <3>1, <3>3
        <4>3. Unanswered(p, 0)'
          BY <1>0, <2>1, <2>3, <4>1, <4>2 DEF Unanswered
        <4>4. now <= diedAt + (PollsToRemove - 1) * PollEvery
          BY <1>0, <3>1, <4>2, PollsToRemoveIsNat
        <4> QED BY <4>3, <4>4
      <3>4. ASSUME NEW p \in unacked, NEW j \in Nat, Unanswered(p, j)
            PROVE  /\ now <= diedAt + (PollsToRemove - 1) * PollEvery
                   /\ Unanswered(p, j + 1)' /\ p \in unacked' /\ j + 1 \in Nat
        <4>1. now <= diedAt + (PollsToRemove - 1) * PollEvery
          BY <2>1, <3>1, <3>4, EnoughPolls
        <4>2. now = p.sentAt + (j + 1) * PollEvery
          <5>1. /\ (j + 1) * PollEvery = j * PollEvery + PollEvery
                /\ j * PollEvery \in Nat /\ p.sentAt \in Nat
            BY <3>4, IntervalsAreNat, RecordedTypes
          <5> QED BY <1>0, <2>1, <3>4, <5>1 DEF Unanswered
        <4>3. Unanswered(p, j + 1)'
          BY <1>0, <2>1, <2>3, <3>4, <4>2 DEF Unanswered
        <4> QED BY <2>3, <4>1, <4>3
      <3> QED BY <3>2, <3>3, <3>4
    <2> QED BY <2>3, <2>4, <2>5
  <1>7. CASE FinishDisconnect
    BY <1>7 DEF FinishDisconnect, InOrder, PollsInTime, PollsOfDead
  <1>8. CASE Tick
    <2>1. /\ UNCHANGED <<polled, unacked, connected, closing, diedAt>>
          /\ now' = now + 1 /\ ~Due /\ ~closing
      BY <1>8 DEF Tick
    <2>2. PollsInTime'
      BY <1>0, <2>1 DEF PollsInTime, Due
    <2> QED BY <2>1, <2>2 DEF InOrder, PollsOfDead, Unanswered, alive
  <1> QED
    BY <1>1, <1>2, <1>3, <1>4, <1>5, <1>6, <1>7, <1>8
    DEF Next, vars, Lose, Vanish

\* A client that has died is removed after so many polls that the pings alone
\* exceed the window and the oldest of them has its age
\* (pollClientReliability), as long as the nonces fit their 16 bits: beyond
\* them a ping is not recorded, and nothing fills the window.
THEOREM DeadAreRemoved ==
    ASSUME MaxNonce <= NonceLimit
    PROVE  Spec => []DeadIsRemoved
  <1>1. Init => IInv /\ DeadInv
    <2> SUFFICES ASSUME Init PROVE DeadInv
      BY InitIsGood
    <2>1. unacked = {} /\ now = 0 /\ polled = 0 /\ alive /\ ~closing
      BY DEF Init, alive
    <2> QED
      BY <2>1, FS_EmptySet, IntervalsAreNat
      DEF DeadInv, InOrder, PollsInTime, PollsOfDead
  <1>2. IInv /\ DeadInv /\ [Next]_vars => IInv' /\ DeadInv'
    BY StepIsGood, StepKeepsDead
  <1>3. IInv /\ DeadInv => DeadIsRemoved
    <2> SUFFICES ASSUME IInv, DeadInv, ~alive, connected
                 PROVE  now <= diedAt + PollsToRemove * PollEvery
      BY DEF DeadIsRemoved
    <2>1. /\ now \in Nat /\ polled \in Nat /\ diedAt \in Nat
      BY RecordedTypes DEF IInv, TypeOK, alive
    <2>2. /\ closing => now = polled
          /\ now <= polled + PollEvery
      BY DEF DeadInv, PollsInTime
    <2>3. /\ closing => polled <= diedAt + PollsToRemove * PollEvery
          /\ ~closing => polled <= diedAt + (PollsToRemove - 1) * PollEvery
      BY DEF DeadInv, PollsOfDead
    <2> QED BY <2>1, <2>2, <2>3, PollsToRemoveIsNat, IntervalsAreNat
  <1> QED BY <1>1, <1>2, <1>3, PTL DEF Spec
=============================================================================
