------------------------- MODULE ActingHostsProofs -------------------------
(***************************************************************************)
(* What holds of ActingHosts for any clients and any number of overlapping *)
(* calls.                                                                  *)
(***************************************************************************)
EXTENDS ActingHosts, SequenceTheorems, WellFoundedInduction, TLAPS

-----------------------------------------------------------------------------
(* Sequences. *)

\* What is in a sequence of elements of S.
LEMMA Elements ==
    ASSUME NEW S, NEW s \in Seq(S)
    PROVE  /\ ToSet(s) \subseteq S
           /\ \A x : x \in ToSet(s) <=> \E i \in 1 .. Len(s) : s[i] = x
           /\ \A i \in 1 .. Len(s) : s[i] \in ToSet(s)
<1>1. DOMAIN s = 1 .. Len(s) /\ \A i \in 1 .. Len(s) : s[i] \in S OBVIOUS
<1> QED BY <1>1 DEF ToSet

\* The empty sequence has no elements, and is the only one of length 0.
LEMMA NoElements ==
    ASSUME NEW S
    PROVE  /\ <<>> \in Seq(S)
           /\ ToSet(<<>>) = {}
           /\ IsInjective(<<>>)
           /\ \A s \in Seq(S) : Len(s) = 0 <=> s = <<>>
<1>1. <<>> \in Seq(S) /\ Len(<<>>) = 0 /\ \A s \in Seq(S) : Len(s) = 0 <=> s = <<>>
    BY EmptySeq
<1>2. DOMAIN <<>> = {} BY <1>1
<1> QED BY <1>1, <1>2 DEF ToSet, IsInjective

\* Appending something new.
LEMMA Appending ==
    ASSUME NEW S, NEW s \in Seq(S), NEW x \in S
    PROVE  /\ Append(s, x) \in Seq(S)
           /\ Len(Append(s, x)) = Len(s) + 1
           /\ \A i \in 1 .. Len(s) : Append(s, x)[i] = s[i]
           /\ Append(s, x)[Len(s) + 1] = x
           /\ ToSet(Append(s, x)) = ToSet(s) \cup {x}
           /\ IsInjective(s) /\ x \notin ToSet(s) => IsInjective(Append(s, x))
<1> DEFINE t == Append(s, x)
<1>1. /\ t \in Seq(S) /\ Len(t) = Len(s) + 1 /\ t[Len(s) + 1] = x
      /\ \A i \in 1 .. Len(s) : t[i] = s[i]
    BY AppendProperties
<1>2. DOMAIN t = 1 .. Len(s) + 1 /\ DOMAIN s = 1 .. Len(s) /\ Len(s) \in Nat
    BY <1>1
<1> HIDE DEF t
<1>3. ToSet(t) = ToSet(s) \cup {x}
    <2>1. \A y : y \in ToSet(t) => y \in ToSet(s) \cup {x}
        BY <1>1, <1>2 DEF ToSet
    <2>2. \A y : y \in ToSet(s) \cup {x} => y \in ToSet(t)
        BY <1>1, <1>2 DEF ToSet
    <2> QED BY <2>1, <2>2
<1>4. ASSUME IsInjective(s), x \notin ToSet(s),
             NEW a \in DOMAIN t, NEW b \in DOMAIN t, t[a] = t[b]
      PROVE  a = b
    BY <1>1, <1>2, <1>4 DEF IsInjective, ToSet
<1> QED BY <1>1, <1>3, <1>4 DEF IsInjective, t

\* Taking out the k-th element leaves the others, in their order.
LEMMA RemovedAt ==
    ASSUME NEW S, NEW s \in Seq(S), NEW k \in 1 .. Len(s)
    PROVE  /\ RemoveAt(s, k) \in Seq(S)
           /\ Len(RemoveAt(s, k)) = Len(s) - 1
           /\ \A i \in 1 .. Len(s) - 1 :
                RemoveAt(s, k)[i] = IF i < k THEN s[i] ELSE s[i + 1]
<1> DEFINE a == SubSeq(s, 1, k - 1)
           b == SubSeq(s, k + 1, Len(s))
<1>1. /\ a \in Seq(S) /\ Len(a) = k - 1
      /\ \A i \in 1 .. k - 1 : a[i] = s[i]
    OBVIOUS
<1>2. /\ b \in Seq(S) /\ Len(b) = Len(s) - k
      /\ \A i \in 1 .. Len(s) - k : b[i] = s[k + i]
    <2>1. \A i \in k + 1 .. Len(s) : s[i] \in S OBVIOUS
    <2>2. /\ b \in Seq(S)
          /\ Len(b) = IF k + 1 <= Len(s) THEN Len(s) - (k + 1) + 1 ELSE 0
          /\ \A i \in 1 .. Len(s) - (k + 1) + 1 : b[i] = s[k + 1 + i - 1]
        BY <2>1, SubSeqProperties
    <2> QED BY <2>2
<1>3. RemoveAt(s, k) = a \o b BY DEF RemoveAt
<1> HIDE DEF a, b
<1>4. /\ a \o b \in Seq(S)
      /\ Len(a \o b) = Len(a) + Len(b)
      /\ \A i \in 1 .. Len(a) + Len(b) :
            (a \o b)[i] = IF i <= Len(a) THEN a[i] ELSE b[i - Len(a)]
    BY <1>1, <1>2, ConcatProperties
<1>5. ASSUME NEW i \in 1 .. Len(s) - 1
      PROVE  (a \o b)[i] = IF i < k THEN s[i] ELSE s[i + 1]
    <2>1. CASE i < k BY <1>1, <1>2, <1>4, <2>1
    <2>2. CASE ~(i < k)
        <3>1. (a \o b)[i] = b[i - (k - 1)] BY <1>1, <1>2, <1>4, <2>2
        <3>2. i - (k - 1) \in 1 .. Len(s) - k BY <2>2
        <3>3. b[i - (k - 1)] = s[k + (i - (k - 1))] BY <1>2, <3>2
        <3>4. k + (i - (k - 1)) = i + 1 OBVIOUS
        <3> QED BY <2>2, <3>1, <3>3, <3>4
    <2> QED BY <2>1, <2>2
<1>6. Len(a \o b) = Len(s) - 1 BY <1>1, <1>2, <1>4
<1> QED BY <1>3, <1>4, <1>5, <1>6

\* Every set of natural numbers but the empty one has a smallest.
LEMMA Smallest ==
    ASSUME NEW I \in SUBSET Nat, I # {}
    PROVE  Min(I) \in I
<1>1. PICK m \in I : \A i \in I : <<i, m>> \notin OpToRel(<, Nat)
    BY NatLessThanWellFounded, WFMin
<1>2. \A i \in I : ~(i < m) BY <1>1 DEF OpToRel
<1>3. \A i \in I : m =< i BY <1>2
<1> QED BY <1>3 DEF Min

\* Removing an element removes it from a sequence without repetitions.
LEMMA Removed ==
    ASSUME NEW S, NEW s \in Seq(S), NEW x
    PROVE  /\ RemoveFirst(s, x) \in Seq(S)
           /\ IsInjective(s) => /\ IsInjective(RemoveFirst(s, x))
                                /\ ToSet(RemoveFirst(s, x)) = ToSet(s) \ {x}
<1> DEFINE r == RemoveFirst(s, x)
<1>s. DOMAIN s = 1 .. Len(s) /\ Len(s) \in Nat OBVIOUS
<1>1. CASE ~\E i \in 1 .. Len(s) : s[i] = x
    BY <1>1, <1>s DEF RemoveFirst, ToSet
<1>2. CASE \E i \in 1 .. Len(s) : s[i] = x
    <2> DEFINE I == {i \in 1 .. Len(s) : s[i] = x}
               m == Min(I)
    <2>1. m \in 1 .. Len(s) /\ s[m] = x
        <3>1. I \in SUBSET Nat /\ I # {} BY <1>2
        <3>2. m \in I BY <3>1, Smallest
        <3> QED BY <3>2
    <2>2. r = RemoveAt(s, m) BY <1>2 DEF RemoveFirst, SelectInSeq
    <2> HIDE DEF m, r
    <2>3. /\ r \in Seq(S) /\ Len(r) = Len(s) - 1
          /\ \A i \in 1 .. Len(s) - 1 : r[i] = IF i < m THEN s[i] ELSE s[i + 1]
        BY <2>1, <2>2, RemovedAt
    <2>4. DOMAIN r = 1 .. Len(s) - 1 BY <2>3
    <2>5. ASSUME IsInjective(s)
          PROVE  IsInjective(r) /\ ToSet(r) = ToSet(s) \ {x}
        <3>i. \A i, j \in 1 .. Len(s) : s[i] = s[j] => i = j
            BY <2>5, <1>s DEF IsInjective
        <3>1. ASSUME NEW i \in 1 .. Len(s) - 1, NEW j \in 1 .. Len(s) - 1, r[i] = r[j]
              PROVE  i = j
            <4> DEFINE f(k) == IF k < m THEN k ELSE k + 1
            <4>1. f(i) \in 1 .. Len(s) /\ f(j) \in 1 .. Len(s) BY <1>s
            <4>2. r[i] = s[f(i)] /\ r[j] = s[f(j)] BY <2>3
            <4>3. f(i) = f(j) BY <3>1, <3>i, <4>1, <4>2
            <4> QED BY <2>1, <4>3
        <3>2. ASSUME NEW i \in 1 .. Len(s) - 1
              PROVE  r[i] \in ToSet(s) \ {x}
            <4> DEFINE k == IF i < m THEN i ELSE i + 1
            <4>1. k \in 1 .. Len(s) /\ k # m BY <1>s, <2>1
            <4>2. r[i] = s[k] BY <2>3
            <4>3. s[k] # x BY <2>1, <3>i, <4>1
            <4>4. s[k] \in ToSet(s) BY <1>s, <4>1 DEF ToSet
            <4> QED BY <4>2, <4>3, <4>4
        <3>3. ASSUME NEW k \in 1 .. Len(s), s[k] # x
              PROVE  s[k] \in ToSet(r)
            <4> DEFINE i == IF k < m THEN k ELSE k - 1
            <4>1. k # m BY <2>1, <3>3
            <4>2. i \in 1 .. Len(s) - 1 /\ (i < m <=> k < m) /\ (~(k < m) => i + 1 = k)
                BY <1>s, <2>1, <4>1
            <4>3. r[i] = s[k] BY <2>3, <4>2
            <4> QED BY <2>4, <4>2, <4>3 DEF ToSet
        <3>4. IsInjective(r) BY <3>1, <2>4 DEF IsInjective
        <3>5. ToSet(r) \subseteq ToSet(s) \ {x} BY <3>2, <2>4 DEF ToSet
        <3>6. ToSet(s) \ {x} \subseteq ToSet(r)
            <4>1. \A y \in ToSet(s) : \E k \in 1 .. Len(s) : s[k] = y
                BY <1>s DEF ToSet
            <4> QED BY <4>1, <3>3
        <3> QED BY <3>4, <3>5, <3>6
    <2> QED BY <2>3, <2>5 DEF r
<1> QED BY <1>1, <1>2

-----------------------------------------------------------------------------
(* Calls. *)

LEMMA CallsAreCalls ==
    ASSUME TypeOK
    PROVE  /\ calls \in Seq(Call)
           /\ \A k \in 1 .. Len(calls) : calls[k] \in Call /\ calls[k] \in ToSet(calls)
           /\ \A call \in ToSet(calls) : call \in Call
<1>1. calls \in Seq(Call) BY DEF TypeOK, Call
<1> HIDE DEF Call
<1> QED BY <1>1, Elements

\* Which stages there are.
LEMMA Stages ==
    /\ JoinOp \subseteq Op /\ LoopOp \subseteq Op
    /\ \A op \in {"broadcast", "asked", "tell", "added", "electHost", "leaving",
                "select", "starting", "ending"} \cup LoopOp :
            op \in Op /\ op \notin JoinOp /\ op # "electActing"
    /\ \A op \in JoinOp : op # "electActing"
<1>1. JoinOp \subseteq Op /\ LoopOp \subseteq Op BY DEF Op
<1>2. ASSUME NEW op \in LoopOp
      PROVE  op \in Op /\ op \notin JoinOp /\ op # "electActing"
    BY <1>1 DEF LoopOp, JoinOp
<1>3. ASSUME NEW op \in {"broadcast", "asked", "tell", "added", "electHost", "leaving",
                         "select", "starting", "ending"}
      PROVE  op \in Op /\ op \notin JoinOp /\ op # "electActing"
    BY DEF Op, JoinOp
<1> QED BY <1>1, <1>2, <1>3 DEF JoinOp

LEMMA StageIsCall ==
    ASSUME NEW op \in Op, NEW c \in Client \cup {Nobody},
           op \in JoinOp => c # Nobody, op # "electActing"
    PROVE  /\ Stage(op, c) \in Call
           /\ Stage(op, c).op = op
           /\ Stage(op, c).client = c
           /\ Stage(op, c).told = {}
           /\ Stage(op, c).to = Nobody
BY DEF Stage, Call, Host

\* A call that begins is added to the others.
LEMMA Begun ==
    ASSUME calls \in Seq(Call), NEW x \in Call, Begin(x)
    PROVE  /\ calls' \in Seq(Call)
           /\ ToSet(calls') = ToSet(calls) \cup {x}
<1>1. calls' = Append(calls, x) BY DEF Begin
<1> HIDE DEF Call
<1> QED BY <1>1, Appending

\* A call that goes on replaces itself.
LEMMA Continued ==
    ASSUME calls \in Seq(Call), NEW k \in 1 .. Len(calls), NEW x \in Call, Continue(k, x)
    PROVE  /\ calls' \in Seq(Call)
           /\ ToSet(calls') \subseteq ToSet(calls) \cup {x}
           /\ x \in ToSet(calls')
           /\ \A y \in ToSet(calls) : y = calls[k] \/ y \in ToSet(calls')
<1> HIDE DEF Call
<1>1. /\ calls' \in Seq(Call) /\ Len(calls') = Len(calls) /\ calls'[k] = x
      /\ \A j \in 1 .. Len(calls) : j # k => calls'[j] = calls[j]
    BY ExceptSeq DEF Continue
<1>2. DOMAIN calls = 1 .. Len(calls) /\ DOMAIN calls' = 1 .. Len(calls) BY <1>1
<1>3. ToSet(calls') \subseteq ToSet(calls) \cup {x} BY <1>1, <1>2 DEF ToSet
<1>4. x \in ToSet(calls') BY <1>1, <1>2 DEF ToSet
<1>5. \A y \in ToSet(calls) : y = calls[k] \/ y \in ToSet(calls')
    BY <1>1, <1>2 DEF ToSet
<1> QED BY <1>1, <1>3, <1>4, <1>5

\* A call that ends leaves the others.
LEMMA Ended ==
    ASSUME calls \in Seq(Call), NEW k \in 1 .. Len(calls), End(k)
    PROVE  /\ calls' \in Seq(Call)
           /\ ToSet(calls') \subseteq ToSet(calls)
           /\ \A y \in ToSet(calls) : y = calls[k] \/ y \in ToSet(calls')
<1> HIDE DEF Call
<1>1. /\ calls' \in Seq(Call) /\ Len(calls') = Len(calls) - 1
      /\ \A i \in 1 .. Len(calls) - 1 :
            calls'[i] = IF i < k THEN calls[i] ELSE calls[i + 1]
    BY RemovedAt DEF End
<1>2. DOMAIN calls = 1 .. Len(calls) /\ DOMAIN calls' = 1 .. Len(calls) - 1
      /\ Len(calls) \in Nat
    BY <1>1
<1>3. ToSet(calls') \subseteq ToSet(calls)
    <2>1. ASSUME NEW i \in 1 .. Len(calls) - 1 PROVE calls'[i] \in ToSet(calls)
        <3>1. calls'[i] = calls[i] \/ calls'[i] = calls[i + 1] BY <1>1
        <3>2. i \in DOMAIN calls /\ i + 1 \in DOMAIN calls BY <1>2
        <3> QED BY <3>1, <3>2 DEF ToSet
    <2> QED BY <2>1, <1>2 DEF ToSet
<1>4. ASSUME NEW j \in 1 .. Len(calls), j # k PROVE calls[j] \in ToSet(calls')
    <2> DEFINE i == IF j < k THEN j ELSE j - 1
    <2>1. i \in 1 .. Len(calls) - 1 /\ calls'[i] = calls[j] BY <1>1, <1>2, <1>4
    <2> QED BY <2>1, <1>2 DEF ToSet
<1>5. \A y \in ToSet(calls) : y = calls[k] \/ y \in ToSet(calls')
    BY <1>4, <1>2 DEF ToSet
<1> QED BY <1>1, <1>3, <1>5

-----------------------------------------------------------------------------
(* Type correctness. *)

\* What a call tells is a host.
LEMMA HostForIsHost ==
    ASSUME TypeOK, NEW call \in Call, call.op \in LoopOp \cup {"broadcast"},
           NEW d \in Client
    PROVE  HostFor(call, d) \in Host
BY DEF TypeOK, HostFor, LoopOp, Host, Call

\* Adding to and removing from the lists of clients.
LEMMA ListsAreTyped ==
    ASSUME HostsAssumption, TypeOK
    PROVE  /\ Members \subseteq Client /\ Acting \subseteq Client \cup {Nobody}
           /\ \A x : /\ RemoveFirst(connections, x) \in Seq(Client)
                     /\ IsInjective(RemoveFirst(connections, x))
                     /\ ToSet(RemoveFirst(connections, x)) = Members \ {x}
                     /\ RemoveFirst(acting, x) \in Seq(Client \cup {Nobody})
                     /\ IsInjective(RemoveFirst(acting, x))
                     /\ ToSet(RemoveFirst(acting, x)) = Acting \ {x}
                     /\ RemoveFirst(waitingFor, x) \in Seq(Client)
           /\ \A x \in Client \cup {Nobody} :
                /\ Insert(x) \in Seq(Client \cup {Nobody})
                /\ IsInjective(Insert(x))
                /\ ToSet(Insert(x)) = Acting \cup {x}
           /\ \A x \in Client : /\ <<x>> \o waitingFor \in Seq(Client)
                                /\ Append(connections, x) \in Seq(Client)
                                /\ ToSet(Append(connections, x)) = Members \cup {x}
                                /\ x \notin Members => IsInjective(Append(connections, x))
<1> USE DEF HostsAssumption
<1>1. Members \subseteq Client /\ Acting \subseteq Client \cup {Nobody}
    BY Elements DEF TypeOK, Members, Acting
<1>2. ASSUME NEW x
      PROVE  /\ RemoveFirst(connections, x) \in Seq(Client)
             /\ IsInjective(RemoveFirst(connections, x))
             /\ ToSet(RemoveFirst(connections, x)) = Members \ {x}
             /\ RemoveFirst(acting, x) \in Seq(Client \cup {Nobody})
             /\ IsInjective(RemoveFirst(acting, x))
             /\ ToSet(RemoveFirst(acting, x)) = Acting \ {x}
             /\ RemoveFirst(waitingFor, x) \in Seq(Client)
    BY Removed DEF TypeOK, Members, Acting
<1>3. ASSUME NEW x \in Client \cup {Nobody}
      PROVE  /\ Insert(x) \in Seq(Client \cup {Nobody})
             /\ IsInjective(Insert(x))
             /\ ToSet(Insert(x)) = Acting \cup {x}
    <2>1. CASE x \in Acting BY <2>1 DEF Insert, TypeOK, Acting
    <2>2. CASE x \notin Acting
        <3>1. acting \in Seq(Client \cup {Nobody}) /\ IsInjective(acting) BY DEF TypeOK
        <3>2. Insert(x) = Append(acting, x) BY <2>2 DEF Insert
        <3> QED BY <2>2, <3>1, <3>2, Appending DEF Acting
    <2> QED BY <2>1, <2>2
<1>4. ASSUME NEW x \in Client
      PROVE  /\ <<x>> \o waitingFor \in Seq(Client)
             /\ Append(connections, x) \in Seq(Client)
             /\ ToSet(Append(connections, x)) = Members \cup {x}
             /\ x \notin Members => IsInjective(Append(connections, x))
    <2>1. connections \in Seq(Client) /\ IsInjective(connections)
          /\ waitingFor \in Seq(Client)
        BY DEF TypeOK
    <2>2. <<x>> \o waitingFor \in Seq(Client) BY <2>1
    <2> QED BY <2>1, <2>2, Appending DEF Members
<1> QED BY <1>1, <1>2, <1>3, <1>4

LEMMA TypeInit ==
    ASSUME HostsAssumption, Init
    PROVE  TypeOK
<1>1. /\ {serverAsHost, enabled} \subseteq BOOLEAN /\ hostId \in Host
      /\ {players, gone, overtaken} \subseteq SUBSET Client
    BY DEF Init, Host
<1>2. believes \in [Client -> Host] BY DEF Init, Host
<1>3. switches \in 0 .. MaxSwitches BY DEF Init, HostsAssumption
<1>4. /\ acting \in Seq(Client \cup {Nobody}) /\ IsInjective(acting)
      /\ waitingFor \in Seq(Client)
      /\ connections \in Seq(Client) /\ IsInjective(connections)
      /\ calls \in Seq(Call)
    BY NoElements DEF Init
<1>5. gameState \in {"NotStarted", "Started", "Ended"} BY DEF Init
<1> QED BY <1>1, <1>2, <1>3, <1>4, <1>5 DEF TypeOK, Call

\* A call of which who was told, or the update, is changed.
LEMMA ChangedIsCall ==
    ASSUME NEW call \in Call, NEW told \in SUBSET Client,
           NEW to \in Client \cup {Nobody}, NEW host \in Host,
           call.op = "electActing" => host \in Client
    PROVE  /\ [call EXCEPT !.told = told] \in Call
           /\ [call EXCEPT !.host = host] \in Call
           /\ [call EXCEPT !.to = to] \in Call
           /\ [call EXCEPT !.told = told, !.to = to, !.host = host] \in Call
           /\ [call EXCEPT !.to = to, !.host = host] \in Call
<1> USE DEF Call
<1>1. [call EXCEPT !.told = told] \in Call OBVIOUS
<1>2. [call EXCEPT !.host = host] \in Call OBVIOUS
<1>3. [call EXCEPT !.to = to] \in Call OBVIOUS
<1>4. [call EXCEPT !.told = told, !.to = to, !.host = host] \in Call OBVIOUS
<1>5. [call EXCEPT !.to = to, !.host = host] \in Call OBVIOUS
<1> QED BY <1>1, <1>2, <1>3, <1>4, <1>5

\* What a step does to the calls, if what it puts there are calls.
LEMMA CallsStep ==
    ASSUME TypeOK
    PROVE  /\ \A x \in Call : Begin(x) => calls' \in Seq(Call)
           /\ \A k \in 1 .. Len(calls) :
                /\ End(k) => calls' \in Seq(Call)
                /\ \A x \in Call : Continue(k, x) => calls' \in Seq(Call)
<1>1. calls \in Seq(Call) BY CallsAreCalls
<1> HIDE DEF Call
<1>2. ASSUME NEW x \in Call, Begin(x) PROVE calls' \in Seq(Call)
    BY <1>1, <1>2, Begun
<1>3. ASSUME NEW k \in 1 .. Len(calls), End(k) PROVE calls' \in Seq(Call)
    BY <1>1, <1>3, Ended
<1>4. ASSUME NEW k \in 1 .. Len(calls), NEW x \in Call, Continue(k, x)
      PROVE  calls' \in Seq(Call)
    BY <1>1, <1>4, Continued
<1> QED BY <1>2, <1>3, <1>4

\* The type of all but the history.
TypeButHistory ==
    /\ serverAsHost \in BOOLEAN /\ enabled \in BOOLEAN
    /\ hostId \in Host
    /\ acting \in Seq(Client \cup {Nobody}) /\ IsInjective(acting)
    /\ waitingFor \in Seq(Client)
    /\ connections \in Seq(Client) /\ IsInjective(connections)
    /\ players \subseteq Client /\ gone \subseteq Client
    /\ believes \in [Client -> Host]
    /\ calls \in Seq(Call)
    /\ gameState \in {"NotStarted", "Started", "Ended"}
    /\ switches \in 0 .. MaxSwitches

\* Choosing and sending an update.
LEMMA UpdateType ==
    ASSUME HostsAssumption, TypeOK, NEW k \in 1 .. Len(calls),
           Choose(k) \/ Send(k) \/ Ask(k)
    PROVE  TypeButHistory'
<1>c. calls[k] \in Call /\ calls \in Seq(Call) BY CallsAreCalls
<1>t. TypeButHistory BY DEF TypeOK, TypeButHistory
<1>1. CASE Choose(k)
    <2>1. PICK d \in Client :
            Continue(k, [calls[k] EXCEPT !.told = @ \cup {d}, !.to = d,
                                         !.host = HostFor(calls[k], d)])
        BY <1>1 DEF Choose
    <2>2. HostFor(calls[k], d) \in Host
        BY <1>1, <1>c, HostForIsHost DEF Choose, At
    <2> DEFINE x == [calls[k] EXCEPT !.told = @ \cup {d}, !.to = d,
                                     !.host = HostFor(calls[k], d)]
    <2>3. x \in Call
        <3>1. calls[k].told \cup {d} \in SUBSET Client /\ calls[k].op # "electActing"
            BY <1>1, <1>c, Stages DEF Call, Choose, At
        <3> HIDE DEF Call
        <3> QED BY <1>c, <2>2, <3>1, ChangedIsCall
    <2> HIDE DEF x
    <2>4. calls' \in Seq(Call) BY <2>1, <2>3, CallsStep DEF x
    <2> QED BY <1>1, <1>t, <2>4
        DEF Choose, TypeButHistory, hosts, membership, game
<1>2. CASE Send(k)
    <2>1. /\ Stage("leaving", calls[k].client) \in Call
          /\ [calls[k] EXCEPT !.to = Nobody] \in Call
        <3>1. /\ calls[k].client \in Client \cup {Nobody} /\ calls[k].host \in Host
              /\ calls[k].op = "electActing" => calls[k].host \in Client
              /\ Nobody \in Client \cup {Nobody}
            BY <1>c DEF Call
        <3> HIDE DEF Call
        <3> QED BY <1>c, <3>1, Stages, StageIsCall, ChangedIsCall
    <2>2. calls' \in Seq(Call)
        <3>1. \/ End(k) \/ Continue(k, Stage("leaving", calls[k].client))
              \/ Continue(k, [calls[k] EXCEPT !.to = Nobody])
            BY <1>2 DEF Send
        <3> HIDE DEF Call
        <3> QED BY <2>1, <3>1, CallsStep
    <2>3. believes' \in [Client -> Host]
        <3>1. calls[k].host \in Host BY <1>c DEF Call
        <3>2. Tell({calls[k].to}, [d \in Client |-> calls[k].host]) BY <1>2 DEF Send
        <3> QED BY <1>t, <3>1, <3>2 DEF Tell, TypeButHistory
    <2> QED BY <1>2, <1>t, <2>2, <2>3
        DEF Send, TypeButHistory, hosts, membership, game
<1>3. CASE Ask(k)
    <2>1. PICK d \in Client :
            /\ Tell({d}, [e \in Client |-> e])
            /\ calls' = Append([calls EXCEPT ![k].told = {d}], Stage("asked", d))
        BY <1>3 DEF Ask
    <2>2. calls' \in Seq(Call)
        <3> DEFINE x == [calls[k] EXCEPT !.told = {d}]
                   s == [calls EXCEPT ![k] = x]
        <3>1. x \in Call /\ Stage("asked", d) \in Call
            <4> HIDE DEF Call
            <4>1. /\ Nobody \in Client \cup {Nobody} /\ calls[k].host \in Host
                  /\ calls[k].op = "reset"
                BY <1>3, <1>c DEF Call, Ask, At
            <4>2. {d} \in SUBSET Client /\ d # Nobody BY DEF HostsAssumption
            <4> QED BY <1>c, <4>1, <4>2, Stages, StageIsCall, ChangedIsCall
        <3>2. calls' = Append(s, Stage("asked", d)) BY <2>1
        <3> HIDE DEF x, Call
        <3>3. s \in Seq(Call) BY <1>c, <3>1, ExceptSeq
        <3> HIDE DEF s
        <3> QED BY <3>1, <3>2, <3>3, Appending
    <2>3. believes' \in [Client -> Host]
        BY <1>t, <2>1 DEF Tell, TypeButHistory, Host
    <2> QED BY <1>3, <1>t, <2>2, <2>3
        DEF Ask, TypeButHistory, hosts, membership, game
<1> QED BY <1>1, <1>2, <1>3

\* Joins.
LEMMA JoinType ==
    ASSUME HostsAssumption, TypeOK,
           NEW k \in 1 .. Len(calls),
           \/ JoinElected(k) \/ JoinedGame(k) \/ JoinGame(k) \/ Enter(k)
           \/ FinishJoin(k) \/ Spawned(k) \/ FinishReset(k)
    PROVE  TypeButHistory'
<1>t. TypeButHistory BY DEF TypeOK, TypeButHistory
<1>c. calls[k] \in Call /\ calls[k].client \in Client \cup {Nobody} /\ calls[k].op \in Op
    BY CallsAreCalls DEF Call
<1>e. End(k) => calls' \in Seq(Call) BY CallsStep, Zenon
<1>j. calls[k].op \in JoinOp => calls[k].client \in Client BY <1>c DEF Call
<1>s. ASSUME NEW op \in JoinOp, calls[k].op \in JoinOp,
             Continue(k, Stage(op, calls[k].client))
      PROVE  calls' \in Seq(Call)
    <2>1. Stage(op, calls[k].client) \in Call
        BY <1>c, <1>j, <1>s, Stages, StageIsCall DEF HostsAssumption
    <2> HIDE DEF Call
    <2> QED BY <1>s, <2>1, CallsStep
<1>m. Members \subseteq Client BY ListsAreTyped
<1>1. CASE JoinElected(k)
    <2>j. calls[k].op \in JoinOp BY <1>1 DEF JoinElected, At, JoinOp
    <2>1. calls' \in Seq(Call) BY <1>1, <1>s, <2>j DEF JoinElected, JoinOp
    <2>2. /\ acting' = acting \/ acting' = Insert(calls[k].client)
          /\ hostId' = hostId \/ hostId' \in Members \cup {calls[k].client}
        BY <1>1 DEF JoinElected
    <2>3. acting' \in Seq(Client \cup {Nobody}) /\ IsInjective(acting')
        BY <1>c, <1>t, <2>2, ListsAreTyped DEF TypeButHistory
    <2>4. hostId' \in Host BY <1>c, <1>t, <1>m, <2>2 DEF TypeButHistory, Host
    <2> QED BY <1>1, <1>t, <2>1, <2>3, <2>4
        DEF JoinElected, TypeButHistory, membership, game
<1>2. CASE JoinedGame(k)
    <2>j. calls[k].op \in JoinOp BY <1>2 DEF JoinedGame, At, JoinOp
    <2>1. calls' \in Seq(Call) BY <1>2, <1>s, <2>j DEF JoinedGame, JoinOp
    <2>2. believes' \in [Client -> Host]
        BY <1>2, <1>t DEF JoinedGame, Tell, TypeButHistory
    <2>3. waitingFor' \in Seq(Client)
        BY <1>2, <1>j, <2>j, ListsAreTyped DEF JoinedGame
    <2> QED BY <1>2, <1>t, <2>1, <2>2, <2>3
        DEF JoinedGame, TypeButHistory, hosts, membership, game
<1>3. CASE JoinGame(k)
    <2>j. calls[k].op \in JoinOp BY <1>3 DEF JoinGame, At, JoinOp
    <2>1. calls' \in Seq(Call) BY <1>3, <1>s, <2>j DEF JoinGame, JoinOp
    <2>2. believes' \in [Client -> Host]
        BY <1>3, <1>t DEF JoinGame, Tell, TypeButHistory
    <2> QED BY <1>3, <1>t, <2>1, <2>2
        DEF JoinGame, TypeButHistory, hosts, membership, game
<1>4. CASE Enter(k)
    <2>j. calls[k].op \in JoinOp BY <1>4 DEF Enter, At, JoinOp
    <2>1. calls' \in Seq(Call) BY <1>4, <1>s, <2>j DEF Enter, JoinOp
    <2>2. connections' \in Seq(Client) /\ IsInjective(connections')
        BY <1>4, <1>j, <1>t, <2>j, ListsAreTyped DEF Enter, TypeButHistory
    <2> QED BY <1>4, <1>t, <2>1, <2>2 DEF Enter, TypeButHistory, hosts, game
<1>5. CASE FinishJoin(k)
    <2>1. gameState' \in {"NotStarted", "Started", "Ended"}
        BY <1>5, <1>t DEF FinishJoin, TypeButHistory
    <2>2. calls' \in Seq(Call) BY <1>5, <1>e DEF FinishJoin
    <2> QED BY <1>5, <1>t, <2>1, <2>2 DEF FinishJoin, TypeButHistory, hosts, membership
<1>6. CASE Spawned(k)
    <2>1. calls' \in Seq(Call)
        <3> DEFINE d == calls[k].client
        <3>1. End(k) \/ Continue(k, Broadcast(d, d)) BY <1>6, Zenon DEF Spawned
        <3>2. Broadcast(d, d) \in Call
            <4>1. "broadcast" \in Op /\ "broadcast" \notin JoinOp BY Stages
            <4>2. Client \ Members \in SUBSET Client /\ d \in Host BY <1>c DEF Host
            <4> QED BY <1>c, <4>1, <4>2 DEF Broadcast, Call
        <3> HIDE DEF Call, d
        <3> QED BY <1>e, <3>1, <3>2, CallsStep
    <2> QED BY <1>6, <1>t, <2>1
        DEF Spawned, TypeButHistory, hosts, membership, game
<1>7. CASE FinishReset(k)
    <2>1. calls' \in Seq(Call) BY <1>7, <1>e DEF FinishReset
    <2> QED BY <1>7, <1>t, <2>1, NoElements
        DEF FinishReset, TypeButHistory, hosts, membership, game
<1> QED BY <1>1, <1>2, <1>3, <1>4, <1>5, <1>6, <1>7

\* Leaving.
LEMMA LeaveType ==
    ASSUME HostsAssumption, TypeOK,
           \/ \E c \in Client : Leave(c)
           \/ \E k \in 1 .. Len(calls) : FinishLeft(k) \/ LeaveElected(k) \/ RemovePlayer(k)
    PROVE  TypeButHistory'
<1>t. TypeButHistory BY DEF TypeOK, TypeButHistory
<1>m. Members \subseteq Client BY ListsAreTyped
<1>1. ASSUME NEW c \in Client, Leave(c) PROVE TypeButHistory'
    <2>1. PICK told \in {{}, Client} : Begin([Stage("left", c) EXCEPT !.told = told])
        BY <1>1 DEF Leave
    <2>2. Stage("left", c) \in Call BY Stages, StageIsCall DEF LoopOp
    <2>3. Stage("left", c).op = "left" /\ Stage("left", c).host \in Host
        BY DEF Stage, Host
    <2>4. [Stage("left", c) EXCEPT !.told = told] \in Call
        BY <2>2, <2>3, ChangedIsCall
    <2>5. calls' \in Seq(Call) BY <2>1, <2>4, CallsStep
    <2>6. waitingFor' \in Seq(Client)
        BY <1>1, <1>t, ListsAreTyped DEF Leave, TypeButHistory
    <2>7. /\ connections' \in Seq(Client) /\ IsInjective(connections')
          /\ acting' \in Seq(Client \cup {Nobody}) /\ IsInjective(acting')
        BY <1>1, ListsAreTyped DEF Leave
    <2>8. players' \subseteq Client /\ gone' \subseteq Client
        BY <1>1, <1>t DEF Leave, TypeButHistory
    <2> QED BY <1>1, <1>t, <2>5, <2>6, <2>7, <2>8 DEF Leave, TypeButHistory, game
<1>2. ASSUME NEW k \in 1 .. Len(calls), FinishLeft(k) PROVE TypeButHistory'
    <2>c. calls[k] \in Call /\ calls[k].client \in Client \cup {Nobody}
        BY CallsAreCalls DEF Call
    <2> DEFINE c == calls[k].client
               x(op) == [Stage(op, c) EXCEPT !.host = Head(connections)]
    <2>1. \/ End(k) \/ Continue(k, Stage("leaving", c))
          \/ /\ connections # <<>>
             /\ Continue(k, x("electActing")) \/ Continue(k, x("electHost"))
        BY <1>2 DEF FinishLeft
    <2>2. Stage("leaving", c) \in Call BY <2>c, Stages, StageIsCall
    <2>3. ASSUME connections # <<>>
          PROVE  x("electActing") \in Call /\ x("electHost") \in Call
        <3>1. Head(connections) \in Client BY <1>t, <2>3 DEF TypeButHistory
        <3>2. /\ {"electActing", "electHost"} \subseteq Op
              /\ "electActing" \notin JoinOp /\ "electHost" \notin JoinOp
            BY DEF Op, JoinOp
        <3> QED BY <2>c, <3>1, <3>2 DEF Stage, Call, Host
    <2> HIDE DEF Call, x, c
    <2>4. calls' \in Seq(Call) BY <2>1, <2>2, <2>3, CallsStep
    <2> QED BY <1>2, <1>t, <2>4
        DEF FinishLeft, TypeButHistory, hosts, membership, game
<1>3. ASSUME NEW k \in 1 .. Len(calls), LeaveElected(k) PROVE TypeButHistory'
    <2>c. calls[k] \in Call /\ calls[k].client \in Client \cup {Nobody}
          /\ calls[k].host \in Host
        BY CallsAreCalls DEF Call
    <2> DEFINE leaving == Stage("leaving", calls[k].client)
               added(pick) == [leaving EXCEPT !.op = "added", !.to = pick, !.host = pick]
    <2>1. leaving \in Call BY <2>c, Stages, StageIsCall
    <2>2. ASSUME NEW pick \in Client PROVE added(pick) \in Call
        <3>1. "added" \in Op /\ "added" \notin JoinOp /\ "added" # "electActing"
            BY Stages
        <3> QED BY <2>1, <3>1 DEF Call, Host
    <2>3. /\ calls' \in Seq(Call)
          /\ acting' \in Seq(Client \cup {Nobody}) /\ IsInjective(acting')
          /\ hostId' \in Host
        <3>1. CASE Continue(k, leaving) /\ UNCHANGED <<hostId, acting>>
            <4> HIDE DEF leaving, Call
            <4> QED BY <3>1, <1>t, <2>1, CallsStep DEF TypeButHistory
        <3>2. ASSUME NEW pick \in Members \cup {calls[k].host},
                     calls[k].op = "electActing", acting' = Insert(pick),
                     Continue(k, IF waitingFor = <<>> /\ pick \in Present
                                 THEN added(pick) ELSE leaving),
                     UNCHANGED hostId
              PROVE  /\ calls' \in Seq(Call)
                     /\ acting' \in Seq(Client \cup {Nobody}) /\ IsInjective(acting')
                     /\ hostId' \in Host
            <4>1. pick \in Client BY <3>2, <2>c, <1>m DEF Call
            <4>2. added(pick) \in Call BY <2>2, <4>1
            <4>3. Continue(k, added(pick)) \/ Continue(k, leaving) BY <3>2
            <4> HIDE DEF leaving, added, Call
            <4>4. calls' \in Seq(Call) BY <4>2, <4>3, <2>1, CallsStep
            <4> QED BY <3>2, <4>1, <4>4, <1>t, ListsAreTyped DEF TypeButHistory
        <3>3. CASE /\ hostId' \in Members \cup {calls[k].host}
                   /\ Continue(k, leaving) /\ UNCHANGED acting
            <4>1. hostId' \in Host BY <3>3, <2>c, <1>m DEF Host
            <4> HIDE DEF leaving, Call
            <4> QED BY <3>3, <4>1, <1>t, <2>1, CallsStep DEF TypeButHistory
        <3> QED BY <1>3, <3>1, <3>2, <3>3 DEF LeaveElected
    <2> QED BY <1>3, <1>t, <2>3 DEF LeaveElected, TypeButHistory, membership, game
<1>4. ASSUME NEW k \in 1 .. Len(calls), RemovePlayer(k) PROVE TypeButHistory'
    <2>1. calls' \in Seq(Call) BY <1>4, CallsStep, Zenon DEF RemovePlayer
    <2>2. \A d \in Client : Remaining[d] \in Host
        BY <1>t DEF Remaining, TypeButHistory, Host
    <2>3. believes' \in [Client -> Host]
        BY <1>4, <1>t, <2>2 DEF RemovePlayer, Tell, TypeButHistory
    <2> QED BY <1>4, <1>t, <2>1, <2>3
        DEF RemovePlayer, TypeButHistory, hosts, membership, game
<1> QED BY <1>1, <1>2, <1>3, <1>4

\* Calls whose stage is not about a client, and those about one client that
\* begin with nobody told, or that need to tell nobody.
LEMMA NewStages ==
    ASSUME HostsAssumption, TypeOK, NEW op \in LoopOp \cup {"starting", "select", "ending"},
           NEW c \in Client \cup {Nobody}, NEW told \in {{}, Client}, NEW host \in Host
    PROVE  LET s == Stage(op, c)
               t == [Stage(op, c) EXCEPT !.told = told]
               h == [Stage(op, c) EXCEPT !.host = host]
           IN  /\ Begin(s) \/ Begin(t) \/ Begin(h) => calls' \in Seq(Call)
               /\ \A k \in 1 .. Len(calls) :
                    Continue(k, s) \/ Continue(k, t) => calls' \in Seq(Call)
<1> DEFINE s == Stage(op, c)
           t == [Stage(op, c) EXCEPT !.told = told]
           h == [Stage(op, c) EXCEPT !.host = host]
<1>1. s \in Call BY Stages, StageIsCall
<1>2. s.op = op /\ s.host \in Host /\ op # "electActing" BY Stages DEF Stage, Host
<1>3. t \in Call BY <1>1, <1>2, ChangedIsCall
<1>4. h \in Call BY <1>1, <1>2, ChangedIsCall
<1> HIDE DEF s, t, h, Call
<1>5. Begin(s) \/ Begin(t) \/ Begin(h) => calls' \in Seq(Call)
    BY <1>1, <1>3, <1>4, CallsStep
<1>6. ASSUME NEW k \in 1 .. Len(calls), Continue(k, s) \/ Continue(k, t)
      PROVE  calls' \in Seq(Call)
    BY <1>1, <1>3, <1>6, CallsStep
<1> QED BY <1>5, <1>6 DEF s, t, h

\* Games.
LEMMA GameType ==
    ASSUME HostsAssumption, TypeOK,
           \/ StartGame \/ EndGame
           \/ \E k \in 1 .. Len(calls) : FinishStart(k) \/ Started(k) \/ FinishEnd(k)
    PROVE  TypeButHistory'
<1>t. TypeButHistory BY DEF TypeOK, TypeButHistory
<1>s. ASSUME Switch PROVE switches' \in 0 .. MaxSwitches
    BY <1>s, <1>t DEF Switch, TypeButHistory, HostsAssumption
<1>h. Nobody \in Client \cup {Nobody} /\ Nobody \in Host BY DEF Host
<1>1. CASE StartGame
    <2>1. PICK told \in {{}, Client} : Begin([Stage("start", Nobody) EXCEPT !.told = told])
        BY <1>1 DEF StartGame
    <2>2. calls' \in Seq(Call) BY <1>h, <2>1, NewStages DEF LoopOp
    <2>3. switches' \in 0 .. MaxSwitches BY <1>1, <1>s DEF StartGame
    <2> QED BY <1>1, <1>t, <2>2, <2>3
        DEF StartGame, TypeButHistory, hosts, membership
<1>2. CASE EndGame
    <2>1. calls' \in Seq(Call) BY <1>2, <1>h, NewStages DEF EndGame
    <2> QED BY <1>2, <1>t, <2>1 DEF EndGame, TypeButHistory, hosts, membership
<1>3. ASSUME NEW k \in 1 .. Len(calls), FinishStart(k) PROVE TypeButHistory'
    <2>1. calls' \in Seq(Call) BY <1>3, <1>h, NewStages DEF FinishStart
    <2> QED BY <1>3, <1>t, <2>1 DEF FinishStart, TypeButHistory, hosts, membership
<1>4. ASSUME NEW k \in 1 .. Len(calls), Started(k) PROVE TypeButHistory'
    <2>1. calls' \in Seq(Call)
        <3>1. CASE End(k) BY <3>1, CallsStep, Zenon
        <3>2. ASSUME NEW told \in {{}, Client},
                     Continue(k, [Stage("cancel", Nobody) EXCEPT !.told = told])
              PROVE  calls' \in Seq(Call)
            BY <1>h, <3>2, NewStages DEF LoopOp
        <3> QED BY <1>4, <3>1, <3>2 DEF Started
    <2>2. gameState' \in {"NotStarted", "Started", "Ended"}
        BY <1>4, <1>t DEF Started, TypeButHistory
    <2> QED BY <1>4, <1>t, <2>1, <2>2 DEF Started, TypeButHistory, hosts, membership
<1>5. ASSUME NEW k \in 1 .. Len(calls), FinishEnd(k) PROVE TypeButHistory'
    <2>1. calls' \in Seq(Call) BY <1>5, CallsStep, Zenon DEF FinishEnd
    <2>2. connections' \in Seq(Client) /\ IsInjective(connections')
        BY <1>5, <1>t, NoElements DEF FinishEnd, TypeButHistory
    <2>3. gameState' \in {"NotStarted", "Started", "Ended"}
        BY <1>5, <1>t DEF FinishEnd, TypeButHistory
    <2> QED BY <1>5, <1>t, <2>1, <2>2, <2>3 DEF FinishEnd, TypeButHistory, hosts
<1> QED BY <1>1, <1>2, <1>3, <1>4, <1>5

\* What plugins and the console call, and what ends their loops.
LEMMA SwitchType ==
    ASSUME HostsAssumption, TypeOK,
           \/ EnableSaaH \/ DisableSaaH \/ EnableActingHosts \/ DisableActingHosts
           \/ \E c \in Client : \/ SetHost(c) \/ AddActingHost(c) \/ RemoveActingHost(c)
                                \/ SetNameplate(c) \/ Join(c)
           \/ \E k \in 1 .. Len(calls) : Selected(k) \/ FinishLoop(k)
    PROVE  TypeButHistory'
<1>t. TypeButHistory BY DEF TypeOK, TypeButHistory
<1>s. ASSUME Switch PROVE switches' \in 0 .. MaxSwitches
    BY <1>s, <1>t DEF Switch, TypeButHistory, HostsAssumption
<1>h. Nobody \in Client \cup {Nobody} /\ Nobody \in Host BY DEF Host
<1>m. Members \subseteq Client /\ Acting \subseteq Client \cup {Nobody} BY ListsAreTyped
<1>u. ASSUME NEW c \in Client, NEW host \in Host,
             Update(c, host) \/ UNCHANGED calls
      PROVE  calls' \in Seq(Call)
    <2> DEFINE x == [Stage("tell", c) EXCEPT !.to = c, !.host = host]
    <2>1. Stage("tell", c) \in Call /\ Stage("tell", c).op = "tell"
          /\ Stage("tell", c).told \in SUBSET Client
        <3>1. Stage("tell", c) \in Call BY Stages, StageIsCall
        <3> QED BY <3>1 DEF Stage
    <2>2. x \in Call BY <2>1, ChangedIsCall
    <2>3. Begin(x) \/ UNCHANGED calls BY <1>u DEF Update
    <2> HIDE DEF x, Call
    <2> QED BY <1>t, <2>2, <2>3, CallsStep DEF TypeButHistory
<1>1. CASE EnableSaaH
    <2>1. calls' \in Seq(Call) BY <1>1, <1>h, NewStages DEF EnableSaaH, LoopOp
    <2>2. acting' \in Seq(Client \cup {Nobody}) /\ IsInjective(acting')
        <3>1. acting' = acting \/ (hostId # Server /\ acting' = Insert(hostId))
            BY <1>1 DEF EnableSaaH
        <3>2. hostId # Server => hostId \in Client \cup {Nobody}
            BY <1>t DEF TypeButHistory, Host
        <3> QED BY <1>t, <3>1, <3>2, ListsAreTyped DEF TypeButHistory
    <2>3. switches' \in 0 .. MaxSwitches BY <1>1, <1>s DEF EnableSaaH
    <2> QED BY <1>1, <1>t, <2>1, <2>2, <2>3 DEF EnableSaaH, TypeButHistory, membership, Host
<1>2. CASE DisableSaaH
    <2>1. \/ UNCHANGED calls
          \/ \E first \in Members : Begin([Stage("select", Nobody) EXCEPT !.host = first])
        BY <1>2 DEF DisableSaaH
    <2>2. Members \subseteq Host BY <1>m DEF Host
    <2>3. calls' \in Seq(Call)
        <3>1. CASE UNCHANGED calls BY <1>t, <3>1 DEF TypeButHistory
        <3>2. ASSUME NEW first \in Members,
                     Begin([Stage("select", Nobody) EXCEPT !.host = first])
              PROVE  calls' \in Seq(Call)
            BY <1>h, <2>2, <3>2, NewStages
        <3> QED BY <2>1, <3>1, <3>2
    <2>4. switches' \in 0 .. MaxSwitches BY <1>2, <1>s DEF DisableSaaH
    <2> QED BY <1>2, <1>t, <2>3, <2>4 DEF DisableSaaH, TypeButHistory, membership
<1>3. CASE EnableActingHosts
    <2>1. calls' \in Seq(Call)
        BY <1>3, <1>h, <1>t, NewStages DEF EnableActingHosts, LoopOp, TypeButHistory
    <2>2. switches' \in 0 .. MaxSwitches BY <1>3, <1>s DEF EnableActingHosts
    <2> QED BY <1>3, <1>t, <2>1, <2>2 DEF EnableActingHosts, TypeButHistory, membership
<1>4. CASE DisableActingHosts
    <2>1. calls' \in Seq(Call)
        BY <1>4, <1>h, NewStages DEF DisableActingHosts, LoopOp
    <2>2. switches' \in 0 .. MaxSwitches BY <1>4, <1>s DEF DisableActingHosts
    <2> QED BY <1>4, <1>t, <2>1, <2>2
        DEF DisableActingHosts, TypeButHistory, hosts, membership
<1>5. ASSUME NEW c \in Client, SetHost(c) PROVE TypeButHistory'
    <2>1. calls' \in Seq(Call) BY <1>5, <1>h, NewStages DEF SetHost, LoopOp
    <2>2. switches' \in 0 .. MaxSwitches BY <1>5, <1>s DEF SetHost
    <2> QED BY <1>5, <1>t, <2>1, <2>2 DEF SetHost, TypeButHistory, membership, Host
<1>6. ASSUME NEW c \in Client, AddActingHost(c) PROVE TypeButHistory'
    <2>1. calls' \in Seq(Call) BY <1>6, <1>u DEF AddActingHost, Host
    <2>2. acting' \in Seq(Client \cup {Nobody}) /\ IsInjective(acting')
        <3>1. acting' = Insert(c) BY <1>6 DEF AddActingHost, Insert
        <3> QED BY <3>1, ListsAreTyped
    <2>3. switches' \in 0 .. MaxSwitches BY <1>6, <1>s DEF AddActingHost
    <2> QED BY <1>6, <1>t, <2>1, <2>2, <2>3 DEF AddActingHost, TypeButHistory, membership
<1>7. ASSUME NEW c \in Client, RemoveActingHost(c) PROVE TypeButHistory'
    <2>1. calls' \in Seq(Call) BY <1>7, <1>u DEF RemoveActingHost, Host
    <2>2. acting' \in Seq(Client \cup {Nobody}) /\ IsInjective(acting')
        BY <1>7, ListsAreTyped DEF RemoveActingHost
    <2>3. switches' \in 0 .. MaxSwitches BY <1>7, <1>s DEF RemoveActingHost
    <2> QED BY <1>7, <1>t, <2>1, <2>2, <2>3 DEF RemoveActingHost, TypeButHistory, membership
<1>8. ASSUME NEW c \in Client, SetNameplate(c) PROVE TypeButHistory'
    <2>1. calls' \in Seq(Call)
        BY <1>8, <1>h, <1>t, NewStages DEF SetNameplate, LoopOp, TypeButHistory
    <2>2. waitingFor' \in Seq(Client)
        BY <1>8, <1>t, NoElements DEF SetNameplate, TypeButHistory
    <2> QED BY <1>8, <1>t, <2>1, <2>2
        DEF SetNameplate, TypeButHistory, hosts, membership, game
<1>9. ASSUME NEW c \in Client, Join(c) PROVE TypeButHistory'
    <2>1. PICK host \in Host :
            \/ Begin([Stage("electing", c) EXCEPT !.host = host])
            \/ Begin(Stage("joining", c))
        BY <1>9 DEF Join, Host
    <2>2. /\ Stage("electing", c) \in Call /\ Stage("joining", c) \in Call
          /\ Stage("electing", c).op = "electing"
        <3>1. /\ "electing" \in JoinOp /\ "joining" \in JoinOp
              /\ JoinOp \subseteq Op /\ c # Nobody
            BY Stages DEF JoinOp, HostsAssumption
        <3>2. "electing" # "electActing" /\ "joining" # "electActing" OBVIOUS
        <3> QED BY <3>1, <3>2, StageIsCall DEF Stage
    <2>3. [Stage("electing", c) EXCEPT !.host = host] \in Call
        <3>1. Nobody \in Client \cup {Nobody} /\ {} \in SUBSET Client OBVIOUS
        <3> HIDE DEF Call
        <3> QED BY <2>2, <3>1, ChangedIsCall
    <2>4. calls' \in Seq(Call)
        <3> HIDE DEF Call
        <3> QED BY <2>1, <2>2, <2>3, CallsStep
    <2>5. players' \subseteq Client BY <1>9, <1>t DEF Join, TypeButHistory
    <2> QED BY <1>9, <1>t, <2>4, <2>5 DEF Join, TypeButHistory, hosts, game
<1>10. ASSUME NEW k \in 1 .. Len(calls), Selected(k) PROVE TypeButHistory'
    <2>c. calls[k].host \in Host BY CallsAreCalls DEF Call
    <2>1. calls' \in Seq(Call) BY <1>10, <1>h, NewStages DEF Selected, LoopOp
    <2>2. \/ UNCHANGED <<hostId, acting>>
          \/ \E pick \in Members \cup {calls[k].host} :
                hostId' = pick /\ acting' = RemoveFirst(acting, pick)
        BY <1>10 DEF Selected
    <2>3. Members \cup {calls[k].host} \subseteq Host BY <1>m, <2>c DEF Host
    <2>4. /\ hostId' \in Host
          /\ acting' \in Seq(Client \cup {Nobody}) /\ IsInjective(acting')
        BY <1>t, <2>2, <2>3, ListsAreTyped DEF TypeButHistory
    <2> QED BY <1>10, <1>t, <2>1, <2>4 DEF Selected, TypeButHistory, membership, game
<1>11. ASSUME NEW k \in 1 .. Len(calls), FinishLoop(k) PROVE TypeButHistory'
    <2>1. calls' \in Seq(Call) BY <1>11, CallsStep, Zenon DEF FinishLoop
    <2>2. enabled' \in BOOLEAN BY <1>11, <1>t DEF FinishLoop, TypeButHistory
    <2> QED BY <1>11, <1>t, <2>1, <2>2 DEF FinishLoop, TypeButHistory, membership, game
<1> QED BY <1>1, <1>2, <1>3, <1>4, <1>5, <1>6, <1>7, <1>8, <1>9, <1>10, <1>11

LEMMA TypeStep ==
    ASSUME HostsAssumption, TypeOK, [Next]_vars
    PROVE  TypeOK'
<1>1. CASE UNCHANGED vars
    BY <1>1 DEF TypeOK, vars, hosts, membership, game
<1>2. CASE Next
    <2>1. TypeButHistory'
        BY <1>2, UpdateType, JoinType, LeaveType, GameType, SwitchType
        DEF Next, Act, Proceed
    <2>2. overtaken' \in SUBSET Client
        BY <1>2 DEF Next, Overtake, InTransit, TypeOK
    <2> QED BY <2>1, <2>2 DEF TypeOK, TypeButHistory
<1> QED BY <1>1, <1>2

\* The type invariant: no list of connections or acting hosts names anybody
\* twice, whatever joins, leaves, games and calls of plugins overlap.
THEOREM HostsTypeCorrect ==
    ASSUME HostsAssumption
    PROVE  Spec => []TypeOK
<1>1. Init => TypeOK BY TypeInit
<1>2. TypeOK /\ [Next]_vars => TypeOK' BY TypeStep
<1> QED BY <1>1, <1>2, PTL DEF Spec

-----------------------------------------------------------------------------
(* Who believes to be the host. *)

\* With these acting hosts and this host, c may be told of h: of itself only if
\* it is one of them, and the host of nobody else but the server.
Suits(c, h, actingHosts, host) ==
    /\ h = c => c \in actingHosts \cup {host}
    /\ host = c => h \in {c, Server}

Fits(c, h) == Suits(c, h, Acting, hostId)

\* The call is going to tell c of a host, if it is there.
Owes(call, c) ==
    \/ call.op \in {"server", "host"} /\ c \notin call.told
    \/ call.op # "asked" /\ call.to = c
    \/ call.op \in {"joining", "told", "leaving", "added"}

\* What a call carries for a client suits it, or was told it already in a join
\* that is not over, but for some clients.
Carries(call, actingHosts, host, told, except) ==
    \A c \in Client \ except :
        /\ call.to = c => Suits(c, call.host, actingHosts, host)
        /\ call.op = "broadcast" /\ c \notin call.told =>
                Suits(c, call.host, actingHosts, host)
        /\ call.op \in {"told", "shown"} /\ call.client = c =>
                Suits(c, told[c], actingHosts, host)
        /\ call.op = "asked" /\ call.client = c => Suits(c, c, actingHosts, host)

CallOK(call) == Carries(call, Acting, hostId, believes, overtaken)

\* The same after a step, for a call that is given before it.
WillBeOK(call) == Carries(call, Acting', hostId', believes', overtaken')

CallsOK == \A call \in ToSet(calls) : CallOK(call)

MembersOK ==
    \A c \in Present \ overtaken :
        Fits(c, believes[c]) \/ \E call \in ToSet(calls) : Owes(call, c)

HostsInv == CallsOK /\ MembersOK

\* A call that carries nothing.
LEMMA Plain ==
    ASSUME HostsAssumption, NEW call, call.to = Nobody,
           call.op \notin {"broadcast", "told", "shown", "asked"}
    PROVE  WillBeOK(call)
BY DEF WillBeOK, Carries, HostsAssumption

LEMMA StageFields ==
    \A op, c :
        /\ Stage(op, c).op = op /\ Stage(op, c).to = Nobody
        /\ Stage(op, c).client = c /\ Stage(op, c).told = {}
        /\ \A h : LET x == [Stage(op, c) EXCEPT !.host = h]
                  IN  x.op = op /\ x.to = Nobody
        /\ \A t : LET x == [Stage(op, c) EXCEPT !.told = t]
                  IN  x.op = op /\ x.to = Nobody
        /\ \A o, h : LET x == [Stage(op, c) EXCEPT !.op = o, !.to = h, !.host = h]
                     IN  x.op = o /\ x.to = h /\ x.host = h /\ x.told = {}
        /\ \A h : LET x == [Stage(op, c) EXCEPT !.to = h, !.host = h]
                  IN  x.op = op /\ x.to = h /\ x.host = h /\ x.told = {}
        /\ \A t, h : LET x == [Stage(op, c) EXCEPT !.to = t, !.host = h]
                     IN  x.op = op /\ x.to = t /\ x.host = h /\ x.told = {}
BY DEF Stage

\* What is told now fits; what calls carried and the hosts have overtaken is
\* excepted; so new calls have to fit, and no others.
LEMMA CallsStay ==
    ASSUME HostsInv, Overtake,
           \A c \in Client \ overtaken' :
                \/ believes'[c] = believes[c]
                \/ Suits(c, believes'[c], Acting', hostId'),
           \A call \in ToSet(calls') : call \in ToSet(calls) \/ WillBeOK(call)
    PROVE  CallsOK'
<1>1. ASSUME NEW call \in ToSet(calls) PROVE WillBeOK(call)
    <2>1. CASE hosts' = hosts
        <3>1. Acting' = Acting /\ hostId' = hostId /\ overtaken' = overtaken
            BY <2>1 DEF hosts, Acting, Overtake
        <3>2. CallOK(call) BY DEF HostsInv, CallsOK
        <3> QED BY <3>1, <3>2 DEF CallOK, WillBeOK, Carries
    <2>2. CASE hosts' # hosts
        <3>1. InTransit \subseteq overtaken' /\ overtaken \subseteq overtaken'
            BY <2>2 DEF Overtake
        <3> QED BY <3>1 DEF WillBeOK, Carries, InTransit
    <2> QED BY <2>1, <2>2
<1> QED BY <1>1 DEF CallsOK, CallOK, WillBeOK

\* A step after which all that fitted still fits.
LEMMA Calm ==
    ASSUME HostsInv, Overtake,
           \A c \in Client \ overtaken' :
                \/ believes'[c] = believes[c]
                \/ Suits(c, believes'[c], Acting', hostId'),
           \A call \in ToSet(calls') : call \in ToSet(calls) \/ WillBeOK(call),
           \A c \in Present' \ overtaken' :
                \/ Suits(c, believes'[c], Acting', hostId')
                \/ \E call \in ToSet(calls') : Owes(call, c)
                \/ /\ c \in Present /\ believes'[c] = believes[c]
                   /\ \A h : Fits(c, h) => Suits(c, h, Acting', hostId')
                   /\ \A y \in ToSet(calls) : Owes(y, c) => y \in ToSet(calls')
    PROVE  HostsInv'
<1>1. CallsOK' BY CallsStay
<1>2. overtaken \subseteq overtaken' BY DEF Overtake
<1>3. ASSUME NEW c \in Present' \ overtaken'
      PROVE  \/ Suits(c, believes'[c], Acting', hostId')
             \/ \E call \in ToSet(calls') : Owes(call, c)
    BY <1>2, <1>3 DEF HostsInv, MembersOK
<1>4. MembersOK' BY <1>3 DEF MembersOK, Fits
<1> QED BY <1>1, <1>4 DEF HostsInv

\* A step of a call, or the begin of one, that leaves the hosts and the
\* membership as they are.
LEMMA Still ==
    ASSUME TypeOK, HostsInv, Overtake, UNCHANGED <<hosts, membership>>,
           \A c \in Client \ overtaken :
                believes'[c] = believes[c] \/ Fits(c, believes'[c]),
           \A call \in ToSet(calls') : call \in ToSet(calls) \/ WillBeOK(call),
           \A c \in Present \ overtaken :
                \/ Fits(c, believes'[c])
                \/ \E call \in ToSet(calls') : Owes(call, c)
                \/ /\ believes'[c] = believes[c]
                   /\ \A y \in ToSet(calls) : Owes(y, c) => y \in ToSet(calls')
    PROVE  HostsInv'
<1>1. /\ Acting' = Acting /\ hostId' = hostId /\ overtaken' = overtaken
      /\ Present' = Present
    BY DEF hosts, membership, Acting, Present, Members, Overtake
<1> QED BY <1>1, Calm DEF Fits

\* The same for a call that goes on: what it owed it still owes, or has told.
LEMMA GoesOn ==
    ASSUME TypeOK, HostsInv, Overtake, UNCHANGED <<hosts, membership>>,
           NEW k \in 1 .. Len(calls), NEW x \in Call, Continue(k, x), WillBeOK(x),
           \A c \in Client \ overtaken :
                believes'[c] = believes[c] \/ Fits(c, believes'[c]),
           \A c \in Present \ overtaken :
                Owes(calls[k], c) => Owes(x, c) \/ Fits(c, believes'[c])
    PROVE  HostsInv'
<1>1. calls \in Seq(Call) BY CallsAreCalls
<1> HIDE DEF Call
<1>2. /\ ToSet(calls') \subseteq ToSet(calls) \cup {x} /\ x \in ToSet(calls')
      /\ \A y \in ToSet(calls) : y = calls[k] \/ y \in ToSet(calls')
    BY <1>1, Continued
<1>3. Members \subseteq Client BY Elements DEF TypeOK, Members
<1>4. \A c \in Present \ overtaken :
        \/ Fits(c, believes'[c])
        \/ \E call \in ToSet(calls') : Owes(call, c)
        \/ /\ believes'[c] = believes[c]
           /\ \A y \in ToSet(calls) : Owes(y, c) => y \in ToSet(calls')
    BY <1>2, <1>3 DEF Present
<1> QED BY <1>2, <1>4, Still

\* And for a call that ends.
LEMMA Ends ==
    ASSUME TypeOK, HostsInv, Overtake, UNCHANGED <<hosts, membership>>,
           NEW k \in 1 .. Len(calls), End(k),
           \A c \in Client \ overtaken :
                believes'[c] = believes[c] \/ Fits(c, believes'[c]),
           \A c \in Present \ overtaken : Owes(calls[k], c) => Fits(c, believes'[c])
    PROVE  HostsInv'
<1>1. calls \in Seq(Call) BY CallsAreCalls
<1> HIDE DEF Call
<1>2. /\ ToSet(calls') \subseteq ToSet(calls)
      /\ \A y \in ToSet(calls) : y = calls[k] \/ y \in ToSet(calls')
    BY <1>1, Ended
<1>3. Members \subseteq Client BY Elements DEF TypeOK, Members
<1>4. \A c \in Present \ overtaken :
        \/ Fits(c, believes'[c])
        \/ \E call \in ToSet(calls') : Owes(call, c)
        \/ /\ believes'[c] = believes[c]
           /\ \A y \in ToSet(calls) : Owes(y, c) => y \in ToSet(calls')
    BY <1>2, <1>3 DEF Present
<1> QED BY <1>2, <1>4, Still

\* A call chooses a host that fits.
LEMMA ChooseStep ==
    ASSUME HostsAssumption, TypeOK, HostsInv, Overtake,
           NEW k \in 1 .. Len(calls), Choose(k)
    PROVE  HostsInv'
<1>c. calls[k] \in Call /\ calls[k] \in ToSet(calls) BY CallsAreCalls
<1>1. PICK d \in Client :
        /\ IsNext(calls[k], d)
        /\ Continue(k, [calls[k] EXCEPT !.told = @ \cup {d}, !.to = d,
                                        !.host = HostFor(calls[k], d)])
    BY DEF Choose
<1> DEFINE h == HostFor(calls[k], d)
           t == calls[k].told \cup {d}
           x == [calls[k] EXCEPT !.told = t, !.to = d, !.host = h]
<1>2. /\ calls[k].op \in LoopOp \cup {"broadcast"} /\ calls[k].to = Nobody
      /\ UNCHANGED <<hosts, membership, believes>>
    BY DEF Choose, At
<1>3. h \in Host BY <1>c, <1>2, HostForIsHost
<1>4. x \in Call
    <2>1. t \in SUBSET Client /\ calls[k].op # "electActing" BY <1>c, <1>2, Stages DEF Call
    <2> HIDE DEF Call, h, t
    <2> QED BY <1>c, <1>3, <2>1, ChangedIsCall
<1>5. x.op = calls[k].op /\ x.told = t /\ x.to = d /\ x.host = h
    <2> HIDE DEF h, t
    <2> QED BY <1>c DEF Call
<1>6. Fits(d, h) \/ d \in overtaken
    <2>1. d \notin calls[k].told BY <1>1 DEF IsNext, Untold
    <2>2. CASE calls[k].op = "broadcast"
        <3>1. h = calls[k].host BY <2>2 DEF HostFor
        <3> QED BY <1>c, <2>1, <2>2, <3>1 DEF HostsInv, CallsOK, CallOK, Carries, Fits
    <2>3. CASE calls[k].op \in {"server", "host", "disable", "start"}
        BY <2>3 DEF HostFor, Fits, Suits, HostsAssumption
    <2>4. CASE calls[k].op \in {"enable", "reset", "left", "cancel"}
        <3>1. d \in Acting
            BY <1>1, <2>4 DEF IsNext, Untold, Targets, Acting
        <3>2. h = d BY <2>4 DEF HostFor
        <3> QED BY <3>1, <3>2 DEF Fits, Suits
    <2> QED BY <1>2, <2>2, <2>3, <2>4 DEF LoopOp
<1>7. Acting' = Acting /\ hostId' = hostId /\ overtaken' = overtaken
    BY <1>2 DEF hosts, Acting, Overtake
<1>8. WillBeOK(x)
    <2>1. CallOK(calls[k]) BY <1>c DEF HostsInv, CallsOK
    <2>2. calls[k].op \notin {"told", "shown", "asked"} BY <1>2 DEF LoopOp
    <2>3. calls[k].op = "broadcast" => h = calls[k].host BY DEF HostFor
    <2> HIDE DEF h, x
    <2> QED BY <1>5, <1>6, <1>7, <2>1, <2>2, <2>3 DEF CallOK, WillBeOK, Carries, Fits
<1>9. \A c \in Present \ overtaken : Owes(calls[k], c) => Owes(x, c)
    <2>1. calls[k].op # "asked" BY <1>2 DEF LoopOp
    <2>2. \A c \in Present : c \in Client BY Elements DEF TypeOK, Members, Present
    <2> HIDE DEF x
    <2> QED BY <1>2, <1>5, <2>1, <2>2 DEF Owes, HostsAssumption
<1>10. Continue(k, x) BY <1>1
<1> HIDE DEF x, Call
<1> QED BY <1>2, <1>4, <1>8, <1>9, <1>10, GoesOn

\* A call sends what it carried.
LEMMA SendStep ==
    ASSUME HostsAssumption, TypeOK, HostsInv, Overtake,
           NEW k \in 1 .. Len(calls), Send(k)
    PROVE  HostsInv'
<1>c. calls[k] \in Call /\ calls[k] \in ToSet(calls) BY CallsAreCalls
<1>1. UNCHANGED <<hosts, membership>> BY DEF Send
<1>2. /\ believes' = [d \in Client |-> IF d = calls[k].to THEN calls[k].host
                                                           ELSE believes[d]]
      /\ calls[k].to \in Client
    BY <1>c DEF Send, Tell, Call
<1>3. \A c \in Client \ overtaken :
        believes'[c] = believes[c] \/ Fits(c, believes'[c])
    BY <1>2, <1>c DEF HostsInv, CallsOK, CallOK, Carries, Fits
<1>4. \A c \in Client \ overtaken : c = calls[k].to => Fits(c, believes'[c])
    BY <1>2, <1>c DEF HostsInv, CallsOK, CallOK, Carries, Fits
<1>5. \A c \in Present : c \in Client BY Elements DEF TypeOK, Members, Present
<1>6. CASE calls[k].op = "tell" /\ End(k)
    BY <1>1, <1>3, <1>4, <1>5, <1>6, Ends DEF Owes
<1>7. CASE calls[k].op = "added" /\ Continue(k, Stage("leaving", calls[k].client))
    <2> DEFINE x == Stage("leaving", calls[k].client)
    <2>1. x \in Call BY <1>c, Stages, StageIsCall DEF Call
    <2>2. x.op = "leaving" /\ x.to = Nobody BY StageFields
    <2> HIDE DEF x, Call
    <2>3. WillBeOK(x) BY <2>2, Plain
    <2>4. \A c : Owes(x, c) BY <2>2 DEF Owes
    <2> QED BY <1>1, <1>3, <1>7, <2>1, <2>3, <2>4, GoesOn DEF x
<1>8. CASE Continue(k, [calls[k] EXCEPT !.to = Nobody])
    <2> DEFINE x == [calls[k] EXCEPT !.to = Nobody]
    <2>1. x \in Call
        <3>1. /\ calls[k].host \in Host /\ Nobody \in Client \cup {Nobody}
              /\ calls[k].op = "electActing" => calls[k].host \in Client
              /\ {} \in SUBSET Client
            BY <1>c DEF Call
        <3> HIDE DEF Call
        <3> QED BY <1>c, <3>1, ChangedIsCall
    <2>2. /\ x.op = calls[k].op /\ x.to = Nobody /\ x.told = calls[k].told
          /\ x.client = calls[k].client /\ x.host = calls[k].host
        BY <1>c DEF Call
    <2> HIDE DEF x
    <2>3. WillBeOK(x)
        <3>1. CallOK(calls[k]) BY <1>c DEF HostsInv, CallsOK
        <3>2. Acting' = Acting /\ hostId' = hostId /\ overtaken' = overtaken
            BY <1>1 DEF hosts, Acting, Overtake
        <3>3. \A c \in Client \ overtaken :
                /\ x.to # c
                /\ x.op = "broadcast" /\ c \notin x.told => Fits(c, x.host)
                /\ x.op \in {"told", "shown"} /\ x.client = c => Fits(c, believes'[c])
                /\ x.op = "asked" /\ x.client = c => Fits(c, c)
            BY <1>3, <2>2, <3>1 DEF CallOK, Carries, Fits, HostsAssumption
        <3> QED BY <3>2, <3>3 DEF WillBeOK, Carries, Fits
    <2>4. \A c \in Present \ overtaken :
            Owes(calls[k], c) => Owes(x, c) \/ Fits(c, believes'[c])
        BY <1>4, <1>5, <2>2 DEF Owes
    <2> HIDE DEF Call
    <2> QED BY <1>1, <1>3, <1>8, <2>1, <2>3, <2>4, GoesOn DEF x
<1> QED BY <1>6, <1>7, <1>8 DEF Send

\* A step by which a call goes on, ends or begins that is at no stage of note
\* before and carries nothing then.
LEMMA Quietly ==
    ASSUME HostsAssumption, TypeOK, TypeOK', HostsInv, Overtake,
           UNCHANGED <<hosts, membership, believes>>,
           \A call \in ToSet(calls') : call \in ToSet(calls) \/ WillBeOK(call),
           \A y \in ToSet(calls), c \in Present :
                Owes(y, c) => \E call \in ToSet(calls') : Owes(call, c)
    PROVE  HostsInv'
<1>1. \A c \in Present \ overtaken :
        \/ Fits(c, believes'[c])
        \/ \E call \in ToSet(calls') : Owes(call, c)
    BY DEF HostsInv, MembersOK
<1> QED BY <1>1, Still

LEMMA StillSteps ==
    ASSUME HostsAssumption, TypeOK, TypeOK', HostsInv, Overtake,
           \/ StartGame \/ EndGame \/ DisableActingHosts
           \/ \E c \in Client : SetNameplate(c)
           \/ \E k \in 1 .. Len(calls) :
                \/ FinishJoin(k) \/ Spawned(k) \/ FinishReset(k) \/ FinishLeft(k)
                \/ FinishStart(k) \/ Started(k)
    PROVE  HostsInv'
<1>c. calls \in Seq(Call) /\ \A k \in 1 .. Len(calls) :
        calls[k] \in Call /\ calls[k] \in ToSet(calls)
    BY CallsAreCalls
<1>m. Members \subseteq Client BY ListsAreTyped
<1>b. ASSUME NEW op \in LoopOp \cup {"ending"}, NEW c \in Client \cup {Nobody},
             NEW told \in {{}, Client},
             Begin(Stage(op, c)) \/ Begin([Stage(op, c) EXCEPT !.told = told])
                \/ UNCHANGED calls
      PROVE  /\ \A call \in ToSet(calls') : call \in ToSet(calls) \/ WillBeOK(call)
             /\ \A y \in ToSet(calls), d \in Present :
                    Owes(y, d) => \E call \in ToSet(calls') : Owes(call, d)
    <2>0. CASE UNCHANGED calls BY <2>0
    <2>1. ASSUME NEW x, Begin(x), x \in Call, WillBeOK(x)
          PROVE  /\ \A call \in ToSet(calls') : call \in ToSet(calls) \/ WillBeOK(call)
                 /\ \A y \in ToSet(calls), d \in Present :
                        Owes(y, d) => \E call \in ToSet(calls') : Owes(call, d)
        <3> HIDE DEF Call
        <3>1. ToSet(calls') = ToSet(calls) \cup {x} BY <1>c, <2>1, Begun
        <3> QED BY <2>1, <3>1
    <2> DEFINE s == Stage(op, c)
               t == [Stage(op, c) EXCEPT !.told = told]
    <2>2. s \in Call BY Stages, StageIsCall
    <2>3. s.op = op /\ s.to = Nobody /\ t.op = op /\ t.to = Nobody BY StageFields
    <2>4. t \in Call
        <3>1. Nobody \in Client \cup {Nobody} /\ Nobody \in Host BY DEF Host
        <3>2. s.op # "electActing" BY <2>3, Stages
        <3> HIDE DEF Call, s
        <3> QED BY <2>2, <3>1, <3>2, ChangedIsCall DEF s
    <2>5. op \notin {"broadcast", "told", "shown", "asked"} BY DEF LoopOp
    <2> HIDE DEF s, t, Call
    <2>6. WillBeOK(s) /\ WillBeOK(t) BY <2>3, <2>5, Plain
    <2>7. CASE Begin(s) BY <2>1, <2>2, <2>6, <2>7
    <2>8. CASE Begin(t) BY <2>1, <2>4, <2>6, <2>8
    <2> QED BY <1>b, <2>0, <2>7, <2>8 DEF s, t
<1>n. Nobody \in Client \cup {Nobody} /\ {} \in {{}, Client} OBVIOUS
<1>k. ASSUME NEW k \in 1 .. Len(calls), NEW x \in Call, WillBeOK(x),
             End(k) \/ Continue(k, x),
             \A c \in Present : ~Owes(calls[k], c)
      PROVE  /\ \A call \in ToSet(calls') : call \in ToSet(calls) \/ WillBeOK(call)
             /\ \A y \in ToSet(calls), d \in Present :
                    Owes(y, d) => \E call \in ToSet(calls') : Owes(call, d)
    <2> HIDE DEF Call
    <2>1. CASE End(k)
        <3>1. /\ ToSet(calls') \subseteq ToSet(calls)
              /\ \A y \in ToSet(calls) : y = calls[k] \/ y \in ToSet(calls')
            BY <1>c, <2>1, Ended
        <3> QED BY <1>k, <3>1
    <2>2. CASE Continue(k, x)
        <3>1. /\ ToSet(calls') \subseteq ToSet(calls) \cup {x} /\ x \in ToSet(calls')
              /\ \A y \in ToSet(calls) : y = calls[k] \/ y \in ToSet(calls')
            BY <1>c, <2>2, Continued
        <3> QED BY <1>k, <3>1
    <2> QED BY <1>k, <2>1, <2>2
<1>o. ASSUME NEW k \in 1 .. Len(calls), NEW ops,
             At(k, ops),
             ops \cap {"server", "host", "joining", "told", "leaving", "added"} = {}
      PROVE  \A c \in Present : ~Owes(calls[k], c)
    BY <1>o, <1>m DEF Owes, At, Present, HostsAssumption
<1>x. ASSUME NEW op, NEW x, x.op = op, x.to = Nobody,
             op \notin {"broadcast", "told", "shown", "asked"}
      PROVE  WillBeOK(x)
    BY <1>x, Plain
<1>1. CASE StartGame
    <2>1. PICK told \in {{}, Client} : Begin([Stage("start", Nobody) EXCEPT !.told = told])
        BY <1>1 DEF StartGame
    <2>2. UNCHANGED <<hosts, membership, believes>> BY <1>1 DEF StartGame
    <2> QED BY <1>n, <1>b, <2>1, <2>2, Quietly DEF LoopOp
<1>2. CASE EndGame
    <2>1. Begin(Stage("ending", Nobody)) /\ UNCHANGED <<hosts, membership, believes>>
        BY <1>2 DEF EndGame
    <2> QED BY <1>n, <1>b, <2>1, Quietly
<1>3. CASE DisableActingHosts
    <2>1. Begin(Stage("disable", Nobody)) /\ UNCHANGED <<hosts, membership, believes>>
        BY <1>3 DEF DisableActingHosts
    <2> QED BY <1>n, <1>b, <2>1, Quietly DEF LoopOp
<1>4. ASSUME NEW c \in Client, SetNameplate(c) PROVE HostsInv'
    <2>1. /\ Begin(Stage("reset", c)) \/ UNCHANGED calls
          /\ UNCHANGED <<hosts, membership, believes>>
        BY <1>4 DEF SetNameplate
    <2> QED BY <1>n, <1>b, <2>1, Quietly DEF LoopOp
<1>5. ASSUME NEW k \in 1 .. Len(calls), FinishJoin(k) \/ FinishReset(k)
      PROVE  HostsInv'
    <2>1. /\ End(k) /\ UNCHANGED <<hosts, membership, believes>>
          /\ At(k, {"entered", "reset"})
        BY <1>5 DEF FinishJoin, FinishReset, At
    <2>2. \A c \in Present : ~Owes(calls[k], c) BY <1>o, <2>1
    <2> QED BY <2>1, <2>2, Ends, <1>m
<1>6. ASSUME NEW k \in 1 .. Len(calls), Spawned(k) PROVE HostsInv'
    <2> DEFINE d == calls[k].client
               x == Broadcast(d, d)
    <2>1. /\ At(k, {"asked"}) /\ UNCHANGED <<hosts, membership, believes>>
          /\ End(k) \/ (hostId = Server /\ Continue(k, x))
        BY <1>6 DEF Spawned
    <2>2. \A c \in Present : ~Owes(calls[k], c) BY <1>o, <2>1
    <2>3. CASE End(k) BY <2>1, <2>2, <2>3, Ends, <1>m
    <2>4. CASE hostId = Server /\ Continue(k, x)
        <3>1. x \in Call
            <4>1. "broadcast" \in Op /\ "broadcast" \notin JoinOp BY Stages
            <4>2. Client \ Members \in SUBSET Client /\ d \in Host /\ d \in Client \cup {Nobody}
                BY <1>c DEF Host, Call
            <4> QED BY <4>1, <4>2 DEF Broadcast, Call
        <3>2. Acting' = Acting /\ hostId' = hostId /\ overtaken' = overtaken
            BY <2>1 DEF hosts, Acting, Overtake
        <3>3. /\ x.op = "broadcast" /\ x.to = Nobody /\ x.host = d
              /\ x.told = Client \ Members
            BY DEF Broadcast
        <3>4. \A c \in Client \ overtaken : c = d => c \in Acting \cup {hostId}
            BY <1>c, <2>1 DEF HostsInv, CallsOK, CallOK, Carries, Suits, At
        <3> HIDE DEF x, d
        <3>5. WillBeOK(x)
            BY <2>4, <3>2, <3>3, <3>4 DEF WillBeOK, Carries, Suits, HostsAssumption
        <3> QED BY <2>1, <2>2, <2>4, <3>1, <3>5, GoesOn
    <2> QED BY <2>1, <2>3, <2>4
<1>7. ASSUME NEW k \in 1 .. Len(calls), FinishLeft(k) PROVE HostsInv'
    <2> DEFINE c == calls[k].client
               x(op) == [Stage(op, c) EXCEPT !.host = Head(connections)]
    <2>1. /\ At(k, {"left"}) /\ UNCHANGED <<hosts, membership, believes>>
          /\ \/ End(k) \/ Continue(k, Stage("leaving", c))
             \/ /\ connections # <<>>
                /\ Continue(k, x("electActing")) \/ Continue(k, x("electHost"))
        BY <1>7 DEF FinishLeft
    <2>2. \A d \in Present : ~Owes(calls[k], d) BY <1>o, <2>1
    <2>3. CASE End(k) BY <2>1, <2>2, <2>3, Ends, <1>m
    <2>4. CASE Continue(k, Stage("leaving", c))
        <3>1. Stage("leaving", c) \in Call BY <1>c, Stages, StageIsCall DEF Call
        <3>2. Stage("leaving", c).op = "leaving" /\ Stage("leaving", c).to = Nobody
            BY StageFields
        <3> HIDE DEF c
        <3>3. WillBeOK(Stage("leaving", c)) BY <3>2, Plain
        <3> QED BY <2>1, <2>2, <2>4, <3>1, <3>3, GoesOn
    <2>5. ASSUME NEW op \in {"electActing", "electHost"}, connections # <<>>,
                 Continue(k, x(op))
          PROVE  HostsInv'
        <3>1. x(op) \in Call
            <4>1. Head(connections) \in Client BY <2>5 DEF TypeOK
            <4>2. op \in Op /\ op \notin JoinOp BY DEF Op, JoinOp
            <4>3. c \in Client \cup {Nobody} BY <1>c DEF Call
            <4> QED BY <4>1, <4>2, <4>3 DEF Stage, Call, Host
        <3>2. x(op).op = op /\ x(op).to = Nobody BY StageFields
        <3> HIDE DEF x
        <3>3. WillBeOK(x(op)) BY <3>2, Plain
        <3> QED BY <2>1, <2>2, <2>5, <3>1, <3>3, GoesOn
    <2> QED BY <2>1, <2>3, <2>4, <2>5
<1>8. ASSUME NEW k \in 1 .. Len(calls), FinishStart(k) PROVE HostsInv'
    <2> DEFINE x == Stage("starting", Nobody)
    <2>1. /\ At(k, {"start"}) /\ UNCHANGED <<hosts, membership, believes>>
          /\ Continue(k, x)
        BY <1>8 DEF FinishStart
    <2>2. \A d \in Present : ~Owes(calls[k], d) BY <1>o, <2>1
    <2>3. x \in Call /\ x.op = "starting" /\ x.to = Nobody
        BY Stages, StageIsCall, StageFields
    <2> HIDE DEF x
    <2>4. WillBeOK(x) BY <2>3, Plain
    <2> QED BY <2>1, <2>2, <2>3, <2>4, GoesOn
<1>9. ASSUME NEW k \in 1 .. Len(calls), Started(k) PROVE HostsInv'
    <2> DEFINE x(told) == [Stage("cancel", Nobody) EXCEPT !.told = told]
    <2>1. /\ At(k, {"starting"}) /\ UNCHANGED <<hosts, membership, believes>>
          /\ End(k) \/ \E told \in {{}, Client} : Continue(k, x(told))
        BY <1>9 DEF Started
    <2>2. \A d \in Present : ~Owes(calls[k], d) BY <1>o, <2>1
    <2>3. CASE End(k) BY <2>1, <2>2, <2>3, Ends, <1>m
    <2>4. ASSUME NEW told \in {{}, Client}, Continue(k, x(told)) PROVE HostsInv'
        <3>1. x(told).op = "cancel" /\ x(told).to = Nobody BY StageFields
        <3>2. x(told) \in Call
            <4>1. "cancel" \in Op /\ "cancel" \notin JoinOp BY Stages DEF LoopOp
            <4>2. told \in SUBSET Client OBVIOUS
            <4> QED BY <4>1, <4>2 DEF Stage, Call, Host
        <3> HIDE DEF x
        <3>3. WillBeOK(x(told)) BY <3>1, Plain
        <3> QED BY <2>1, <2>2, <2>4, <3>2, <3>3, GoesOn
    <2> QED BY <2>1, <2>3, <2>4
<1> QED BY <1>1, <1>2, <1>3, <1>4, <1>5, <1>6, <1>7, <1>8, <1>9

\* The packets of joins and leaves, and the update that asks an acting host to
\* spawn a player, name hosts that fit.
LEMMA TellSteps ==
    ASSUME HostsAssumption, TypeOK, TypeOK', HostsInv, Overtake,
           NEW k \in 1 .. Len(calls),
           Ask(k) \/ JoinedGame(k) \/ JoinGame(k) \/ RemovePlayer(k)
    PROVE  HostsInv'
<1>c. calls \in Seq(Call) /\ calls[k] \in Call /\ calls[k] \in ToSet(calls)
    BY CallsAreCalls
<1>m. Members \subseteq Client BY ListsAreTyped
<1>f. \A d : Fits(d, hostId) /\ (d \in Acting => Fits(d, d)) BY DEF Fits, Suits
<1>u. UNCHANGED <<hosts, membership>>
    BY DEF Ask, JoinedGame, JoinGame, RemovePlayer
<1>h. Acting' = Acting /\ hostId' = hostId /\ overtaken' = overtaken
    BY <1>u DEF hosts, Acting, Overtake
<1>1. CASE Ask(k)
    <2>1. PICK d \in Client :
            /\ IsNext(calls[k], d)
            /\ Tell({d}, [e \in Client |-> e])
            /\ calls' = Append([calls EXCEPT ![k].told = {d}], Stage("asked", d))
        BY <1>1 DEF Ask
    <2>2. At(k, {"reset"}) BY <1>1 DEF Ask
    <2>3. d \in Acting BY <2>1, <2>2 DEF IsNext, Untold, Targets, Acting, At
    <2>4. \A c \in Client \ overtaken : believes'[c] = believes[c] \/ Fits(c, believes'[c])
        BY <1>f, <2>1, <2>3 DEF Tell
    <2> DEFINE x == [calls[k] EXCEPT !.told = {d}]
               r == [calls EXCEPT ![k] = x]
               a == Stage("asked", d)
    <2>5. x \in Call /\ a \in Call
        <3>1. /\ Nobody \in Client \cup {Nobody} /\ calls[k].host \in Host
              /\ calls[k].op # "electActing"
            BY <1>c, <2>2 DEF Call, At
        <3>2. {d} \in SUBSET Client /\ d # Nobody BY DEF HostsAssumption
        <3> HIDE DEF Call
        <3> QED BY <1>c, <3>1, <3>2, Stages, StageIsCall, ChangedIsCall
    <2>6. /\ x.op = "reset" /\ x.to = Nobody
          /\ a.op = "asked" /\ a.to = Nobody /\ a.client = d
        BY <1>c, <2>2, StageFields DEF Call, At
    <2>7. calls' = Append(r, a) BY <2>1
    <2> HIDE DEF x, a, Call
    <2>8. /\ r \in Seq(Call) /\ Len(r) = Len(calls) /\ r[k] = x
          /\ \A j \in 1 .. Len(calls) : j # k => r[j] = calls[j]
        BY <1>c, <2>5, ExceptSeq
    <2> HIDE DEF r
    <2>9. ToSet(calls') = ToSet(r) \cup {a} BY <2>5, <2>7, <2>8, Appending
    <2>10. DOMAIN r = 1 .. Len(calls) /\ DOMAIN calls = 1 .. Len(calls) BY <1>c, <2>8
    <2>11. /\ ToSet(r) \subseteq ToSet(calls) \cup {x}
           /\ \A y \in ToSet(calls) : y = calls[k] \/ y \in ToSet(r)
        BY <2>8, <2>10 DEF ToSet
    <2>12. WillBeOK(x) BY <2>6, Plain
    <2>13. WillBeOK(a)
        BY <1>f, <1>h, <2>3, <2>6 DEF WillBeOK, Carries, Fits, HostsAssumption
    <2>14. \A c \in Present : ~Owes(calls[k], c)
        BY <2>2, <1>m DEF Owes, At, Present, HostsAssumption
    <2>15. \A c \in Present \ overtaken :
            \/ Fits(c, believes'[c])
            \/ \E call \in ToSet(calls') : Owes(call, c)
            \/ /\ believes'[c] = believes[c]
               /\ \A y \in ToSet(calls) : Owes(y, c) => y \in ToSet(calls')
        BY <1>m, <2>4, <2>9, <2>11, <2>14 DEF Present
    <2>16. \A call \in ToSet(calls') : call \in ToSet(calls) \/ WillBeOK(call)
        BY <2>9, <2>11, <2>12, <2>13
    <2> QED BY <1>u, <2>4, <2>15, <2>16, Still
<1>2. CASE JoinedGame(k)
    <2> DEFINE c == calls[k].client
               x == Stage("told", c)
    <2>1. At(k, {"joining"}) /\ Tell({c}, [d \in Client |-> hostId]) /\ Continue(k, x)
        BY <1>2 DEF JoinedGame
    <2>2. c \in Client BY <1>c, <2>1 DEF Call, At, JoinOp
    <2>3. \A d \in Client : believes'[d] = IF d = c THEN hostId ELSE believes[d]
        BY <2>1 DEF Tell
    <2>4. x \in Call
        <3>1. "told" \in JoinOp /\ c # Nobody BY <2>2 DEF JoinOp, HostsAssumption
        <3> QED BY <2>2, <3>1, Stages, StageIsCall
    <2>5. x.op = "told" /\ x.to = Nobody /\ x.client = c BY StageFields
    <2> HIDE DEF x, Call
    <2>6. WillBeOK(x)
        BY <1>f, <1>h, <2>2, <2>3, <2>5 DEF WillBeOK, Carries, Fits, HostsAssumption
    <2>7. \A d : Owes(x, d) BY <2>5 DEF Owes
    <2>8. \A d \in Client \ overtaken : believes'[d] = believes[d] \/ Fits(d, believes'[d])
        BY <1>f, <2>3
    <2> QED BY <1>u, <2>1, <2>4, <2>6, <2>7, <2>8, GoesOn
<1>3. CASE JoinGame(k)
    <2> DEFINE c == calls[k].client
               x == Stage("shown", c)
    <2>1. At(k, {"told"}) /\ Tell(Present, [d \in Client |-> hostId]) /\ Continue(k, x)
        BY <1>3 DEF JoinGame
    <2>2. c \in Client BY <1>c, <2>1 DEF Call, At, JoinOp
    <2>3. \A d \in Client : believes'[d] = IF d \in Present THEN hostId ELSE believes[d]
        BY <2>1 DEF Tell
    <2>4. x \in Call
        <3>1. "shown" \in JoinOp /\ c # Nobody BY <2>2 DEF JoinOp, HostsAssumption
        <3> QED BY <2>2, <3>1, Stages, StageIsCall
    <2>5. x.op = "shown" /\ x.to = Nobody /\ x.client = c BY StageFields
    <2>o. c \notin overtaken => Fits(c, believes[c])
        BY <1>c, <2>1, <2>2 DEF HostsInv, CallsOK, CallOK, Carries, Fits, At
    <2> HIDE DEF x, Call
    <2>6. WillBeOK(x)
        BY <1>f, <1>h, <2>2, <2>3, <2>5, <2>o DEF WillBeOK, Carries, Fits, HostsAssumption
    <2>8. \A d \in Client \ overtaken : believes'[d] = believes[d] \/ Fits(d, believes'[d])
        BY <1>f, <2>3
    <2>9. \A d \in Present : Fits(d, believes'[d]) BY <1>f, <1>m, <2>3 DEF Present
    <2> QED BY <1>u, <2>1, <2>4, <2>6, <2>8, <2>9, GoesOn
<1>4. CASE RemovePlayer(k)
    <2>1. \A d \in Client : believes'[d] = IF d \in Members THEN Remaining[d] ELSE believes[d]
        BY <1>4 DEF RemovePlayer, Tell
    <2>2. \A d \in Client : Fits(d, Remaining[d])
        BY DEF Remaining, Fits, Suits, HostsAssumption
    <2>3. \A d \in Client \ overtaken : believes'[d] = believes[d] \/ Fits(d, believes'[d])
        BY <2>1, <2>2
    <2>4. \A d \in Present : Fits(d, believes'[d]) BY <1>m, <2>1, <2>2 DEF Present
    <2>5. End(k) BY <1>4 DEF RemovePlayer
    <2> QED BY <1>u, <2>3, <2>4, <2>5, Ends
<1> QED BY <1>1, <1>2, <1>3, <1>4

\* Steps that change the membership, or the hosts in a way that suits all who
\* stay.
LEMMA CalmSteps ==
    ASSUME HostsAssumption, TypeOK, TypeOK', HostsInv, Overtake,
           \/ \E c \in Client : Join(c) \/ Leave(c)
           \/ \E k \in 1 .. Len(calls) : Enter(k) \/ FinishEnd(k) \/ FinishLoop(k)
           \/ DisableSaaH \/ EnableActingHosts
    PROVE  HostsInv'
<1>c. calls \in Seq(Call) /\ \A k \in 1 .. Len(calls) :
        calls[k] \in Call /\ calls[k] \in ToSet(calls)
    BY CallsAreCalls
<1>m. Members \subseteq Client BY ListsAreTyped
<1>n. Nobody \in Client \cup {Nobody} /\ {} \in {{}, Client} OBVIOUS
<1>b. ASSUME NEW x \in Call, Begin(x) \/ UNCHANGED calls, x.to = Nobody,
             x.op \notin {"broadcast", "told", "shown", "asked"}
      PROVE  /\ \A call \in ToSet(calls') : call \in ToSet(calls) \/ WillBeOK(call)
             /\ ToSet(calls) \subseteq ToSet(calls')
    <2> HIDE DEF Call
    <2>1. WillBeOK(x) BY <1>b, Plain
    <2>2. CASE Begin(x)
        <3>1. ToSet(calls') = ToSet(calls) \cup {x} BY <1>c, <2>2, Begun
        <3> QED BY <2>1, <3>1
    <2> QED BY <1>b, <2>2
<1>1. ASSUME NEW c \in Client, Join(c) PROVE HostsInv'
    <2>1. /\ Acting' = Acting /\ hostId' = hostId /\ believes' = believes
          /\ Present' = Present /\ hosts' = hosts
        BY <1>1 DEF Join, hosts, Acting, Present, Members
    <2>2. PICK host \in Host :
            \/ Begin([Stage("electing", c) EXCEPT !.host = host])
            \/ Begin(Stage("joining", c))
        BY <1>1 DEF Join, Host
    <2> DEFINE x == [Stage("electing", c) EXCEPT !.host = host]
               y == Stage("joining", c)
    <2>3. x.op = "electing" /\ x.to = Nobody /\ y.op = "joining" /\ y.to = Nobody
        BY StageFields
    <2>4. x \in Call /\ y \in Call
        <3>1. "electing" \in Op /\ "joining" \in Op /\ c # Nobody
            BY DEF Op, JoinOp, HostsAssumption
        <3> QED BY <3>1 DEF Stage, Call, Host
    <2> HIDE DEF x, y, Call
    <2>5. /\ \A call \in ToSet(calls') : call \in ToSet(calls) \/ WillBeOK(call)
          /\ ToSet(calls) \subseteq ToSet(calls')
        <3>1. CASE Begin(x) BY <1>b, <2>3, <2>4, <3>1
        <3>2. CASE Begin(y) BY <1>b, <2>3, <2>4, <3>2
        <3> QED BY <2>2, <3>1, <3>2 DEF x, y
    <2> QED BY <2>1, <2>5, Calm DEF Fits
<1>2. ASSUME NEW c \in Client, Leave(c) PROVE HostsInv'
    <2>1. PICK told \in {{}, Client} : Begin([Stage("left", c) EXCEPT !.told = told])
        BY <1>2 DEF Leave
    <2> DEFINE x == [Stage("left", c) EXCEPT !.told = told]
    <2>2. x.op = "left" /\ x.to = Nobody BY StageFields
    <2>3. x \in Call
        <3>1. "left" \in Op /\ "left" \notin JoinOp BY Stages DEF LoopOp
        <3> QED BY <3>1 DEF Stage, Call, Host
    <2> HIDE DEF x, Call
    <2>4. /\ \A call \in ToSet(calls') : call \in ToSet(calls) \/ WillBeOK(call)
          /\ ToSet(calls) \subseteq ToSet(calls')
        BY <1>b, <2>1, <2>2, <2>3 DEF x
    <2>5. /\ Members' = Members \ {c} /\ players' = players \ {c}
          /\ Acting' = Acting \ {c} /\ hostId' = hostId /\ believes' = believes
        BY <1>2, ListsAreTyped DEF Leave, Members, Acting
    <2>6. \A d \in Present' : d \in Present /\ d # c BY <2>5 DEF Present
    <2>7. \A d \in Present' : \A h : Fits(d, h) => Suits(d, h, Acting', hostId')
        BY <2>5, <2>6 DEF Fits, Suits
    <2> QED BY <2>4, <2>5, <2>6, <2>7, Calm
<1>3. ASSUME NEW k \in 1 .. Len(calls), Enter(k) PROVE HostsInv'
    <2> DEFINE c == calls[k].client
               x == Stage("entered", c)
    <2>1. At(k, {"shown"}) /\ Continue(k, x) BY <1>3 DEF Enter
    <2>2. c \in Client BY <1>c, <2>1 DEF Call, At, JoinOp
    <2>3. x \in Call
        <3>1. "entered" \in JoinOp /\ c # Nobody BY <2>2 DEF JoinOp, HostsAssumption
        <3> QED BY <2>2, <3>1, Stages, StageIsCall
    <2>4. x.op = "entered" /\ x.to = Nobody BY StageFields
    <2>5. Fits(c, believes[c]) \/ c \in overtaken
        BY <1>c, <2>1, <2>2 DEF HostsInv, CallsOK, CallOK, Carries, Fits, At
    <2>6. /\ Acting' = Acting /\ hostId' = hostId /\ believes' = believes
          /\ players' = players /\ overtaken' = overtaken
        BY <1>3 DEF Enter, hosts, Acting, Overtake
    <2>7. Members' \subseteq Members \cup {c}
        BY <1>3, <2>2, ListsAreTyped DEF Enter, Members
    <2>8. \A d \in Present' : d \in Present \/ d = c BY <2>6, <2>7 DEF Present
    <2>9. \A d \in Client : ~Owes(calls[k], d)
        BY <2>1 DEF Owes, At, HostsAssumption
    <2> HIDE DEF x, Call
    <2>10. /\ ToSet(calls') \subseteq ToSet(calls) \cup {x}
           /\ \A y \in ToSet(calls) : y = calls[k] \/ y \in ToSet(calls')
        BY <1>c, <2>1, <2>3, Continued
    <2>11. WillBeOK(x) BY <2>4, Plain
    <2>12. \A call \in ToSet(calls') : call \in ToSet(calls) \/ WillBeOK(call)
        BY <2>10, <2>11
    <2>13. \A d \in Present' \ overtaken' :
            \/ Suits(d, believes'[d], Acting', hostId')
            \/ /\ d \in Present /\ believes'[d] = believes[d]
               /\ \A h : Fits(d, h) => Suits(d, h, Acting', hostId')
               /\ \A y \in ToSet(calls) : Owes(y, d) => y \in ToSet(calls')
        <3>1. ASSUME NEW d \in Present', d = c, d \notin overtaken'
              PROVE  Suits(d, believes'[d], Acting', hostId')
            BY <2>5, <2>6, <3>1 DEF Fits
        <3>2. ASSUME NEW d \in Present
              PROVE  \A y \in ToSet(calls) : Owes(y, d) => y \in ToSet(calls')
            BY <1>m, <2>9, <2>10 DEF Present
        <3> QED BY <2>6, <2>8, <3>1, <3>2 DEF Fits
    <2> QED BY <2>6, <2>12, <2>13, Calm
<1>4. ASSUME NEW k \in 1 .. Len(calls), FinishEnd(k) \/ FinishLoop(k)
      PROVE  HostsInv'
    <2>1. End(k) BY <1>4 DEF FinishEnd, FinishLoop
    <2>2. /\ Acting' = Acting /\ hostId' = hostId /\ believes' = believes
        BY <1>4 DEF FinishEnd, FinishLoop, hosts, Acting
    <2>3. Present' \subseteq Present
        <3>1. CASE UNCHANGED <<connections, players>> BY <3>1 DEF Present, Members
        <3>2. CASE connections' = <<>>
            <4>1. Members' = {} BY <3>2, NoElements DEF Members
            <4> QED BY <4>1 DEF Present
        <3> QED BY <1>4, <3>1, <3>2 DEF FinishEnd, FinishLoop, membership
    <2>4. \A d \in Present : ~Owes(calls[k], d)
        <3>1. CASE FinishEnd(k)
            BY <1>m, <3>1 DEF FinishEnd, At, Owes, Present, HostsAssumption
        <3>2. CASE FinishLoop(k)
            <4>1. Untold(calls[k]) = {} /\ calls[k].to = Nobody
                  /\ calls[k].op \in {"server", "host", "disable", "enable", "cancel", "broadcast"}
                BY <3>2 DEF FinishLoop, At, IsThrough
            <4>2. calls[k].op \in {"server", "host"} => Present \subseteq calls[k].told
                BY <4>1 DEF Untold, Targets, Present, Members
            <4> QED BY <1>m, <4>1, <4>2 DEF Owes, Present, HostsAssumption
        <3> QED BY <1>4, <3>1, <3>2
    <2> HIDE DEF Call
    <2>5. /\ ToSet(calls') \subseteq ToSet(calls)
          /\ \A y \in ToSet(calls) : y = calls[k] \/ y \in ToSet(calls')
        BY <1>c, <2>1, Ended
    <2>6. \A d \in Present' \ overtaken' :
            /\ d \in Present /\ believes'[d] = believes[d]
            /\ \A h : Fits(d, h) => Suits(d, h, Acting', hostId')
            /\ \A y \in ToSet(calls) : Owes(y, d) => y \in ToSet(calls')
        BY <2>2, <2>3, <2>4, <2>5 DEF Fits
    <2> QED BY <2>2, <2>5, <2>6, Calm
<1>5. CASE DisableSaaH \/ EnableActingHosts
    <2>1. /\ Acting' = Acting /\ hostId' = hostId /\ believes' = believes
          /\ Present' = Present
        BY <1>5 DEF DisableSaaH, EnableActingHosts, membership, Acting, Present, Members
    <2>2. /\ \A call \in ToSet(calls') : call \in ToSet(calls) \/ WillBeOK(call)
          /\ ToSet(calls) \subseteq ToSet(calls')
        <3>1. CASE UNCHANGED calls BY <3>1
        <3>2. CASE Begin(Stage("enable", Nobody))
            <4>1. Stage("enable", Nobody) \in Call BY <1>n, Stages, StageIsCall DEF LoopOp
            <4>2. /\ Stage("enable", Nobody).op = "enable"
                  /\ Stage("enable", Nobody).to = Nobody
                BY StageFields
            <4> HIDE DEF Call
            <4> QED BY <1>b, <3>2, <4>1, <4>2
        <3>3. ASSUME NEW first \in Members,
                     Begin([Stage("select", Nobody) EXCEPT !.host = first])
              PROVE  /\ \A call \in ToSet(calls') : call \in ToSet(calls) \/ WillBeOK(call)
                     /\ ToSet(calls) \subseteq ToSet(calls')
            <4> DEFINE x == [Stage("select", Nobody) EXCEPT !.host = first]
            <4>1. x.op = "select" /\ x.to = Nobody BY StageFields
            <4>2. x \in Call
                <5>1. "select" \in Op /\ "select" \notin JoinOp BY Stages
                <5>2. first \in Host BY <1>m DEF Host
                <5> QED BY <5>1, <5>2 DEF Stage, Call
            <4> HIDE DEF x, Call
            <4> QED BY <1>b, <3>3, <4>1, <4>2 DEF x
        <3> QED BY <1>5, <3>1, <3>2, <3>3 DEF DisableSaaH, EnableActingHosts
    <2> QED BY <2>1, <2>2, Calm DEF Fits
<1> QED BY <1>1, <1>2, <1>3, <1>4, <1>5

\* Steps that change the hosts: all whom the new ones may not suit are told by
\* the call that changes them.
LEMMA HostSteps ==
    ASSUME HostsAssumption, TypeOK, TypeOK', HostsInv, Overtake,
           \/ EnableSaaH
           \/ \E c \in Client : SetHost(c) \/ AddActingHost(c) \/ RemoveActingHost(c)
           \/ \E k \in 1 .. Len(calls) : JoinElected(k) \/ LeaveElected(k) \/ Selected(k)
    PROVE  HostsInv'
<1>c. calls \in Seq(Call) /\ \A k \in 1 .. Len(calls) :
        calls[k] \in Call /\ calls[k] \in ToSet(calls)
    BY CallsAreCalls
<1>m. Members \subseteq Client BY ListsAreTyped
<1>n. Nobody \in Client \cup {Nobody} OBVIOUS
<1>a. ASSUME NEW x, x \in ToSet(calls'), WillBeOK(x),
             ToSet(calls') \subseteq ToSet(calls) \cup {x},
             \A c \in Client : Owes(x, c), UNCHANGED believes
      PROVE  HostsInv'
    <2>1. Present' \subseteq Client
        <3>1. TypeOK' => Members' \subseteq Client
            BY Elements DEF TypeOK, Members
        <3> QED BY <3>1 DEF Present
    <2> QED BY <1>a, <2>1, Calm
<1>b. ASSUME NEW op \in {"server", "host"}, NEW c \in Client \cup {Nobody},
             Begin(Stage(op, c)), UNCHANGED believes
      PROVE  HostsInv'
    <2> DEFINE x == Stage(op, c)
    <2>1. x \in Call BY Stages, StageIsCall DEF LoopOp
    <2>2. x.op = op /\ x.to = Nobody /\ x.told = {} BY StageFields
    <2> HIDE DEF x, Call
    <2>3. ToSet(calls') = ToSet(calls) \cup {x} BY <1>b, <1>c, <2>1, Begun DEF x
    <2>4. WillBeOK(x) BY <2>2, Plain
    <2>5. \A d \in Client : Owes(x, d) BY <2>2 DEF Owes
    <2> QED BY <1>a, <1>b, <2>3, <2>4, <2>5
<1>k. ASSUME NEW k \in 1 .. Len(calls), NEW x \in Call, Continue(k, x), WillBeOK(x),
             \A c \in Client : Owes(x, c), UNCHANGED believes
      PROVE  HostsInv'
    <2> HIDE DEF Call
    <2>1. /\ ToSet(calls') \subseteq ToSet(calls) \cup {x} /\ x \in ToSet(calls')
        BY <1>c, <1>k, Continued
    <2> QED BY <1>a, <1>k, <2>1
<1>s. ASSUME NEW k \in 1 .. Len(calls), NEW op \in {"joining", "leaving", "host"},
             NEW c \in Client \cup {Nobody}, op = "joining" => c # Nobody,
             Continue(k, Stage(op, c)), UNCHANGED believes
      PROVE  HostsInv'
    <2> DEFINE x == Stage(op, c)
    <2>1. x \in Call
        <3>1. op \in Op /\ (op \in JoinOp => op = "joining") /\ op # "electActing"
            BY DEF Op, JoinOp, LoopOp
        <3> QED BY <1>s, <3>1, StageIsCall
    <2>2. x.op = op /\ x.to = Nobody /\ x.told = {} BY StageFields
    <2> HIDE DEF x, Call
    <2>4. WillBeOK(x) BY <2>2, Plain
    <2>5. \A d \in Client : Owes(x, d) BY <2>2 DEF Owes
    <2> QED BY <1>k, <1>s, <2>1, <2>4, <2>5 DEF x
<1>1. CASE EnableSaaH
    <2>1. Begin(Stage("server", Nobody)) /\ UNCHANGED believes BY <1>1 DEF EnableSaaH
    <2> QED BY <1>b, <1>n, <2>1
<1>2. ASSUME NEW c \in Client, SetHost(c) PROVE HostsInv'
    <2>1. Begin(Stage("host", c)) /\ UNCHANGED believes BY <1>2 DEF SetHost
    <2> QED BY <1>b, <2>1
<1>u. ASSUME NEW c \in Client, NEW h \in Host, Update(c, h) \/ UNCHANGED calls,
             Suits(c, h, Acting', hostId')
      PROVE  /\ \A call \in ToSet(calls') : call \in ToSet(calls) \/ WillBeOK(call)
             /\ ToSet(calls) \subseteq ToSet(calls')
             /\ Update(c, h) /\ c \in Present =>
                    \E call \in ToSet(calls') : Owes(call, c)
    <2> DEFINE x == [Stage("tell", c) EXCEPT !.to = c, !.host = h]
    <2>1. x.op = "tell" /\ x.to = c /\ x.host = h BY StageFields
    <2>2. x \in Call
        <3>1. "tell" \in Op /\ "tell" \notin JoinOp BY Stages
        <3> QED BY <3>1 DEF Stage, Call
    <2> HIDE DEF x, Call
    <2>3. WillBeOK(x) BY <1>u, <2>1 DEF WillBeOK, Carries
    <2>4. Owes(x, c) BY <2>1 DEF Owes
    <2>5. CASE Begin(x)
        <3>1. ToSet(calls') = ToSet(calls) \cup {x} BY <1>c, <2>2, <2>5, Begun
        <3> QED BY <2>3, <2>4, <3>1
    <2>6. CASE UNCHANGED calls /\ ~(Update(c, h) /\ c \in Present)
        BY <2>6
    <2>7. CASE UNCHANGED calls /\ Update(c, h) /\ c \in Present
        BY <2>5, <2>7 DEF Update, x
    <2> QED BY <1>u, <2>5, <2>6, <2>7 DEF Update, x
<1>3. ASSUME NEW c \in Client, AddActingHost(c) PROVE HostsInv'
    <2>1. acting' = Insert(c) BY <1>3 DEF AddActingHost, Insert
    <2>2. Acting' = Acting \cup {c} BY <2>1, ListsAreTyped DEF Acting
    <2>3. /\ hostId' = hostId /\ hostId # c /\ believes' = believes
          /\ Present' = Present
          /\ Update(c, c) \/ UNCHANGED calls
        BY <1>3 DEF AddActingHost, membership, Present, Members
    <2>4. Suits(c, c, Acting', hostId') BY <2>2 DEF Suits
    <2>5. c \in Host BY DEF Host
    <2>6. /\ \A call \in ToSet(calls') : call \in ToSet(calls) \/ WillBeOK(call)
          /\ ToSet(calls) \subseteq ToSet(calls')
        BY <1>u, <2>3, <2>4, <2>5
    <2>7. \A d, h : Fits(d, h) => Suits(d, h, Acting', hostId')
        BY <2>2, <2>3 DEF Fits, Suits
    <2> QED BY <2>3, <2>6, <2>7, Calm
<1>4. ASSUME NEW c \in Client, RemoveActingHost(c) PROVE HostsInv'
    <2>1. Acting' = Acting \ {c}
        BY <1>4, ListsAreTyped DEF RemoveActingHost, Acting
    <2>2. /\ hostId' = hostId /\ believes' = believes
          /\ Present' = Present /\ Update(c, Server)
        BY <1>4 DEF RemoveActingHost, membership, Present, Members
    <2>3. Suits(c, Server, Acting', hostId') BY DEF Suits, HostsAssumption
    <2>4. Server \in Host BY DEF Host
    <2>5. /\ \A call \in ToSet(calls') : call \in ToSet(calls) \/ WillBeOK(call)
          /\ ToSet(calls) \subseteq ToSet(calls')
          /\ c \in Present => \E call \in ToSet(calls') : Owes(call, c)
        BY <1>u, <2>2, <2>3, <2>4
    <2>6. \A d, h : d # c /\ Fits(d, h) => Suits(d, h, Acting', hostId')
        BY <2>1, <2>2 DEF Fits, Suits
    <2> QED BY <2>2, <2>5, <2>6, Calm
<1>5. ASSUME NEW k \in 1 .. Len(calls), JoinElected(k) PROVE HostsInv'
    <2>1. /\ Continue(k, Stage("joining", calls[k].client)) /\ UNCHANGED believes
          /\ At(k, {"electing"})
        BY <1>5 DEF JoinElected
    <2>2. calls[k].client \in Client BY <1>c, <2>1 DEF Call, At, JoinOp
    <2>3. calls[k].client # Nobody BY <2>2 DEF HostsAssumption
    <2> QED BY <1>s, <2>1, <2>2, <2>3
<1>6. ASSUME NEW k \in 1 .. Len(calls), LeaveElected(k) PROVE HostsInv'
    <2> DEFINE c == calls[k].client
               leaving == Stage("leaving", c)
               added(pick) == [leaving EXCEPT !.op = "added", !.to = pick, !.host = pick]
    <2>c. c \in Client \cup {Nobody} BY <1>c DEF Call
    <2>b. UNCHANGED believes BY <1>6 DEF LeaveElected
    <2>1. CASE Continue(k, leaving) BY <1>s, <2>1, <2>b, <2>c
    <2>2. ASSUME NEW pick \in Present, acting' = Insert(pick), UNCHANGED hostId,
                 Continue(k, added(pick))
          PROVE  HostsInv'
        <3>1. pick \in Client BY <1>m DEF Present
        <3>2. Acting' = Acting \cup {pick} BY <2>2, <3>1, ListsAreTyped DEF Acting
        <3>3. /\ added(pick).op = "added" /\ added(pick).to = pick
              /\ added(pick).host = pick
            BY StageFields
        <3>4. added(pick) \in Call
            <4>1. "added" \in Op /\ "added" \notin JoinOp BY Stages
            <4> QED BY <2>c, <3>1, <4>1 DEF Stage, Call, Host
        <3> HIDE DEF added
        <3>5. WillBeOK(added(pick)) BY <3>2, <3>3 DEF WillBeOK, Carries, Suits
        <3>6. \A d \in Client : Owes(added(pick), d) BY <3>3 DEF Owes
        <3> QED BY <1>k, <2>2, <2>b, <3>4, <3>5, <3>6
    <2>3. \/ Continue(k, leaving)
          \/ \E pick \in Present : /\ acting' = Insert(pick) /\ UNCHANGED hostId
                                  /\ Continue(k, added(pick))
        BY <1>6 DEF LeaveElected
    <2> QED BY <2>1, <2>2, <2>3
<1>7. ASSUME NEW k \in 1 .. Len(calls), Selected(k) PROVE HostsInv'
    <2>1. Continue(k, Stage("host", Nobody)) /\ UNCHANGED believes BY <1>7 DEF Selected
    <2> QED BY <1>s, <1>n, <2>1
<1> QED BY <1>1, <1>2, <1>3, <1>4, <1>5, <1>6, <1>7

LEMMA HostsInit ==
    ASSUME HostsAssumption, Init
    PROVE  HostsInv
<1>1. ToSet(calls) = {} /\ Members = {} BY NoElements DEF Init, Members
<1> QED BY <1>1 DEF HostsInv, CallsOK, MembersOK, Present

LEMMA HostsStep ==
    ASSUME HostsAssumption, TypeOK, TypeOK', HostsInv, [Next]_vars
    PROVE  HostsInv'
<1>1. CASE UNCHANGED vars
    BY <1>1 DEF vars, hosts, membership, HostsInv, CallsOK, CallOK, Carries, MembersOK,
                Present, Members, Acting, Fits
<1>2. CASE Next
    <2>1. Overtake BY <1>2 DEF Next
    <2>2. ASSUME NEW k \in 1 .. Len(calls), Proceed(k) PROVE HostsInv'
        BY <2>1, <2>2, ChooseStep, SendStep, StillSteps, TellSteps, CalmSteps, HostSteps
        DEF Proceed
    <2>3. ASSUME NEW c \in Client,
                 \/ Join(c) \/ SetNameplate(c) \/ Leave(c)
                 \/ SetHost(c) \/ AddActingHost(c) \/ RemoveActingHost(c)
          PROVE  HostsInv'
        BY <2>1, <2>3, StillSteps, CalmSteps, HostSteps
    <2>4. CASE \/ StartGame \/ EndGame \/ EnableSaaH \/ DisableSaaH
               \/ EnableActingHosts \/ DisableActingHosts
        BY <2>1, <2>4, StillSteps, CalmSteps, HostSteps
    <2> QED BY <1>2, <2>2, <2>3, <2>4 DEF Next, Act
<1> QED BY <1>1, <1>2

\* When all calls are over nobody owes anybody an update.
LEMMA QuietFits ==
    ASSUME HostsInv, Quiet
    PROVE  \A c \in Present \ overtaken : Fits(c, believes[c])
<1>1. \A call \in ToSet(calls) : \A c : ~Owes(call, c) BY DEF Quiet, Owes
<1> QED BY <1>1 DEF HostsInv, MembersOK

LEMMA HostsInvariant ==
    ASSUME HostsAssumption
    PROVE  Spec => []HostsInv
<1>1. Init => HostsInv BY HostsInit
<1>2. TypeOK /\ TypeOK' /\ HostsInv /\ [Next]_vars => HostsInv' BY HostsStep
<1>3. Spec => []TypeOK BY HostsTypeCorrect
<1> QED BY <1>1, <1>2, <1>3, PTL DEF Spec

\* However joins, leaves, games and calls of plugins overlap at their awaits:
\* when all of them are over, who believes to be the host is the host or an
\* acting host, but for those whom a change of the hosts has overtaken.
THEOREM ClaimsAreGranted ==
    ASSUME HostsAssumption
    PROVE  Spec => []ClaimIsGranted
<1>1. HostsInv => ClaimIsGranted
    BY QuietFits DEF ClaimIsGranted, Fits, Suits
<1> QED BY <1>1, HostsInvariant, PTL

\* And the host was not told of another client as the host.
THEOREM HostIsNeverMisled ==
    ASSUME HostsAssumption
    PROVE  Spec => []HostIsNotMisled
<1>1. HostsInv => HostIsNotMisled
    BY QuietFits DEF HostIsNotMisled, Fits, Suits
<1> QED BY <1>1, HostsInvariant, PTL
=============================================================================
