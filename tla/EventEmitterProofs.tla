------------------------- MODULE EventEmitterProofs -------------------------
(***************************************************************************)
(* What holds of EventEmitter for any number of listeners and of emissions *)
(* that overlap.                                                           *)
(***************************************************************************)
EXTENDS EventEmitter, SequenceTheorems, WellFoundedInduction, TLAPS

-----------------------------------------------------------------------------
(* Sequences. *)

\* What is in a sequence of elements of S.
LEMMA Elements ==
    ASSUME NEW S, NEW s \in Seq(S)
    PROVE  /\ Len(s) \in Nat
           /\ ToSet(s) \subseteq S
           /\ \A x : x \in ToSet(s) <=> \E i \in 1 .. Len(s) : s[i] = x
<1>1. DOMAIN s = 1 .. Len(s) /\ \A i \in 1 .. Len(s) : s[i] \in S OBVIOUS
<1> QED BY <1>1 DEF ToSet

\* Taking out the k-th element leaves the others, in their order.
LEMMA RemovedAt ==
    ASSUME NEW S, NEW s \in Seq(S), NEW k \in 1 .. Len(s)
    PROVE  /\ RemoveAt(s, k) \in Seq(S)
           /\ Len(RemoveAt(s, k)) = Len(s) - 1
           /\ \A i \in 1 .. Len(s) - 1 :
                RemoveAt(s, k)[i] = IF i < k THEN s[i] ELSE s[i + 1]
<1> DEFINE a == SubSeq(s, 1, k - 1)
           b == SubSeq(s, k + 1, Len(s))
<1>1. /\ a \in Seq(S) /\ Len(a) = k - 1
      /\ \A i \in 1 .. k - 1 : a[i] = s[i]
    OBVIOUS
<1>2. /\ b \in Seq(S) /\ Len(b) = Len(s) - k
      /\ \A i \in 1 .. Len(s) - k : b[i] = s[k + i]
    <2>1. \A i \in k + 1 .. Len(s) : s[i] \in S OBVIOUS
    <2>2. /\ b \in Seq(S)
          /\ Len(b) = IF k + 1 <= Len(s) THEN Len(s) - (k + 1) + 1 ELSE 0
          /\ \A i \in 1 .. Len(s) - (k + 1) + 1 : b[i] = s[k + 1 + i - 1]
        BY <2>1, SubSeqProperties
    <2> QED BY <2>2
<1>3. RemoveAt(s, k) = a \o b BY DEF RemoveAt
<1> HIDE DEF a, b
<1>4. /\ a \o b \in Seq(S)
      /\ Len(a \o b) = Len(a) + Len(b)
      /\ \A i \in 1 .. Len(a) + Len(b) :
            (a \o b)[i] = IF i <= Len(a) THEN a[i] ELSE b[i - Len(a)]
    BY <1>1, <1>2, ConcatProperties
<1>5. ASSUME NEW i \in 1 .. Len(s) - 1
      PROVE  (a \o b)[i] = IF i < k THEN s[i] ELSE s[i + 1]
    <2>1. CASE i < k BY <1>1, <1>2, <1>4, <2>1
    <2>2. CASE ~(i < k)
        <3>1. (a \o b)[i] = b[i - (k - 1)] BY <1>1, <1>2, <1>4, <2>2
        <3>2. i - (k - 1) \in 1 .. Len(s) - k BY <2>2
        <3>3. b[i - (k - 1)] = s[k + (i - (k - 1))] BY <1>2, <3>2
        <3>4. k + (i - (k - 1)) = i + 1 OBVIOUS
        <3> QED BY <2>2, <3>1, <3>3, <3>4
    <2> QED BY <2>1, <2>2
<1>6. Len(a \o b) = Len(s) - 1 BY <1>1, <1>2, <1>4
<1> QED BY <1>3, <1>4, <1>5, <1>6

\* Every set of natural numbers but the empty one has a smallest.
LEMMA Smallest ==
    ASSUME NEW I \in SUBSET Nat, I # {}
    PROVE  Min(I) \in I
<1>1. PICK m \in I : \A i \in I : <<i, m>> \notin OpToRel(<, Nat)
    BY NatLessThanWellFounded, WFMin
<1>2. \A i \in I : ~(i < m) BY <1>1 DEF OpToRel
<1>3. \A i \in I : m =< i BY <1>2
<1> QED BY <1>3 DEF Min

\* Each listener was registered before those behind it.
Increasing(s) == \A i, j \in 1 .. Len(s) : i < j => s[i] < s[j]

\* The array without x: an element is where it was or one place further to the
\* front, the order is kept, and only x is gone.
LEMMA Removed ==
    ASSUME NEW S, S \subseteq Nat, NEW s \in Seq(S), Increasing(s), NEW x
    PROVE  /\ Without(s, x) \in Seq(S)
           /\ Increasing(Without(s, x))
           /\ ToSet(Without(s, x)) = ToSet(s) \ {x}
           /\ \A i \in 1 .. Len(Without(s, x)) :
                /\ i \in 1 .. Len(s) /\ s[i] <= Without(s, x)[i]
           /\ \A i \in 1 .. Len(s) : s[i] = x =>
                \A j \in i .. Len(Without(s, x)) :
                    j + 1 \in 1 .. Len(s) /\ Without(s, x)[j] = s[j + 1]
<1> DEFINE r == RemoveFirst(s, x)
<1>s. /\ DOMAIN s = 1 .. Len(s) /\ Len(s) \in Nat
      /\ \A i \in 1 .. Len(s) : s[i] \in Nat
    <2>1. DOMAIN s = 1 .. Len(s) /\ Len(s) \in Nat /\ \A i \in 1 .. Len(s) : s[i] \in S
        OBVIOUS
    <2> QED BY <2>1
<1>w. Without(s, x) = r BY DEF Without
<1>d. \A i, j \in 1 .. Len(s) : s[i] = s[j] => i = j
    <2> SUFFICES ASSUME NEW i \in 1 .. Len(s), NEW j \in 1 .. Len(s), i # j
                 PROVE  s[i] # s[j]
        OBVIOUS
    <2>1. i < j \/ j < i OBVIOUS
    <2>2. i < j => s[i] < s[j] BY DEF Increasing
    <2>3. j < i => s[j] < s[i] BY DEF Increasing
    <2> QED BY <1>s, <2>1, <2>2, <2>3
<1>1. CASE ~\E i \in 1 .. Len(s) : s[i] = x
    <2>1. r = s BY <1>1 DEF RemoveFirst
    <2>2. x \notin ToSet(s) BY <1>1, <1>s DEF ToSet
    <2>3. \A i \in 1 .. Len(s) : i \in i .. Len(s) /\ s[i] <= s[i] BY <1>s
    <2> HIDE DEF r
    <2> QED BY <1>1, <1>w, <2>1, <2>2, <2>3
<1>2. CASE \E i \in 1 .. Len(s) : s[i] = x
    <2> DEFINE I == {i \in 1 .. Len(s) : s[i] = x}
               m == Min(I)
    <2>1. m \in 1 .. Len(s) /\ s[m] = x
        <3>1. I \in SUBSET Nat /\ I # {} BY <1>2
        <3>2. m \in I BY <3>1, Smallest
        <3> QED BY <3>2
    <2>2. r = RemoveAt(s, m) BY <1>2 DEF RemoveFirst, SelectInSeq
    <2> HIDE DEF m, r
    <2>3. /\ r \in Seq(S) /\ Len(r) = Len(s) - 1
          /\ \A i \in 1 .. Len(s) - 1 : r[i] = IF i < m THEN s[i] ELSE s[i + 1]
        BY <2>1, <2>2, RemovedAt
    <2>4. DOMAIN r = 1 .. Len(s) - 1 BY <2>3
    <2>5. ASSUME NEW i \in 1 .. Len(s) - 1
          PROVE  /\ i \in 1 .. Len(s) /\ s[i] <= r[i]
                 /\ r[i] \in ToSet(s) \ {x}
        <3> DEFINE j == IF i < m THEN i ELSE i + 1
        <3>1. j \in i .. Len(s) /\ j \in 1 .. Len(s) /\ j # m /\ i \in 1 .. Len(s) /\ i <= j
            BY <1>s, <2>1
        <3>2. r[i] = s[j] BY <2>3
        <3> HIDE DEF j
        <3>3. s[j] # x BY <1>d, <2>1, <3>1
        <3>4. s[i] <= s[j]
            <4>1. CASE i = j BY <1>s, <3>1, <4>1
            <4>2. CASE i < j BY <1>s, <3>1, <4>2 DEF Increasing
            <4> QED BY <1>s, <3>1, <4>1, <4>2
        <3>5. s[j] \in ToSet(s) BY <1>s, <3>1 DEF ToSet
        <3> QED BY <3>1, <3>2, <3>3, <3>4, <3>5
    <2>6. Increasing(r)
        <3> SUFFICES ASSUME NEW i \in 1 .. Len(s) - 1, NEW j \in 1 .. Len(s) - 1, i < j
                     PROVE  r[i] < r[j]
            BY <2>3 DEF Increasing
        <3> DEFINE f(k) == IF k < m THEN k ELSE k + 1
        <3>1. f(i) \in 1 .. Len(s) /\ f(j) \in 1 .. Len(s) /\ f(i) < f(j) BY <1>s, <2>1
        <3>2. r[i] = s[f(i)] /\ r[j] = s[f(j)] BY <2>3
        <3> QED BY <3>1, <3>2 DEF Increasing
    <2>7. ToSet(s) \ {x} \subseteq ToSet(r)
        <3> SUFFICES ASSUME NEW k \in 1 .. Len(s), s[k] # x
                     PROVE  s[k] \in ToSet(r)
            BY <1>s DEF ToSet
        <3> DEFINE i == IF k < m THEN k ELSE k - 1
        <3>1. k # m BY <2>1
        <3>2. i \in 1 .. Len(s) - 1 /\ (i < m <=> k < m) /\ (~(k < m) => i + 1 = k)
            BY <1>s, <2>1, <3>1
        <3>3. r[i] = s[k] BY <2>3, <3>2
        <3> QED BY <2>4, <3>2, <3>3 DEF ToSet
    <2>8. ToSet(r) \subseteq ToSet(s) \ {x} BY <2>4, <2>5 DEF ToSet
    <2>9. ASSUME NEW i \in 1 .. Len(s), s[i] = x, NEW j \in i .. Len(r)
          PROVE  j + 1 \in 1 .. Len(s) /\ r[j] = s[j + 1]
        <3>1. i = m BY <1>d, <2>1, <2>9
        <3> QED BY <1>s, <2>1, <2>3, <3>1
    <2> QED BY <1>w, <2>3, <2>5, <2>6, <2>7, <2>8, <2>9
<1> QED BY <1>1, <1>2

\* Appending something larger than all that is there.
LEMMA Appending ==
    ASSUME NEW S, S \subseteq Nat, NEW s \in Seq(S), NEW x \in S,
           Increasing(s), \A y \in ToSet(s) : y < x
    PROVE  /\ Appended(s, x) \in Seq(S)
           /\ Increasing(Appended(s, x))
           /\ ToSet(Appended(s, x)) = ToSet(s) \cup {x}
           /\ \A i \in 1 .. Len(Appended(s, x)) :
                \/ i \in 1 .. Len(s) /\ Appended(s, x)[i] = s[i]
                \/ Appended(s, x)[i] = x
<1> DEFINE t == Append(s, x)
<1>1. /\ t \in Seq(S) /\ Len(t) = Len(s) + 1 /\ t[Len(s) + 1] = x
      /\ \A i \in 1 .. Len(s) : t[i] = s[i]
    BY AppendProperties
<1>2. DOMAIN t = 1 .. Len(s) + 1 /\ DOMAIN s = 1 .. Len(s) /\ Len(s) \in Nat
    BY <1>1
<1>w. Appended(s, x) = t BY DEF Appended
<1> HIDE DEF t
<1>3. ToSet(t) = ToSet(s) \cup {x}
    <2>1. \A y : y \in ToSet(t) => y \in ToSet(s) \cup {x}
        BY <1>1, <1>2 DEF ToSet
    <2>2. \A y : y \in ToSet(s) \cup {x} => y \in ToSet(t)
        BY <1>1, <1>2 DEF ToSet
    <2> QED BY <2>1, <2>2
<1>4. Increasing(t)
    <2> SUFFICES ASSUME NEW i \in 1 .. Len(s) + 1, NEW j \in 1 .. Len(s) + 1, i < j
                 PROVE  t[i] < t[j]
        BY <1>1 DEF Increasing
    <2>1. i \in 1 .. Len(s) /\ t[i] = s[i] /\ s[i] \in ToSet(s) BY <1>1, <1>2 DEF ToSet
    <2>2. CASE j \in 1 .. Len(s) BY <1>1, <2>1, <2>2 DEF Increasing
    <2>3. CASE j = Len(s) + 1 BY <1>1, <2>1, <2>3
    <2> QED BY <1>2, <2>2, <2>3
<1>5. \A i \in 1 .. Len(t) : (i \in 1 .. Len(s) /\ t[i] = s[i]) \/ t[i] = x
    BY <1>1, <1>2
<1> QED BY <1>1, <1>3, <1>4, <1>5, <1>w

-----------------------------------------------------------------------------
(* The array. *)

ArrayInv ==
    /\ listeners \in Seq(Listener)
    /\ Increasing(listeners)
    /\ registered \in 0 .. MaxListeners
    /\ ToSet(listeners) \subseteq 1 .. registered

\* What an array may become without a call of on: elements move to the front.
Fewer(list) ==
    /\ list \in Seq(Listener)
    /\ Increasing(list)
    /\ ToSet(list) \subseteq ToSet(listeners)
    /\ \A i \in 1 .. Len(list) : i \in 1 .. Len(listeners) /\ listeners[i] <= list[i]

\* Nothing but on adds to the array.
LEMMA OnlyFewer ==
    ASSUME ArrayInv
    PROVE  /\ Fewer(listeners)
           /\ Fewer(<<>>)
           /\ \A x : Fewer(Without(listeners, x)) /\ Fewer(Calling(listeners, x))
<1>1. /\ Listener \subseteq Nat
      /\ listeners \in Seq(Listener) /\ Increasing(listeners)
    BY DEF ArrayInv, Listener
<1>2. Fewer(listeners)
    <2>1. \A i \in 1 .. Len(listeners) : listeners[i] \in Nat
        <3>1. \A i \in 1 .. Len(listeners) : listeners[i] \in Listener BY <1>1
        <3> QED BY <1>1, <3>1
    <2>2. \A i \in 1 .. Len(listeners) : listeners[i] <= listeners[i] BY <2>1
    <2> QED BY <1>1, <2>2 DEF Fewer
<1>3. Fewer(<<>>)
    <2>1. <<>> \in Seq(Listener) /\ Len(<<>>) = 0 BY EmptySeq
    <2>2. DOMAIN <<>> = {} BY <2>1
    <2> QED BY <2>1, <2>2 DEF Fewer, Increasing, ToSet
<1>4. ASSUME NEW x PROVE Fewer(Without(listeners, x))
    <2>1. Without(listeners, x) \in Seq(Listener) BY <1>1, Removed
    <2>2. Increasing(Without(listeners, x)) BY <1>1, Removed
    <2>3. ToSet(Without(listeners, x)) = ToSet(listeners) \ {x} BY <1>1, Removed
    <2>4. \A i \in 1 .. Len(Without(listeners, x)) :
                i \in 1 .. Len(listeners) /\ listeners[i] <= Without(listeners, x)[i]
        BY <1>1, Removed
    <2> QED BY <2>1, <2>2, <2>3, <2>4 DEF Fewer
<1> QED BY <1>2, <1>3, <1>4 DEF Calling

\* A listener is at one place of the array.
LEMMA IncreasingIsInjective ==
    ASSUME ArrayInv
    PROVE  IsInjective(listeners)
<1>1. /\ DOMAIN listeners = 1 .. Len(listeners) /\ Len(listeners) \in Nat
      /\ \A i \in 1 .. Len(listeners) : listeners[i] \in Listener
    BY DEF ArrayInv
<1>2. \A i \in 1 .. Len(listeners) : listeners[i] \in Int BY <1>1 DEF Listener
<1>3. \A i, j \in 1 .. Len(listeners) : i < j => listeners[i] # listeners[j]
    BY <1>2 DEF ArrayInv, Increasing
<1>4. \A i, j \in 1 .. Len(listeners) : i < j \/ j < i \/ i = j BY <1>1
<1> QED BY <1>1, <1>3, <1>4 DEF IsInjective

-----------------------------------------------------------------------------
(* The emissions. *)

\* Whom an emission has called is behind its index.
IsBehind(em, list, last) ==
    /\ ~em.again
    /\ em.stage = "calling" \/ (em.stage = "waiting" /\ em.mode # "emit") => em.next >= 1
    /\ \A l \in em.called :
        /\ l <= last
        /\ \A i \in 1 .. Len(list) : i >= em.next => l < list[i]

\* Removals come from listeners that use the function off.
IsAsked(em, kinds, last) ==
    /\ \A call \in em.pending : call.listener <= last
    /\ em.remove # <<>> => \E l \in Listener : l <= last /\ kinds[l] = "off"

IsGood(em, list, last, kinds) ==
    IsBehind(em, list, last) /\ IsAsked(em, kinds, last)

EmissionsInv ==
    /\ kind \in [Listener -> Kind]
    /\ emissions \in Seq(Emission)
    /\ \A e \in 1 .. Len(emissions) : IsGood(emissions[e], listeners, registered, kind)

\* The emissions that go on stay behind when the array gets shorter.
LEMMA FewerKeeps ==
    ASSUME ArrayInv, Fewer(listeners'), UNCHANGED <<kind, registered>>
    PROVE  /\ ArrayInv'
           /\ \A em \in Emission :
                IsGood(em, listeners, registered, kind)
                    => IsGood(em, listeners', registered', kind')
<1>1. ArrayInv' BY DEF ArrayInv, Fewer
<1>2. ASSUME NEW em \in Emission, IsBehind(em, listeners, registered), NEW l \in em.called,
             NEW i \in 1 .. Len(listeners'), i >= em.next
      PROVE  l < listeners'[i]
    <2>1. i \in 1 .. Len(listeners) /\ listeners[i] <= listeners'[i] BY DEF Fewer
    <2>2. l < listeners[i] BY <1>2, <2>1 DEF IsBehind
    <2>3. l \in Int BY DEF Emission, Listener
    <2>4. listeners[i] \in Listener /\ listeners'[i] \in Listener
        BY <1>1, <2>1 DEF ArrayInv
    <2>5. listeners[i] \in Int /\ listeners'[i] \in Int BY <2>4 DEF Listener
    <2> QED BY <2>1, <2>2, <2>3, <2>5
<1>3. \A em \in Emission : IsBehind(em, listeners, registered) => IsBehind(em, listeners', registered')
    BY <1>2 DEF IsBehind
<1> QED BY <1>1, <1>3 DEF IsGood

\* One emission takes a step, and the array gets no longer.
LEMMA OneEmission ==
    ASSUME ArrayInv, EmissionsInv, Fewer(listeners'), UNCHANGED <<kind, registered>>,
           NEW e \in 1 .. Len(emissions), NEW em \in Emission,
           IsGood(em, listeners', registered', kind'),
           emissions' = [emissions EXCEPT ![e] = em]
    PROVE  ArrayInv' /\ EmissionsInv'
<1>1. ArrayInv' BY FewerKeeps
<1>2. /\ emissions' \in Seq(Emission) /\ Len(emissions') = Len(emissions)
      /\ \A d \in 1 .. Len(emissions) :
            emissions[d] \in Emission /\ emissions'[d] = IF d = e THEN em ELSE emissions[d]
    BY DEF EmissionsInv
<1>3. ASSUME NEW d \in 1 .. Len(emissions)
      PROVE  IsGood(emissions'[d], listeners', registered', kind')
    <2>1. CASE d = e BY <1>2, <2>1
    <2>2. CASE d # e BY <1>2, <2>2, FewerKeeps DEF EmissionsInv
    <2> QED BY <2>1, <2>2
<1>4. kind' \in [Listener -> Kind] BY DEF EmissionsInv
<1> QED BY <1>1, <1>2, <1>3, <1>4 DEF EmissionsInv

-----------------------------------------------------------------------------
(* The invariant. *)

\* once has called what it was given at most once, and is gone when it has.
HeardInv ==
    /\ heard \in [Listener -> 0 .. 2]
    /\ \A l \in Listener : l > registered => heard[l] = 0
    /\ \A l \in Listener : kind[l] = "once" =>
            heard[l] = 0 \/ (heard[l] = 1 /\ l \notin ToSet(listeners))

EmitterInv == ArrayInv /\ EmissionsInv /\ HeardInv

LEMMA HeardStays ==
    ASSUME HeardInv, Fewer(listeners'), UNCHANGED <<kind, registered, heard>>
    PROVE  HeardInv'
BY DEF HeardInv, Fewer

\* No listener, no emission.
LEMMA EmitterInit == Init => EmitterInv
<1> SUFFICES ASSUME Init PROVE EmitterInv OBVIOUS
<1>1. <<>> \in Seq(Listener) /\ <<>> \in Seq(Emission) /\ Len(<<>>) = 0 BY EmptySeq
<1>2. DOMAIN <<>> = {} BY <1>1
<1>3. ArrayInv BY <1>1, <1>2, EmitterAssumption DEF Init, ArrayInv, Increasing, ToSet
<1>4. EmissionsInv BY <1>1 DEF Init, EmissionsInv, Kind
<1>5. HeardInv BY DEF Init, HeardInv
<1> QED BY <1>3, <1>4, <1>5 DEF EmitterInv

\* A new listener is larger than all that were called, and has heard nothing.
LEMMA OnStep ==
    ASSUME EmitterInv, NEW l \in Listener, On(l)
    PROVE  EmitterInv'
<1>1. /\ Listener \subseteq Nat /\ listeners \in Seq(Listener) /\ Increasing(listeners)
      /\ registered \in Nat /\ l = registered + 1 /\ registered' = l
      /\ listeners' = Appended(listeners, l)
      /\ emissions' = emissions /\ heard' = heard
    BY EmitterAssumption DEF EmitterInv, ArrayInv, Listener, On
<1>2. \A y \in ToSet(listeners) : y < l BY <1>1 DEF EmitterInv, ArrayInv
<1>3. /\ Appended(listeners, l) \in Seq(Listener)
      /\ Increasing(Appended(listeners, l))
      /\ ToSet(Appended(listeners, l)) = ToSet(listeners) \cup {l}
      /\ \A i \in 1 .. Len(Appended(listeners, l)) :
            \/ i \in 1 .. Len(listeners) /\ Appended(listeners, l)[i] = listeners[i]
            \/ Appended(listeners, l)[i] = l
    <2>1. /\ Listener \subseteq Nat /\ listeners \in Seq(Listener) /\ Increasing(listeners)
        BY <1>1
    <2> QED BY <1>2, <2>1, Appending, Zenon
<1>4. listeners' \in Seq(Listener) /\ Increasing(listeners') BY <1>1, <1>3
<1>5. ToSet(listeners') = ToSet(listeners) \cup {l} BY <1>1, <1>3
<1>6. \A i \in 1 .. Len(listeners') :
            \/ i \in 1 .. Len(listeners) /\ listeners'[i] = listeners[i]
            \/ listeners'[i] = l
    BY <1>1, <1>3
<1>7. PICK k \in Kind : kind' = [kind EXCEPT ![l] = k] BY DEF On
<1>8. /\ kind' \in [Listener -> Kind]
      /\ \A m \in Listener : kind'[m] = IF m = l THEN k ELSE kind[m]
    BY <1>7 DEF EmitterInv, EmissionsInv
<1>9. ArrayInv'
    <2>1. ToSet(listeners') \subseteq 1 .. registered'
        BY <1>1, <1>5 DEF EmitterInv, ArrayInv
    <2>2. registered' \in 0 .. MaxListeners BY <1>1, EmitterAssumption DEF Listener
    <2> QED BY <1>4, <2>1, <2>2 DEF ArrayInv
<1>10. ASSUME NEW em \in Emission, IsGood(em, listeners, registered, kind)
       PROVE  IsGood(em, listeners', registered', kind')
    <2>1. em.called \subseteq Listener BY DEF Emission
    <2>2. ASSUME NEW m \in em.called
          PROVE  /\ m <= registered'
                 /\ \A i \in 1 .. Len(listeners') : i >= em.next => m < listeners'[i]
        <3>1. m \in Nat /\ m <= registered BY <1>1, <1>10, <2>1 DEF IsGood, IsBehind
        <3>2. m < l /\ m <= registered' BY <1>1, <3>1
        <3>3. \A i \in 1 .. Len(listeners) : i >= em.next => m < listeners[i]
            BY <1>10 DEF IsGood, IsBehind
        <3> QED BY <1>6, <3>2, <3>3
    <2>3. IsBehind(em, listeners', registered') BY <1>10, <2>2 DEF IsGood, IsBehind
    <2>4. IsAsked(em, kind', registered')
        <3>1. \A m \in Listener : m <= registered => m <= registered' /\ kind'[m] = kind[m]
            BY <1>1, <1>8
        <3>2. \A call \in em.pending : call.listener \in Listener BY DEF Emission, Call
        <3> QED BY <1>10, <3>1, <3>2 DEF IsGood, IsAsked
    <2> QED BY <2>3, <2>4 DEF IsGood
<1>11. EmissionsInv'
    <2>1. \A e \in 1 .. Len(emissions) : emissions[e] \in Emission
        BY DEF EmitterInv, EmissionsInv
    <2> QED BY <1>1, <1>8, <1>10, <2>1 DEF EmitterInv, EmissionsInv
<1>12. HeardInv'
    <2>1. heard[l] = 0 BY <1>1 DEF EmitterInv, HeardInv
    <2>2. \A m \in Listener : m > registered' => m > registered BY <1>1
    <2>3. ASSUME NEW m \in Listener, kind'[m] = "once"
          PROVE  heard[m] = 0 \/ (heard[m] = 1 /\ m \notin ToSet(listeners'))
        <3>1. CASE m = l BY <2>1, <3>1
        <3>2. CASE m # l
            <4>1. kind[m] = "once" BY <1>8, <2>3, <3>2
            <4>2. heard[m] = 0 \/ (heard[m] = 1 /\ m \notin ToSet(listeners))
                BY <4>1 DEF EmitterInv, HeardInv
            <4> QED BY <1>5, <3>2, <4>2
        <3> QED BY <3>1, <3>2
    <2> QED BY <1>1, <2>2, <2>3 DEF EmitterInv, HeardInv
<1> QED BY <1>9, <1>11, <1>12 DEF EmitterInv

\* off and removeListeners.
LEMMA RemovalStep ==
    ASSUME EmitterInv, RemoveListeners \/ \E l \in Listener : Off(l)
    PROVE  EmitterInv'
<1>1. /\ Fewer(listeners')
      /\ UNCHANGED <<kind, registered, emissions, heard>>
    BY OnlyFewer DEF EmitterInv, RemoveListeners, Off
<1>2. ArrayInv' BY <1>1, FewerKeeps DEF EmitterInv
<1>3. EmissionsInv'
    <2>1. \A e \in 1 .. Len(emissions) : emissions[e] \in Emission
        BY DEF EmitterInv, EmissionsInv
    <2>2. \A e \in 1 .. Len(emissions) : IsGood(emissions[e], listeners', registered', kind')
        BY <1>1, <2>1, FewerKeeps DEF EmitterInv, EmissionsInv
    <2> QED BY <1>1, <2>2 DEF EmitterInv, EmissionsInv
<1> QED BY <1>1, <1>2, <1>3, HeardStays DEF EmitterInv

\* A new emission has called nobody.
LEMMA BeginStep ==
    ASSUME EmitterInv, Emit \/ EmitSerial \/ EmitSync
    PROVE  EmitterInv'
<1>1. PICK mode \in {"emit", "emitSerial", "emitSync"} : Begin(mode)
    BY DEF Emit, EmitSerial, EmitSync
<1> DEFINE em == [mode |-> mode, stage |-> "calling", next |-> 1, pending |-> {},
                  remove |-> <<>>, called |-> {}, again |-> FALSE]
<1>2. /\ emissions' = Append(emissions, em)
      /\ UNCHANGED <<kind, listeners, registered, heard>>
    BY <1>1 DEF Begin
<1>3. em \in Emission
    <2>1. <<>> \in Seq(Listener \cup {Undefined}) BY EmptySeq
    <2> QED BY <2>1 DEF Emission
<1>4. IsGood(em, listeners, registered, kind) BY DEF IsGood, IsBehind, IsAsked
<1> HIDE DEF em
<1>5. /\ emissions' \in Seq(Emission) /\ Len(emissions') = Len(emissions) + 1
      /\ \A e \in 1 .. Len(emissions) : emissions'[e] = emissions[e]
      /\ emissions'[Len(emissions) + 1] = em
    BY <1>2, <1>3, AppendProperties DEF EmitterInv, EmissionsInv
<1>6. EmissionsInv'
    <2>1. Len(emissions) \in Nat BY DEF EmitterInv, EmissionsInv
    <2>2. \A e \in 1 .. Len(emissions') : IsGood(emissions'[e], listeners, registered, kind)
        BY <1>4, <1>5, <2>1 DEF EmitterInv, EmissionsInv
    <2> QED BY <1>2, <1>5, <2>2 DEF EmitterInv, EmissionsInv
<1> QED BY <1>2, <1>6 DEF EmitterInv, ArrayInv, HeardInv

\* The loop calls the listener at its index, which is larger than all that the
\* emission has called, and smaller than those behind it.
LEMMA CallStep ==
    ASSUME EmitterInv, NEW e \in 1 .. Len(emissions), CallNext(e)
    PROVE  EmitterInv'
<1> DEFINE em == emissions[e]
           l == listeners[em.next]
           em2 == [em EXCEPT !.next = @ + 1,
                             !.pending = @ \cup {[listener |-> l, index |-> em.next]},
                             !.called = @ \cup {l},
                             !.again = @ \/ l \in em.called,
                             !.stage = IF em.mode = "emitSerial" THEN "waiting" ELSE @]
<1>1. em \in Emission /\ IsGood(em, listeners, registered, kind) /\ em.stage = "calling"
    BY DEF EmitterInv, EmissionsInv, CallNext
<1>2. em.next \in 1 .. Len(listeners)
    <2>1. At(listeners, em.next) # Undefined BY DEF CallNext
    <2>2. em.next <= Len(listeners) BY <2>1 DEF At
    <2>3. em.next \in Nat /\ em.next >= 1 /\ Len(listeners) \in Nat
        BY <1>1 DEF Emission, IsGood, IsBehind, EmitterInv, ArrayInv
    <2> QED BY <2>2, <2>3
<1>3. /\ At(listeners, em.next) = l
      /\ l \in Listener /\ l \in ToSet(listeners)
      /\ l <= registered
    <2>1. l \in ToSet(listeners) BY <1>2 DEF ToSet, EmitterInv, ArrayInv
    <2> QED BY <1>2, <2>1 DEF At, EmitterInv, ArrayInv
<1>4. /\ listeners' = Calling(listeners, l)
      /\ heard' = Heard(l)
      /\ emissions' = [emissions EXCEPT ![e] = em2]
      /\ UNCHANGED <<kind, registered>>
    BY <1>3, Zenon DEF CallNext
<1>5. l \notin em.called
    <2>1. \A m \in em.called : m < l BY <1>1, <1>2 DEF IsGood, IsBehind
    <2>2. l \in Int BY <1>3 DEF Listener
    <2> QED BY <2>1, <2>2
<1>6. em2 \in Emission /\ em2.next = em.next + 1 /\ em2.called = em.called \cup {l}
      /\ em2.again = FALSE /\ em2.remove = em.remove
      /\ em2.pending = em.pending \cup {[listener |-> l, index |-> em.next]}
    <2>1. em.next + 1 \in Nat /\ em.next \in Nat BY <1>1 DEF Emission
    <2>2. [listener |-> l, index |-> em.next] \in Call
        <3>1. em.next \in Nat \ {0} BY <1>2
        <3> HIDE DEF l, em
        <3> QED BY <1>3, <3>1 DEF Call
    <2>3. em.again = FALSE BY <1>1 DEF Emission, IsGood, IsBehind
    <2>4. (em.again \/ l \in em.called) = FALSE BY <1>5, <2>3
    <2> HIDE DEF l
    <2>5. em \in Emission BY <1>1
    <2> HIDE DEF em
    <2>6. em2 = [em EXCEPT !.next = em.next + 1,
                           !.pending = em.pending \cup {[listener |-> l, index |-> em.next]},
                           !.called = em.called \cup {l},
                           !.again = FALSE,
                           !.stage = IF em.mode = "emitSerial" THEN "waiting" ELSE em.stage]
        BY <2>4
    <2> HIDE DEF em2
    <2> QED BY <1>3, <2>1, <2>2, <2>5, <2>6 DEF Emission
<1>7. Fewer(listeners') BY <1>4, OnlyFewer DEF EmitterInv
<1>8. \A i \in 1 .. Len(listeners') : i >= em.next + 1 => l < listeners'[i]
    <2> SUFFICES ASSUME NEW i \in 1 .. Len(listeners'), i >= em.next + 1
                 PROVE  l < listeners'[i]
        OBVIOUS
    <2>1. i \in 1 .. Len(listeners) /\ listeners[i] <= listeners'[i] BY <1>7 DEF Fewer
    <2>2. l < listeners[i] BY <1>2, <2>1 DEF EmitterInv, ArrayInv, Increasing
    <2>3. l \in Int /\ listeners[i] \in Int /\ listeners'[i] \in Int
        <3>1. listeners[i] \in Listener /\ listeners'[i] \in Listener
            BY <1>7, <2>1 DEF Fewer, EmitterInv, ArrayInv
        <3> QED BY <1>3, <3>1 DEF Listener
    <2> QED BY <2>1, <2>2, <2>3
<1>9. IsGood(em, listeners', registered', kind')
    BY <1>1, <1>4, <1>7, FewerKeeps DEF EmitterInv
<1>10. IsGood(em2, listeners', registered', kind')
    <2>1. ASSUME NEW m \in em2.called
          PROVE  /\ m <= registered'
                 /\ \A i \in 1 .. Len(listeners') : i >= em2.next => m < listeners'[i]
        <3>1. CASE m = l BY <1>3, <1>4, <1>6, <1>8, <3>1
        <3>2. CASE m \in em.called
            <4>1. \A i \in 1 .. Len(listeners') : i >= em.next + 1 => i >= em.next
                BY <1>2
            <4> QED BY <1>6, <1>9, <3>2, <4>1 DEF IsGood, IsBehind
        <3> QED BY <1>6, <2>1, <3>1, <3>2
    <2>2. em2.next >= 1 BY <1>2, <1>6
    <2>3. IsBehind(em2, listeners', registered') BY <1>6, <2>1, <2>2 DEF IsBehind
    <2>4. IsAsked(em2, kind', registered')
        <3>1. \A call \in em2.pending : call \in em.pending \/ call.listener = l
            BY <1>6
        <3> QED BY <1>3, <1>4, <1>6, <1>9, <3>1 DEF IsGood, IsAsked
    <2> QED BY <2>3, <2>4 DEF IsGood
<1> HIDE DEF em2
<1>11. ArrayInv' /\ EmissionsInv'
    BY <1>4, <1>6, <1>7, <1>10, OneEmission DEF EmitterInv
<1>12. HeardInv'
    <2>1. /\ heard' \in [Listener -> 0 .. 2]
          /\ \A m \in Listener : m # l => heard'[m] = heard[m]
        BY <1>3, <1>4 DEF Heard, EmitterInv, HeardInv
    <2>2. ASSUME kind[l] = "once"
          PROVE  heard'[l] = 1 /\ l \notin ToSet(listeners')
        <3>1. heard[l] = 0 BY <1>3, <2>2 DEF EmitterInv, HeardInv
        <3>2. heard'[l] = 1 BY <1>3, <1>4, <2>2, <3>1 DEF Heard, EmitterInv, HeardInv
        <3>3. listeners' = Without(listeners, l) BY <1>4, <2>2 DEF Calling
        <3>4. Listener \subseteq Nat /\ listeners \in Seq(Listener) /\ Increasing(listeners)
            BY DEF EmitterInv, ArrayInv, Listener
        <3>5. ToSet(Without(listeners, l)) = ToSet(listeners) \ {l} BY <3>4, Removed
        <3> QED BY <3>2, <3>3, <3>5
    <2>3. \A m \in Listener : m > registered => m # l
        BY <1>3 DEF Listener, EmitterInv, ArrayInv
    <2> QED BY <1>4, <1>7, <2>1, <2>2, <2>3 DEF EmitterInv, HeardInv, Fewer
<1> QED BY <1>11, <1>12 DEF EmitterInv

\* What is read from the array is a listener or Undefined.
LEMMA AtIsListener ==
    ASSUME ArrayInv, NEW i \in Nat \ {0}
    PROVE  At(listeners, i) \in Listener \cup {Undefined}
BY DEF At, ArrayInv

\* When a loop ends, or what was awaited is settled, nobody is called.
LEMMA StageStep ==
    ASSUME EmitterInv, NEW e \in 1 .. Len(emissions), EndCalls(e) \/ Resume(e)
    PROVE  EmitterInv'
<1> DEFINE em == emissions[e]
<1>1. em \in Emission /\ IsGood(em, listeners, registered, kind)
    BY DEF EmitterInv, EmissionsInv
<1>2. Fewer(listeners') /\ UNCHANGED <<kind, listeners, registered, heard>>
    BY OnlyFewer DEF EmitterInv, EndCalls, Resume
<1>3. CASE EndCalls(e)
    <2> DEFINE em2 == [em EXCEPT !.next = 0, !.called = {},
                                 !.stage = IF em.mode = "emit" THEN "waiting" ELSE "removing"]
    <2>1. emissions' = [emissions EXCEPT ![e] = em2]
        BY <1>3 DEF EndCalls, EndLoop
    <2>2. em2 \in Emission BY <1>1 DEF Emission
    <2>3. IsGood(em2, listeners', registered', kind')
        BY <1>1, <1>2 DEF IsGood, IsBehind, IsAsked, Emission
    <2> HIDE DEF em2
    <2>4. ArrayInv' /\ EmissionsInv'
        BY <1>2, <2>1, <2>2, <2>3, OneEmission DEF EmitterInv
    <2> QED BY <1>2, <2>4, HeardStays DEF EmitterInv
<1>4. CASE Resume(e)
    <2> DEFINE em2 == [em EXCEPT !.stage = IF em.mode = "emit" THEN "removing" ELSE "calling"]
    <2>1. emissions' = [emissions EXCEPT ![e] = em2] /\ em.stage = "waiting"
        BY <1>4 DEF Resume
    <2>2. em2 \in Emission BY <1>1 DEF Emission
    <2>3. IsGood(em2, listeners', registered', kind')
        BY <1>1, <1>2, <2>1 DEF IsGood, IsBehind, IsAsked, Emission
    <2> HIDE DEF em2
    <2>4. ArrayInv' /\ EmissionsInv'
        BY <1>2, <2>1, <2>2, <2>3, OneEmission DEF EmitterInv
    <2> QED BY <1>2, <2>4, HeardStays DEF EmitterInv
<1> QED BY <1>3, <1>4

\* A listener that is done may leave the array or ask to be removed.
LEMMA DoneStep ==
    ASSUME EmitterInv, NEW e \in 1 .. Len(emissions),
           NEW call \in emissions[e].pending, Done(e, call)
    PROVE  EmitterInv'
<1> DEFINE em == emissions[e]
           asked == IF kind[call.listener] = "off"
                    THEN Append(em.remove, At(listeners, call.index)) ELSE em.remove
           em2 == [em EXCEPT !.pending = @ \ {call}, !.remove = asked]
<1>1. em \in Emission /\ IsGood(em, listeners, registered, kind) /\ call \in Call
    <2>1. em \in Emission /\ IsGood(em, listeners, registered, kind)
        BY DEF EmitterInv, EmissionsInv
    <2> QED BY <2>1 DEF Emission
<1>2. Fewer(listeners') /\ UNCHANGED <<kind, registered, heard>>
    BY OnlyFewer DEF EmitterInv, Done
<1>3. emissions' = [emissions EXCEPT ![e] = em2] BY DEF Done
<1>4. asked \in Seq(Listener \cup {Undefined})
    <2>1. em.remove \in Seq(Listener \cup {Undefined}) /\ call.index \in Nat \ {0}
        BY <1>1 DEF Emission, Call
    <2>2. At(listeners, call.index) \in Listener \cup {Undefined}
        BY <2>1, AtIsListener DEF EmitterInv
    <2> QED BY <2>1, <2>2, AppendProperties
<1>5. asked # <<>> => em.remove # <<>> \/ kind[call.listener] = "off" OBVIOUS
<1> HIDE DEF asked
<1>6. em2 \in Emission BY <1>1, <1>4 DEF Emission
<1>7. IsGood(em2, listeners', registered', kind')
    <2>1. IsGood(em, listeners', registered', kind')
        BY <1>1, <1>2, FewerKeeps DEF EmitterInv
    <2>2. em2.remove = asked /\ em2.again = em.again /\ em2.stage = em.stage
          /\ em2.mode = em.mode /\ em2.next = em.next /\ em2.called = em.called
        BY <1>1 DEF Emission
    <2>3. call.listener \in Listener /\ call.listener <= registered
        BY <1>1 DEF IsGood, IsAsked, Call
    <2>4. IsAsked(em2, kind', registered') BY <1>2, <1>5, <2>1, <2>2, <2>3 DEF IsGood, IsAsked
    <2>5. IsBehind(em2, listeners', registered') BY <2>1, <2>2 DEF IsGood, IsBehind
    <2> QED BY <2>4, <2>5 DEF IsGood
<1> HIDE DEF em2
<1>8. ArrayInv' /\ EmissionsInv' BY <1>2, <1>3, <1>6, <1>7, OneEmission DEF EmitterInv
<1> QED BY <1>2, <1>8, HeardStays DEF EmitterInv

\* The loop that removes shortens the array and what is left to be removed.
LEMMA RemoveStep ==
    ASSUME EmitterInv, NEW e \in 1 .. Len(emissions), RemoveNext(e)
    PROVE  EmitterInv'
<1> DEFINE em == emissions[e]
           em2 == [em EXCEPT !.remove = Tail(@)]
<1>1. em \in Emission /\ IsGood(em, listeners, registered, kind) /\ em.remove # <<>>
    BY DEF EmitterInv, EmissionsInv, RemoveNext
<1>2. Fewer(listeners') /\ UNCHANGED <<kind, registered, heard>>
    BY OnlyFewer DEF EmitterInv, RemoveNext
<1>3. emissions' = [emissions EXCEPT ![e] = em2] BY DEF RemoveNext
<1>4. Tail(em.remove) \in Seq(Listener \cup {Undefined})
    <2>1. em.remove \in Seq(Listener \cup {Undefined}) BY <1>1 DEF Emission
    <2> QED BY <1>1, <2>1, HeadTailProperties
<1>5. em2 \in Emission BY <1>1, <1>4 DEF Emission
<1>6. IsGood(em2, listeners', registered', kind')
    <2>1. IsGood(em, listeners', registered', kind')
        BY <1>1, <1>2, FewerKeeps DEF EmitterInv
    <2>2. em2.again = em.again /\ em2.stage = em.stage
          /\ em2.mode = em.mode /\ em2.next = em.next /\ em2.called = em.called
        BY <1>1 DEF Emission
    <2>3. IsAsked(em2, kind', registered') BY <1>1, <2>1 DEF IsGood, IsAsked
    <2>4. IsBehind(em2, listeners', registered') BY <2>1, <2>2 DEF IsGood, IsBehind
    <2> QED BY <2>3, <2>4 DEF IsGood
<1> HIDE DEF em2
<1>7. ArrayInv' /\ EmissionsInv' BY <1>2, <1>3, <1>5, <1>6, OneEmission DEF EmitterInv
<1> QED BY <1>2, <1>7, HeardStays DEF EmitterInv

\* The emissions that are left are as they were.
LEMMA FinishStep ==
    ASSUME EmitterInv, NEW e \in 1 .. Len(emissions), Finish(e)
    PROVE  EmitterInv'
<1>1. emissions' = RemoveAt(emissions, e) /\ UNCHANGED <<kind, listeners, registered, heard>>
    BY DEF Finish
<1>2. emissions \in Seq(Emission) BY DEF EmitterInv, EmissionsInv
<1>3. /\ emissions' \in Seq(Emission)
      /\ Len(emissions') = Len(emissions) - 1
      /\ \A i \in 1 .. Len(emissions) - 1 :
            emissions'[i] = IF i < e THEN emissions[i] ELSE emissions[i + 1]
    BY <1>1, <1>2, RemovedAt
<1>4. \A i \in 1 .. Len(emissions') : IsGood(emissions'[i], listeners, registered, kind)
    BY <1>2, <1>3 DEF EmitterInv, EmissionsInv
<1>5. EmissionsInv' BY <1>1, <1>3, <1>4 DEF EmitterInv, EmissionsInv
<1> QED BY <1>1, <1>5 DEF EmitterInv, ArrayInv, HeardInv

LEMMA EmitterStep == EmitterInv /\ [Next]_vars => EmitterInv'
<1> SUFFICES ASSUME EmitterInv, [Next]_vars PROVE EmitterInv' OBVIOUS
<1>1. CASE \E l \in Listener : On(l) BY <1>1, OnStep
<1>2. CASE RemoveListeners \/ \E l \in Listener : Off(l) BY <1>2, RemovalStep
<1>3. CASE Emit \/ EmitSerial \/ EmitSync BY <1>3, BeginStep
<1>4. CASE \E e \in 1 .. Len(emissions) : Continue(e)
    BY <1>4, CallStep, StageStep, DoneStep, RemoveStep, FinishStep DEF Continue
<1>5. CASE UNCHANGED vars
    BY <1>5 DEF vars, EmitterInv, ArrayInv, EmissionsInv, HeardInv
<1> QED BY <1>1, <1>2, <1>3, <1>4, <1>5 DEF Next

LEMMA EmitterInvariance == Spec => []EmitterInv
BY EmitterInit, EmitterStep, PTL DEF Spec

-----------------------------------------------------------------------------
(* Theorems. *)

\* The types of EventEmitter: a listener is in the array at most once, however
\* calls of on and off and emissions interleave.
THEOREM EmitterTypeCorrect == Spec => []TypeOK
<1>1. EmitterInv => TypeOK
    BY IncreasingIsInjective DEF EmitterInv, ArrayInv, EmissionsInv, HeardInv, TypeOK
<1> QED BY <1>1, EmitterInvariance, PTL

\* However many emissions of emit, emitSerial and emitSync overlap, what was
\* given to once is called at most once: the listener has left the array
\* before it is called.
THEOREM OnceIsCalledOnce == Spec => []OnceIsOnce
<1>1. EmitterInv => OnceIsOnce BY DEF EmitterInv, HeardInv, OnceIsOnce
<1> QED BY <1>1, EmitterInvariance, PTL

\* An emission walks the array by an index while listeners are added and
\* removed, and calls none twice: the array is in the order of registration,
\* new listeners come last, and a removal moves the others to the front.
THEOREM NobodyIsCalledTwice == Spec => []CalledOnce
<1>1. EmitterInv => CalledOnce
    BY DEF EmitterInv, EmissionsInv, IsGood, IsBehind, CalledOnce
<1> QED BY <1>1, EmitterInvariance, PTL

\* As long as no listener uses the function off, nothing but off and
\* removeListeners takes away what was added with on.
THEOREM ListenersStay == Spec => OnStays
<1> DEFINE Stays ==
        (\A l \in Listener : kind[l] # "off") =>
            \A l \in ToSet(listeners) \ ToSet(listeners)' :
                kind[l] = "on" => Off(l) \/ RemoveListeners
<1>1. ASSUME EmitterInv, [Next]_vars, \A l \in Listener : kind[l] # "off",
             NEW l \in ToSet(listeners) \ ToSet(listeners)', kind[l] = "on"
      PROVE  Off(l) \/ RemoveListeners
    <2>1. Listener \subseteq Nat /\ listeners \in Seq(Listener) /\ Increasing(listeners)
        BY <1>1 DEF EmitterInv, ArrayInv, Listener
    <2>2. \A m : ToSet(Without(listeners, m)) = ToSet(listeners) \ {m}
        <3>1. ASSUME NEW m PROVE ToSet(Without(listeners, m)) = ToSet(listeners) \ {m}
            BY <2>1, Removed
        <3> QED BY <3>1
    <2>3. listeners' # listeners BY <1>1
    <2>4. CASE \E m \in Listener : On(m)
        <3>1. PICK m \in Listener : On(m) BY <2>4
        <3>2. DOMAIN listeners = 1 .. Len(listeners) /\ Len(listeners) \in Nat BY <2>1
        <3>3. /\ Append(listeners, m) \in Seq(Listener)
              /\ Len(Append(listeners, m)) = Len(listeners) + 1
              /\ \A i \in 1 .. Len(listeners) : Append(listeners, m)[i] = listeners[i]
            BY <2>1, AppendProperties
        <3>4. ToSet(listeners) \subseteq ToSet(Append(listeners, m))
            BY <3>2, <3>3 DEF ToSet
        <3> QED BY <1>1, <3>1, <3>4 DEF On, Appended
    <2>5. CASE \E m \in Listener : Off(m)
        <3>1. PICK m \in Listener : Off(m) BY <2>5
        <3>2. l = m BY <1>1, <2>2, <3>1 DEF Off
        <3> QED BY <3>1, <3>2
    <2>6. CASE \E e \in 1 .. Len(emissions) : Continue(e)
        <3>1. PICK e \in 1 .. Len(emissions) : Continue(e) BY <2>6
        <3>2. CASE CallNext(e)
            <4>1. PICK m : listeners' = Calling(listeners, m) BY <3>2 DEF CallNext
            <4>2. kind[m] = "once" /\ l = m BY <1>1, <2>2, <4>1 DEF Calling
            <4> QED BY <1>1, <4>2
        <3>3. CASE \E call \in emissions[e].pending : Done(e, call)
            <4>1. PICK m : kind[m] = "waitf" /\ listeners' = Without(listeners, m)
                BY <2>3, <3>3 DEF Done
            <4>2. l = m BY <1>1, <2>2, <4>1
            <4> QED BY <1>1, <4>1, <4>2
        <3>4. CASE RemoveNext(e)
            <4>1. emissions[e].remove # <<>> BY <3>4 DEF RemoveNext
            <4> QED BY <1>1, <4>1 DEF EmitterInv, EmissionsInv, IsGood, IsAsked
        <3> QED BY <2>3, <3>1, <3>2, <3>3, <3>4
                DEF Continue, EndCalls, EndLoop, Resume, Finish
    <2>7. CASE RemoveListeners BY <2>7
    <2> QED BY <1>1, <2>3, <2>4, <2>5, <2>6, <2>7
            DEF Next, Emit, EmitSerial, EmitSync, Begin, vars
<1>2. EmitterInv /\ [Next]_vars => Stays BY <1>1
<1>3. OnStays <=> [][Stays]_vars BY DEF OnStays
<1> QED BY <1>2, <1>3, EmitterInvariance, PTL DEF Spec

=============================================================================
