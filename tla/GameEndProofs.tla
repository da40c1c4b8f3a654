--------------------------- MODULE GameEndProofs ---------------------------
(***************************************************************************)
(* What holds of GameEnd for any players, impostors and tasks, any number  *)
(* of murders under way and of overlapping calls of FixedUpdate.           *)
(***************************************************************************)
EXTENDS GameEnd, FiniteSetTheorems, SequenceTheorems, TLAPS

MurderStage == {"checking", "dying", "dead"}
UnderWay == [victim : Player, stage : MurderStage]
Offering == [kept : Seq(Reasons), rest : Seq(Reasons) \ {<<>>}]

-----------------------------------------------------------------------------
(* Sequences. *)

\* What is left when one element of a sequence is taken out.
LEMMA RemovedFrom ==
    ASSUME NEW S, NEW s \in Seq(S), NEW k \in 1 .. Len(s)
    PROVE  /\ RemoveAt(s, k) \in Seq(S)
           /\ Len(RemoveAt(s, k)) = Len(s) - 1
<1> DEFINE a == SubSeq(s, 1, k - 1)
           b == SubSeq(s, k + 1, Len(s))
<1>1. a \in Seq(S) /\ Len(a) = k - 1 OBVIOUS
<1>2. b \in Seq(S) /\ Len(b) = Len(s) - k
    <2>1. \A i \in k + 1 .. Len(s) : s[i] \in S OBVIOUS
    <2>2. /\ b \in Seq(S)
          /\ Len(b) = IF k + 1 <= Len(s) THEN Len(s) - (k + 1) + 1 ELSE 0
        BY <2>1, SubSeqProperties
    <2> QED BY <2>2
<1>3. RemoveAt(s, k) = a \o b BY DEF RemoveAt
<1> HIDE DEF a, b
<1>4. a \o b \in Seq(S) /\ Len(a \o b) = Len(a) + Len(b)
    BY <1>1, <1>2, ConcatProperties
<1> QED BY <1>1, <1>2, <1>3, <1>4

\* A check that registers one reason or none appends one or none.
LEMMA RegisteredSeq ==
    ASSUME NEW S, NEW r \in S, NEW new, new = {} \/ new = {r}
    PROVE  SetToSeq(new) \in Seq(S)
<1>1. CASE new = {}
    <2>1. Cardinality(new) = 0 BY <1>1, FS_EmptySet
    <2>2. <<>> \in [1 .. 0 -> {}] /\ IsInjective(<<>>) BY DEF IsInjective
    <2>3. SetToSeq(new) \in [1 .. 0 -> {}] BY <1>1, <2>1, <2>2 DEF SetToSeq
    <2>4. SetToSeq(new) = <<>> BY <2>3
    <2> QED BY <2>4
<1>2. CASE new = {r}
    <2>1. Cardinality(new) = 1 BY <1>2, FS_Singleton
    <2> DEFINE f == [i \in 1 .. 1 |-> r]
    <2>a. \A i \in 1 .. 1 : i = 1 OBVIOUS
    <2>b. IsInjective(f) BY <2>a DEF IsInjective
    <2>2. f \in [1 .. 1 -> {r}] /\ IsInjective(f) BY <2>b
    <2>3. SetToSeq(new) \in [1 .. 1 -> {r}] BY <1>2, <2>1, <2>2 DEF SetToSeq
    <2>4. SetToSeq(new) = <<r>>
        <3>1. <<r>> \in [1 .. 1 -> {r}] OBVIOUS
        <3>2. \A i \in 1 .. 1 : SetToSeq(new)[i] = <<r>>[i] BY <2>3, <2>a
        <3> QED BY <2>3, <3>1, <3>2
    <2> QED BY <2>4
<1> QED BY <1>1, <1>2

\* The checks register a reason or none.
LEMMA IntentOf ==
    ASSUME NEW reason \in Reasons, NEW condition
    PROVE  SetToSeq(Intent(reason, condition)) \in Seq(Reasons)
<1>1. Intent(reason, condition) = {} \/ Intent(reason, condition) = {reason}
    BY DEF Intent
<1> QED BY <1>1, RegisteredSeq

LEMMA ChecksRegister ==
    ASSUME NEW x, NEW d, NEW g, NEW l, NEW n
    PROVE  /\ SetToSeq(KillIntents(d, g)) \in Seq(Reasons)
           /\ SetToSeq(VoteIntents(x, d, g)) \in Seq(Reasons)
           /\ SetToSeq(DisconnectIntents(d, g)) \in Seq(Reasons)
           /\ SetToSeq(TaskIntents(l, n, g)) \in Seq(Reasons)
           /\ SetToSeq({}) \in Seq(Reasons)
<1>0. {"HumansByVote", "ImpostorByVote", "ImpostorByKill", "ImpostorDisconnect",
       "HumansDisconnect", "HumansByTask"} \subseteq Reasons
    BY DEF Reasons
<1>1. SetToSeq(KillIntents(d, g)) \in Seq(Reasons) BY <1>0, IntentOf DEF KillIntents
<1>2. SetToSeq(VoteIntents(x, d, g)) \in Seq(Reasons) BY <1>0, IntentOf DEF VoteIntents
<1>3. SetToSeq(TaskIntents(l, n, g)) \in Seq(Reasons)
    BY <1>0, IntentOf DEF TaskIntents
<1>4. SetToSeq({"ImpostorDisconnect"}) \in Seq(Reasons) BY <1>0, RegisteredSeq
<1>5. SetToSeq(DisconnectIntents(d, g)) \in Seq(Reasons)
    BY <1>0, <1>4, IntentOf DEF DisconnectIntents
<1>6. SetToSeq({}) \in Seq(Reasons) BY <1>0, RegisteredSeq
<1> QED BY <1>1, <1>2, <1>3, <1>5, <1>6

-----------------------------------------------------------------------------
(* Types. *)

LEMMA RegisterType ==
    ASSUME TypeOK, NEW new, SetToSeq(new) \in Seq(Reasons), Register(new)
    PROVE  intents' \in Seq(Reasons)
BY DEF TypeOK, Register

LEMMA ListenersType ==
    ASSUME GameAssumption, TypeOK, NEW cancel \in BOOLEAN, Listeners(cancel)
    PROVE  cancels' \in 0 .. MaxCancels /\ suspends' \in BOOLEAN
BY DEF TypeOK, Listeners, GameAssumption

LEMMA TypeInit == ASSUME GameAssumption, EndAssumption, Init PROVE TypeOK
<1>1. left \in [Crew -> 0 .. Tasks] BY DEF Init, GameAssumption
<1>2. cancels \in 0 .. MaxCancels BY DEF Init
<1> QED BY <1>1, <1>2 DEF Init, TypeOK, NoExile

LEMMA TypeCheckMurder ==
    ASSUME TypeOK, NEW killer \in Impostor, NEW victim \in Player,
           CheckMurder(killer, victim)
    PROVE  TypeOK'
<1>1. murders \in Seq(UnderWay) BY DEF TypeOK, UnderWay, MurderStage
<1>2. murders' \in Seq(UnderWay) BY <1>1 DEF CheckMurder, UnderWay, MurderStage
<1> QED BY <1>2 DEF TypeOK, CheckMurder, UnderWay, MurderStage, config, players,
                    room, queues

LEMMA TypeContinueMurder ==
    ASSUME GameAssumption, TypeOK, NEW k \in 1 .. Len(murders), ContinueMurder(k)
    PROVE  TypeOK'
<1>0. murders \in Seq(UnderWay) BY DEF TypeOK, UnderWay, MurderStage
<1>a. murders[k] \in UnderWay BY <1>0
<1>b. murders[k].victim \in Player BY <1>a DEF UnderWay
<1>c. ASSUME NEW stage \in MurderStage, Advance(k, stage)
      PROVE  murders' \in Seq(UnderWay)
    <2>1. [murders[k] EXCEPT !.stage = stage] \in UnderWay BY <1>a DEF UnderWay
    <2>2. murders' = [murders EXCEPT ![k] = [murders[k] EXCEPT !.stage = stage]]
        BY <1>c DEF Advance
    <2> QED BY <1>0, <2>1, <2>2
<1>1. CASE Murder(k)
    <2>1. murders' \in Seq(UnderWay) BY <1>1, <1>c DEF Murder, MurderStage
    <2>2. dead' \subseteq Player BY <1>1, <1>b DEF Murder, TypeOK
    <2> QED BY <1>1, <2>1, <2>2 DEF TypeOK, Murder, UnderWay, MurderStage, config,
                                    room, queues
<1>2. CASE Die(k)
    <2>1. murders' \in Seq(UnderWay) BY <1>2, <1>c DEF Die, MurderStage
    <2>2. dead' \subseteq Player BY <1>2 DEF Die, TypeOK
    <2>3. cancels' \in 0 .. MaxCancels /\ suspends' \in BOOLEAN
        BY <1>2, ListenersType DEF Die
    <2> QED BY <1>2, <2>1, <2>2, <2>3 DEF TypeOK, Die, UnderWay, MurderStage, room,
                                          queues
<1>3. CASE FinishMurder(k)
    <2>1. murders' \in Seq(UnderWay) BY <1>0, <1>3, RemovedFrom DEF FinishMurder
    <2>2. intents' \in Seq(Reasons)
        BY <1>3, ChecksRegister, RegisterType DEF FinishMurder
    <2> QED BY <1>3, <2>1, <2>2 DEF TypeOK, FinishMurder, UnderWay, MurderStage,
                                    config, players, room
<1>4. CASE Protect(k)
    <2>1. murders' \in Seq(UnderWay) BY <1>0, <1>4, RemovedFrom DEF Protect
    <2> QED BY <1>4, <2>1 DEF TypeOK, Protect, UnderWay, MurderStage, config,
                              players, room, queues
<1> QED BY <1>1, <1>2, <1>3, <1>4 DEF ContinueMurder

LEMMA TypeExile ==
    ASSUME GameAssumption, TypeOK,
           ExileClosed \/ ExileChecked \/ \E p \in Player : ExileDies(p)
    PROVE  TypeOK'
<1>1. ASSUME NEW p \in Player, ExileDies(p) PROVE TypeOK'
    BY <1>1 DEF TypeOK, ExileDies, config, room, queues
<1>2. CASE ExileClosed
    <2>1. exile \in [player : Player, stage : {"dying", "closed"}]
        BY <1>2 DEF TypeOK, ExileClosed, NoExile
    <2>2. exile' \in [player : Player, stage : {"dying", "closed"}]
        BY <1>2, <2>1 DEF ExileClosed
    <2>3. cancels' \in 0 .. MaxCancels /\ suspends' \in BOOLEAN
        BY <1>2, ListenersType DEF ExileClosed
    <2>4. dead' \subseteq Player BY <1>2 DEF TypeOK, ExileClosed
    <2> QED BY <1>2, <2>2, <2>3, <2>4 DEF TypeOK, ExileClosed, room, queues
<1>3. CASE ExileChecked
    <2>1. intents' \in Seq(Reasons)
        BY <1>3, ChecksRegister, RegisterType DEF ExileChecked
    <2> QED BY <1>3, <2>1 DEF TypeOK, ExileChecked, config, players, room
<1> QED BY <1>1, <1>2, <1>3

LEMMA TypeCompleteTask ==
    ASSUME GameAssumption, TypeOK, NEW p \in Crew, CompleteTask(p)
    PROVE  TypeOK'
<1>1. left \in [Crew -> 0 .. Tasks] BY DEF TypeOK
<1>2. left[p] \in 0 .. Tasks /\ left[p] > 0 BY <1>1 DEF CompleteTask
<1>3. left[p] - 1 \in 0 .. Tasks BY <1>2 DEF GameAssumption
<1>4. left' \in [Crew -> 0 .. Tasks] BY <1>1, <1>3 DEF CompleteTask
<1>5. intents' \in Seq(Reasons) BY ChecksRegister, RegisterType DEF CompleteTask
<1> QED BY <1>4, <1>5 DEF TypeOK, CompleteTask, config, acts, room

LEMMA TypeLeave ==
    ASSUME TypeOK, NEW p \in Player, Leave(p)
    PROVE  TypeOK'
<1>1. intents' \in Seq(Reasons)
    <2>1. CASE state = "Started" BY <2>1, ChecksRegister, RegisterType DEF Leave
    <2>2. CASE state # "Started" BY <2>2, ChecksRegister, RegisterType DEF Leave
    <2> QED BY <2>1, <2>2
<1>2. gone' \subseteq Player BY DEF TypeOK, Leave
<1> QED BY <1>1, <1>2 DEF TypeOK, Leave, config, acts, room

LEMMA TypeFixedUpdate == ASSUME TypeOK, FixedUpdate PROVE TypeOK'
<1>1. updates \in Seq(Offering) BY DEF TypeOK, Offering
<1>2. [kept |-> <<>>, rest |-> intents] \in Offering
    BY DEF FixedUpdate, TypeOK, Offering
<1>3. updates' \in Seq(Offering) BY <1>1, <1>2 DEF FixedUpdate
<1>4. intents' \in Seq(Reasons) BY DEF FixedUpdate
<1> QED BY <1>3, <1>4 DEF TypeOK, FixedUpdate, Offering, config, players, acts, room

LEMMA TypeOfferIntent ==
    ASSUME GameAssumption, TypeOK, NEW u \in 1 .. Len(updates), OfferIntent(u)
    PROVE  TypeOK'
<1> DEFINE update == updates[u]
<1>1. updates \in Seq(Offering) BY DEF TypeOK, Offering
<1>2. update \in Offering BY <1>1
<1>3. /\ update.kept \in Seq(Reasons)
      /\ update.rest \in Seq(Reasons) /\ update.rest # <<>>
    BY <1>2 DEF Offering
<1>4. Head(update.rest) \in Reasons /\ Tail(update.rest) \in Seq(Reasons) BY <1>3
<1>5. PICK cancel \in BOOLEAN :
        LET kept == IF cancel THEN update.kept
                                ELSE Append(update.kept, Head(update.rest))
            done == Tail(update.rest) = <<>>
        IN  /\ Listeners(cancel)
            /\ updates' = IF done
                          THEN RemoveAt(updates, u)
                          ELSE [updates EXCEPT ![u] =
                                    [kept |-> kept, rest |-> Tail(update.rest)]]
            /\ IF done /\ kept # <<>>
               THEN EndGame(Head(kept))
               ELSE UNCHANGED <<state, ends>>
    BY DEF OfferIntent
<1> DEFINE kept == IF cancel THEN update.kept
                             ELSE Append(update.kept, Head(update.rest))
           done == Tail(update.rest) = <<>>
<1>6. kept \in Seq(Reasons) BY <1>3, <1>4
<1>7. cancels' \in 0 .. MaxCancels /\ suspends' \in BOOLEAN BY <1>5, ListenersType
<1>8. updates' \in Seq(Offering)
    <2>1. CASE done BY <1>1, <1>5, <2>1, RemovedFrom
    <2>2. CASE ~done
        <3>1. [kept |-> kept, rest |-> Tail(update.rest)] \in Offering
            BY <1>4, <1>6, <2>2 DEF Offering
        <3>2. updates' = [updates EXCEPT ![u] =
                            [kept |-> kept, rest |-> Tail(update.rest)]]
            BY <1>5, <2>2
        <3> QED BY <1>1, <3>1, <3>2
    <2> QED BY <2>1, <2>2
<1>9. ends' \in Seq(Reasons) /\ state' \in {"Started", "Ended"}
    <2>1. CASE done /\ kept # <<>>
        <3>1. EndGame(Head(kept)) BY <1>5, <2>1
        <3>2. Head(kept) \in Reasons BY <1>6, <2>1
        <3> QED BY <3>1, <3>2 DEF EndGame, TypeOK
    <2>2. CASE ~(done /\ kept # <<>>)
        <3>1. UNCHANGED <<state, ends>> BY <1>5, <2>2
        <3> QED BY <3>1 DEF TypeOK
    <2> QED BY <2>1, <2>2
<1> QED BY <1>7, <1>8, <1>9 DEF TypeOK, OfferIntent, Offering, players, acts

LEMMA TypeContinueEnd ==
    ASSUME GameAssumption, TypeOK, NEW e \in 1 .. Len(ends), ContinueEnd(e)
    PROVE  TypeOK'
<1>1. ends \in Seq(Reasons) /\ endings \in Seq(Reasons) BY DEF TypeOK
<1>2. RemoveAt(ends, e) \in Seq(Reasons) BY <1>1, RemovedFrom
<1>3. CASE CancelEnd(e)
    <2>1. cancels' \in 0 .. MaxCancels /\ suspends' \in BOOLEAN
        BY <1>3, ListenersType DEF CancelEnd
    <2> QED BY <1>2, <1>3, <2>1 DEF TypeOK, CancelEnd, players, acts
<1>4. CASE FinishEnd(e)
    <2>1. endings' \in Seq(Reasons) BY <1>1, <1>4 DEF FinishEnd
    <2> QED BY <1>2, <1>4, <2>1 DEF TypeOK, FinishEnd, config, players, acts
<1> QED BY <1>3, <1>4 DEF ContinueEnd

\* The players, the murders and the queues of intents keep their types,
\* however many calls overlap.
THEOREM GameTypeCorrect ==
    ASSUME GameAssumption, EndAssumption
    PROVE  Spec => []TypeOK
<1>1. Init => TypeOK BY TypeInit
<1>2. TypeOK /\ [Next]_vars => TypeOK'
    <2> SUFFICES ASSUME TypeOK, [Next]_vars PROVE TypeOK' OBVIOUS
    <2>1. CASE UNCHANGED vars
        BY <2>1 DEF vars, config, players, acts, room, queues, TypeOK
    <2>2. ASSUME NEW killer \in Impostor, NEW victim \in Player,
                 CheckMurder(killer, victim)
          PROVE  TypeOK'
        BY <2>2, TypeCheckMurder
    <2>3. ASSUME NEW k \in 1 .. Len(murders), ContinueMurder(k) PROVE TypeOK'
        BY <2>3, TypeContinueMurder
    <2>4. ASSUME NEW p \in Player, ExileDies(p) \/ Leave(p) PROVE TypeOK'
        BY <2>4, TypeExile, TypeLeave
    <2>5. CASE ExileClosed \/ ExileChecked BY <2>5, TypeExile
    <2>6. ASSUME NEW p \in Crew, CompleteTask(p) PROVE TypeOK'
        BY <2>6, TypeCompleteTask
    <2>7. CASE FixedUpdate BY <2>7, TypeFixedUpdate
    <2>8. ASSUME NEW u \in 1 .. Len(updates), OfferIntent(u) PROVE TypeOK'
        BY <2>8, TypeOfferIntent
    <2>9. ASSUME NEW e \in 1 .. Len(ends), ContinueEnd(e) PROVE TypeOK'
        BY <2>9, TypeContinueEnd
    <2> QED BY <2>1, <2>2, <2>3, <2>4, <2>5, <2>6, <2>7, <2>8, <2>9 DEF Next
<1> QED BY <1>1, <1>2, PTL DEF Spec

-----------------------------------------------------------------------------
(* One end. *)

\* Nothing else is under way.
Nothing == murders = <<>> /\ exile.stage # "dying" /\ intents = <<>>

\* The objects of the game are there until the first end is announced, and
\* the game is started until it is being ended.
ObjectsUntilEnd ==
    /\ endings = <<>> <=> objects
    /\ endings = <<>> /\ ends = <<>> => state = "Started"

\* If listeners do not suspend: a FixedUpdate that offers intents, or the end
\* it leads to, is alone, and after the end nothing is registered again.
OneAtATime ==
    /\ updates # <<>> => objects /\ Nothing /\ ends = <<>> /\ Len(updates) = 1
    /\ ends # <<>> => /\ objects /\ Nothing /\ updates = <<>> /\ Len(ends) = 1
                      /\ state = "Ended"
    /\ ~objects => /\ intents = <<>> /\ updates = <<>> /\ ends = <<>>
                   /\ Len(endings) = 1 /\ state = "Ended"

EndInv == ObjectsUntilEnd /\ (~suspends => OneAtATime)

\* A call that comes in while nothing else is under way, and that touches
\* neither the ends nor the objects.
LEMMA IdleKeeps ==
    ASSUME EndInv, Idle, objects, UNCHANGED <<suspends, room, updates, ends>>
    PROVE  EndInv'
BY DEF EndInv, Idle, ObjectsUntilEnd, OneAtATime, room

\* Empty sequences.
LEMMA NoneLeft ==
    ASSUME NEW S, NEW s \in Seq(S), NEW k \in 1 .. Len(s), Len(s) = 1
    PROVE  RemoveAt(s, k) = <<>>
<1>1. RemoveAt(s, k) \in Seq(S) /\ Len(RemoveAt(s, k)) = Len(s) - 1
    BY RemovedFrom
<1>2. Len(RemoveAt(s, k)) = 0 BY <1>1
<1> QED BY <1>1, <1>2, EmptySeq

LEMMA EndMurder ==
    ASSUME TypeOK, EndInv, NEW k \in 1 .. Len(murders), ContinueMurder(k)
    PROVE  EndInv'
<1>0. murders # <<>> BY DEF TypeOK
<1>1. /\ UNCHANGED <<suspends, room, updates, ends>>
      /\ objects = FALSE => intents' = intents
    BY DEF ContinueMurder, Murder, Protect, Die, FinishMurder, Listeners, Register, config,
           queues, room
<1>2. ~suspends => updates = <<>> /\ ends = <<>>
    BY <1>0 DEF EndInv, OneAtATime, Nothing
<1> QED BY <1>1, <1>2 DEF EndInv, ObjectsUntilEnd, OneAtATime, room

LEMMA EndExileClosed == ASSUME EndInv, ExileClosed PROVE EndInv'
<1>1. UNCHANGED <<suspends, room, queues>> BY DEF ExileClosed, Listeners
<1>2. ~suspends => updates = <<>> /\ ends = <<>>
    BY DEF EndInv, OneAtATime, Nothing, ExileClosed
<1> QED BY <1>1, <1>2 DEF EndInv, ObjectsUntilEnd, OneAtATime, room, queues

\* The meeting's check may come after the game has ended: then the objects
\* of the game are not there.
LEMMA EndExileChecked == ASSUME EndInv, ExileChecked PROVE EndInv'
<1>1. UNCHANGED <<suspends, room, updates, ends>> /\ Idle
    BY DEF ExileChecked, config
<1>2. CASE objects BY <1>1, <1>2, IdleKeeps
<1>3. CASE ~objects
    <2>1. intents' = intents BY <1>3 DEF ExileChecked, Register
    <2> QED BY <1>1, <1>3, <2>1 DEF EndInv, ObjectsUntilEnd, OneAtATime, room
<1> QED BY <1>2, <1>3

LEMMA EndFixedUpdate == ASSUME TypeOK, EndInv, FixedUpdate PROVE EndInv'
<1>1. UNCHANGED <<suspends, room, acts, ends>> /\ intents' = <<>>
    BY DEF FixedUpdate, config
<1>2. ObjectsUntilEnd' BY <1>1 DEF EndInv, ObjectsUntilEnd, room
<1>3. ASSUME ~suspends PROVE OneAtATime'
    <2>1. objects BY <1>3 DEF EndInv, OneAtATime, FixedUpdate
    <2>2. murders = <<>> /\ updates = <<>> /\ ends = <<>> /\ exile.stage # "dying"
        BY <1>3 DEF FixedUpdate, Idle
    <2>3. Len(updates') = 1 BY <2>2 DEF FixedUpdate
    <2> QED BY <1>1, <2>1, <2>2, <2>3 DEF OneAtATime, Nothing, room, acts
<1> QED BY <1>1, <1>2, <1>3 DEF EndInv

LEMMA EndOfferIntent ==
    ASSUME TypeOK, EndInv, NEW u \in 1 .. Len(updates), OfferIntent(u)
    PROVE  EndInv'
<1>1. UNCHANGED <<suspends, acts, intents, objects, endings>>
    BY DEF OfferIntent, Listeners
<1>2. updates \in Seq(Offering) /\ ends \in Seq(Reasons) BY DEF TypeOK, Offering
<1>3. \/ state' = "Ended" /\ (\E r : ends' = Append(ends, r))
         /\ updates' = RemoveAt(updates, u)
      \/ UNCHANGED <<state, ends>>
         /\ (\/ updates' = RemoveAt(updates, u)
             \/ \E x : updates' = [updates EXCEPT ![u] = x])
    BY DEF OfferIntent, EndGame
<1>4. (\E r : ends' = Append(ends, r)) => ends' # <<>> BY <1>2
<1>5. ObjectsUntilEnd' BY <1>1, <1>3, <1>4 DEF EndInv, ObjectsUntilEnd
<1>6. ASSUME ~suspends PROVE OneAtATime'
    <2>1. /\ objects /\ Nothing /\ ends = <<>> /\ Len(updates) = 1
        BY <1>2, <1>6 DEF EndInv, OneAtATime
    <2>2. RemoveAt(updates, u) = <<>> BY <1>2, <2>1, NoneLeft
    <2>3. objects' /\ Nothing' BY <1>1, <2>1 DEF Nothing, acts
    <2>4. CASE state' = "Ended" /\ (\E r : ends' = Append(ends, r))
               /\ updates' = RemoveAt(updates, u)
        <3>1. Len(ends') = 1 BY <2>1, <2>4
        <3> QED BY <2>2, <2>3, <2>4, <3>1 DEF OneAtATime
    <2>5. CASE UNCHANGED <<state, ends>> /\ updates' = RemoveAt(updates, u)
        BY <2>1, <2>2, <2>3, <2>5 DEF OneAtATime
    <2>6. CASE UNCHANGED <<state, ends>> /\ \E x : updates' = [updates EXCEPT ![u] = x]
        <3>1. Len(updates') = 1 BY <1>2, <2>1, <2>6
        <3> QED BY <2>1, <2>3, <2>6, <3>1 DEF OneAtATime
    <2> QED BY <1>3, <2>4, <2>5, <2>6
<1> QED BY <1>1, <1>5, <1>6 DEF EndInv

LEMMA EndContinueEnd ==
    ASSUME TypeOK, EndInv, NEW e \in 1 .. Len(ends), ContinueEnd(e)
    PROVE  EndInv'
<1>1. ends \in Seq(Reasons) /\ endings \in Seq(Reasons) BY DEF TypeOK
<1>2. ~suspends => /\ objects /\ Nothing /\ updates = <<>> /\ Len(ends) = 1
                   /\ state = "Ended"
    BY <1>1 DEF EndInv, OneAtATime
<1>3. ~suspends => RemoveAt(ends, e) = <<>> BY <1>1, <1>2, NoneLeft
<1>4. CASE CancelEnd(e)
    <2>1. /\ UNCHANGED <<suspends, acts, intents, updates, objects, endings>>
          /\ state' = "Started" /\ ends' = RemoveAt(ends, e)
        BY <1>4 DEF CancelEnd, Listeners
    <2> QED BY <1>2, <1>3, <2>1 DEF EndInv, ObjectsUntilEnd, OneAtATime
<1>5. CASE FinishEnd(e)
    <2>1. /\ UNCHANGED <<suspends, acts, intents, updates, state>>
          /\ objects' = FALSE /\ ends' = RemoveAt(ends, e)
          /\ endings' = Append(endings, ends[e])
        BY <1>5 DEF FinishEnd, config
    <2>2. endings' # <<>> BY <1>1, <2>1
    <2>3. ~suspends => Len(endings') = 1 BY <1>2, <2>1 DEF EndInv, ObjectsUntilEnd
    <2> QED BY <1>2, <1>3, <2>1, <2>2, <2>3
            DEF EndInv, ObjectsUntilEnd, OneAtATime, Nothing
<1> QED BY <1>4, <1>5 DEF ContinueEnd

LEMMA EndStep == ASSUME TypeOK, EndInv, [Next]_vars PROVE EndInv'
<1>1. CASE UNCHANGED vars
    BY <1>1 DEF vars, config, acts, room, queues, EndInv, ObjectsUntilEnd,
                OneAtATime, Nothing
<1>2. ASSUME NEW killer \in Impostor, NEW victim \in Player,
             CheckMurder(killer, victim)
      PROVE  EndInv'
    BY <1>2, IdleKeeps DEF CheckMurder, config, queues
<1>3. ASSUME NEW k \in 1 .. Len(murders), ContinueMurder(k) PROVE EndInv'
    BY <1>3, EndMurder
<1>4. ASSUME NEW p \in Player, ExileDies(p) PROVE EndInv'
    BY <1>4, IdleKeeps DEF ExileDies, config, queues
<1>5. ASSUME NEW p \in Player, Leave(p) PROVE EndInv'
    BY <1>5, IdleKeeps DEF Leave, config
<1>6. CASE ExileClosed BY <1>6, EndExileClosed
<1>7. CASE ExileChecked BY <1>7, EndExileChecked
<1>8. ASSUME NEW p \in Crew, CompleteTask(p) PROVE EndInv'
    BY <1>8, IdleKeeps DEF CompleteTask, config
<1>9. CASE FixedUpdate BY <1>9, EndFixedUpdate
<1>10. ASSUME NEW u \in 1 .. Len(updates), OfferIntent(u) PROVE EndInv'
    BY <1>10, EndOfferIntent
<1>11. ASSUME NEW e \in 1 .. Len(ends), ContinueEnd(e) PROVE EndInv'
    BY <1>11, EndContinueEnd
<1> QED BY <1>1, <1>2, <1>3, <1>4, <1>5, <1>6, <1>7, <1>8, <1>9, <1>10, <1>11
        DEF Next

LEMMA EndInvHolds ==
    ASSUME GameAssumption, EndAssumption
    PROVE  Spec => []EndInv
<1>1. Init => EndInv BY DEF Init, EndInv, ObjectsUntilEnd, OneAtATime
<1>2. TypeOK /\ EndInv /\ [Next]_vars => EndInv' BY EndStep
<1> QED BY <1>1, <1>2, GameTypeCorrect, PTL DEF Spec

\* If listeners do not suspend, the clients are told of one end at most, even
\* if they cancel intents and ends and several conditions hold at once.
THEOREM OneEndingIsTold ==
    ASSUME GameAssumption, EndAssumption
    PROVE  Spec => []OneEnding
<1>1. EndInv => OneEnding
    <2> SUFFICES ASSUME EndInv, ~suspends PROVE Len(endings) <= 1
        BY DEF OneEnding
    <2>1. CASE objects
        <3>1. endings = <<>> BY <2>1 DEF EndInv, ObjectsUntilEnd
        <3>2. Len(endings) = 0 BY <3>1
        <3> QED BY <3>2
    <2>2. CASE ~objects
        <3>1. Len(endings) = 1 BY <2>2, Zenon DEF EndInv, OneAtATime
        <3> QED BY <3>1
    <2> QED BY <2>1, <2>2
<1> QED BY <1>1, EndInvHolds, PTL

\* A game whose end was cancelled goes on, and one that has ended stays so.
THEOREM StateStaysHonest ==
    ASSUME GameAssumption, EndAssumption
    PROVE  Spec => []StateIsHonest
<1>1. EndInv => StateIsHonest
    BY DEF EndInv, ObjectsUntilEnd, OneAtATime, StateIsHonest
<1> QED BY <1>1, EndInvHolds, PTL
-----------------------------------------------------------------------------
(* No end is lost. *)

\* A step that loses no end that was not cancelled.
Kept == EndsUnderWay' + cancels >= EndsUnderWay + cancels'

\* What waits and what is under way, as numbers.
Waiting(s) == IF s = <<>> THEN 0 ELSE 1

LEMMA KeptByNumbers ==
    ASSUME TypeOK, TypeOK',
           Waiting(intents') + Len(updates') + Len(ends') + cancels
                >= Waiting(intents) + Len(updates) + Len(ends) + cancels'
    PROVE  Kept
BY DEF Kept, EndsUnderWay, Waiting, TypeOK

\* A step that takes no intent and no end out of the queues.
LEMMA KeptQueues ==
    ASSUME TypeOK, TypeOK', UNCHANGED <<updates, ends>>,
           intents # <<>> => intents' # <<>>,
           cancels' = cancels \/ (\E cancel \in BOOLEAN : Listeners(cancel))
    PROVE  Kept
<1>1. cancels \in Nat /\ cancels' \in Nat /\ cancels' <= cancels
    BY DEF TypeOK, Listeners
<1>2. Len(updates) \in Nat /\ Len(ends) \in Nat BY DEF TypeOK
<1>3. Waiting(intents') >= Waiting(intents) BY DEF Waiting
<1>4. Waiting(intents') \in Nat /\ Waiting(intents) \in Nat BY DEF Waiting
<1> QED BY <1>1, <1>2, <1>3, <1>4, KeptByNumbers

\* Whatever is registered, what waits goes on to wait.
LEMMA RegisterKeeps ==
    ASSUME TypeOK, NEW new, SetToSeq(new) \in Seq(Reasons), Register(new),
           intents # <<>>
    PROVE  intents' # <<>>
<1>1. intents \in Seq(Reasons) BY DEF TypeOK
<1>2. CASE objects
    <2>1. intents' = intents \o SetToSeq(new) BY <1>2 DEF Register
    <2>2. Len(intents') = Len(intents) + Len(SetToSeq(new))
        <3> HIDE DEF Register
        <3> QED BY <1>1, <2>1, ConcatProperties
    <2>3. Len(intents) > 0 /\ Len(SetToSeq(new)) \in Nat BY <1>1
    <2>4. Len(intents') > 0 BY <2>2, <2>3
    <2> QED BY <2>4
<1>3. CASE ~objects BY <1>3 DEF Register
<1> QED BY <1>2, <1>3

LEMMA KeptFixedUpdate == ASSUME TypeOK, TypeOK', FixedUpdate PROVE Kept
<1>1. /\ intents # <<>> /\ intents' = <<>> /\ UNCHANGED <<cancels, ends>>
      /\ Len(updates') = Len(updates) + 1
    BY DEF FixedUpdate, config, TypeOK
<1>2. Waiting(intents) = 1 /\ Waiting(intents') = 0 BY <1>1 DEF Waiting
<1>3. Len(updates) \in Nat /\ Len(ends) \in Nat /\ cancels \in Nat BY DEF TypeOK
<1> QED BY <1>1, <1>2, <1>3, KeptByNumbers

LEMMA KeptOfferIntent ==
    ASSUME TypeOK, TypeOK', NEW u \in 1 .. Len(updates), OfferIntent(u)
    PROVE  Kept
<1> DEFINE update == updates[u]
<1>1. updates \in Seq(Offering) /\ ends \in Seq(Reasons) /\ cancels \in Nat
      /\ cancels' \in Nat
    BY DEF TypeOK, Offering
<1>0. update \in Offering BY <1>1
<1>2. update.kept \in Seq(Reasons) BY <1>0 DEF Offering
<1>3. PICK cancel \in BOOLEAN :
        LET kept == IF cancel THEN update.kept
                                ELSE Append(update.kept, Head(update.rest))
            done == Tail(update.rest) = <<>>
        IN  /\ Listeners(cancel)
            /\ updates' = IF done
                          THEN RemoveAt(updates, u)
                          ELSE [updates EXCEPT ![u] =
                                    [kept |-> kept, rest |-> Tail(update.rest)]]
            /\ IF done /\ kept # <<>>
               THEN EndGame(Head(kept))
               ELSE UNCHANGED <<state, ends>>
    BY DEF OfferIntent
<1> DEFINE kept == IF cancel THEN update.kept
                             ELSE Append(update.kept, Head(update.rest))
           done == Tail(update.rest) = <<>>
<1>4. intents' = intents /\ Waiting(intents) \in Nat BY DEF OfferIntent, Waiting
<1>5. Len(updates) \in Nat /\ Len(ends) \in Nat BY <1>1
<1>6. IF cancel THEN cancels' + 1 = cancels ELSE cancels' = cancels
    BY <1>1, <1>3 DEF Listeners
<1>a. Len(updates') \in Nat /\ Len(ends') \in Nat BY DEF TypeOK
<1>b. ASSUME \/ Len(updates') + Len(ends') = Len(updates) + Len(ends)
             \/ cancel /\ Len(updates') + Len(ends') + 1 = Len(updates) + Len(ends)
      PROVE  Kept
    <2> DEFINE w == Waiting(intents)
               n == Len(updates)
               m == Len(ends)
               x == Len(updates')
               y == Len(ends')
               c == cancels
               d == cancels'
    <2>1. {w, n, m, x, y, c, d} \subseteq Nat BY <1>1, <1>4, <1>5, <1>a
    <2>2. \/ x + y = n + m /\ (d = c \/ d + 1 = c)
          \/ x + y + 1 = n + m /\ d + 1 = c
        BY <1>6, <1>b
    <2>3. Waiting(intents') = w BY <1>4
    <2> HIDE DEF w, n, m, x, y, c, d
    <2>4. w + x + y + c >= w + n + m + d BY <2>1, <2>2
    <2> QED BY <2>3, <2>4, KeptByNumbers DEF w, n, m, x, y, c, d
<1>7. CASE ~done
    <2>1. Len(updates') = Len(updates) /\ ends' = ends BY <1>1, <1>3, <1>7
    <2> QED BY <1>b, <2>1
<1>8. CASE done /\ kept # <<>>
    <2>1. updates' = RemoveAt(updates, u) /\ EndGame(Head(kept)) BY <1>3, <1>8
    <2>2. Len(updates') = Len(updates) - 1 BY <1>1, <2>1, RemovedFrom
    <2>3. Len(ends') = Len(ends) + 1 BY <1>1, <2>1 DEF EndGame
    <2>4. Len(updates') + Len(ends') = Len(updates) + Len(ends)
        BY <1>5, <2>2, <2>3
    <2> QED BY <1>b, <2>4
<1>9. CASE done /\ kept = <<>>
    <2>1. cancel
        <3>1. Append(update.kept, Head(update.rest)) # <<>> BY <1>2
        <3> QED BY <1>9, <3>1
    <2>2. updates' = RemoveAt(updates, u) /\ ends' = ends BY <1>3, <1>9
    <2>3. Len(updates') = Len(updates) - 1 BY <1>1, <2>2, RemovedFrom
    <2>4. Len(updates') + Len(ends') + 1 = Len(updates) + Len(ends)
        BY <1>5, <2>2, <2>3
    <2> QED BY <1>b, <2>1, <2>4
<1> QED BY <1>7, <1>8, <1>9

LEMMA KeptCancelEnd ==
    ASSUME TypeOK, TypeOK', NEW e \in 1 .. Len(ends), CancelEnd(e)
    PROVE  Kept
<1>1. ends \in Seq(Reasons) /\ cancels \in Nat BY DEF TypeOK
<1>2. /\ UNCHANGED <<intents, updates>> /\ ends' = RemoveAt(ends, e)
      /\ cancels' = cancels - 1 /\ cancels > 0
    BY DEF CancelEnd, Listeners
<1>3. Len(ends') = Len(ends) - 1 BY <1>1, <1>2, RemovedFrom
<1>4. Waiting(intents) \in Nat /\ Len(updates) \in Nat /\ Len(ends) \in Nat
    BY <1>1 DEF Waiting, TypeOK
<1> QED BY <1>1, <1>2, <1>3, <1>4, KeptByNumbers

\* However many calls of FixedUpdate and handleEnd overlap, and whatever is
\* registered meanwhile: until an end is announced, nothing that would end the
\* game is lost unless the listeners cancel it.
THEOREM EndsAreKept ==
    ASSUME GameAssumption, EndAssumption
    PROVE  Spec => NoEndIsLost
<1>1. TypeOK /\ TypeOK' /\ [Next]_vars => [objects' => Kept]_vars
    <2> SUFFICES ASSUME TypeOK, TypeOK', Next, objects' PROVE Kept OBVIOUS
    <2>1. ASSUME NEW killer \in Impostor, NEW victim \in Player,
                 CheckMurder(killer, victim)
          PROVE  Kept
        BY <2>1, KeptQueues DEF CheckMurder, config, queues
    <2>2. ASSUME NEW k \in 1 .. Len(murders), ContinueMurder(k) PROVE Kept
        <3>1. CASE FinishMurder(k)
            BY <3>1, KeptQueues, RegisterKeeps, ChecksRegister DEF FinishMurder, config
        <3>2. CASE Murder(k) \/ Protect(k) \/ Die(k)
            BY <3>2, KeptQueues DEF Murder, Protect, Die, config, queues
        <3> QED BY <2>2, <3>1, <3>2 DEF ContinueMurder
    <2>3. ASSUME NEW p \in Player, ExileDies(p) PROVE Kept
        BY <2>3, KeptQueues DEF ExileDies, config, queues
    <2>4. ASSUME NEW p \in Player, Leave(p) PROVE Kept
        <3> DEFINE new == IF state = "Started" THEN DisconnectIntents(dead, gone')
                                               ELSE {}
        <3>1. SetToSeq(new) \in Seq(Reasons) /\ Register(new)
              /\ UNCHANGED <<cancels, updates, ends>>
            BY <2>4, ChecksRegister DEF Leave, config
        <3> HIDE DEF new
        <3> QED BY <3>1, KeptQueues, RegisterKeeps
    <2>5. CASE ExileClosed BY <2>5, KeptQueues DEF ExileClosed, queues
    <2>6. CASE ExileChecked
        BY <2>6, KeptQueues, RegisterKeeps, ChecksRegister DEF ExileChecked, config
    <2>7. ASSUME NEW p \in Crew, CompleteTask(p) PROVE Kept
        BY <2>7, KeptQueues, RegisterKeeps, ChecksRegister DEF CompleteTask, config
    <2>8. ASSUME NEW e \in 1 .. Len(ends), ContinueEnd(e) PROVE Kept
        <3>1. ~FinishEnd(e) BY DEF FinishEnd
        <3> QED BY <2>8, <3>1, KeptCancelEnd DEF ContinueEnd
    <2> QED BY <2>1, <2>2, <2>3, <2>4, <2>5, <2>6, <2>7, <2>8, KeptFixedUpdate,
               KeptOfferIntent DEF Next
<1> QED BY <1>1, GameTypeCorrect, PTL DEF Spec, NoEndIsLost, Kept

-----------------------------------------------------------------------------
(* What is announced is still so. *)

\* What is won for good: all tasks of those who are there are done, or the
\* impostors have left.
StillWon(reason) ==
    /\ reason = "HumansByTask" => \A p \in Crew \ gone : left[p] = 0
    /\ reason = "ImpostorDisconnect" => Impostor \subseteq gone

\* The reasons that are true or may be of players g gone and tasks l left.
Won(g, l) ==
    {r \in Reasons :
        /\ r = "HumansByTask" => \A p \in Crew \ g : l[p] = 0
        /\ r = "ImpostorDisconnect" => Impostor \subseteq g}

Offers(S) == [kept : Seq(S), rest : Seq(S) \ {<<>>}]

\* Whatever is on its way to an announcement is a reason in S, and is so
\* after a step.
Queued(S) == intents \in Seq(S) /\ ends \in Seq(S) /\ updates \in Seq(Offers(S))
StaysQueued(S) ==
    intents' \in Seq(S) /\ ends' \in Seq(S) /\ updates' \in Seq(Offers(S))

IsWon == Queued(Won(gone, left))

LEMMA WonIsTrue ==
    ASSUME NEW r \in Won(gone, left)
    PROVE  StillWon(r)
BY DEF Won, StillWon

LEMMA WonGrows ==
    ASSUME NEW g, NEW l, NEW h, NEW m, g \subseteq h,
           \A p \in Crew \ h : l[p] = 0 => m[p] = 0
    PROVE  Won(g, l) \subseteq Won(h, m)
BY DEF Won

\* What a check finds is so, and stays so.
LEMMA ChecksAreRight ==
    ASSUME NEW e, NEW d, NEW g, NEW l, NEW n
    PROVE  /\ SetToSeq(KillIntents(d, g)) \in Seq(Won(g, l))
           /\ SetToSeq(VoteIntents(e, d, g)) \in Seq(Won(g, l))
           /\ SetToSeq(DisconnectIntents(d, g)) \in Seq(Won(g, l))
           /\ SetToSeq(TaskIntents(l, n, g)) \in Seq(Won(g, l))
           /\ SetToSeq({}) \in Seq(Won(g, l))
<1>0. ASSUME NEW S, NEW r, NEW new, new = {} \/ new = {r}, new \subseteq S, S # {}
      PROVE  SetToSeq(new) \in Seq(S)
    <2>1. CASE new = {}
        <3>1. PICK s \in S : TRUE BY <1>0
        <3> QED BY <2>1, <3>1, RegisteredSeq
    <2>2. CASE new = {r} BY <1>0, <2>2, RegisteredSeq
    <2> QED BY <1>0, <2>1, <2>2
<1>a. {"ImpostorByVote", "HumansByVote", "ImpostorByKill", "HumansDisconnect"}
            \subseteq Won(g, l)
    BY DEF Won, Reasons
<1>b. Won(g, l) # {} BY <1>a
<1>1. SetToSeq(KillIntents(d, g)) \in Seq(Won(g, l))
    <2>1. /\ KillIntents(d, g) = {} \/ KillIntents(d, g) = {"ImpostorByKill"}
          /\ KillIntents(d, g) \subseteq Won(g, l)
        BY <1>a DEF KillIntents, Intent
    <2> QED BY <1>0, <1>b, <2>1
<1>2. SetToSeq(VoteIntents(e, d, g)) \in Seq(Won(g, l))
    <2> DEFINE new == VoteIntents(e, d, g)
    <2>2. new = {} \/ new = {"HumansByVote"} \/ new = {"ImpostorByVote"}
        BY DEF VoteIntents, Intent
    <2>3. new \subseteq Won(g, l) BY <1>a, <2>2
    <2> QED BY <1>0, <1>b, <2>2, <2>3
<1>3. SetToSeq(DisconnectIntents(d, g)) \in Seq(Won(g, l))
    <2> DEFINE new == DisconnectIntents(d, g)
    <2>1. CASE Impostor \subseteq g
        <3>1. new = {"ImpostorDisconnect"} BY <2>1 DEF DisconnectIntents
        <3>2. new \subseteq Won(g, l) BY <2>1, <3>1 DEF Won, Reasons
        <3> QED BY <1>0, <1>b, <3>1, <3>2
    <2>2. CASE ~(Impostor \subseteq g)
        <3>1. /\ new = {} \/ new = {"HumansDisconnect"}
              /\ new \subseteq Won(g, l)
            BY <1>a, <2>2 DEF DisconnectIntents, Intent
        <3> QED BY <1>0, <1>b, <3>1
    <2> QED BY <2>1, <2>2
<1>4. SetToSeq(TaskIntents(l, n, g)) \in Seq(Won(g, l))
    <2>1. /\ TaskIntents(l, n, g) = {} \/ TaskIntents(l, n, g) = {"HumansByTask"}
          /\ TaskIntents(l, n, g) \subseteq Won(g, l)
        BY DEF TaskIntents, Intent, Won, Reasons
    <2> QED BY <1>0, <1>b, <2>1
<1>5. SetToSeq({}) \in Seq(Won(g, l)) BY <1>0, <1>b
<1> QED BY <1>1, <1>2, <1>3, <1>4, <1>5
-----------------------------------------------------------------------------
(* The queues of a step that knows more reasons to be won. *)

LEMMA SeqGrows ==
    ASSUME NEW S, NEW T, S \subseteq T
    PROVE  Seq(S) \subseteq Seq(T) /\ Seq(Offers(S)) \subseteq Seq(Offers(T))
<1>1. ASSUME NEW A, NEW B, A \subseteq B PROVE Seq(A) \subseteq Seq(B)
    BY <1>1, SeqDef
<1>2. Offers(S) \subseteq Offers(T) BY <1>1 DEF Offers
<1> QED BY <1>1, <1>2

\* Nothing is registered.
LEMMA QueuedStays ==
    ASSUME NEW S, NEW T, S \subseteq T, Queued(S), UNCHANGED queues
    PROVE  StaysQueued(T)
BY SeqGrows DEF Queued, StaysQueued, queues

LEMMA QueuedRegister ==
    ASSUME NEW S, NEW T, S \subseteq T, Queued(S), UNCHANGED <<updates, ends>>,
           NEW new, SetToSeq(new) \in Seq(T), Register(new)
    PROVE  StaysQueued(T)
<1>1. intents \in Seq(T) /\ ends \in Seq(T) /\ updates \in Seq(Offers(T))
    BY SeqGrows DEF Queued
<1>2. intents' \in Seq(T)
    <2>1. CASE objects
        <3>1. intents' = intents \o SetToSeq(new) BY <2>1 DEF Register
        <3> HIDE DEF Register
        <3> QED BY <1>1, <3>1, ConcatProperties
    <2>2. CASE ~objects BY <1>1, <2>2 DEF Register
    <2> QED BY <2>1, <2>2
<1> QED BY <1>1, <1>2 DEF StaysQueued

LEMMA QueuedFixedUpdate ==
    ASSUME NEW S, Queued(S), FixedUpdate
    PROVE  StaysQueued(S)
<1>1. [kept |-> <<>>, rest |-> intents] \in Offers(S)
    BY DEF FixedUpdate, Queued, Offers
<1>2. updates' \in Seq(Offers(S)) BY <1>1 DEF FixedUpdate, Queued
<1> QED BY <1>2 DEF FixedUpdate, Queued, StaysQueued

LEMMA QueuedOfferIntent ==
    ASSUME NEW S, Queued(S), NEW u \in 1 .. Len(updates), OfferIntent(u)
    PROVE  StaysQueued(S)
<1> DEFINE update == updates[u]
<1>1. updates \in Seq(Offers(S)) BY DEF Queued
<1>2. update \in Offers(S) BY <1>1
<1>3. /\ update.kept \in Seq(S)
      /\ update.rest \in Seq(S) /\ update.rest # <<>>
    BY <1>2 DEF Offers
<1>4. Head(update.rest) \in S /\ Tail(update.rest) \in Seq(S) BY <1>3
<1>5. PICK cancel \in BOOLEAN :
        LET kept == IF cancel THEN update.kept
                                ELSE Append(update.kept, Head(update.rest))
            done == Tail(update.rest) = <<>>
        IN  /\ updates' = IF done
                          THEN RemoveAt(updates, u)
                          ELSE [updates EXCEPT ![u] =
                                    [kept |-> kept, rest |-> Tail(update.rest)]]
            /\ IF done /\ kept # <<>>
               THEN EndGame(Head(kept))
               ELSE UNCHANGED <<state, ends>>
    BY DEF OfferIntent
<1> DEFINE kept == IF cancel THEN update.kept
                             ELSE Append(update.kept, Head(update.rest))
           done == Tail(update.rest) = <<>>
<1>6. kept \in Seq(S) BY <1>3, <1>4
<1>7. updates' \in Seq(Offers(S))
    <2>1. CASE done BY <1>1, <1>5, <2>1, RemovedFrom
    <2>2. CASE ~done
        <3>1. [kept |-> kept, rest |-> Tail(update.rest)] \in Offers(S)
            BY <1>4, <1>6, <2>2 DEF Offers
        <3>2. updates' = [updates EXCEPT ![u] =
                            [kept |-> kept, rest |-> Tail(update.rest)]]
            BY <1>5, <2>2
        <3> QED BY <1>1, <3>1, <3>2
    <2> QED BY <2>1, <2>2
<1>8. ends' \in Seq(S)
    <2>1. CASE done /\ kept # <<>>
        <3>1. EndGame(Head(kept)) BY <1>5, <2>1
        <3>2. Head(kept) \in S BY <1>6, <2>1
        <3> QED BY <3>1, <3>2 DEF EndGame, Queued
    <2>2. CASE ~(done /\ kept # <<>>)
        <3>1. UNCHANGED <<state, ends>> BY <1>5, <2>2
        <3> QED BY <3>1 DEF Queued
    <2> QED BY <2>1, <2>2
<1> QED BY <1>7, <1>8 DEF OfferIntent, Queued, StaysQueued

LEMMA QueuedContinueEnd ==
    ASSUME NEW S, Queued(S), NEW e \in 1 .. Len(ends), ContinueEnd(e)
    PROVE  StaysQueued(S)
<1>1. ends \in Seq(S) BY DEF Queued
<1>2. RemoveAt(ends, e) \in Seq(S) BY <1>1, RemovedFrom
<1>3. ends' = RemoveAt(ends, e) /\ UNCHANGED <<intents, updates>>
    BY DEF ContinueEnd, CancelEnd, FinishEnd
<1> QED BY <1>2, <1>3 DEF Queued, StaysQueued

-----------------------------------------------------------------------------
(* Every step keeps IsWon. *)

\* A murder, the protection from it, a revert of it, and an exile.
LEMMA WonMurder ==
    ASSUME IsWon, NEW k \in 1 .. Len(murders), ContinueMurder(k)
    PROVE  StaysQueued(Won(gone, left)')
<1> DEFINE W == Won(gone, left)
           V == Won(gone', left')
<1>1. UNCHANGED <<gone, left, updates, ends>>
    BY DEF ContinueMurder, Murder, Protect, Die, FinishMurder, players, queues, room
<1>2. W = V BY <1>1
<1>3. Queued(W) BY DEF IsWon
<1>4. CASE FinishMurder(k)
    <2>1. Register(KillIntents(dead, gone)) BY <1>4 DEF FinishMurder
    <2>2. SetToSeq(KillIntents(dead, gone)) \in Seq(V) BY <1>1, ChecksAreRight
    <2> HIDE DEF W, V
    <2>3. StaysQueued(V) BY <1>1, <1>2, <1>3, <2>1, <2>2, QueuedRegister
    <2> QED BY <2>3 DEF V
<1>5. CASE Murder(k) \/ Protect(k) \/ Die(k)
    <2>1. UNCHANGED queues BY <1>5 DEF Murder, Protect, Die
    <2> HIDE DEF W, V
    <2>2. StaysQueued(V) BY <1>2, <1>3, <2>1, QueuedStays
    <2> QED BY <2>2 DEF V
<1> QED BY <1>4, <1>5 DEF ContinueMurder

LEMMA WonExile ==
    ASSUME IsWon, ExileClosed \/ ExileChecked \/ \E p \in Player : ExileDies(p)
    PROVE  StaysQueued(Won(gone, left)')
<1> DEFINE W == Won(gone, left)
           V == Won(gone', left')
<1>1. UNCHANGED <<gone, left>> BY DEF ExileDies, ExileClosed, ExileChecked, players
<1>2. W = V BY <1>1
<1>3. Queued(W) BY DEF IsWon
<1>4. CASE ExileClosed \/ \E p \in Player : ExileDies(p)
    <2>1. UNCHANGED queues BY <1>4 DEF ExileDies, ExileClosed
    <2> HIDE DEF W, V
    <2>2. StaysQueued(V) BY <1>2, <1>3, <2>1, QueuedStays
    <2> QED BY <2>2 DEF V
<1>5. CASE ExileChecked
    <2>1. /\ UNCHANGED <<updates, ends>>
          /\ Register(VoteIntents(exile.player, dead, gone))
        BY <1>5 DEF ExileChecked
    <2>2. SetToSeq(VoteIntents(exile.player, dead, gone)) \in Seq(V)
        BY <1>1, ChecksAreRight
    <2> HIDE DEF W, V
    <2>3. StaysQueued(V) BY <1>2, <1>3, <2>1, <2>2, QueuedRegister
    <2> QED BY <2>3 DEF V
<1> QED BY <1>4, <1>5

LEMMA WonCompleteTask ==
    ASSUME TypeOK, IsWon, NEW p \in Crew, CompleteTask(p)
    PROVE  StaysQueued(Won(gone, left)')
<1> DEFINE W == Won(gone, left)
           V == Won(gone', left')
<1>1. /\ UNCHANGED <<dead, gone, exile, updates, ends>>
      /\ left' = [left EXCEPT ![p] = @ - 1] /\ left[p] > 0
      /\ Register(TaskIntents(left', Tasks, gone))
    BY DEF CompleteTask, acts
<1>2. /\ \A q \in Crew \ gone' : left[q] = 0 => left'[q] = 0
      /\ gone \subseteq gone'
    BY <1>1 DEF TypeOK
<1>3. W \subseteq V BY <1>2, WonGrows
<1>4. SetToSeq(TaskIntents(left', Tasks, gone)) \in Seq(V) BY <1>1, ChecksAreRight
<1>5. Queued(W) BY DEF IsWon
<1> HIDE DEF W, V
<1>6. StaysQueued(V) BY <1>1, <1>3, <1>4, <1>5, QueuedRegister
<1> QED BY <1>6 DEF V

LEMMA WonLeave ==
    ASSUME TypeOK, IsWon, NEW p \in Player, Leave(p)
    PROVE  StaysQueued(Won(gone, left)')
<1> DEFINE W == Won(gone, left)
           V == Won(gone', left')
           new == IF state = "Started" THEN DisconnectIntents(dead, gone') ELSE {}
<1>1. /\ UNCHANGED <<dead, left, exile, updates, ends>> /\ gone' = gone \cup {p}
      /\ Register(new)
    BY DEF Leave, acts
<1>3. W \subseteq V BY <1>1, WonGrows
<1>4. SetToSeq(new) \in Seq(V)
    <2>1. CASE state = "Started" BY <1>1, <2>1, ChecksAreRight
    <2>2. CASE state # "Started" BY <1>1, <2>2, ChecksAreRight
    <2> QED BY <2>1, <2>2
<1>5. Queued(W) BY DEF IsWon
<1> HIDE DEF W, V, new
<1>6. StaysQueued(V) BY <1>1, <1>3, <1>4, <1>5, QueuedRegister
<1> QED BY <1>6 DEF V

LEMMA WonStep ==
    ASSUME TypeOK, IsWon, [Next]_vars
    PROVE  IsWon'
<1> DEFINE W == Won(gone, left)
           V == Won(gone, left)'
<1>0. Queued(W) BY DEF IsWon
<1>1. SUFFICES StaysQueued(V) BY DEF IsWon, Queued, StaysQueued
<1>f. ASSUME UNCHANGED <<gone, left>> PROVE W = V
    BY <1>f
<1>2. CASE UNCHANGED <<players, queues>>
    <2>1. W = V BY <1>2, <1>f DEF players
    <2> HIDE DEF W, V
    <2> QED BY <1>0, <1>2, <2>1, QueuedStays
<1>3. ASSUME NEW k \in 1 .. Len(murders), ContinueMurder(k) PROVE StaysQueued(V)
    BY <1>3, WonMurder
<1>4. CASE ExileClosed \/ ExileChecked \/ \E p \in Player : ExileDies(p)
    BY <1>4, WonExile
<1>5. ASSUME NEW p \in Player, Leave(p) PROVE StaysQueued(V) BY <1>5, WonLeave
<1>6. ASSUME NEW p \in Crew, CompleteTask(p) PROVE StaysQueued(V)
    BY <1>6, WonCompleteTask
<1>7. CASE FixedUpdate
    <2>1. W = V BY <1>7, <1>f DEF FixedUpdate, players, acts
    <2> HIDE DEF W, V
    <2> QED BY <1>0, <1>7, <2>1, QueuedFixedUpdate
<1>8. ASSUME NEW u \in 1 .. Len(updates), OfferIntent(u) PROVE StaysQueued(V)
    <2>1. W = V BY <1>8, <1>f DEF OfferIntent, players, acts
    <2> HIDE DEF W, V
    <2> QED BY <1>0, <1>8, <2>1, QueuedOfferIntent
<1>9. ASSUME NEW e \in 1 .. Len(ends), ContinueEnd(e) PROVE StaysQueued(V)
    <2>1. W = V
        BY <1>9, <1>f DEF ContinueEnd, CancelEnd, FinishEnd, players, acts
    <2> HIDE DEF W, V
    <2> QED BY <1>0, <1>9, <2>1, QueuedContinueEnd
<1>10. (\E killer \in Impostor, victim \in Player : CheckMurder(killer, victim))
            \/ UNCHANGED vars
        => UNCHANGED <<players, queues>>
    BY DEF CheckMurder, vars, acts
<1> HIDE DEF W, V
<1> QED BY <1>2, <1>3, <1>4, <1>5, <1>6, <1>7, <1>8, <1>9, <1>10 DEF Next

\* No intent, no intent on offer and no end that the listeners are told of is
\* ever out of date.
LEMMA WonHolds ==
    ASSUME GameAssumption, EndAssumption
    PROVE  Spec => []IsWon
<1>1. Init => IsWon
    <2> SUFFICES ASSUME Init PROVE IsWon OBVIOUS
    <2>1. intents = <<>> /\ ends = <<>> /\ updates = <<>> BY DEF Init
    <2>2. ASSUME NEW S PROVE <<>> \in Seq(S) OBVIOUS
    <2> QED BY <2>1, <2>2 DEF IsWon, Queued
<1>2. TypeOK /\ IsWon /\ [Next]_vars => IsWon' BY WonStep
<1> QED BY <1>1, <1>2, GameTypeCorrect, PTL DEF Spec

\* What is announced was on its way to it.
LEMMA AnnouncedIsWon ==
    ASSUME TypeOK, IsWon, Next, endings' # endings
    PROVE  endings'[Len(endings')] \in Won(gone, left)
<1>1. PICK e \in 1 .. Len(ends) : FinishEnd(e)
    BY DEF Next, CheckMurder, ContinueMurder, Murder, Protect, Die, FinishMurder,
           ExileDies, Leave, ExileClosed, ExileChecked, CompleteTask, FixedUpdate,
           OfferIntent, ContinueEnd, CancelEnd, room
<1> DEFINE W == Won(gone, left)
<1>2. ends \in Seq(W) BY DEF IsWon, Queued
<1> HIDE DEF W
<1>3. ends[e] \in W BY <1>2
<1>4. endings \in Seq(Reasons) /\ endings' = Append(endings, ends[e])
    BY <1>1 DEF TypeOK, FinishEnd
<1>5. endings'[Len(endings')] = ends[e] BY <1>4
<1> QED BY <1>3, <1>5 DEF W

\* When the clients are told that all tasks are done, or that the impostors
\* have left, it is so, however long the listeners take, whoever leaves
\* meanwhile and whatever the listeners cancel or revert.
THEOREM TasksAndTeamsStayTrue ==
    ASSUME GameAssumption, EndAssumption
    PROVE  Spec => [][endings' # endings => StillWon(endings'[Len(endings')])]_vars
<1>1. TypeOK /\ IsWon /\ [Next]_vars
        => [endings' # endings => StillWon(endings'[Len(endings')])]_vars
    <2> SUFFICES ASSUME TypeOK, IsWon, Next, endings' # endings
                 PROVE  StillWon(endings'[Len(endings')])
        BY DEF vars, room
    <2> QED BY AnnouncedIsWon, WonIsTrue
<1> QED BY <1>1, GameTypeCorrect, WonHolds, PTL DEF Spec
=============================================================================
