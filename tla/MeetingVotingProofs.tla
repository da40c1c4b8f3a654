------------------------ MODULE MeetingVotingProofs ------------------------
(***************************************************************************)
(* What holds of MeetingVoting for any players, any number of overlapping  *)
(* votes and any number of players that leave.                             *)
(***************************************************************************)
EXTENDS MeetingVoting, FiniteSetTheorems, WellFoundedInduction, TLAPS

Result == [exiled : Player \cup {Nobody},
           stage : {"announced", "killing", "closed"}]

-----------------------------------------------------------------------------
(* Types. *)

\* The exiled player is one that is there, or nobody.
LEMMA ExiledType == \A v : Exiled(v) \in (Player \ gone) \cup {Nobody}
BY DEF Exiled

\* _populateStates keeps the votes votes.
LEMMA PopulatedType ==
    ASSUME MeetingAssumption, NEW v \in [Player -> Vote]
    PROVE  Populated(v) \in [Player -> Vote]
<1>1. ASSUME NEW p \in Player, p < Len(Order) PROVE Order[p + 1] \in Player
    <2>1. p \in Nat /\ Order \in Seq(Player) BY MeetingAssumption DEF MeetingAssumption
    <2>2. p + 1 \in 1 .. Len(Order) BY <1>1, <2>1
    <2> QED BY <2>1, <2>2
<1> QED BY <1>1 DEF Populated

\* A result that is announced is well-formed.
LEMMA AnnounceType ==
    ASSUME MeetingAssumption, TypeOK, NEW v \in [Player -> Vote], Announce(v)
    PROVE  /\ votes' \in [Player -> Vote]
           /\ announced' \in Nat
           /\ aftermath' \in Seq(Result)
<1>1. votes' \in [Player -> Vote] BY PopulatedType DEF Announce
<1>2. announced' \in Nat BY DEF Announce, TypeOK
<1>3. aftermath' \in Seq(Result)
    <2>1. [exiled |-> Exiled(v), stage |-> "announced"] \in Result
        BY ExiledType DEF Result
    <2>2. aftermath \in Seq(Result) BY DEF TypeOK, Result
    <2> QED BY <2>1, <2>2 DEF Announce
<1> QED BY <1>1, <1>2, <1>3

\* The end-game intents of a meeting have reasons.
LEMMA IntentsType ==
    \A x, d, g : /\ VoteIntents(x, d, g) \subseteq Reasons
                 /\ DisconnectIntents(d, g) \subseteq Reasons
BY DEF VoteIntents, DisconnectIntents, Intent, Reasons

\* Going on with a suspended votingComplete keeps the others.
LEMMA GoOnType ==
    ASSUME aftermath \in Seq(Result), NEW k \in 1 .. Len(aftermath),
           NEW s \in {"announced", "killing", "closed"}, GoOn(k, s)
    PROVE  aftermath' \in Seq(Result)
<1>1. aftermath[k] \in Result OBVIOUS
<1>3. [aftermath[k] EXCEPT !.stage = s] \in Result BY <1>1 DEF Result
<1>2. aftermath' = [aftermath EXCEPT ![k] = [aftermath[k] EXCEPT !.stage = s]]
    BY DEF GoOn
<1> QED BY <1>3, <1>2

LEMMA TypeInit == ASSUME MeetingAssumption, Init PROVE TypeOK
BY DEF Init, TypeOK, Vote

\* One vote less waits for its listeners.
LEMMA CastingType ==
    ASSUME TypeOK, NEW p \in Player, casting[p] > 0,
           casting' = [casting EXCEPT ![p] = @ - 1]
    PROVE  casting' \in [Player -> Nat]
<1>1. casting \in [Player -> Nat] BY DEF TypeOK
<1>2. casting[p] - 1 \in Nat BY <1>1
<1> QED BY <1>1, <1>2

LEMMA TypeCast ==
    ASSUME TypeOK, NEW p \in Player, NEW s \in Player \cup {Skipped}, Cast(p, s)
    PROVE  TypeOK'
BY DEF TypeOK, Cast, Vote, config, outcome

LEMMA TypeRevert ==
    ASSUME TypeOK, NEW p \in Player, RevertVote(p)
    PROVE  TypeOK'
<1>1. casting' \in [Player -> Nat] BY CastingType DEF RevertVote
<1>2. votes' \in [Player -> Vote] BY DEF TypeOK, RevertVote, Vote
<1>3. mayVote' \subseteq Player BY DEF TypeOK, RevertVote, Cleared
<1> QED BY <1>1, <1>2, <1>3 DEF TypeOK, RevertVote, config, outcome

LEMMA TypeFinishCast ==
    ASSUME MeetingAssumption, TypeOK, NEW p \in Player, FinishCast(p)
    PROVE  TypeOK'
<1>1. casting' \in [Player -> Nat] BY CastingType DEF FinishCast
<1>2. CASE EverybodyVoted(votes)
    BY <1>1, <1>2, AnnounceType DEF TypeOK, FinishCast, config, Result
<1>3. CASE ~EverybodyVoted(votes)
    BY <1>1, <1>3 DEF TypeOK, FinishCast, config, outcome
<1> QED BY <1>2, <1>3

LEMMA TypeRunOutOfTime ==
    ASSUME MeetingAssumption, TypeOK, RunOutOfTime
    PROVE  TypeOK'
<1>1. [p \in Player |-> IF votes[p] = NotVoted THEN Missed ELSE votes[p]]
            \in [Player -> Vote] BY DEF TypeOK, Vote
<1> QED BY <1>1, AnnounceType DEF TypeOK, RunOutOfTime, config, Result

LEMMA TypeLeave ==
    ASSUME TypeOK, NEW p \in Player, Leave(p)
    PROVE  TypeOK'
<1>1. votes' \in [Player -> Vote] BY DEF TypeOK, Leave, Vote
<1>2. mayVote' \subseteq Player BY DEF TypeOK, Leave
<1>3. intents' \subseteq Reasons BY IntentsType DEF TypeOK, Leave
<1> QED BY <1>1, <1>2, <1>3 DEF TypeOK, Leave, config, outcome

LEMMA TypeAftermath ==
    ASSUME TypeOK, NEW k \in 1 .. Len(aftermath), Aftermath(k)
    PROVE  TypeOK'
<1>4. aftermath \in Seq(Result) BY DEF TypeOK, Result
<1>0. aftermath \in Seq(Result) /\ aftermath[k] \in Result BY <1>4
<1>1. CASE KillExiled(k)
    <2>1. aftermath' \in Seq(Result) BY <1>0, <1>1, GoOnType DEF KillExiled
    <2>2. dead' \subseteq Player BY <1>1 DEF KillExiled, TypeOK
    <2> QED BY <1>1, <2>1, <2>2 DEF TypeOK, KillExiled, GoOn, config, Result
<1>2. CASE Close(k)
    <2>1. aftermath' \in Seq(Result) BY <1>0, <1>2, GoOnType DEF Close
    <2>2. dead' \subseteq Player BY <1>2 DEF Close, TypeOK
    <2> QED BY <1>2, <2>1, <2>2 DEF TypeOK, Close, GoOn, config, Result
<1>3. CASE FinishMeeting(k)
    <2>1. aftermath' \in Seq(Result)
        BY <1>0, <1>3 DEF FinishMeeting
    <2>2. intents' \subseteq Reasons
        BY <1>3, IntentsType DEF FinishMeeting, TypeOK
    <2> QED BY <1>3, <2>1, <2>2 DEF TypeOK, FinishMeeting, config, Result
<1> QED BY <1>1, <1>2, <1>3 DEF Aftermath

\* The meeting keeps its types whatever the players, the timers and the
\* listeners do.
THEOREM MeetingTypeCorrect ==
    ASSUME MeetingAssumption
    PROVE  Spec => []TypeOK
<1>1. Init => TypeOK BY TypeInit
<1>2. TypeOK /\ [Next]_vars => TypeOK'
    <2> SUFFICES ASSUME TypeOK, [Next]_vars PROVE TypeOK' OBVIOUS
    <2>1. CASE UNCHANGED vars
        BY <2>1 DEF vars, server, outcome, TypeOK
    <2>2. CASE Next
        BY <2>2, TypeCast, TypeRevert, TypeFinishCast, TypeLeave,
           TypeRunOutOfTime, TypeAftermath DEF Next
    <2> QED BY <2>1, <2>2
<1> QED BY <1>1, <1>2, PTL DEF Spec

-----------------------------------------------------------------------------
(* The votes of those who are there. *)

\* No vote is Missed for a player, nor a skip, nor no vote.
LEMMA SpecialVotes ==
    ASSUME MeetingAssumption
    PROVE  {Skipped, Missed, NotVoted, Nobody} \cap Player = {}
BY DEF MeetingAssumption

\* A result is counted.
LEMMA ResultCounts ==
    ASSUME TypeOK, NEW v, Announce(v)
    PROVE  announced' # 0
BY DEF TypeOK, Announce

\* Until the result nobody who is there is on record with a vote for a player
\* that has left, however many leave, however votes overlap and in whatever
\* order the players are.
THEOREM VotesStayForPresent ==
    ASSUME MeetingAssumption
    PROVE  Spec => []VotesForPresent
<1>1. Init => VotesForPresent
    BY SpecialVotes DEF Init, VotesForPresent
<1>2. ASSUME TypeOK, VotesForPresent, [Next]_vars PROVE VotesForPresent'
    <2> USE <1>2
    <2>1. CASE UNCHANGED vars
        BY <2>1 DEF vars, server, outcome, VotesForPresent
    <2>2. ASSUME NEW p \in Player, NEW s \in Player \cup {Skipped}, Cast(p, s)
          PROVE  VotesForPresent'
        BY <2>2, SpecialVotes DEF Cast, VotesForPresent, TypeOK, outcome
    <2>3. ASSUME NEW p \in Player, RevertVote(p) PROVE VotesForPresent'
        <3>1. gone \subseteq Player /\ NotVoted \notin Player
            BY SpecialVotes DEF TypeOK
        <3>2. /\ UNCHANGED <<open, gone, announced>>
              /\ \A q \in Player : votes'[q] \in {votes[q], NotVoted}
            BY <2>3 DEF RevertVote, TypeOK, outcome
        <3> QED BY <3>1, <3>2 DEF VotesForPresent
    <2>4. ASSUME NEW p \in Player, FinishCast(p) PROVE VotesForPresent'
        <3>1. CASE EverybodyVoted(votes)
            BY <2>4, <3>1, ResultCounts DEF FinishCast, VotesForPresent
        <3>2. CASE ~EverybodyVoted(votes)
            BY <2>4, <3>2 DEF FinishCast, VotesForPresent, outcome
        <3> QED BY <3>1, <3>2
    <2>5. ASSUME NEW p \in Player, Leave(p) PROVE VotesForPresent'
        BY <2>5, SpecialVotes DEF Leave, VotesForPresent, TypeOK, outcome
    <2>6. CASE RunOutOfTime
        BY <2>6, ResultCounts DEF RunOutOfTime, VotesForPresent
    <2>7. ASSUME NEW k \in 1 .. Len(aftermath), Aftermath(k)
          PROVE  VotesForPresent'
        BY <2>7 DEF Aftermath, KillExiled, Close, FinishMeeting, GoOn, VotesForPresent
    <2> QED BY <2>1, <2>2, <2>3, <2>4, <2>5, <2>6, <2>7 DEF Next
<1> QED BY <1>1, <1>2, MeetingTypeCorrect, PTL DEF Spec

-----------------------------------------------------------------------------
(* The check that every vote is followed by. *)

\* Until the result nobody dies, and the dead neither vote nor have voted.
DeadAreSilent ==
    announced = 0 =>
        /\ aftermath = <<>>
        /\ mayVote \cap dead = {}
        /\ \A p \in dead : votes[p] = NotVoted /\ casting[p] = 0

AwaitedInv == TypeOK /\ DeadAreSilent /\ NoResultIsMissed

LEMMA AwaitedCast ==
    ASSUME MeetingAssumption, AwaitedInv,
           NEW p \in Player, NEW s \in Player \cup {Skipped}, Cast(p, s)
    PROVE  DeadAreSilent' /\ NoResultIsMissed'
<1> USE DEF AwaitedInv
<1>1. p \in Casting'
    <2>1. casting \in [Player -> Nat] BY DEF TypeOK
    <2>2. casting' = [casting EXCEPT ![p] = @ + 1] BY DEF Cast
    <2>3. casting'[p] > 0 BY <2>1, <2>2
    <2> QED BY <2>3 DEF Casting
<1>2. DeadAreSilent'
    BY DEF Cast, DeadAreSilent, TypeOK, outcome
<1> QED BY <1>1, <1>2 DEF NoResultIsMissed

\* A vote that is reverted is one its voter has to cast again.
LEMMA AwaitedRevert ==
    ASSUME MeetingAssumption, AwaitedInv, NEW p \in Player, RevertVote(p)
    PROVE  DeadAreSilent' /\ NoResultIsMissed'
<1> USE DEF AwaitedInv
<1>1. /\ UNCHANGED <<dead, gone, announced, aftermath>>
      /\ casting[p] > 0
      /\ \A q \in Player \ {p} : votes'[q] = votes[q] /\ casting'[q] = casting[q]
    BY DEF RevertVote, TypeOK, outcome
<1>2. announced = 0 => p \notin dead BY <1>1 DEF DeadAreSilent
<1>3. mayVote' \subseteq mayVote \cup {p} BY DEF RevertVote, Cleared
<1>4. DeadAreSilent'
    <2> SUFFICES ASSUME announced = 0 PROVE DeadAreSilent'
        BY <1>1 DEF DeadAreSilent
    <2>1. mayVote' \cap dead' = {} BY <1>1, <1>2, <1>3 DEF DeadAreSilent
    <2>2. \A q \in dead' : votes'[q] = NotVoted /\ casting'[q] = 0
        <3>1. dead' \subseteq Player \ {p} BY <1>1, <1>2 DEF TypeOK
        <3> QED BY <1>1, <3>1 DEF DeadAreSilent
    <2> QED BY <1>1, <2>1, <2>2 DEF DeadAreSilent
<1>5. CASE p \notin gone
    <2>1. ~HasVoted(votes'[p])
        BY <1>5, SpecialVotes DEF RevertVote, TypeOK, HasVoted, MeetingAssumption
    <2>2. announced = 0 => CanVote(p)' BY <1>1, <1>2 DEF CanVote
    <2> QED BY <1>1, <1>4, <2>1, <2>2 DEF NoResultIsMissed
<1>6. CASE p \in gone
    <2>1. CASE HasVoted(votes[p])
        <3>1. HasVoted(votes'[p]) /\ p \in gone'
            BY <1>1, <1>6, <2>1 DEF RevertVote
        <3> QED BY <1>4, <3>1 DEF NoResultIsMissed
    <2>2. CASE ~HasVoted(votes[p])
        <3>1. ~HasVoted(votes'[p]) BY <1>6, <2>2 DEF RevertVote
        <3>2. CanVote(p)' BY <1>1, <1>6 DEF CanVote
        <3> QED BY <1>4, <3>1, <3>2 DEF NoResultIsMissed
    <2> QED BY <2>1, <2>2
<1> QED BY <1>5, <1>6

\* A vote that ends without a result has found somebody to wait for.
LEMMA AwaitedFinish ==
    ASSUME MeetingAssumption, AwaitedInv, NEW p \in Player, FinishCast(p)
    PROVE  DeadAreSilent' /\ NoResultIsMissed'
<1> USE DEF AwaitedInv
<1>1. CASE EverybodyVoted(votes)
    <2>1. announced' # 0 BY <1>1, ResultCounts DEF FinishCast
    <2> QED BY <2>1 DEF DeadAreSilent, NoResultIsMissed
<1>2. CASE ~EverybodyVoted(votes)
    <2>1. UNCHANGED <<votes, dead, gone, announced, aftermath, mayVote>>
        BY <1>2 DEF FinishCast, outcome
    <2>2. PICK q \in Player : CanVote(q) /\ ~HasVoted(votes[q])
        BY <1>2 DEF EverybodyVoted
    <2>3. CanVote(q)' /\ ~HasVoted(votes'[q]) BY <2>1, <2>2 DEF CanVote
    <2>4. announced = 0 => p \notin dead
        <3>1. casting[p] > 0 BY DEF FinishCast
        <3>2. announced = 0 /\ p \in dead => casting[p] = 0 BY DEF DeadAreSilent
        <3> QED BY <3>1, <3>2
    <2>5. \A r \in Player \ {p} : casting'[r] = casting[r]
        BY DEF FinishCast, TypeOK
    <2>6. DeadAreSilent' BY <2>1, <2>4, <2>5 DEF DeadAreSilent, TypeOK
    <2> QED BY <2>3, <2>6 DEF NoResultIsMissed
<1> QED BY <1>1, <1>2

\* Leaving takes votes away and makes nobody unable to vote.
LEMMA AwaitedLeave ==
    ASSUME MeetingAssumption, AwaitedInv, NEW p \in Player, Leave(p)
    PROVE  DeadAreSilent' /\ NoResultIsMissed'
<1> USE DEF AwaitedInv
<1>1. /\ UNCHANGED <<dead, casting, announced, aftermath>>
      /\ gone \subseteq gone'
    BY DEF Leave, outcome
<1>2. \A q \in Player : \/ votes'[q] = votes[q]
                        \/ q \notin gone /\ votes[q] = p /\ votes'[q] = NotVoted
    BY DEF Leave, TypeOK
<1>3. ASSUME announced = 0, NEW q \in Player, q \in mayVote'
      PROVE  q \notin dead
    <2>1. q \in mayVote \/ votes[q] = p BY <1>3 DEF Leave
    <2> QED BY <1>3, <2>1, SpecialVotes DEF DeadAreSilent
<1>4. DeadAreSilent'
    BY <1>1, <1>2, <1>3, SpecialVotes DEF DeadAreSilent, TypeOK, Leave
<1>5. \A q \in Player : HasVoted(votes'[q]) => HasVoted(votes[q])
    BY <1>2, SpecialVotes DEF HasVoted, MeetingAssumption
<1>6. \A q \in gone : votes'[q] = votes[q] BY <1>2 DEF TypeOK
<1>7. \A q \in Player : CanVote(q) => CanVote(q)' BY <1>1 DEF CanVote
<1>8. Casting' = Casting BY <1>1 DEF Casting
<1>9. NoResultIsMissed' BY <1>1, <1>5, <1>6, <1>7, <1>8 DEF NoResultIsMissed
<1> QED BY <1>4, <1>9

\* Before the result nothing of an aftermath is there.
LEMMA AwaitedAftermath ==
    ASSUME AwaitedInv, NEW k \in 1 .. Len(aftermath), Aftermath(k)
    PROVE  DeadAreSilent' /\ NoResultIsMissed'
<1>1. announced' = announced
    BY DEF Aftermath, KillExiled, Close, FinishMeeting, GoOn
<1>2. announced # 0 BY DEF AwaitedInv, DeadAreSilent
<1> QED BY <1>1, <1>2 DEF DeadAreSilent, NoResultIsMissed

\* However votes, their listeners, reverts and leaving players overlap: unless
\* a voter has left, no vote is the last one without having been checked.
THEOREM VotesAreChecked ==
    ASSUME MeetingAssumption
    PROVE  Spec => []NoResultIsMissed
<1>1. Init => AwaitedInv
    <2> SUFFICES ASSUME Init PROVE AwaitedInv OBVIOUS
    <2>1. DeadAreSilent BY DEF Init, DeadAreSilent
    <2>2. \A p \in Player : ~HasVoted(votes[p])
        BY SpecialVotes DEF Init, HasVoted, MeetingAssumption
    <2> QED BY <2>1, <2>2, TypeInit DEF AwaitedInv, NoResultIsMissed
<1>2. AwaitedInv /\ [Next]_vars => AwaitedInv'
    <2> SUFFICES ASSUME AwaitedInv, [Next]_vars PROVE AwaitedInv' OBVIOUS
    <2>1. CASE UNCHANGED vars
        BY <2>1 DEF vars, server, outcome, AwaitedInv, TypeOK, DeadAreSilent,
                    NoResultIsMissed, Casting, CanVote
    <2>2. CASE Next
        <3>1. TypeOK'
            BY <2>2, TypeCast, TypeRevert, TypeFinishCast, TypeLeave,
               TypeRunOutOfTime, TypeAftermath DEF Next, AwaitedInv
        <3>2. CASE RunOutOfTime
            <4>1. announced' # 0
                BY <3>2, ResultCounts DEF RunOutOfTime, AwaitedInv
            <4> QED BY <3>1, <4>1 DEF AwaitedInv, DeadAreSilent, NoResultIsMissed
        <3>3. DeadAreSilent' /\ NoResultIsMissed'
            BY <2>2, <3>2, AwaitedCast, AwaitedRevert, AwaitedFinish,
               AwaitedLeave, AwaitedAftermath DEF Next, AwaitedInv
        <3> QED BY <3>1, <3>3 DEF AwaitedInv
    <2> QED BY <2>1, <2>2
<1>3. AwaitedInv => NoResultIsMissed BY DEF AwaitedInv
<1> QED BY <1>1, <1>2, <1>3, PTL DEF Spec

-----------------------------------------------------------------------------
(* One result. *)

Plain == ~timed /\ ~suspends

\* Without suspension one vote at a time is dealt with.
OneCasting ==
    ~suspends => /\ \A p \in Player : casting[p] <= 1
                 /\ \A p, q \in Casting : p = q

\* Before the result, who may vote lives and is not on record with a vote,
\* and who is dead never voted.
Undecided ==
    announced = 0 =>
        /\ aftermath = <<>>
        /\ mayVote \cap dead = {}
        /\ \A p \in mayVote \ gone : ~HasVoted(votes[p])
        /\ \A p \in dead : votes[p] = NotVoted /\ casting[p] = 0

\* After the result of a plain meeting, nobody who is there may vote and no
\* vote is waiting: nothing is left that could give another one.
Decided ==
    Plain => /\ ~timer
             /\ announced # 0 => /\ announced = 1
                                 /\ mayVote \subseteq gone
                                 /\ Casting = {}

OneResultInv == TypeOK /\ OneCasting /\ (Plain => Undecided) /\ Decided

LEMMA HasVotedFacts ==
    ASSUME MeetingAssumption
    PROVE  /\ ~HasVoted(NotVoted)
           /\ \A s \in Player \cup {Skipped} : HasVoted(s)
BY SpecialVotes DEF HasVoted, MeetingAssumption

\* Votes that were recorded and a vote that ends.
LEMMA CastingEnds ==
    ASSUME TypeOK, OneCasting, ~suspends, NEW p \in Player, casting[p] > 0,
           casting' = [casting EXCEPT ![p] = @ - 1]
    PROVE  Casting' = {}
<1>1. casting[p] = 1 BY DEF OneCasting, TypeOK
<1>2. \A q \in Player \ {p} : casting[q] = 0
    BY DEF OneCasting, Casting, TypeOK
<1>3. \A q \in Player : casting'[q] = 0 BY <1>1, <1>2 DEF TypeOK
<1> QED BY <1>3 DEF Casting

LEMMA CastingLess ==
    ASSUME TypeOK, OneCasting, NEW p \in Player, casting[p] > 0,
           casting' = [casting EXCEPT ![p] = @ - 1], suspends' = suspends
    PROVE  OneCasting'
<1>1. ASSUME ~suspends, NEW q \in Player PROVE casting'[q] <= 1
    BY <1>1 DEF OneCasting, TypeOK
<1>2. Casting' \subseteq Casting BY DEF Casting, TypeOK
<1> QED BY <1>1, <1>2 DEF OneCasting

\* The only vote that waits.
LEMMA CastingBegins ==
    ASSUME TypeOK, Casting = {}, NEW p \in Player,
           casting' = [casting EXCEPT ![p] = @ + 1]
    PROVE  /\ Casting' = {p}
           /\ \A q \in Player : casting'[q] <= 1
<1>1. casting \in [Player -> Nat] BY DEF TypeOK
<1>2. ASSUME NEW q \in Player PROVE casting[q] = 0
    <2>1. ~(casting[q] > 0) BY DEF Casting
    <2>2. casting[q] \in Nat BY <1>1
    <2> QED BY <2>1, <2>2
<1>3. casting'[p] = 1 BY <1>1, <1>2
<1>4. ASSUME NEW q \in Player \ {p} PROVE casting'[q] = 0 BY <1>1, <1>2
<1>5. Casting' = {p}
    <2>1. \A q \in Player : casting'[q] > 0 => q = p BY <1>4
    <2>2. casting'[p] > 0 BY <1>3
    <2> QED BY <2>1, <2>2 DEF Casting
<1> QED BY <1>3, <1>4, <1>5

LEMMA OneInit == ASSUME MeetingAssumption, Init PROVE OneResultInv
<1>1. TypeOK BY TypeInit
<1>2. OneCasting BY DEF Init, OneCasting, Casting
<1>3. Undecided BY HasVotedFacts DEF Init, Undecided
<1>4. Decided BY DEF Init, Decided, Plain
<1> QED BY <1>1, <1>2, <1>3, <1>4 DEF OneResultInv

LEMMA OneCast ==
    ASSUME MeetingAssumption, OneResultInv,
           NEW p \in Player, NEW s \in Player \cup {Skipped}, Cast(p, s)
    PROVE  OneResultInv'
<1> USE DEF OneResultInv
<1>1. TypeOK' BY TypeCast
<1>2. OneCasting'
    <2>1. ASSUME ~suspends PROVE Casting' = {p} /\ \A q \in Player : casting'[q] <= 1
        BY <2>1, CastingBegins DEF Cast, Idle
    <2> QED BY <2>1 DEF OneCasting, Cast, config
<1>3. ASSUME Plain PROVE announced = 0
    BY <1>3 DEF Decided, Cast
<1>4. Plain' => Undecided'
    <2> SUFFICES ASSUME Plain PROVE Undecided' BY DEF Plain, Cast, config
    <2>1. p \notin dead BY <1>3 DEF Cast, Undecided
    <2>2. \A q \in Player \ {p} : votes'[q] = votes[q] /\ casting'[q] = casting[q]
        BY DEF Cast, TypeOK
    <2> QED BY <1>3, <2>1, <2>2 DEF Undecided, Cast, outcome, TypeOK
<1>5. Decided' BY <1>3 DEF Decided, Plain, Cast, outcome, config
<1> QED BY <1>1, <1>2, <1>4, <1>5

LEMMA OneRevert ==
    ASSUME MeetingAssumption, OneResultInv, NEW p \in Player, RevertVote(p)
    PROVE  OneResultInv'
<1> USE DEF OneResultInv
<1>1. TypeOK' BY TypeRevert
<1>2. OneCasting' BY CastingLess DEF RevertVote, config
<1>3. ASSUME Plain PROVE announced = 0
    BY <1>3 DEF Decided, RevertVote, Casting
<1>4. Plain' => Undecided'
    <2> SUFFICES ASSUME Plain PROVE Undecided' BY DEF Plain, RevertVote, config
    <2>1. p \notin dead BY <1>3 DEF RevertVote, Undecided
    <2>2. \A q \in Player \ {p} : votes'[q] = votes[q] /\ casting'[q] = casting[q]
        BY DEF RevertVote, TypeOK
    <2>3. p \notin gone => ~HasVoted(votes'[p])
        BY HasVotedFacts DEF RevertVote, TypeOK
    <2>4. mayVote' \subseteq mayVote \cup {p}
        BY DEF RevertVote, Cleared
    <2>5. \A q \in mayVote' \ gone : ~HasVoted(votes'[q])
        BY <1>3, <2>2, <2>3, <2>4 DEF Undecided, TypeOK
    <2>6. \A q \in dead : votes'[q] = NotVoted /\ casting'[q] = 0
        BY <1>3, <2>1, <2>2 DEF Undecided, TypeOK
    <2>7. mayVote' \cap dead = {} BY <1>3, <2>1, <2>4 DEF Undecided
    <2> QED BY <1>3, <2>5, <2>6, <2>7 DEF Undecided, RevertVote, outcome
<1>5. Decided' BY <1>3 DEF Decided, Plain, RevertVote, outcome, config
<1> QED BY <1>1, <1>2, <1>4, <1>5

LEMMA OneFinishCast ==
    ASSUME MeetingAssumption, OneResultInv, NEW p \in Player, FinishCast(p)
    PROVE  OneResultInv'
<1> USE DEF OneResultInv
<1>1. TypeOK' BY TypeFinishCast
<1>2. OneCasting' BY CastingLess DEF FinishCast, config
<1>3. ASSUME Plain PROVE announced = 0
    BY <1>3 DEF Decided, FinishCast, Casting
<1>4. CASE EverybodyVoted(votes)
    <2>1. announced' = announced + 1 BY <1>4 DEF FinishCast, Announce
    <2>2. ASSUME Plain PROVE mayVote' \subseteq gone'
        <3>1. \A q \in mayVote \ gone : ~HasVoted(votes[q]) /\ q \notin dead
            BY <1>3, <2>2 DEF Undecided
        <3>2. \A q \in mayVote \ gone : CanVote(q) /\ q \in Player
            BY <3>1 DEF CanVote, TypeOK
        <3> QED BY <1>4, <3>1, <3>2 DEF EverybodyVoted, FinishCast
    <2>3. ASSUME Plain PROVE Casting' = {}
        BY <2>3, CastingEnds DEF FinishCast, Plain
    <2>4. Decided'
        BY <1>3, <2>1, <2>2, <2>3 DEF Decided, Plain, FinishCast, config
    <2>5. Undecided' BY <2>1 DEF Undecided, TypeOK
    <2> QED BY <1>1, <1>2, <2>4, <2>5
<1>5. CASE ~EverybodyVoted(votes)
    <2>1. UNCHANGED <<votes, outcome, dead, gone, mayVote, timer, config>>
        BY <1>5 DEF FinishCast
    <2>2. \A q \in Player \ {p} : casting'[q] = casting[q]
        BY DEF FinishCast, TypeOK
    <2>3. casting[p] > 0 BY DEF FinishCast
    <2>4. ASSUME Plain PROVE Undecided'
        <3>1. \A q \in dead : votes[q] = NotVoted /\ casting[q] = 0
            BY <1>3, <2>4 DEF Undecided
        <3>2. ASSUME NEW q \in dead PROVE casting'[q] = 0
            <4>1. q # p BY <2>3, <3>1
            <4>2. q \in Player BY DEF TypeOK
            <4> QED BY <2>2, <3>1, <4>1, <4>2
        <3> QED BY <1>3, <2>1, <2>4, <3>1, <3>2 DEF Undecided, outcome
    <2>5. Decided' BY <1>3, <2>1 DEF Decided, Plain, outcome, config
    <2> QED BY <1>1, <1>2, <2>1, <2>4, <2>5 DEF Plain, config
<1> QED BY <1>4, <1>5

LEMMA OneLeave ==
    ASSUME MeetingAssumption, OneResultInv, NEW p \in Player, Leave(p)
    PROVE  OneResultInv'
<1> USE DEF OneResultInv
<1>1. TypeOK' BY TypeLeave
<1>2. OneCasting' BY DEF OneCasting, Casting, Leave, config
<1>3. ASSUME Plain, announced = 0 PROVE Undecided'
    <2> DEFINE voters == IF open THEN {q \in Player \ gone : votes[q] = p} ELSE {}
    <2>1. \A q \in Player : votes'[q] = IF q \in voters THEN NotVoted ELSE votes[q]
        BY DEF Leave
    <2>2. mayVote' = (mayVote \cup voters) \ {p} BY <1>3 DEF Leave
    <2>3. voters \cap dead = {}
        BY <1>3, SpecialVotes DEF Undecided
    <2>4. \A q \in mayVote' \ gone' : ~HasVoted(votes'[q])
        BY <1>3, <2>1, <2>2, HasVotedFacts DEF Undecided, Leave, TypeOK
    <2>5. \A q \in dead : votes'[q] = NotVoted
        BY <1>3, <2>1, <2>3 DEF Undecided, TypeOK
    <2>6. mayVote' \cap dead = {} BY <1>3, <2>2, <2>3 DEF Undecided
    <2> QED BY <1>3, <2>4, <2>5, <2>6 DEF Undecided, Leave, outcome
<1>4. Plain' => Undecided' BY <1>3 DEF Plain, Leave, config, Undecided, outcome
<1>5. Decided' BY DEF Decided, Plain, Leave, outcome, config, Casting
<1> QED BY <1>1, <1>2, <1>4, <1>5

LEMMA OneAftermath ==
    ASSUME OneResultInv, NEW k \in 1 .. Len(aftermath), Aftermath(k)
    PROVE  OneResultInv'
<1> USE DEF OneResultInv
<1>1. TypeOK' BY TypeAftermath
<1>2. UNCHANGED <<config, votes, casting, gone, announced, mayVote>>
    BY DEF Aftermath, KillExiled, Close, FinishMeeting, GoOn
<1>3. timer' => timer
    BY DEF Aftermath, KillExiled, Close, FinishMeeting
<1>4. OneCasting' BY <1>2 DEF OneCasting, Casting, config
<1>5. ASSUME Plain PROVE announced # 0
    BY <1>5 DEF Undecided
<1>6. Plain' => Undecided' BY <1>2, <1>5 DEF Undecided, Plain, config
<1>7. Decided' BY <1>2, <1>3 DEF Decided, Plain, config, Casting
<1> QED BY <1>1, <1>4, <1>6, <1>7

\* A meeting without a time-out whose listeners do not suspend announces one
\* result, whoever leaves and whichever votes are reverted.
THEOREM OneResultIsAnnounced ==
    ASSUME MeetingAssumption
    PROVE  Spec => []OneResult
<1>1. Init => OneResultInv BY OneInit
<1>2. OneResultInv /\ [Next]_vars => OneResultInv'
    <2> SUFFICES ASSUME OneResultInv, [Next]_vars PROVE OneResultInv' OBVIOUS
    <2>1. CASE UNCHANGED vars
        BY <2>1 DEF vars, server, outcome, config, OneResultInv, TypeOK, OneCasting,
           Casting, Undecided, Decided, Plain
    <2>2. CASE RunOutOfTime
        <3>1. ~Plain BY <2>2 DEF RunOutOfTime, OneResultInv, Decided
        <3>2. TypeOK' BY <2>2, TypeRunOutOfTime DEF OneResultInv
        <3> QED BY <2>2, <3>1, <3>2 DEF RunOutOfTime, OneResultInv, OneCasting,
                Casting, Decided, Plain, config
    <2> QED BY <2>1, <2>2, OneCast, OneRevert, OneFinishCast, OneLeave, OneAftermath
            DEF Next
<1>3. OneResultInv => OneResult
    BY DEF OneResultInv, Decided, Plain, OneResult, TypeOK
<1> QED BY <1>1, <1>2, <1>3, PTL DEF Spec
-----------------------------------------------------------------------------
(* The loop that counts the votes.                                         *)

\* The best player so far and its votes; a turn of the loop at player x.
Best == [player : Player \cup {Nobody}, votes : Nat]
None == [player |-> Nobody, votes |-> 0]
Turn(v, x, best) ==
    CASE Count(v, x) = 0 \/ Count(v, x) < best.votes -> best
      [] Count(v, x) > best.votes -> [player |-> x, votes |-> Count(v, x)]
      [] OTHER -> [player |-> Nobody, votes |-> Count(v, x)]

\* Sets of natural numbers have least elements: the induction over the turns
\* takes the first turn at which something would fail.
LEMMA LeastExists ==
    ASSUME NEW S \in SUBSET Nat, S # {}
    PROVE  \E m \in S : \A n \in S : m <= n
<1> DEFINE R == {ss \in Nat \X Nat : ss[1] < ss[2]}
<1>1. IsWellFoundedOn(R, Nat) BY NatLessThanWellFounded DEF OpToRel
<1>2. PICK m \in S : \A n \in S : ~(<<n, m>> \in R)
    <2> HIDE DEF R
    <2> QED BY <1>1, WFMin
<1>3. \A n \in S : ~(n < m)
    <2> SUFFICES ASSUME NEW n \in S, n < m PROVE FALSE OBVIOUS
    <2>1. <<n, m>> \in R OBVIOUS
    <2> QED BY <1>2, <2>1
<1> QED BY <1>3

LEMMA CountIsNat == ASSUME EndAssumption, NEW v, NEW x PROVE Count(v, x) \in Nat
<1>1. IsFiniteSet({p \in Player : v[p] = x}) BY FS_Subset DEF EndAssumption
<1> QED BY <1>1, FS_CardinalityType DEF Count

LEMMA TurnType ==
    ASSUME EndAssumption, NEW v, NEW x \in Player, NEW best \in Best
    PROVE  Turn(v, x, best) \in Best
<1>1. Count(v, x) \in Nat BY CountIsNat
<1>2. best.votes \in Nat BY DEF Best
<1>3. CASE Count(v, x) = 0 \/ Count(v, x) < best.votes
    <2>1. Turn(v, x, best) = best BY <1>1, <1>2, <1>3 DEF Turn
    <2> QED BY <2>1
<1>4. CASE ~(Count(v, x) = 0 \/ Count(v, x) < best.votes) /\ Count(v, x) > best.votes
    BY <1>1, <1>4 DEF Turn, Best
<1>5. CASE ~(Count(v, x) = 0 \/ Count(v, x) < best.votes) /\ ~(Count(v, x) > best.votes)
    BY <1>1, <1>5 DEF Turn, Best
<1> QED BY <1>3, <1>4, <1>5

\* f is what the loop has after each of the first k turns.
Loop(f, v, k) ==
    /\ f \in [0 .. k -> Best]
    /\ f[0] = None
    /\ \A n \in 1 .. k : f[n] = Turn(v, Order[n], f[n - 1])

LEMMA LoopRuns ==
    ASSUME MeetingAssumption, EndAssumption, NEW v
    PROVE  \E f : Loop(f, v, Len(Order))
<1> DEFINE N == Len(Order)
           Bad == {k \in 0 .. N : ~\E f : Loop(f, v, k)}
<1>0. N \in Nat /\ \A n \in 1 .. N : Order[n] \in Player
    BY MeetingAssumption DEF MeetingAssumption
<1>1. SUFFICES ASSUME Bad # {} PROVE FALSE BY <1>0
<1>2. PICK k \in Bad : \A n \in Bad : k <= n
    <2>1. Bad \in SUBSET Nat BY <1>0
    <2> HIDE DEF Bad
    <2> QED BY <1>1, <2>1, LeastExists
<1>3. k # 0
    <2> SUFFICES Loop([n \in 0 .. 0 |-> None], v, 0) OBVIOUS
    <2> QED BY DEF Loop, None, Best
<1>4. k \in 1 .. N /\ k - 1 \in 0 .. N BY <1>0, <1>3
<1>5. PICK f : Loop(f, v, k - 1)
    <2>1. ~(k <= k - 1) BY <1>0, <1>4
    <2>2. k - 1 \notin Bad BY <1>2, <2>1
    <2> QED BY <1>4, <2>2
<1> DEFINE g == [n \in 0 .. k |-> IF n = k THEN Turn(v, Order[k], f[k - 1])
                                 ELSE f[n]]
<1>6. Loop(g, v, k)
    <2>1. f \in [0 .. k - 1 -> Best] /\ f[0] = None BY <1>5 DEF Loop
    <2>2. f[k - 1] \in Best BY <1>0, <1>4, <2>1
    <2>3. Turn(v, Order[k], f[k - 1]) \in Best BY <1>0, <1>4, <2>2, TurnType
    <2>4. \A n \in 0 .. k : n # k => n \in 0 .. k - 1 BY <1>0, <1>4
    <2>5. g \in [0 .. k -> Best] BY <2>1, <2>3, <2>4
    <2>6. g[0] = None BY <1>0, <1>3, <1>4, <2>1
    <2>7. ASSUME NEW n \in 1 .. k PROVE g[n] = Turn(v, Order[n], g[n - 1])
        <3>1. n - 1 \in 0 .. k /\ n - 1 # k BY <1>0, <1>4
        <3>2. g[n - 1] = f[n - 1] BY <3>1
        <3>3. CASE n = k BY <3>2, <3>3
        <3>4. CASE n # k
            <4>1. n \in 1 .. k - 1 /\ n \in 0 .. k BY <1>0, <1>4, <3>4
            <4>2. f[n] = Turn(v, Order[n], f[n - 1]) BY <1>5, <4>1 DEF Loop
            <4> QED BY <3>2, <3>4, <4>1, <4>2
        <3> QED BY <3>3, <3>4
    <2> QED BY <2>5, <2>6, <2>7 DEF Loop
<1> QED BY <1>2, <1>6

\* The result of the loop is what Tally gives.
LEMMA TallyIsLoop ==
    ASSUME MeetingAssumption, EndAssumption, NEW v
    PROVE  \E f : Loop(f, v, Len(Order)) /\ Tally(v) = f[Len(Order)]
<1> DEFINE N == Len(Order)
           Body(f) ==
            [n \in 0 .. N |->
                IF n = 0 THEN [player |-> Nobody, votes |-> 0]
                ELSE LET best == f[n - 1]
                         num == Count(v, Order[n])
                     IN  CASE num = 0 \/ num < best.votes -> best
                           [] num > best.votes -> [player |-> Order[n], votes |-> num]
                           [] OTHER -> [player |-> Nobody, votes |-> num]]
           after == CHOOSE f : f = Body(f)
<1>0. N \in Nat /\ \A n \in 1 .. N : Order[n] \in Player
    BY MeetingAssumption DEF MeetingAssumption
<1>1. Tally(v) = after[N] BY DEF Tally
<1>2. ASSUME NEW f PROVE Body(f) = [n \in 0 .. N |-> IF n = 0 THEN None
                                                    ELSE Turn(v, Order[n], f[n - 1])]
    BY DEF None, Turn
<1>3. PICK h : Loop(h, v, N) BY LoopRuns
<1>4. h = Body(h)
    <2>1. h = [n \in 0 .. N |-> h[n]] BY <1>3 DEF Loop
    <2>2. ASSUME NEW n \in 0 .. N
          PROVE  h[n] = IF n = 0 THEN None ELSE Turn(v, Order[n], h[n - 1])
        <3>1. n # 0 => n \in 1 .. N BY <1>0
        <3> QED BY <1>3, <3>1 DEF Loop
    <2>3. h = [n \in 0 .. N |-> IF n = 0 THEN None ELSE Turn(v, Order[n], h[n - 1])]
        BY <2>1, <2>2
    <2> HIDE DEF Body
    <2> QED BY <1>2, <2>3
<1>5. after = Body(after)
    <2> HIDE DEF Body
    <2> QED BY <1>4
<1> DEFINE B == [n \in 0 .. N |-> IF n = 0 THEN None
                                 ELSE Turn(v, Order[n], after[n - 1])]
<1>6. after = B
    <2> HIDE DEF Body, after, B
    <2>1. Body(after) = B BY <1>2 DEF B
    <2> QED BY <1>5, <2>1
<1>7. Loop(after, v, N)
    <2> HIDE DEF after
    <2> DEFINE Bad == {n \in 0 .. N : after[n] \notin Best}
    <2>1. after[0] = None BY <1>0, <1>6
    <2>2. ASSUME NEW n \in 1 .. N PROVE after[n] = Turn(v, Order[n], after[n - 1])
        <3>1. n \in 0 .. N /\ n # 0 BY <1>0
        <3>2. after[n] = B[n] BY <1>6
        <3> QED BY <3>1, <3>2
    <2>3. Bad = {}
        <3>1. SUFFICES ASSUME Bad # {} PROVE FALSE OBVIOUS
        <3>2. PICK k \in Bad : \A n \in Bad : k <= n
            <4>1. Bad \in SUBSET Nat BY <1>0
            <4> HIDE DEF Bad
            <4> QED BY <3>1, <4>1, LeastExists
        <3>3. k # 0 BY <2>1, <3>2 DEF None, Best
        <3>4. k \in 1 .. N /\ k - 1 \in 0 .. N BY <1>0, <3>2, <3>3
        <3>5. after[k - 1] \in Best
            <4>1. ~(k <= k - 1) BY <1>0, <3>4
            <4>2. k - 1 \notin Bad BY <3>2, <4>1
            <4> QED BY <3>4, <4>2
        <3>6. after[k] = Turn(v, Order[k], after[k - 1]) BY <2>2, <3>4
        <3>7. Order[k] \in Player BY <1>0, <3>4
        <3>8. Turn(v, Order[k], after[k - 1]) \in Best BY <3>5, <3>7, TurnType
        <3>9. after[k] \in Best BY <3>6, <3>8
        <3> QED BY <3>2, <3>9
    <2>4. after \in [0 .. N -> Best]
        <3>1. DOMAIN after = 0 .. N /\ after = [n \in 0 .. N |-> after[n]] BY <1>6
        <3> QED BY <2>3, <3>1
    <2> QED BY <2>1, <2>2, <2>4 DEF Loop
<1> QED BY <1>1, <1>7
\* No two turns of the loop are for the same player.
LEMMA TurnOfPlayer ==
    ASSUME MeetingAssumption
    PROVE  /\ Len(Order) \in Nat
           /\ \A n \in 1 .. Len(Order) : Order[n] \in Player
           /\ \A p \in Player : \E n \in 1 .. Len(Order) : p = Order[n]
           /\ \A i, j \in 1 .. Len(Order) : Order[i] = Order[j] => i = j
           /\ Nobody \notin Player
BY DEF MeetingAssumption

\* The votes of the players, in their order.
Counts(v) == [i \in 1 .. Len(Order) |-> Count(v, Order[i])]

\* After n turns best has at least as many of the votes c as the first n
\* players; it is the only one of them with as many, or nobody is, because two
\* have as many or none has any.
Leads(c, n, best) ==
    /\ \A i \in 1 .. n : c[i] <= best.votes
    /\ best.player = Nobody /\ best.votes > 0 =>
        \E i, j \in 1 .. n : i # j /\ c[i] = best.votes /\ c[j] = best.votes
    /\ best.player # Nobody =>
        /\ best.votes > 0
        /\ \E i \in 1 .. n : /\ best.player = Order[i] /\ c[i] = best.votes
                             /\ \A j \in 1 .. n : j # i => c[j] < best.votes

LEMMA CountsType ==
    ASSUME MeetingAssumption, EndAssumption, NEW v
    PROVE  Counts(v) \in [1 .. Len(Order) -> Nat]
BY CountIsNat DEF Counts

LEMMA TurnLeads ==
    ASSUME MeetingAssumption, EndAssumption, NEW v, NEW n \in 1 .. Len(Order),
           NEW best \in Best, Leads(Counts(v), n - 1, best)
    PROVE  Leads(Counts(v), n, Turn(v, Order[n], best))
<1> DEFINE c == Counts(v)
           m == best.votes
           next == Turn(v, Order[n], best)
<1>0. Len(Order) \in Nat BY TurnOfPlayer
<1>1. /\ n \in Nat /\ n - 1 \in Nat /\ n \in 1 .. n
      /\ 1 .. n - 1 \subseteq 1 .. Len(Order) /\ 1 .. n \subseteq 1 .. Len(Order)
      /\ \A i \in 1 .. n : i = n \/ i \in 1 .. n - 1
      /\ \A i \in 1 .. n - 1 : i \in 1 .. n /\ i # n
    BY <1>0
<1>2. Order[n] # Nobody BY TurnOfPlayer
<1>3. m \in Nat /\ c \in [1 .. Len(Order) -> Nat] BY CountsType DEF Best
<1>4. next = CASE c[n] = 0 \/ c[n] < m -> best
               [] c[n] > m -> [player |-> Order[n], votes |-> c[n]]
               [] OTHER -> [player |-> Nobody, votes |-> c[n]]
    BY DEF Turn, Counts
<1>5. SUFFICES Leads(c, n, next) OBVIOUS
<1> HIDE DEF c, next
<1>6. c[n] \in Nat /\ \A i \in 1 .. n - 1 : c[i] \in Nat BY <1>1, <1>3
<1>7. /\ \A i \in 1 .. n - 1 : c[i] <= m
      /\ best.player = Nobody /\ m > 0 =>
            \E i, j \in 1 .. n - 1 : i # j /\ c[i] = m /\ c[j] = m
      /\ best.player # Nobody =>
            /\ m > 0
            /\ \E i \in 1 .. n - 1 : /\ best.player = Order[i] /\ c[i] = m
                                     /\ \A j \in 1 .. n - 1 : j # i => c[j] < m
    BY DEF Leads, c
<1>8. CASE c[n] = 0 \/ c[n] < m
    <2>1. next = best BY <1>3, <1>4, <1>6, <1>8
    <2>2. c[n] <= m BY <1>3, <1>6, <1>8
    <2>3. \A i \in 1 .. n : c[i] <= m BY <1>1, <1>7, <2>2
    <2>4. m > 0 => c[n] < m BY <1>3, <1>6, <1>8
    <2>5. best.player = Nobody /\ m > 0 =>
            \E i, j \in 1 .. n : i # j /\ c[i] = m /\ c[j] = m
        BY <1>1, <1>7
    <2>6. ASSUME best.player # Nobody
          PROVE  /\ m > 0
                 /\ \E i \in 1 .. n : /\ best.player = Order[i] /\ c[i] = m
                                      /\ \A j \in 1 .. n : j # i => c[j] < m
        <3>1. m > 0 BY <1>7, <2>6
        <3>2. PICK i \in 1 .. n - 1 :
                /\ best.player = Order[i] /\ c[i] = m
                /\ \A j \in 1 .. n - 1 : j # i => c[j] < m
            BY <1>7, <2>6
        <3>3. i \in 1 .. n /\ \A j \in 1 .. n : j # i => c[j] < m
            BY <1>1, <2>4, <3>1, <3>2
        <3> QED BY <3>1, <3>2, <3>3
    <2> QED BY <2>1, <2>3, <2>5, <2>6 DEF Leads
<1>9. CASE c[n] > m
    <2>1. /\ next = [player |-> Order[n], votes |-> c[n]]
          /\ next.player = Order[n] /\ next.votes = c[n]
        BY <1>3, <1>4, <1>6, <1>9
    <2>2. ASSUME NEW i \in 1 .. n - 1 PROVE c[i] < c[n]
        <3>1. c[i] \in Nat /\ c[i] <= m BY <1>6, <1>7
        <3>2. m \in Nat /\ c[n] \in Nat /\ m < c[n] BY <1>3, <1>6, <1>9
        <3>3. \A x, y, z \in Nat : x <= y /\ y < z => x < z OBVIOUS
        <3> HIDE DEF m
        <3> QED BY <3>1, <3>2, <3>3
    <2>3. c[n] > 0 BY <1>3, <1>6, <1>9
    <2>4. ASSUME NEW i \in 1 .. n PROVE c[i] <= c[n]
        <3>1. CASE i = n BY <1>6, <3>1
        <3>2. CASE i \in 1 .. n - 1
            <4>1. c[i] \in Nat /\ c[i] < c[n] BY <1>6, <2>2, <3>2
            <4> QED BY <1>6, <4>1
        <3> QED BY <1>1, <3>1, <3>2
    <2>5. \A j \in 1 .. n : j # n => c[j] < c[n] BY <1>1, <2>2
    <2> QED BY <1>1, <1>2, <2>1, <2>3, <2>4, <2>5 DEF Leads
<1>10. CASE c[n] = m /\ c[n] # 0
    <2>1. /\ next = [player |-> Nobody, votes |-> c[n]]
          /\ next.player = Nobody /\ next.votes = c[n]
        BY <1>3, <1>4, <1>6, <1>10
    <2>2. PICK i \in 1 .. n - 1 : c[i] = m
        <3>1. m > 0 BY <1>3, <1>10
        <3> QED BY <1>7, <3>1
    <2>3. i \in 1 .. n /\ i # n BY <1>1
    <2>4. \A j \in 1 .. n : c[j] <= c[n] BY <1>1, <1>3, <1>7, <1>10
    <2> QED BY <1>1, <1>10, <2>1, <2>2, <2>3, <2>4 DEF Leads
<1> QED BY <1>3, <1>6, <1>8, <1>9, <1>10

LEMMA TallyLeads ==
    ASSUME MeetingAssumption, EndAssumption, NEW v
    PROVE  Tally(v) \in Best /\ Leads(Counts(v), Len(Order), Tally(v))
<1> DEFINE N == Len(Order)
<1>0. N \in Nat BY TurnOfPlayer
<1>1. PICK f : Loop(f, v, N) /\ Tally(v) = f[N] BY TallyIsLoop
<1>2. /\ f \in [0 .. N -> Best] /\ f[0] = None
      /\ \A n \in 1 .. N : f[n] = Turn(v, Order[n], f[n - 1])
    BY <1>1 DEF Loop
<1> DEFINE Bad == {n \in 0 .. N : ~Leads(Counts(v), n, f[n])}
<1>3. Bad = {}
    <2>1. SUFFICES ASSUME Bad # {} PROVE FALSE OBVIOUS
    <2>2. PICK k \in Bad : \A n \in Bad : k <= n
        <3>1. Bad \in SUBSET Nat BY <1>0
        <3> HIDE DEF Bad
        <3> QED BY <2>1, <3>1, LeastExists
    <2>3. k # 0 BY <1>2, <2>2 DEF Leads, None
    <2>4. k \in 1 .. N /\ k - 1 \in 0 .. N BY <1>0, <2>2, <2>3
    <2>5. Leads(Counts(v), k - 1, f[k - 1])
        <3>1. ~(k <= k - 1) BY <1>0, <2>4
        <3>2. k - 1 \notin Bad BY <2>2, <3>1
        <3> QED BY <2>4, <3>2
    <2>6. f[k - 1] \in Best BY <1>2, <2>4
    <2>7. f[k] = Turn(v, Order[k], f[k - 1]) BY <1>2, <2>4
    <2>8. Leads(Counts(v), k, Turn(v, Order[k], f[k - 1]))
        BY <2>4, <2>5, <2>6, TurnLeads
    <2> QED BY <2>2, <2>7, <2>8
<1>4. N \in 0 .. N BY <1>0
<1>5. Tally(v) \in Best BY <1>1, <1>2, <1>4
<1>6. Leads(Counts(v), N, f[N]) BY <1>3, <1>4
<1> QED BY <1>1, <1>5, <1>6

\* Who has more votes than any other player and than there are skips.
WinnersOf(v) ==
    {p \in Player \ gone :
        /\ Count(v, p) > Count(v, Skipped)
        /\ \A q \in Player \ {p} : Count(v, p) > Count(v, q)}

\* What the result best of the loop says of the votes c of the players.
Says(c, best) ==
    /\ \A p \in Player : c[p] <= best.votes
    /\ best.player \in Player =>
        /\ best.votes > 0 /\ c[best.player] = best.votes
        /\ \A q \in Player \ {best.player} : c[q] < best.votes
    /\ best.player = Nobody /\ best.votes > 0 =>
        \E p, q \in Player : p # q /\ c[p] = best.votes /\ c[q] = best.votes

LEMMA TallySays ==
    ASSUME MeetingAssumption, EndAssumption, NEW v
    PROVE  Says([p \in Player |-> Count(v, p)], Tally(v))
<1> DEFINE best == Tally(v)
           c == [p \in Player |-> Count(v, p)]
           d == Counts(v)
           N == Len(Order)
<1>1. /\ \A n \in 1 .. N : Order[n] \in Player /\ d[n] = c[Order[n]]
      /\ \A p \in Player : \E n \in 1 .. N : p = Order[n]
      /\ \A i, j \in 1 .. N : Order[i] = Order[j] => i = j
      /\ Nobody \notin Player
    BY TurnOfPlayer DEF Counts
<1>2. Leads(d, N, best) BY TallyLeads
<1> HIDE DEF best, c, d, N
<1>3. ASSUME NEW p \in Player PROVE c[p] <= best.votes
    <2>1. PICK n \in 1 .. N : p = Order[n] BY <1>1
    <2>2. d[n] <= best.votes BY <1>2 DEF Leads
    <2> QED BY <1>1, <2>1, <2>2
<1>4. ASSUME best.player \in Player
      PROVE  /\ best.votes > 0 /\ c[best.player] = best.votes
             /\ \A q \in Player \ {best.player} : c[q] < best.votes
    <2>1. best.player # Nobody BY <1>1, <1>4
    <2>2. best.votes > 0 BY <1>2, <2>1 DEF Leads
    <2>3. PICK i \in 1 .. N : /\ best.player = Order[i] /\ d[i] = best.votes
                              /\ \A j \in 1 .. N : j # i => d[j] < best.votes
        BY <1>2, <2>1 DEF Leads
    <2>4. c[best.player] = best.votes BY <1>1, <2>3
    <2>5. ASSUME NEW q \in Player \ {best.player} PROVE c[q] < best.votes
        <3>1. PICK j \in 1 .. N : q = Order[j] BY <1>1
        <3>2. j # i BY <2>3, <3>1
        <3> QED BY <1>1, <2>3, <3>1, <3>2
    <2> QED BY <2>2, <2>4, <2>5
<1>5. ASSUME best.player = Nobody, best.votes > 0
      PROVE  \E p, q \in Player : p # q /\ c[p] = best.votes /\ c[q] = best.votes
    <2>1. PICK i \in 1 .. N, j \in 1 .. N :
                i # j /\ d[i] = best.votes /\ d[j] = best.votes
        BY <1>2, <1>5 DEF Leads
    <2>2. /\ Order[i] \in Player /\ c[Order[i]] = best.votes
          /\ Order[j] \in Player /\ c[Order[j]] = best.votes
          /\ Order[i] # Order[j]
        BY <1>1, <2>1
    <2> QED BY <2>2
<1>6. Says(c, best) BY <1>3, <1>4, <1>5 DEF Says
<1> QED BY <1>6 DEF best, c

\* For any order of any players the loop exiles exactly the winner.
LEMMA ExiledIsWinner ==
    ASSUME MeetingAssumption, EndAssumption, NEW v
    PROVE  WinnersOf(v) = IF Exiled(v) = Nobody THEN {} ELSE {Exiled(v)}
<1> DEFINE best == Tally(v)
           c == [p \in Player |-> Count(v, p)]
           skips == Count(v, Skipped)
<1>1. c \in [Player -> Nat] /\ skips \in Nat BY CountIsNat
<1>2. best \in Best BY TallyLeads
<1>3. /\ \A p \in Player : c[p] <= best.votes
      /\ best.player \in Player =>
            /\ best.votes > 0 /\ c[best.player] = best.votes
            /\ \A q \in Player \ {best.player} : c[q] < best.votes
      /\ best.player = Nobody /\ best.votes > 0 =>
            \E p, q \in Player : p # q /\ c[p] = best.votes /\ c[q] = best.votes
    <2>1. Says(c, best) BY TallySays
    <2> HIDE DEF c, best
    <2> QED BY <2>1 DEF Says
<1>4. WinnersOf(v) = {p \in Player \ gone :
                        /\ c[p] > skips
                        /\ \A q \in Player \ {p} : c[p] > c[q]}
    BY DEF WinnersOf
<1>5. Exiled(v) = IF best.player \in Player \ gone /\ skips < best.votes
                  THEN best.player ELSE Nobody
    BY DEF Exiled
<1>6. Nobody \notin Player BY TurnOfPlayer
<1>7. best.votes \in Nat /\ best.player \in Player \cup {Nobody} BY <1>2 DEF Best
<1> HIDE DEF c, skips, best
<1>8. ASSUME NEW p \in WinnersOf(v)
      PROVE  p = best.player /\ skips < best.votes
    <2>1. /\ p \in Player \ gone /\ c[p] > skips
          /\ \A q \in Player \ {p} : c[p] > c[q]
        BY <1>4
    <2>2. c[p] \in Nat /\ c[p] <= best.votes BY <1>1, <1>3, <2>1
    <2>3. best.votes > skips /\ best.votes > 0
        <3>1. \A a, b, d \in Nat : a > b /\ a <= d => d > b /\ d > 0 OBVIOUS
        <3> QED BY <1>1, <1>7, <2>1, <2>2, <3>1
    <2>4. ASSUME NEW q \in Player, c[q] = best.votes PROVE q = p
        <3>1. SUFFICES ASSUME q # p PROVE FALSE OBVIOUS
        <3>2. c[p] > c[q] BY <2>1, <3>1
        <3> QED BY <1>7, <2>2, <2>4, <3>2
    <2>5. best.player # Nobody BY <1>3, <2>3, <2>4
    <2> QED BY <1>3, <1>7, <2>3, <2>4, <2>5
<1>9. ASSUME best.player \in Player \ gone, skips < best.votes
      PROVE  best.player \in WinnersOf(v)
    <2>1. c[best.player] > skips BY <1>1, <1>3, <1>7, <1>9
    <2>2. ASSUME NEW q \in Player \ {best.player} PROVE c[best.player] > c[q]
        <3>1. c[q] < best.votes /\ c[q] \in Nat BY <1>1, <1>3, <1>9
        <3>2. c[best.player] = best.votes BY <1>3, <1>9
        <3> QED BY <1>7, <3>1, <3>2
    <2> QED BY <1>4, <1>9, <2>1, <2>2
<1>10. WinnersOf(v) \subseteq Player \ gone BY DEF WinnersOf
<1>11. CASE best.player \in Player \ gone /\ skips < best.votes
    <2>1. Exiled(v) = best.player /\ Exiled(v) # Nobody BY <1>5, <1>6, <1>11
    <2>2. WinnersOf(v) = {best.player} BY <1>8, <1>9, <1>11
    <2> QED BY <2>1, <2>2
<1>12. CASE ~(best.player \in Player \ gone /\ skips < best.votes)
    <2>1. Exiled(v) = Nobody BY <1>5, <1>12
    <2>2. WinnersOf(v) = {} BY <1>8, <1>10, <1>12
    <2> QED BY <2>1, <2>2
<1> QED BY <1>11, <1>12

\* Whatever the players vote, skip or miss, and whoever has left: who is exiled
\* is the one that has more votes on record than any other player and than
\* there are skips, and nobody is exiled only if there is no such player.
THEOREM WinnerIsExiled ==
    ASSUME MeetingAssumption, EndAssumption
    PROVE  Spec => ExiledWonTheVote
<1> DEFINE Right == LET r == aftermath'[Len(aftermath')] IN
                    /\ r.exiled = Nobody => Winners = {}
                    /\ r.exiled # Nobody => Winners = {r.exiled}
<1>1. ASSUME TypeOK, NEW v, Announce(v), WinnersOf(v) = Winners PROVE Right
    <2> DEFINE r == [exiled |-> Exiled(v), stage |-> "announced"]
    <2>1. aftermath' = Append(aftermath, r) BY <1>1 DEF Announce
    <2>2. aftermath \in Seq(Result) BY <1>1 DEF TypeOK, Result
    <2>3. aftermath'[Len(aftermath')] = r BY <2>1, <2>2
    <2>4. Winners = IF Exiled(v) = Nobody THEN {} ELSE {Exiled(v)}
        BY <1>1, ExiledIsWinner
    <2> QED BY <2>3, <2>4
<1>2. TypeOK /\ [Next]_vars => [announced' # announced => Right]_vars
    <2> SUFFICES ASSUME TypeOK, Next, announced' # announced PROVE Right
        BY DEF vars, server, outcome
    <2> HIDE DEF Right
    <2>1. CASE RunOutOfTime
        <3> DEFINE v == [p \in Player |-> IF votes[p] = NotVoted THEN Missed
                                          ELSE votes[p]]
        <3>1. \A p \in Player, x \in Player \cup {Skipped} : v[p] = x <=> votes[p] = x
            BY SpecialVotes DEF MeetingAssumption
        <3>2. Announce(v) BY <2>1 DEF RunOutOfTime
        <3> HIDE DEF v
        <3>3. \A x \in Player \cup {Skipped} : Count(v, x) = Count(votes, x)
            <4>1. ASSUME NEW x \in Player \cup {Skipped}
                  PROVE  {p \in Player : v[p] = x} = {p \in Player : votes[p] = x}
                <5>1. \A p \in Player : v[p] = x <=> votes[p] = x BY <3>1
                <5> QED BY <5>1
            <4> QED BY <4>1 DEF Count
        <3>4. WinnersOf(v) = Winners BY <3>3 DEF WinnersOf, Winners
        <3> QED BY <1>1, <3>2, <3>4
    <2>2. ASSUME NEW p \in Player, FinishCast(p) PROVE Right
        <3>1. Announce(votes) BY <2>2 DEF FinishCast, outcome
        <3> QED BY <1>1, <3>1 DEF WinnersOf, Winners
    <2>3. \/ RunOutOfTime \/ \E p \in Player : FinishCast(p)
        BY DEF Next, Cast, RevertVote, Leave, Aftermath, KillExiled, Close,
               FinishMeeting, GoOn, outcome
    <2> QED BY <2>1, <2>2, <2>3
<1> QED BY <1>2, MeetingTypeCorrect, PTL DEF Spec, ExiledWonTheVote
=============================================================================
