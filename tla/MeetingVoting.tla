--------------------------- MODULE MeetingVoting ---------------------------
(***************************************************************************)
(* A meeting of SkeldJS, run by the server: MeetingHud from the step that  *)
(* spawns it to the end of the timers it leaves behind, with the part of   *)
(* Hostable.handleLeave that touches it.                                   *)
(*                                                                         *)
(* A vote is recorded when its message arrives; then the listeners of      *)
(* meeting.castvote are awaited, which may suspend and may revert the      *)
(* vote, and only then it is checked whether everybody has voted.  A       *)
(* result is followed by two sleeps of five seconds: the exiled player     *)
(* dies and the meeting closes after the first, the end of the game is     *)
(* checked after the second, and the time-out of the meeting is cleared    *)
(* after that.  Time is not modelled: a sleep or the time-out may end at   *)
(* any later moment, but the sleeps of an earlier result end earlier.      *)
(*                                                                         *)
(* The clients are external: a living player votes once, and again if it   *)
(* was told that its vote was cleared; its vote may be on its way when the *)
(* result is announced.                                                    *)
(***************************************************************************)
EXTENDS EndConditions, Integers

CONSTANTS
    Order,      \* the players in the order of GameData.players
    Skipped,    \* VoteStateSpecialId.SkippedVote
    Missed,     \* VoteStateSpecialId.MissedVote
    NotVoted,   \* VoteStateSpecialId.NotVoted
    Nobody,     \* no player is exiled
    MaxMissing, \* bound: players that have died or left before
    MaxGone,    \* bound: players that have left
    MaxCasting  \* bound: votes that wait for their listeners at once

ASSUME MeetingAssumption ==
    /\ Player \subseteq Nat
    /\ Order \in Seq(Player)
    /\ Player = {Order[i] : i \in 1 .. Len(Order)}
    /\ \A i, j \in 1 .. Len(Order) : Order[i] = Order[j] => i = j
    /\ {Skipped, Missed, NotVoted, Nobody} \cap Player = {}
    /\ Skipped # Missed
    /\ NotVoted \notin {Skipped, Missed}

VARIABLES
    timed,      \* settings.votingTime > 0
    suspends,   \* the listeners of plugins take time
    votes,      \* meetingHud.voteStates: votedForId of each player
    casting,    \* how many votes of a player wait for their listeners
    dead,       \* players flagged as dead
    gone,       \* players that have left
    open,       \* room.meetingHud is this meeting
    timer,      \* ranOutOfTimeTimeout is running
    announced,  \* results announced so far
    aftermath,  \* the results whose votingComplete is suspended, and where
    intents,    \* room.endGameIntents: the reasons in it
    mayVote     \* clients that have not voted, as far as they know

outcome == <<announced, aftermath>>
server == <<votes, casting, dead, gone, open, timer, outcome, intents>>
vars == <<timed, suspends, server, mayVote>>
config == <<timed, suspends>>

Vote == Player \cup {Skipped, Missed, NotVoted}
HasVoted(vote) == vote \in Player \cup {Skipped}

\* A player that has left has no info: nothing says that it cannot vote.
CanVote(p) == p \in gone \/ p \notin dead

Count(v, x) == Cardinality({p \in Player : v[p] = x})

\* Calls that do not suspend are over before anything else happens.
Casting == {p \in Player : casting[p] > 0}
Idle == suspends \/ Casting = {}

-----------------------------------------------------------------------------
\* A meeting is spawned; players have died and left before it.
Init ==
    /\ timed \in BOOLEAN
    /\ suspends \in BOOLEAN
    /\ votes = [p \in Player |-> NotVoted]
    /\ casting = [p \in Player |-> 0]
    /\ dead \in SUBSET Player
    /\ gone \in SUBSET Player
    /\ Cardinality(dead \cup gone) <= MaxMissing
    /\ open = TRUE
    /\ timer = timed
    /\ announced = 0
    /\ aftermath = <<>>
    /\ intents = {}
    /\ mayVote = Player \ (dead \cup gone)

-----------------------------------------------------------------------------
(* The result. *)

\* Mutant of Tally: the later of two equal players wins.
TallyLast(v) ==
    LET after[n \in 0 .. Len(Order)] ==
            IF n = 0 THEN [player |-> Nobody, votes |-> 0]
            ELSE LET best == after[n - 1]
                     num == Count(v, Order[n])
                 IN  IF num > 0 /\ num >= best.votes
                     THEN [player |-> Order[n], votes |-> num]
                     ELSE best
    IN  after[Len(Order)]

\* The loop of checkForVoteComplete over the vote states: the best player so
\* far, unless another one has as many votes, and its votes.
Tally(v) ==
    LET after[n \in 0 .. Len(Order)] ==
            IF n = 0 THEN [player |-> Nobody, votes |-> 0]
            ELSE LET best == after[n - 1]
                     num == Count(v, Order[n])
                 IN  CASE num = 0 \/ num < best.votes -> best
                       [] num > best.votes -> [player |-> Order[n], votes |-> num]
                       [] OTHER -> [player |-> Nobody, votes |-> num]
    IN  after[Len(Order)]

\* Mutant of Exiled: a meeting that is skipped exiles the skip.
ExiledOrSkip(v) ==
    LET best == Tally(v) IN
    IF best.player \in Player \ gone /\ Count(v, Skipped) < best.votes
    THEN best.player
    ELSE IF Count(v, Skipped) > best.votes THEN Skipped ELSE Nobody

\* A player that has left is not found, and skips may outweigh the best.
Exiled(v) ==
    LET best == Tally(v) IN
    IF best.player \in Player \ gone /\ Count(v, Skipped) < best.votes
    THEN best.player
    ELSE Nobody

\* _populateStates: the state of player i takes the i-th vote, counted from 0.
Populated(v) ==
    [p \in Player |-> IF p < Len(Order) THEN v[Order[p + 1]] ELSE v[p]]

\* votingComplete, up to the first sleep.
Announce(v) ==
    /\ votes' = Populated(v)
    /\ announced' = announced + 1
    /\ aftermath' = Append(aftermath, [exiled |-> Exiled(v), stage |-> "announced"])

\* Mutant of EverybodyVoted: the dead are waited for.
EverybodyHasVoted(v) == \A p \in Player : HasVoted(v[p])

EverybodyVoted(v) == \A p \in Player : HasVoted(v[p]) \/ ~CanVote(p)

-----------------------------------------------------------------------------
(* Votes. *)

\* A vote of p for s, or a skip, arrives: _handleCastVote up to its await.
\* The meeting is found by its net id, both players by their controls.
Cast(p, s) ==
    /\ Idle
    /\ open
    /\ p \in mayVote \ gone
    /\ casting[p] + Cardinality(Casting \ {p}) < MaxCasting
    /\ s = Skipped \/ s \in Player \ gone
    /\ votes' = [votes EXCEPT ![p] = s]
    /\ casting' = [casting EXCEPT ![p] = @ + 1]
    /\ mayVote' = mayVote \ {p}
    /\ UNCHANGED <<config, dead, gone, open, timer, outcome, intents>>

\* Clients whose vote is cleared before a result is announced vote again.
Cleared(S) == mayVote' = IF announced = 0 THEN mayVote \cup S ELSE mayVote

\* The listeners revert the vote: what is recorded now is cleared.
RevertVote(p) ==
    /\ casting[p] > 0
    /\ casting' = [casting EXCEPT ![p] = @ - 1]
    /\ IF p \in gone
       THEN UNCHANGED <<votes, mayVote>>
       ELSE /\ votes' = [votes EXCEPT ![p] = IF HasVoted(@) THEN NotVoted ELSE @]
            /\ Cleared({p})
    /\ UNCHANGED <<config, dead, gone, open, timer, outcome, intents>>

\* The listeners are done: checkForVoteComplete(false).
FinishCast(p) ==
    /\ casting[p] > 0
    /\ casting' = [casting EXCEPT ![p] = @ - 1]
    /\ IF EverybodyVoted(votes)
       THEN Announce(votes)
       ELSE UNCHANGED <<votes, outcome>>
    /\ UNCHANGED <<config, dead, gone, open, timer, intents, mayVote>>

\* Mutant of RunOutOfTime: the result still waits for the votes.
RunOutOfVotes ==
    /\ Idle
    /\ timer
    /\ timer' = FALSE
    /\ IF EverybodyVoted(votes)
       THEN Announce(votes)
       ELSE UNCHANGED <<votes, outcome>>
    /\ UNCHANGED <<config, casting, dead, gone, open, intents, mayVote>>

\* The voting time is over: who has not voted has missed it.
RunOutOfTime ==
    /\ Idle
    /\ timer
    /\ timer' = FALSE
    /\ Announce([p \in Player |-> IF votes[p] = NotVoted THEN Missed ELSE votes[p]])
    /\ UNCHANGED <<config, casting, dead, gone, open, intents, mayVote>>

-----------------------------------------------------------------------------
(* A player leaves. *)

\* A meeting is followed until nothing of it is left to happen.
Ongoing == open \/ timer \/ aftermath # <<>>

\* Mutant of Leave: the votes for the player stand.
LeaveVoted(p) ==
    /\ Idle
    /\ Ongoing
    /\ p \notin gone
    /\ Cardinality(gone) < MaxGone
    /\ gone' = gone \cup {p}
    /\ intents' = intents \cup DisconnectIntents(dead, gone')
    /\ mayVote' = mayVote \ {p}
    /\ UNCHANGED <<config, votes, casting, dead, open, timer, outcome>>

\* handleLeave: votes for the player are cleared, of voters who are there.
Leave(p) ==
    LET voters == IF open THEN {q \in Player \ gone : votes[q] = p} ELSE {} IN
    /\ Idle
    /\ Ongoing
    /\ p \notin gone
    /\ Cardinality(gone) < MaxGone
    /\ gone' = gone \cup {p}
    /\ intents' = intents \cup DisconnectIntents(dead, gone')
    /\ votes' = [q \in Player |-> IF q \in voters THEN NotVoted ELSE votes[q]]
    /\ mayVote' = (IF announced = 0 THEN mayVote \cup voters ELSE mayVote) \ {p}
    /\ UNCHANGED <<config, casting, dead, open, timer, outcome>>

-----------------------------------------------------------------------------
(* The aftermath of a result: the k-th whose votingComplete is suspended. *)

Stage(k, stage) ==
    /\ aftermath[k].stage = stage
    /\ \A j \in 1 .. k - 1 : aftermath[j].stage # stage

GoOn(k, stage) ==
    /\ aftermath' = [aftermath EXCEPT ![k].stage = stage]
    /\ UNCHANGED announced

\* Five seconds later the exiled player dies, if it is there.
KillExiled(k) ==
    /\ Idle
    /\ Stage(k, "announced")
    /\ dead' = IF aftermath[k].exiled \in Player \ gone
               THEN dead \cup {aftermath[k].exiled} ELSE dead
    /\ GoOn(k, "killing")
    /\ UNCHANGED <<config, votes, casting, gone, open, timer, intents, mayVote>>

\* The listeners of player.die are done; they may revert the death.
Close(k) ==
    /\ aftermath[k].stage = "killing"
    /\ dead' \in {dead, dead \ {aftermath[k].exiled}}
    /\ open' = FALSE
    /\ GoOn(k, "closed")
    /\ UNCHANGED <<config, votes, casting, gone, timer, intents, mayVote>>

\* Five seconds later the end of the game is checked and the timer cleared.
FinishMeeting(k) ==
    /\ Idle
    /\ Stage(k, "closed")
    /\ intents' = IF aftermath[k].exiled = Nobody THEN intents
                  ELSE intents \cup VoteIntents(aftermath[k].exiled, dead, gone)
    /\ timer' = FALSE
    /\ aftermath' = SubSeq(aftermath, 1, k - 1)
                        \o SubSeq(aftermath, k + 1, Len(aftermath))
    /\ UNCHANGED announced
    /\ UNCHANGED <<config, votes, casting, dead, gone, open, mayVote>>

Aftermath(k) == KillExiled(k) \/ Close(k) \/ FinishMeeting(k)

Next ==
    \/ \E p \in Player :
        \/ \E s \in Player \cup {Skipped} : Cast(p, s)
        \/ RevertVote(p)
        \/ FinishCast(p)
        \/ Leave(p)
    \/ RunOutOfTime
    \/ \E k \in 1 .. Len(aftermath) : Aftermath(k)

Spec == Init /\ [][Next]_vars

\* Timers expire, also when calls come in again and again, and awaited
\* promises settle.  Nobody has to vote or leave.
Fairness ==
    /\ SF_vars(RunOutOfTime)
    /\ \A p \in Player : WF_vars(RevertVote(p) \/ FinishCast(p))
    /\ SF_vars(\E k \in 1 .. Len(aftermath) : Aftermath(k))

FairSpec == Spec /\ Fairness
-----------------------------------------------------------------------------
TypeOK ==
    /\ {timed, suspends, open, timer} \subseteq BOOLEAN
    /\ votes \in [Player -> Vote]
    /\ casting \in [Player -> Nat]
    /\ dead \subseteq Player
    /\ gone \subseteq Player
    /\ mayVote \subseteq Player
    /\ announced \in Nat
    /\ aftermath \in Seq([exiled : Player \cup {Nobody},
                          stage : {"announced", "killing", "closed"}])
    /\ intents \subseteq Reasons

\* Until the result, a player that is there is never on record with a vote
\* for a player that has left, however the votes, their listeners and the
\* leaving overlap (handleLeave clears them; a vote for a player that is not
\* found is ignored).  A result ends this where ids are not places in the
\* order of the players: _populateStates then gives votes to other players.
VotesForPresent ==
    open /\ announced = 0 => \A p \in Player \ gone : votes[p] \notin gone

\* No result is missed: if there are votes and all of them have been checked,
\* some player that could vote has not, however votes, reverts and leaving
\* players overlap (_handleCastVote checks after its await, handleLeave does
\* not check).  It may be missed where a voter has left: reverting its vote
\* then neither clears it nor checks anything.
NoResultIsMissed ==
    /\ announced = 0
    /\ Casting = {}
    /\ \E p \in Player : HasVoted(votes[p])
    /\ \A p \in gone : ~HasVoted(votes[p])
    => \E p \in Player : CanVote(p) /\ ~HasVoted(votes[p])

\* Whoever is exiled has more votes than any other player and than there are
\* skips, by the votes on record when the result is announced; nobody is
\* exiled only when no player that is there does.
Winners ==
    {p \in Player \ gone :
        /\ Count(votes, p) > Count(votes, Skipped)
        /\ \A q \in Player \ {p} : Count(votes, p) > Count(votes, q)}

ExiledWonTheVote ==
    [][announced' # announced =>
            LET r == aftermath'[Len(aftermath')] IN
            /\ r.exiled = Nobody => Winners = {}
            /\ r.exiled # Nobody => Winners = {r.exiled}]_vars

\* A meeting without a time-out, whose listeners do not suspend, announces
\* one result.
OneResult == ~timed /\ ~suspends => announced <= 1

\* A meeting with a time-out comes to an end, whatever the players do.
MeetingEnds == timed ~> ~open
=============================================================================
