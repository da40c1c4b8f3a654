------------------------------ MODULE GameEnd ------------------------------
(***************************************************************************)
(* How a game of which the server is the host comes to its end: what       *)
(* decides it (murders, the player a meeting exiles, players that leave,   *)
(* tasks), each of which checks the counts on its own and registers an     *)
(* end-game intent, and BaseRoom.FixedUpdate, which takes the registered   *)
(* intents, offers them to the listeners one after the other and ends the  *)
(* game with the first that none of them cancels.                          *)
(*                                                                         *)
(* FixedUpdate is called every millisecond and is not kept from            *)
(* overlapping: while the listeners of one call are awaited, players act   *)
(* and the next call takes the next intents.                               *)
(***************************************************************************)
EXTENDS EndConditions, SequencesExt

CONSTANTS
    Tasks,      \* tasks of each crewmate
    MaxGone,    \* bound: players that leave
    MaxMurders, \* bound: murders that are under way at once
    MaxIntents, \* bound: intents that wait or may be added
    MaxUpdates, \* bound: overlapping calls of FixedUpdate and handleEnd
    MaxCancels  \* bound: how often listeners cancel or revert

ASSUME GameAssumption ==
    /\ Tasks \in Nat
    /\ MaxUpdates \in Nat \ {0}
    /\ MaxCancels \in Nat

VARIABLES
    suspends,   \* listeners take time
    cancels,    \* how often listeners will yet cancel an end or revert a death
    dead,       \* players flagged as dead
    gone,       \* players that have left
    left,       \* tasks that a crewmate has not completed
    murders,    \* murders under way: killer, victim, and how far they are
    exile,      \* the exile under way, and how far it is
    state,      \* room.gameState
    objects,    \* room.gameData and room.shipStatus are there
    intents,    \* room.endGameIntents
    updates,    \* suspended calls of FixedUpdate: intents kept, and to offer
    ends,       \* suspended calls of handleEnd: their reasons
    endings     \* reasons of the EndGame messages sent

players == <<dead, gone, left>>
acts == <<murders, exile>>
room == <<state, objects, endings>>
queues == <<intents, updates, ends>>
config == <<suspends, cancels>>
vars == <<config, players, acts, room, queues>>

NoExile == [player |-> 0, stage |-> "none"]

Init ==
    /\ suspends \in BOOLEAN
    /\ cancels \in 0 .. MaxCancels
    /\ dead = {}
    /\ gone = {}
    /\ left = [p \in Crew |-> Tasks]
    /\ murders = <<>>
    /\ exile = NoExile
    /\ state = "Started"
    /\ objects = TRUE
    /\ intents = <<>>
    /\ updates = <<>>
    /\ ends = <<>>
    /\ endings = <<>>

\* Calls that do not suspend are over before anything else happens.
Idle ==
    suspends \/ (murders = <<>> /\ updates = <<>> /\ ends = <<>> /\ exile.stage # "dying")

\* Listeners cancel or revert what they are told of, or they do not.
Listeners(cancel) ==
    /\ cancel => cancels > 0
    /\ cancels' = IF cancel THEN cancels - 1 ELSE cancels
    /\ UNCHANGED suspends

\* registerEndGameIntent, after a check that finds the objects of the game.
Register(new) ==
    intents' = IF objects THEN intents \o SetToSeq(new) ELSE intents

\* Bound: intents that wait, and what is under way that may add one.
Room ==
    Len(intents) + Len(murders) + (IF exile = NoExile THEN 0 ELSE 1) < MaxIntents

-----------------------------------------------------------------------------
(* Murders. *)

\* murderIsValid
MurderIsValid(killer, victim) ==
    /\ state = "Started"
    /\ killer \in Impostor \ (dead \cup gone)
    /\ victim \notin dead

\* The client of an impostor asks for a murder, which is found valid, and the
\* listeners of player.checkmurder are awaited.
CheckMurder(killer, victim) ==
    /\ Idle
    /\ objects
    /\ Room
    /\ Len(murders) < MaxMurders
    /\ killer # victim
    /\ victim \notin gone
    /\ MurderIsValid(killer, victim)
    /\ murders' = Append(murders, [victim |-> victim, stage |-> "checking"])
    /\ UNCHANGED <<config, players, exile, room, queues>>

Advance(k, stage) == murders' = [murders EXCEPT ![k].stage = stage]

\* murderPlayer: the victim dies, whatever became of the two meanwhile.
Murder(k) ==
    /\ murders[k].stage = "checking"
    /\ dead' = IF objects /\ murders[k].victim \notin gone
               THEN dead \cup {murders[k].victim} ELSE dead
    /\ Advance(k, "dying")
    /\ UNCHANGED <<config, gone, left, exile, room, queues>>

\* A guardian angel protects the victim: the murder ends here.
Protect(k) ==
    /\ murders[k].stage = "checking"
    /\ murders' = RemoveAt(murders, k)
    /\ UNCHANGED <<config, players, exile, room, queues>>

\* The listeners of player.die may revert the death.
Die(k) ==
    /\ murders[k].stage = "dying"
    /\ \E revert \in BOOLEAN :
        /\ Listeners(revert)
        /\ dead' = IF revert THEN dead \ {murders[k].victim} ELSE dead
    /\ Advance(k, "dead")
    /\ UNCHANGED <<gone, left, exile, room, queues>>

\* The listeners of player.murder are done: _checkMurderEndGame.
FinishMurder(k) ==
    /\ murders[k].stage = "dead"
    /\ Register(KillIntents(dead, gone))
    /\ murders' = RemoveAt(murders, k)
    /\ UNCHANGED <<config, players, exile, room, updates, ends>>

-----------------------------------------------------------------------------
(* The player a meeting exiles: _votingComplete after its first sleep. *)

ExileDies(p) ==
    /\ Idle
    /\ objects
    /\ Room
    /\ exile.stage = "none"
    /\ p \notin dead \cup gone
    /\ dead' = dead \cup {p}
    /\ exile' = [player |-> p, stage |-> "dying"]
    /\ UNCHANGED <<config, gone, left, murders, room, queues>>

\* The listeners of player.die; the meeting closes and sleeps again.
ExileClosed ==
    /\ exile.stage = "dying"
    /\ \E revert \in BOOLEAN :
        /\ Listeners(revert)
        /\ dead' = IF revert THEN dead \ {exile.player} ELSE dead
    /\ exile' = [exile EXCEPT !.stage = "closed"]
    /\ UNCHANGED <<gone, left, murders, room, queues>>

ExileChecked ==
    /\ Idle
    /\ exile.stage = "closed"
    /\ Register(VoteIntents(exile.player, dead, gone))
    /\ exile' = NoExile
    /\ UNCHANGED <<config, players, murders, room, updates, ends>>

-----------------------------------------------------------------------------
(* Tasks, and players that leave. *)

\* Mutant of CompleteTask: a task that is reported again counts again.
CompleteTaskAgain(p) ==
    /\ Idle
    /\ objects
    /\ Room
    /\ p \notin gone
    /\ left' = [left EXCEPT ![p] = @ - 1]
    /\ Register(TaskIntents(left', Tasks, gone))
    /\ UNCHANGED <<config, dead, gone, acts, room, updates, ends>>

\* completeTask.  A task that is reported again changes no count, and is not
\* followed: it may register the intent of an earlier report once more.
CompleteTask(p) ==
    /\ Idle
    /\ objects
    /\ Room
    /\ p \notin gone
    /\ left[p] > 0
    /\ left' = [left EXCEPT ![p] = @ - 1]
    /\ Register(TaskIntents(left', Tasks, gone))
    /\ UNCHANGED <<config, dead, gone, acts, room, updates, ends>>

\* handleLeave: only in a started game are the players who remain counted.
\* After the end it is not followed.
Leave(p) ==
    /\ Idle
    /\ objects
    /\ Room
    /\ p \notin gone
    /\ Cardinality(gone) < MaxGone
    /\ gone' = gone \cup {p}
    /\ Register(IF state = "Started" THEN DisconnectIntents(dead, gone') ELSE {})
    /\ UNCHANGED <<config, dead, left, acts, room, updates, ends>>

-----------------------------------------------------------------------------
(* FixedUpdate and handleEnd. *)

\* The intents are taken, and the first is offered to the listeners.
FixedUpdate ==
    /\ Idle
    /\ intents # <<>>
    /\ Len(updates) + Len(ends) < MaxUpdates
    /\ updates' = Append(updates, [kept |-> <<>>, rest |-> intents])
    /\ intents' = <<>>
    /\ UNCHANGED <<config, players, acts, room, ends>>

\* endGame: handleEnd up to the await of the listeners of room.gameend.
EndGame(reason) ==
    /\ state' = "Ended"
    /\ ends' = Append(ends, reason)

\* Mutant of OfferIntent: the intents are emptied after they were offered.
OfferIntentLate(u) ==
    LET update == updates[u] IN
    /\ \E cancel \in BOOLEAN :
        LET kept == IF cancel THEN update.kept
                                ELSE Append(update.kept, Head(update.rest))
            done == Tail(update.rest) = <<>>
        IN  /\ Listeners(cancel)
            /\ updates' = IF done
                          THEN RemoveAt(updates, u)
                          ELSE [updates EXCEPT ![u] =
                                    [kept |-> kept, rest |-> Tail(update.rest)]]
            /\ intents' = IF done THEN <<>> ELSE intents
            /\ IF done /\ kept # <<>>
               THEN EndGame(Head(kept))
               ELSE UNCHANGED <<state, ends>>
    /\ UNCHANGED <<players, acts, objects, endings>>

\* The listeners of an intent are done; after the last one the game ends with
\* the first that was not cancelled.
OfferIntent(u) ==
    LET update == updates[u] IN
    /\ \E cancel \in BOOLEAN :
        LET kept == IF cancel THEN update.kept
                                ELSE Append(update.kept, Head(update.rest))
            done == Tail(update.rest) = <<>>
        IN  /\ Listeners(cancel)
            /\ updates' = IF done
                          THEN RemoveAt(updates, u)
                          ELSE [updates EXCEPT ![u] =
                                    [kept |-> kept, rest |-> Tail(update.rest)]]
            /\ IF done /\ kept # <<>>
               THEN EndGame(Head(kept))
               ELSE UNCHANGED <<state, ends>>
    /\ UNCHANGED <<players, acts, intents, objects, endings>>

\* Mutant of CancelEnd: the game is not started again.
CancelEndForGood(e) ==
    /\ Listeners(TRUE)
    /\ ends' = RemoveAt(ends, e)
    /\ UNCHANGED <<players, acts, intents, updates, room>>

\* The listeners of room.gameend cancel the end.
CancelEnd(e) ==
    /\ Listeners(TRUE)
    /\ state' = "Started"
    /\ ends' = RemoveAt(ends, e)
    /\ UNCHANGED <<players, acts, intents, updates, objects, endings>>

\* The objects of the game are despawned and the clients are told.
FinishEnd(e) ==
    /\ ends' = RemoveAt(ends, e)
    /\ endings' = Append(endings, ends[e])
    /\ objects' = FALSE
    /\ UNCHANGED <<config, players, acts, intents, updates, state>>

-----------------------------------------------------------------------------
ContinueMurder(k) == Murder(k) \/ Protect(k) \/ Die(k) \/ FinishMurder(k)
ContinueEnd(e) == CancelEnd(e) \/ FinishEnd(e)

Next ==
    \/ \E killer \in Impostor, victim \in Player : CheckMurder(killer, victim)
    \/ \E k \in 1 .. Len(murders) : ContinueMurder(k)
    \/ \E p \in Player : ExileDies(p) \/ Leave(p)
    \/ ExileClosed
    \/ ExileChecked
    \/ \E p \in Crew : CompleteTask(p)
    \/ FixedUpdate
    \/ \E u \in 1 .. Len(updates) : OfferIntent(u)
    \/ \E e \in 1 .. Len(ends) : ContinueEnd(e)

Spec == Init /\ [][Next]_vars

\* Awaited promises settle and timers fire, also when calls come in between.
Fairness ==
    /\ \A k \in 1 .. MaxMurders : WF_vars(k <= Len(murders) /\ ContinueMurder(k))
    /\ WF_vars(ExileClosed)
    /\ SF_vars(ExileChecked)
    /\ SF_vars(FixedUpdate)
    /\ WF_vars(\E u \in 1 .. Len(updates) : OfferIntent(u))
    /\ WF_vars(\E e \in 1 .. Len(ends) : ContinueEnd(e))

FairSpec == Spec /\ Fairness

-----------------------------------------------------------------------------
TypeOK ==
    /\ {suspends, objects} \subseteq BOOLEAN
    /\ cancels \in 0 .. MaxCancels
    /\ dead \subseteq Player
    /\ gone \subseteq Player
    /\ left \in [Crew -> 0 .. Tasks]
    /\ murders \in Seq([victim : Player, stage : {"checking", "dying", "dead"}])
    /\ exile \in [player : Player, stage : {"dying", "closed"}] \cup {NoExile}
    /\ state \in {"Started", "Ended"}
    /\ {intents, ends, endings} \subseteq Seq(Reasons)
    /\ updates \in Seq([kept : Seq(Reasons), rest : Seq(Reasons) \ {<<>>}])

\* If no listener interferes, a game whose living crewmates do not outnumber
\* the living impostors ends, however murders, an exile and players that
\* leave overlap: one of the checks sees it.
OutnumberedEnds ==
    cancels = 0 =>
        (objects /\ Outnumbered(dead, gone) ~> ~objects \/ ~Outnumbered(dead, gone))

\* Clients are told of one end if the listeners do not suspend.
OneEnding == ~suspends => Len(endings) <= 1

\* The game is started exactly until it ends: while nothing is suspended in
\* handleEnd, unless several ends overlap.
StateIsHonest ==
    /\ endings = <<>> /\ ends = <<>> => state = "Started"
    /\ ~suspends /\ endings # <<>> => state = "Ended"

\* Ends that are under way: the intents that wait, the calls of FixedUpdate
\* that offer some, and the calls of handleEnd.  Each of them ends the game
\* unless the listeners cancel it.
EndsUnderWay ==
    (IF intents = <<>> THEN 0 ELSE 1) + Len(updates) + Len(ends)

\* However calls of FixedUpdate and handleEnd overlap, no intent is lost
\* between the call that takes it and those that register others: until an
\* end is announced, there are no fewer ends under way than before, except
\* for what the listeners have cancelled.
NoEndIsLost ==
    [][objects' => EndsUnderWay' + cancels >= EndsUnderWay + cancels']_vars
=============================================================================
