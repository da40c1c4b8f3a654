--------------------------- MODULE EndConditions ---------------------------
(***************************************************************************)
(* When a game of SkeldJS is to end: the counts over GameData that         *)
(* MeetingHud, PlayerControl, Hostable and GameData compare, each right    *)
(* after a change of its own, to register an end-game intent.  An intent   *)
(* is its reason (GameOverReason); a check gives the set of intents it     *)
(* registers, which has one element or none.                               *)
(*                                                                         *)
(* dead and gone are the players flagged as dead and as disconnected.      *)
(***************************************************************************)
EXTENDS Naturals, Sequences, FiniteSets

CONSTANTS
    Player,     \* player ids in GameData
    Impostor    \* the players whose role is of the impostors' team

ASSUME EndAssumption ==
    /\ IsFiniteSet(Player)
    /\ Impostor \subseteq Player

Crew == Player \ Impostor

Living(S, dead, gone) == Cardinality(S \ (dead \cup gone))

Outnumbered(dead, gone) == Living(Crew, dead, gone) <= Living(Impostor, dead, gone)

Intent(reason, condition) == IF condition THEN {reason} ELSE {}

\* After a meeting has exiled a player.  The info of a player that has left
\* is not found, and it counts as a crewmate.
VoteIntents(exiled, dead, gone) ==
    IF exiled \in Impostor \ gone
    THEN Intent("HumansByVote", Living(Impostor, dead, gone) = 0)
    ELSE Intent("ImpostorByVote", Outnumbered(dead, gone))

\* Mutant of KillIntents: equal numbers do not end the game.
KillIntentsLess(dead, gone) ==
    Intent("ImpostorByKill", Living(Crew, dead, gone) < Living(Impostor, dead, gone))

\* After a murder.
KillIntents(dead, gone) == Intent("ImpostorByKill", Outnumbered(dead, gone))

\* After a player has left: impostors are counted whether they live or not.
DisconnectIntents(dead, gone) ==
    IF Impostor \subseteq gone
    THEN {"ImpostorDisconnect"}
    ELSE Intent("HumansDisconnect", Outnumbered(dead, gone))

\* After a task was completed: left[p] is the number of tasks p has left, out
\* of total; the tasks of crewmates count as long as they have not left.
TaskIntents(left, total, gone) ==
    LET counted == Crew \ gone IN
    Intent("HumansByTask",
           total > 0 /\ counted # {} /\ \A p \in counted : left[p] = 0)

Reasons == {"HumansByVote", "ImpostorByVote", "ImpostorByKill",
            "ImpostorDisconnect", "HumansDisconnect", "HumansByTask"}
=============================================================================
