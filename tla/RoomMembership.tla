--------------------------- MODULE RoomMembership ---------------------------
(***************************************************************************)
(* Who is in a room of a Hindenburg worker: joining, leaving, the choice   *)
(* of the host, the end of a game and the re-joining after it, and the     *)
(* destruction of the room.  The module follows one room that is not in    *)
(* Server-as-a-Host mode, from its creation:                               *)
(*   Worker.attemptJoin, Connection.disconnect, BaseRoom.handleRemoteJoin, *)
(*   handleRemoteLeave, _joinOtherClients, handleStart, handleEnd and      *)
(*   destroy, with Hostable.handleJoin and handleLeave.                    *)
(*                                                                         *)
(* Each of these is an async function that runs once per call, and calls   *)
(* overlap: a call gives up the event loop at every await, most of which   *)
(* wait for the listeners of plugins (which look sessions up over the      *)
(* network) or for packets to be sent.  A stage names the await a call is  *)
(* suspended at; an action is what it does from there to the next one.     *)
(* Plugins delay events here; they do not cancel or alter them.            *)
(* MaxPending bounds the calls in progress: with 1 they do not overlap.    *)
(*                                                                         *)
(* The clients are external: a client asks to join when it is in no game   *)
(* or its game has ended, and knows the players it was told about.         *)
(***************************************************************************)
EXTENDS Naturals, Sequences, FiniteSets

CONSTANTS
    Client,       \* connections of the worker; a client never returns
    MaxPlayers,   \* settings.maxPlayers
    MaxPending,   \* bound: calls in progress at the same time
    Nobody        \* the hostId of a room that never had a host

ASSUME RoomAssumption ==
    /\ IsFiniteSet(Client)
    /\ Nobody \notin Client
    /\ MaxPlayers \in Nat \ {0}
    /\ MaxPending \in Nat \ {0}

VARIABLES
    connections,   \* room.connections: a Map, in the order of insertion
    players,       \* room.players
    waiting,       \* room.waitingForHost
    hostId,        \* room.hostId
    gameState,     \* room.gameState
    destroyed,     \* room._destroyed
    registered,    \* worker.rooms has the room
    joinedFlag,    \* room.playerJoinedFlag
    inRoom,        \* clients whose connection.room is the room
    online,        \* clients in worker.connections
    join,          \* stage of the client's attemptJoin
    leave,         \* stage of the client's disconnect
    elected,       \* the host that the client's disconnect has picked
    game,          \* stage of handleStart or handleEnd
    timeout,       \* stage of the destroy that createTimeout has called
    client,        \* what the client shows
    view           \* the players that a client in the game knows

room == <<connections, players, waiting, hostId, gameState, destroyed,
          registered, joinedFlag>>
calls == <<join, leave, elected, game, timeout>>
vars == <<room, inRoom, online, calls, client, view>>

Members == {connections[k] : k \in 1 .. Len(connections)}

\* Map.set and Map.delete.
Inserted(c) == IF c \in Members THEN connections ELSE Append(connections, c)
Place(c) == CHOOSE k \in 1 .. Len(connections) : connections[k] = c
Without(c) ==
    IF c \in Members
    THEN SubSeq(connections, 1, Place(c) - 1)
             \o SubSeq(connections, Place(c) + 1, Len(connections))
    ELSE connections

Pending ==
    Cardinality({c \in Client : join[c] # "no"})
    + Cardinality({c \in Client : leave[c] # "no"})
    + (IF game # "no" THEN 1 ELSE 0)
    + (IF timeout # "no" THEN 1 ELSE 0)

MayCall == Pending < MaxPending

-----------------------------------------------------------------------------
Init ==
    /\ connections = <<>>
    /\ players = {}
    /\ waiting = {}
    /\ hostId = Nobody
    /\ gameState = "NotStarted"
    /\ destroyed = FALSE
    /\ registered = TRUE
    /\ joinedFlag = FALSE
    /\ inRoom = {}
    /\ online = Client
    /\ join = [c \in Client |-> "no"]
    /\ leave = [c \in Client |-> "no"]
    /\ elected = [c \in Client |-> Nobody]
    /\ game = "no"
    /\ timeout = "no"
    /\ client = [c \in Client |-> "out"]
    /\ view = [c \in Client |-> {}]

-----------------------------------------------------------------------------
(* Packets to clients. *)

\* JoinedGame to each client d of S, naming the members of known.
SendJoinedGame(S, known) ==
    LET heard == {d \in S : client[d] # "gone"} IN
    /\ client' = [d \in Client |-> IF d \in heard THEN "in" ELSE client[d]]
    /\ view' = [d \in Client |->
                    IF d \in heard THEN known \cup {d} ELSE view[d]]

Sees(d) == client[d] \in {"in", "playing"}

\* JoinGame for c, and RemovePlayer for c, to the clients of S in the game.
SendJoinGame(S, c) ==
    view' = [d \in Client |-> IF d \in S \ {c} /\ Sees(d)
                              THEN view[d] \cup {c} ELSE view[d]]

SendRemovePlayer(S, c) ==
    view' = [d \in Client |-> IF d \in S /\ Sees(d)
                              THEN view[d] \ {c} ELSE view[d]]

\* A packet that makes the clients of S that show one of the screens from
\* show the screen to.
Show(S, from, to) ==
    client' = [d \in Client |-> IF d \in S /\ client[d] \in from
                                THEN to ELSE client[d]]

-----------------------------------------------------------------------------
(* Joining: attemptJoin and handleRemoteJoin. *)

JoinStage(c, stage) == join' = [join EXCEPT ![c] = stage]

\* Mutant of AskJoin: a room that was destroyed is still found.
AskJoinDestroyed(c) ==
    /\ MayCall
    /\ client[c] \in {"out", "ended"}
    /\ join[c] = "no"
    /\ client' = [client EXCEPT ![c] = "asking"]
    /\ JoinStage(c, "found")
    /\ UNCHANGED <<room, inRoom, online, leave, elected, game, timeout, view>>

\* JoinGame arrives; the room is looked up by its code, and the listeners of
\* worker.beforejoin run.
AskJoin(c) ==
    /\ MayCall
    /\ client[c] \in {"out", "ended"}
    /\ join[c] = "no"
    /\ client' = [client EXCEPT ![c] = "asking"]
    /\ JoinStage(c, IF registered THEN "found" ELSE "not found")
    /\ UNCHANGED <<room, inRoom, online, leave, elected, game, timeout, view>>

\* Mutant of Refuse: a client that no room is found for hears nothing.
RefuseSilently(c) ==
    /\ \/ join[c] = "not found"
       \/ /\ join[c] = "found"
          /\ Len(connections) >= MaxPlayers \/ gameState = "Started"
    /\ JoinStage(c, "no")
    /\ UNCHANGED <<room, inRoom, online, leave, elected, game, timeout, client,
                   view>>

\* The room is not there, is full, or plays: attemptJoin goes on as the
\* disconnect of the client.
Refuse(c) ==
    /\ \/ join[c] = "not found"
       \/ /\ join[c] = "found"
          /\ Len(connections) >= MaxPlayers \/ gameState = "Started"
    /\ JoinStage(c, "no")
    /\ leave' = IF leave[c] = "no" THEN [leave EXCEPT ![c] = "sending"]
                                   ELSE leave
    /\ Show({c}, {"asking"}, "gone")
    /\ UNCHANGED <<room, inRoom, online, elected, game, timeout, view>>

\* Mutant of Admit: one client too many is let in.
AdmitOneMore(c) ==
    /\ join[c] = "found"
    /\ Len(connections) <= MaxPlayers
    /\ gameState # "Started"
    /\ IF c \in Members
       THEN JoinStage(c, "no") /\ UNCHANGED players
       ELSE JoinStage(c, "player") /\ players' = players \cup {c}
    /\ UNCHANGED <<connections, waiting, hostId, gameState, destroyed,
                   registered, joinedFlag, inRoom, online, leave, elected, game,
                   timeout, client, view>>

\* The room lets the client in: handleRemoteJoin makes its player, unless
\* the room still has its connection.
Admit(c) ==
    /\ join[c] = "found"
    /\ Len(connections) < MaxPlayers
    /\ gameState # "Started"
    /\ IF c \in Members
       THEN JoinStage(c, "no") /\ UNCHANGED players
       ELSE JoinStage(c, "player") /\ players' = players \cup {c}
    /\ UNCHANGED <<connections, waiting, hostId, gameState, destroyed,
                   registered, joinedFlag, inRoom, online, leave, elected, game,
                   timeout, client, view>>

\* There is no host: the listeners of room.selecthost run.
SelectHost(c) ==
    /\ join[c] = "player"
    /\ hostId \notin players
    /\ JoinStage(c, "selecting")
    /\ UNCHANGED <<room, inRoom, online, leave, elected, game, timeout, client,
                   view>>

\* The client becomes the host; the listeners of player.sethost run.
BecomeHost(c) ==
    /\ join[c] = "selecting"
    /\ hostId' = c
    /\ JoinStage(c, "host")
    /\ UNCHANGED <<connections, players, waiting, gameState, destroyed,
                   registered, joinedFlag, inRoom, online, leave, elected, game,
                   timeout, client, view>>

HostIsKnown(c) ==
    \/ join[c] = "host"
    \/ join[c] = "player" /\ hostId \in players

\* Mutant of EnterLobby: JoinedGame lists the players.
EnterLobbyOfPlayers(c) ==
    /\ HostIsKnown(c)
    /\ gameState # "Ended"
    /\ inRoom' = inRoom \cup {c}
    /\ SendJoinedGame({c}, players)
    /\ JoinStage(c, "joined")
    /\ UNCHANGED <<room, online, leave, elected, game, timeout>>

\* The room is between games or in its lobby: JoinedGame lists the members.
EnterLobby(c) ==
    /\ HostIsKnown(c)
    /\ gameState # "Ended"
    /\ inRoom' = inRoom \cup {c}
    /\ SendJoinedGame({c}, Members)
    /\ JoinStage(c, "joined")
    /\ UNCHANGED <<room, online, leave, elected, game, timeout>>

\* The host is back after the end of a game.
HostReturns(c) ==
    /\ HostIsKnown(c)
    /\ gameState = "Ended"
    /\ c = hostId
    /\ inRoom' = inRoom \cup {c}
    /\ gameState' = "NotStarted"
    /\ connections' = Inserted(c)
    /\ SendJoinedGame({c}, Members \ {c})
    /\ JoinStage(c, "host joined")
    /\ UNCHANGED <<players, waiting, hostId, destroyed, registered, joinedFlag,
                   online, leave, elected, game, timeout>>

\* Another client is back before the host: it waits for the host.
WaitForHost(c) ==
    /\ HostIsKnown(c)
    /\ gameState = "Ended"
    /\ c # hostId
    /\ inRoom' = inRoom \cup {c}
    /\ waiting' = waiting \cup {c}
    /\ connections' = Inserted(c)
    /\ SendJoinGame(Members, c)
    /\ JoinStage(c, "waits")
    /\ UNCHANGED <<players, hostId, gameState, destroyed, registered,
                   joinedFlag, online, leave, elected, game, timeout, client>>

SendWaitForHost(c) ==
    /\ join[c] = "waits"
    /\ Show({c}, {"asking"}, "waiting")
    /\ JoinStage(c, "no")
    /\ UNCHANGED <<room, inRoom, online, leave, elected, game, timeout, view>>

\* JoinGame tells the others of the host that is back.
AnnounceHost(c) ==
    /\ join[c] = "host joined"
    /\ SendJoinGame(Members, c)
    /\ JoinStage(c, "host announced")
    /\ UNCHANGED <<room, inRoom, online, leave, elected, game, timeout, client>>

\* Mutant of JoinWaiting: the clients are forgotten, not joined.
JoinWaitingSilently ==
    /\ waiting' = waiting \ Members
    /\ UNCHANGED <<client, view>>

\* The first half of _joinOtherClients, and what it does when the packets
\* are sent.
JoinWaiting ==
    /\ SendJoinedGame(waiting \cap Members, Members)
    /\ waiting' = waiting \ Members

JoinOtherClients(c) ==
    /\ join[c] = "host announced"
    /\ JoinWaiting
    /\ JoinStage(c, "others joined")
    /\ UNCHANGED <<connections, players, hostId, gameState, destroyed,
                   registered, joinedFlag, inRoom, online, leave, elected, game,
                   timeout>>

FinishJoinOthers(c) ==
    /\ join[c] = "others joined"
    /\ waiting' = {}
    /\ JoinStage(c, "no")
    /\ UNCHANGED <<connections, players, hostId, gameState, destroyed,
                   registered, joinedFlag, inRoom, online, leave, elected, game,
                   timeout, client, view>>

\* JoinGame tells the members that have a player of the client.
Announce(c) ==
    /\ join[c] = "joined"
    /\ SendJoinGame(Members \cap players, c)
    /\ JoinStage(c, "announced")
    /\ UNCHANGED <<room, inRoom, online, leave, elected, game, timeout, client>>

\* The connection becomes a member; the listeners of player.join run.
AddMember(c) ==
    /\ join[c] = "announced"
    /\ connections' = Inserted(c)
    /\ joinedFlag' = TRUE
    /\ JoinStage(c, "added")
    /\ UNCHANGED <<players, waiting, hostId, gameState, destroyed, registered,
                   inRoom, online, leave, elected, game, timeout, client, view>>

FinishJoin(c) ==
    /\ join[c] = "added"
    /\ gameState' = IF gameState = "Ended" THEN "NotStarted" ELSE gameState
    /\ JoinStage(c, "no")
    /\ UNCHANGED <<connections, players, waiting, hostId, destroyed,
                   registered, joinedFlag, inRoom, online, leave, elected, game,
                   timeout, client, view>>

-----------------------------------------------------------------------------
(* Leaving: Connection.disconnect and handleRemoteLeave. *)

LeaveStage(c, stage) == leave' = [leave EXCEPT ![c] = stage]

\* The client leaves, is kicked or has timed out: disconnect sends it a
\* packet.
Disconnect(c) ==
    /\ MayCall
    /\ c \in online
    /\ leave[c] = "no"
    /\ LeaveStage(c, "sending")
    /\ client' = [client EXCEPT ![c] = "gone"]
    /\ view' = [view EXCEPT ![c] = {}]
    /\ UNCHANGED <<room, inRoom, online, join, elected, game, timeout>>

\* The connection leaves the worker; if it is in the room, the listeners of
\* client.leave run.
RemoveConnection(c) ==
    /\ leave[c] = "sending"
    /\ online' = online \ {c}
    /\ LeaveStage(c, IF c \in inRoom THEN "leaving" ELSE "no")
    /\ UNCHANGED <<room, inRoom, join, elected, game, timeout, client, view>>

\* Mutants of LeaveRoom: the connection stays; the player stays.
LeaveRoomConnected(c) ==
    /\ leave[c] = "leaving"
    /\ waiting' = waiting \ {c}
    /\ players' = players \ {c}
    /\ inRoom' = inRoom \ {c}
    /\ LeaveStage(c, "left")
    /\ UNCHANGED <<connections, hostId, gameState, destroyed, registered,
                   joinedFlag, online, join, elected, game, timeout, client,
                   view>>

LeaveRoomPlaying(c) ==
    /\ leave[c] = "leaving"
    /\ waiting' = waiting \ {c}
    /\ connections' = Without(c)
    /\ inRoom' = inRoom \ {c}
    /\ LeaveStage(c, "left")
    /\ UNCHANGED <<players, hostId, gameState, destroyed, registered,
                   joinedFlag, online, join, elected, game, timeout, client,
                   view>>

\* handleRemoteLeave takes the connection and its player out of the room.
LeaveRoom(c) ==
    /\ leave[c] = "leaving"
    /\ waiting' = waiting \ {c}
    /\ connections' = Without(c)
    /\ players' = players \ {c}
    /\ inRoom' = inRoom \ {c}
    /\ LeaveStage(c, "left")
    /\ UNCHANGED <<hostId, gameState, destroyed, registered, joinedFlag, online,
                   join, elected, game, timeout, client, view>>

\* The last member has left: destroy, unless that has been done.
LeaveEmpty(c) ==
    /\ leave[c] = "left"
    /\ connections = <<>>
    /\ LeaveStage(c, IF destroyed THEN "no" ELSE "destroying")
    /\ UNCHANGED <<room, inRoom, online, join, elected, game, timeout, client,
                   view>>

\* The host has left: the first member is picked, and the listeners of
\* room.selecthost run.
PickHost(c) ==
    /\ leave[c] = "left"
    /\ connections # <<>>
    /\ hostId = c
    /\ elected' = [elected EXCEPT ![c] = Head(connections)]
    /\ LeaveStage(c, "picked")
    /\ UNCHANGED <<room, inRoom, online, join, game, timeout, client, view>>

\* Mutant of TellLeft: the choice of a host is not given up.
TellLeftAgain(c) ==
    /\ SendRemovePlayer(Members, c)
    /\ LeaveStage(c, "no")
    /\ UNCHANGED elected

\* The members are told that the client has left.
TellLeft(c) ==
    /\ SendRemovePlayer(Members, c)
    /\ elected' = [elected EXCEPT ![c] = Nobody]
    /\ LeaveStage(c, "no")

LeaveOther(c) ==
    /\ leave[c] = "left"
    /\ connections # <<>>
    /\ hostId # c
    /\ TellLeft(c)
    /\ UNCHANGED <<room, inRoom, online, join, game, timeout, client>>

\* Mutant of ElectHost: the picked member is told, but is not the host.
ElectHostInName(c) ==
    /\ leave[c] = "picked"
    /\ IF elected[c] \in inRoom \cap players
       THEN LeaveStage(c, "elected") /\ UNCHANGED <<elected, view>>
       ELSE TellLeft(c)
    /\ UNCHANGED <<room, inRoom, online, join, game, timeout, client>>

\* The picked member becomes the host; if it has a player, the listeners of
\* player.sethost run.
ElectHost(c) ==
    /\ leave[c] = "picked"
    /\ hostId' = elected[c]
    /\ IF elected[c] \in inRoom \cap players
       THEN LeaveStage(c, "elected") /\ UNCHANGED <<elected, view>>
       ELSE TellLeft(c)
    /\ UNCHANGED <<connections, players, waiting, gameState, destroyed,
                   registered, joinedFlag, inRoom, online, join, game, timeout,
                   client>>

\* If the new host was waiting for the old one, everybody who waits joins.
HostWaited(c) ==
    /\ leave[c] = "elected"
    /\ gameState = "Ended"
    /\ elected[c] \in waiting
    /\ gameState' = "NotStarted"
    /\ JoinWaiting
    /\ LeaveStage(c, "others joined")
    /\ UNCHANGED <<connections, players, hostId, destroyed, registered,
                   joinedFlag, inRoom, online, join, elected, game, timeout>>

HostDidNotWait(c) ==
    /\ leave[c] = "elected"
    /\ ~(gameState = "Ended" /\ elected[c] \in waiting)
    /\ TellLeft(c)
    /\ UNCHANGED <<room, inRoom, online, join, game, timeout, client>>

FinishHostWaited(c) ==
    /\ leave[c] = "others joined"
    /\ waiting' = {}
    /\ TellLeft(c)
    /\ UNCHANGED <<connections, players, hostId, gameState, destroyed,
                   registered, joinedFlag, inRoom, online, join, game, timeout,
                   client>>

-----------------------------------------------------------------------------
(* The end of the room: destroy, called by handleRemoteLeave or by the     *)
(* timer of FixedUpdate. *)

\* The listeners of room.beforedestroy are done: who is there is sent away.
Destroy ==
    /\ destroyed' = TRUE
    /\ gameState' = "Destroyed"
    /\ Show(Members, {"asking", "in", "playing", "waiting", "ended"}, "out")

\* Mutant of Unregister: the worker keeps the room.
UnregisterLater ==
    /\ gameState' = "Destroyed"
    /\ UNCHANGED registered

Unregister ==
    /\ gameState' = "Destroyed"
    /\ registered' = FALSE

DestroyEmpty(c) ==
    /\ leave[c] = "destroying"
    /\ Destroy
    /\ LeaveStage(c, "unregistering")
    /\ UNCHANGED <<connections, players, waiting, hostId, registered,
                   joinedFlag, inRoom, online, join, elected, game, timeout,
                   view>>

UnregisterEmpty(c) ==
    /\ leave[c] = "unregistering"
    /\ Unregister
    /\ LeaveStage(c, "no")
    /\ UNCHANGED <<connections, players, waiting, hostId, destroyed,
                   joinedFlag, inRoom, online, join, elected, game, timeout,
                   client, view>>

\* Nobody has joined for createTimeout seconds.
TimeOut ==
    /\ MayCall
    /\ ~joinedFlag
    /\ ~destroyed
    /\ joinedFlag' = TRUE
    /\ timeout' = "destroying"
    /\ UNCHANGED <<connections, players, waiting, hostId, gameState, destroyed,
                   registered, inRoom, online, join, leave, elected, game,
                   client, view>>

DestroyTimedOut ==
    /\ timeout = "destroying"
    /\ Destroy
    /\ timeout' = "unregistering"
    /\ UNCHANGED <<connections, players, waiting, hostId, registered,
                   joinedFlag, inRoom, online, join, leave, elected, game, view>>

UnregisterTimedOut ==
    /\ timeout = "unregistering"
    /\ Unregister
    /\ timeout' = "no"
    /\ UNCHANGED <<connections, players, waiting, hostId, destroyed,
                   joinedFlag, inRoom, online, join, leave, elected, game,
                   client, view>>

-----------------------------------------------------------------------------
(* The game: handleStart and handleEnd, which the packets of a host call.  *)

\* The packet comes from the host of the room; one such call at a time.
Command(c) ==
    /\ MayCall
    /\ game = "no"
    /\ c \in online \cap inRoom \cap players
    /\ hostId = c

\* The host starts the game; the listeners of room.gamestart run.
StartGame(c) ==
    /\ Command(c)
    /\ client[c] = "in"
    /\ gameState' = "Started"
    /\ game' = "starting"
    /\ UNCHANGED <<connections, players, waiting, hostId, destroyed,
                   registered, joinedFlag, inRoom, online, join, leave, elected,
                   timeout, client, view>>

SendStartGame ==
    /\ game = "starting"
    /\ Show(Members, {"in"}, "playing")
    /\ game' = "no"
    /\ UNCHANGED <<room, inRoom, online, join, leave, elected, timeout, view>>

\* The host ends the game; the listeners of room.gameend run.
EndGame(c) ==
    /\ Command(c)
    /\ client[c] = "playing"
    /\ gameState' = "Ended"
    /\ waiting' = {}
    /\ game' = "ending"
    /\ UNCHANGED <<connections, players, hostId, destroyed, registered,
                   joinedFlag, inRoom, online, join, leave, elected, timeout,
                   client, view>>

SendEndGame ==
    /\ game = "ending"
    /\ Show(Members, {"in", "playing"}, "ended")
    /\ game' = "clearing"
    /\ UNCHANGED <<room, inRoom, online, join, leave, elected, timeout, view>>

\* The callback of setImmediate forgets the connections.
ClearConnections ==
    /\ game = "clearing"
    /\ connections' = <<>>
    /\ game' = "no"
    /\ UNCHANGED <<players, waiting, hostId, gameState, destroyed, registered,
                   joinedFlag, inRoom, online, join, leave, elected, timeout,
                   client, view>>

-----------------------------------------------------------------------------
ContinueJoin(c) ==
    \/ Refuse(c) \/ Admit(c) \/ SelectHost(c) \/ BecomeHost(c)
    \/ EnterLobby(c) \/ Announce(c) \/ AddMember(c) \/ FinishJoin(c)
    \/ HostReturns(c) \/ AnnounceHost(c)
    \/ JoinOtherClients(c) \/ FinishJoinOthers(c)
    \/ WaitForHost(c) \/ SendWaitForHost(c)

ContinueLeave(c) ==
    \/ RemoveConnection(c) \/ LeaveRoom(c) \/ LeaveOther(c)
    \/ LeaveEmpty(c) \/ DestroyEmpty(c) \/ UnregisterEmpty(c)
    \/ PickHost(c) \/ ElectHost(c)
    \/ HostWaited(c) \/ FinishHostWaited(c) \/ HostDidNotWait(c)

ContinueRoom ==
    \/ SendStartGame \/ SendEndGame \/ ClearConnections
    \/ DestroyTimedOut \/ UnregisterTimedOut

Call ==
    \/ TimeOut
    \/ \E c \in Client : AskJoin(c) \/ Disconnect(c) \/ StartGame(c) \/ EndGame(c)

Next ==
    \/ Call
    \/ ContinueRoom
    \/ \E c \in Client : ContinueJoin(c) \/ ContinueLeave(c)

Spec == Init /\ [][Next]_vars
-----------------------------------------------------------------------------
JoinStages == {"no", "found", "not found", "player", "selecting", "host",
               "joined", "announced", "added", "host joined",
               "host announced", "others joined", "waits"}
LeaveStages == {"no", "sending", "leaving", "left", "picked", "elected",
                "others joined", "destroying", "unregistering"}

GameStages == {"no", "starting", "ending", "clearing"}
TimeoutStages == {"no", "destroying", "unregistering"}
Screens == {"out", "asking", "in", "playing", "waiting", "ended", "gone"}

RoomTypeOK ==
    /\ connections \in Seq(Client)
    /\ players \subseteq Client
    /\ waiting \subseteq Client
    /\ hostId \in Client \cup {Nobody}
    /\ gameState \in {"NotStarted", "Started", "Ended", "Destroyed"}
    /\ {destroyed, registered, joinedFlag} \subseteq BOOLEAN

CallsTypeOK ==
    /\ inRoom \subseteq Client
    /\ online \subseteq Client
    /\ join \in [Client -> JoinStages]
    /\ leave \in [Client -> LeaveStages]
    /\ elected \in [Client -> Client \cup {Nobody}]
    /\ \A c \in Client :
        elected[c] # Nobody <=> leave[c] \in {"picked", "elected", "others joined"}
    /\ game \in GameStages
    /\ timeout \in TimeoutStages

ClientsTypeOK ==
    /\ client \in [Client -> Screens]
    /\ view \in [Client -> SUBSET Client]

TypeOK == RoomTypeOK /\ CallsTypeOK /\ ClientsTypeOK

\* No call is in progress.
Quiet ==
    /\ \A c \in Client : join[c] = "no" /\ leave[c] = "no"
    /\ game = "no" /\ timeout = "no"

\* A client in the lobby or in the game knows exactly the members of the
\* room, whatever order they came, left and came back in.
MembersAreKnown ==
    Quiet /\ registered =>
        \A c \in Members \ waiting : Sees(c) /\ view[c] = Members

\* "The host of the room" (Hostable.host): the room has one as long as it has
\* players, also after hosts have left.
HostIsPlayer == Quiet /\ registered /\ players # {} => hostId \in players

\* "All connections in the room" (BaseRoom.connections): of clients that are
\* still connected, in this room, and have a player.
NoGhost == Quiet => Members \subseteq online \cap inRoom \cap players

\* The room never has more connections than settings.maxPlayers allows.
Capacity == Len(connections) <= MaxPlayers

\* "The connections/players that are waiting for the host to join back"
\* (BaseRoom.waitingForHost): a client that shows that it waits is one of
\* them, and they wait only while the host is still to come.
WaitingIsMember ==
    Quiet /\ registered =>
        /\ {c \in Client : client[c] = "waiting"} \subseteq waiting \cap Members
        /\ waiting # {} => gameState = "Ended" /\ hostId \notin Members

\* A client that asked to join has been let in, told to wait or sent away.
AskedIsAnswered == Quiet => \A c \in Client : client[c] # "asking"

\* "Clearing connections for clients to re-join" (handleEnd): the room is
\* there as long as a client whose game has ended is.
EndedCanRejoin == \A c \in Client : client[c] = "ended" => registered

\* The players of a room are clients that are in it, however the joining and
\* the leaving of one client overlap.
PlayersAreInRoom == Quiet => players \subseteq inRoom

\* A room that was destroyed is out of the worker's rooms, and only such a
\* room is, whoever has destroyed it.
DestroyedIsUnregistered == Quiet => (registered <=> ~destroyed)

\* "The room has been destroyed and cannot be brought back"
\* (RoomBeforeDestroyEvent on room.destroy): a room that is out of the
\* worker's rooms plays no game.
DestroyedIsFinal == [][~registered => gameState' = gameState]_vars
=============================================================================
