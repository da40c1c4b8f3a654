---------------------------- MODULE ActingHosts ----------------------------
(***************************************************************************)
(* Who is the host of a room, and who believes to be: Server-as-a-Host     *)
(* (BaseRoom.enableSaaH, disableSaaH) and acting hosts, whom the server    *)
(* lets do what a host does although their room has another host.          *)
(*                                                                         *)
(* Every packet that names a host (JoinedGame, JoinGame, RemovePlayer)     *)
(* makes the client that gets it believe it.  When somebody joins, all     *)
(* clients must be told of one host, so that only that one welcomes the    *)
(* new player; the acting hosts are told their own again as soon as the    *)
(* new player is ready: when it sets its nameplate (actingHostWaitingFor). *)
(*                                                                         *)
(* All of it happens in calls that wait again and again, for listeners and *)
(* for the network, and other calls come in between.  A call is a record,  *)
(* its op the stage it is at; what it does between two awaits is one step. *)
(* What clients do that wait for a host after a game is in RoomMembership. *)
(***************************************************************************)
EXTENDS Naturals, FiniteSets, SequencesExt

CONSTANTS
    Client,
    Server,       \* SpecialClientId.Server
    Nobody,       \* the id 0
    MaxCalls,     \* bound: calls under way at once
    MaxSwitches   \* bound: games, and calls of plugins and of the console

ASSUME HostsAssumption ==
    /\ IsFiniteSet(Client)
    /\ Server \notin Client /\ Nobody \notin Client /\ Server # Nobody
    /\ MaxCalls \in Nat \ {0}
    /\ MaxSwitches \in Nat

VARIABLES
    serverAsHost, \* room.config.serverAsHost
    hostId,
    enabled,      \* room.actingHostsEnabled
    acting,       \* room.actingHostIds, in the order of their insertion
    waitingFor,   \* room.actingHostWaitingFor
    connections,  \* in the order of their insertion
    players,      \* clients with a player in the room
    gone,         \* clients that have left
    believes,     \* the host that a client was told of last
    calls,        \* calls under way
    gameState,
    switches,     \* games and calls of plugins and of the console so far
    overtaken     \* history: see Overtaken

hosts == <<serverAsHost, hostId, enabled, acting>>
membership == <<connections, players, gone>>
game == <<gameState, switches>>
vars == <<hosts, waitingFor, membership, believes, calls, game, overtaken>>

Host == Client \cup {Server, Nobody}
Members == ToSet(connections)
Acting == ToSet(acting)

\* A packet for a client is sent only if the client has a player.
Present == Members \cap players

\* Calls that send one update after the other, and the stages of the others.
LoopOp == {"server", "host", "disable", "enable", "reset", "left", "start", "cancel"}
JoinOp == {"electing", "joining", "told", "shown", "entered"}
Op == LoopOp \cup JoinOp \cup {"broadcast", "tell", "added", "electActing", "electHost",
                               "leaving", "select", "starting", "ending", "asked"}

Init ==
    /\ serverAsHost \in BOOLEAN
    /\ hostId = IF serverAsHost THEN Server ELSE Nobody
    /\ enabled = TRUE
    /\ acting = <<>>
    /\ waitingFor = <<>>
    /\ connections = <<>>
    /\ players = {}
    /\ gone = {}
    /\ believes = [c \in Client |-> Nobody]
    /\ calls = <<>>
    /\ gameState = "NotStarted"
    /\ switches = 0
    /\ overtaken = {}

-----------------------------------------------------------------------------
(* Calls and updates. *)

\* A call at a stage: about a client, with whom it has told so far, and with
\* the update whose listeners are awaited (to nobody: none).
Stage(op, c) ==
    [op |-> op, client |-> c, told |-> {}, to |-> Nobody, host |-> Nobody]

Begin(call) == Len(calls) < MaxCalls /\ calls' = Append(calls, call)

\* The k-th call is at one of these stages and has no update to send.
At(k, ops) == calls[k].op \in ops /\ calls[k].to = Nobody

Continue(k, call) == calls' = [calls EXCEPT ![k] = call]

End(k) == calls' = RemoveAt(calls, k)

\* Packets that are sent without an await since their host was read.
Tell(S, host) ==
    believes' = [d \in Client |-> IF d \in S THEN host[d] ELSE believes[d]]

\* Mutant of Insert: a list instead of a set.
InsertAgain(c) == Append(acting, c)

Insert(c) == IF c \in Acting THEN acting ELSE Append(acting, c)

\* Mutant of Targets: setHost tells the acting hosts only.
TargetsOfHost(op) == IF op = "server" THEN connections ELSE acting

\* The loops run over the connections or over the acting hosts as they are:
\* they see who is added or removed while an update is sent.
Targets(op) == IF op \in {"server", "host"} THEN connections ELSE acting

\* A broadcast to all names one host to those who were there at its start.
Broadcast(c, host) ==
    [op |-> "broadcast", client |-> c, told |-> Client \ Members,
     to |-> Nobody, host |-> host]

Untold(call) ==
    (IF call.op = "broadcast" THEN Client
     ELSE ToSet(Targets(call.op)) \cap Present) \ call.told

\* It is d's turn.
IsNext(call, d) ==
    LET order == Targets(call.op) IN
    /\ d \in Untold(call)
    /\ call.op # "broadcast" =>
        \E i \in DOMAIN order :
            order[i] = d /\ \A j \in 1 .. i - 1 : order[j] \notin Untold(call)

\* Which host the call tells d of.
HostFor(call, d) ==
    CASE call.op = "host" -> IF enabled /\ d \in Acting THEN d ELSE hostId
      [] call.op = "server" -> IF waitingFor = <<>> /\ enabled /\ d \in Acting
                               THEN d ELSE Server
      [] call.op \in {"disable", "start"} -> IF serverAsHost THEN Server ELSE hostId
      [] call.op \in {"enable", "reset", "left", "cancel"} -> d
      [] call.op = "broadcast" -> call.host

\* The call reads which host it names to the next client, and awaits the
\* listeners of room.clientbroadcast.
Choose(k) ==
    LET call == calls[k] IN
    /\ At(k, LoopOp \cup {"broadcast"})
    /\ \E d \in Client :
        /\ IsNext(call, d)
        /\ Continue(k, [call EXCEPT !.told = @ \cup {d}, !.to = d,
                                    !.host = HostFor(call, d)])
    /\ UNCHANGED <<hosts, waitingFor, membership, believes, game>>

\* It sends the update.  A single update is all there is to a call of a
\* plugin, and the last thing before RemovePlayer when somebody has left.
Send(k) ==
    LET call == calls[k] IN
    /\ call.to # Nobody
    /\ Tell({call.to}, [d \in Client |-> call.host])
    /\ CASE call.op = "tell" -> End(k)
         [] call.op = "added" -> Continue(k, Stage("leaving", call.client))
         [] OTHER -> Continue(k, [call EXCEPT !.to = Nobody])
    /\ UNCHANGED <<hosts, waitingFor, membership, game>>

\* The loop is over.
IsThrough(k) == Untold(calls[k]) = {}

-----------------------------------------------------------------------------
(* Joining. *)

\* handleRemoteJoin.  With Server-as-a-Host the client is to be an acting host
\* if there is none, even if they are disabled; else the host if the host has
\* no player.
Join(c) ==
    /\ gameState # "Started"
    /\ gameState = "Ended" => serverAsHost
    /\ c \notin gone \cup Members
    /\ \A k \in 1 .. Len(calls) : calls[k].op \in JoinOp => calls[k].client # c
    /\ players' = players \cup {c}
    /\ Begin(IF \/ serverAsHost /\ acting = <<>>
                \/ ~serverAsHost /\ hostId \notin players'
             THEN [Stage("electing", c) EXCEPT !.host = IF serverAsHost THEN Server ELSE Nobody]
             ELSE Stage("joining", c))
    /\ UNCHANGED <<hosts, waitingFor, connections, gone, believes, game>>

\* Listeners of room.selecthost may cancel, or choose another as the host.
JoinElected(k) ==
    LET c == calls[k].client IN
    /\ At(k, {"electing"})
    /\ \/ UNCHANGED <<hostId, acting>>
       \/ calls[k].host = Server /\ acting' = Insert(c) /\ UNCHANGED hostId
       \/ calls[k].host = Nobody /\ hostId' \in Members \cup {c} /\ UNCHANGED acting
    /\ Continue(k, Stage("joining", c))
    /\ UNCHANGED <<serverAsHost, enabled, waitingFor, membership, believes, game>>

\* The client is told who the host is.
JoinedGame(k) ==
    LET c == calls[k].client IN
    /\ At(k, {"joining"})
    /\ waitingFor' = <<c>> \o waitingFor
    /\ Tell({c}, [d \in Client |-> hostId])
    /\ Continue(k, Stage("told", c))
    /\ UNCHANGED <<hosts, membership, game>>

\* The others are told that it has joined.
JoinGame(k) ==
    /\ At(k, {"told"})
    /\ Tell(Present, [d \in Client |-> hostId])
    /\ Continue(k, Stage("shown", calls[k].client))
    /\ UNCHANGED <<hosts, waitingFor, membership, game>>

\* Only now it is one of the connections, also if it has left meanwhile.
Enter(k) ==
    LET c == calls[k].client IN
    /\ At(k, {"shown"})
    /\ connections' = IF c \in Members THEN connections ELSE Append(connections, c)
    /\ Continue(k, Stage("entered", c))
    /\ UNCHANGED <<hosts, waitingFor, players, gone, believes, game>>

FinishJoin(k) ==
    /\ At(k, {"entered"})
    /\ gameState' = IF gameState = "Ended" THEN "NotStarted" ELSE gameState
    /\ End(k)
    /\ UNCHANGED <<hosts, waitingFor, membership, believes, switches>>

\* The client sets its nameplate.  The acting hosts are reset if nobody has
\* joined after it.
SetNameplate(c) ==
    /\ c \in players
    /\ waitingFor # <<>>
    /\ c = Head(waitingFor)
    /\ IF enabled
       THEN Begin(Stage("reset", c)) /\ UNCHANGED waitingFor
       ELSE waitingFor' = <<>> /\ UNCHANGED calls
    /\ UNCHANGED <<hosts, membership, believes, game>>

\* As long as the room has no settings from an acting host
\* (finishedActingHostTransactionRoutine) the first one is told without
\* listeners, and asked to spawn a player.
Ask(k) ==
    /\ At(k, {"reset"})
    /\ calls[k].told = {}
    /\ Len(calls) < MaxCalls
    /\ \E d \in Client :
        /\ IsNext(calls[k], d)
        /\ Tell({d}, [e \in Client |-> e])
        /\ calls' = Append([calls EXCEPT ![k].told = {d}], Stage("asked", d))
    /\ UNCHANGED <<hosts, waitingFor, membership, game>>

\* It has spawned it: to remove it from all clients, the server tells them
\* that the one who has spawned it is the host.
Spawned(k) ==
    LET d == calls[k].client IN
    /\ At(k, {"asked"})
    /\ IF hostId = Server /\ d \notin gone THEN Continue(k, Broadcast(d, d)) ELSE End(k)
    /\ UNCHANGED <<hosts, waitingFor, membership, believes, game>>

FinishReset(k) ==
    /\ At(k, {"reset"})
    /\ IsThrough(k)
    /\ waitingFor' = <<>>
    /\ End(k)
    /\ UNCHANGED <<hosts, membership, believes, game>>

-----------------------------------------------------------------------------
(* Leaving. *)

\* handleRemoteLeave, which the client can cause as soon as its join has put
\* it into the room.  When the last connection leaves, the room is destroyed.
\* The acting hosts are reset if they only waited for the client.
Leave(c) ==
    /\ c \in (players \cup Members) \ gone
    /\ \A k \in 1 .. Len(calls) :
        calls[k].op \in {"electing", "joining"} => calls[k].client # c
    /\ Members \ {c} # {}
    /\ connections' = RemoveFirst(connections, c)
    /\ players' = players \ {c}
    /\ gone' = gone \cup {c}
    /\ acting' = RemoveFirst(acting, c)
    /\ LET waits == c \in players /\ c \in ToSet(waitingFor) IN
        /\ waitingFor' = IF waits THEN RemoveFirst(waitingFor, c) ELSE waitingFor
        /\ Begin([Stage("left", c) EXCEPT
                    !.told = IF waits /\ waitingFor' = <<>> /\ enabled THEN {} ELSE Client])
    /\ UNCHANGED <<serverAsHost, hostId, enabled, believes, game>>

\* Another acting host or host is to be chosen; if there is nobody to choose
\* from, the call fails.
FinishLeft(k) ==
    LET c == calls[k].client IN
    /\ At(k, {"left"})
    /\ IsThrough(k)
    /\ IF ~ IF serverAsHost THEN acting = <<>> /\ enabled ELSE hostId = c
       THEN Continue(k, Stage("leaving", c))
       ELSE IF connections = <<>>
       THEN End(k)
       ELSE Continue(k, [Stage(IF serverAsHost THEN "electActing" ELSE "electHost", c)
                            EXCEPT !.host = Head(connections)])
    /\ UNCHANGED <<hosts, waitingFor, membership, believes, game>>

\* The listeners of room.selecthost return.  Whom they have chosen may have
\* left meanwhile.
LeaveElected(k) ==
    LET leaving == Stage("leaving", calls[k].client) IN
    /\ At(k, {"electActing", "electHost"})
    /\ \/ Continue(k, leaving) /\ UNCHANGED <<hostId, acting>>
       \/ \E pick \in Members \cup {calls[k].host} :
            /\ calls[k].op = "electActing"
            /\ acting' = Insert(pick)
            /\ Continue(k, IF waitingFor = <<>> /\ pick \in Present
                           THEN [leaving EXCEPT !.op = "added", !.to = pick, !.host = pick]
                           ELSE leaving)
            /\ UNCHANGED hostId
       \/ /\ calls[k].op = "electHost"
          /\ hostId' \in Members \cup {calls[k].host}
          /\ Continue(k, leaving)
          /\ UNCHANGED acting
    /\ UNCHANGED <<serverAsHost, enabled, waitingFor, membership, believes, game>>

\* The host that RemovePlayer names to each client.
Remaining ==
    [d \in Client |->
        IF serverAsHost THEN Server
        ELSE IF enabled /\ d \in Acting THEN d ELSE hostId]

\* Everybody is told who has left.
RemovePlayer(k) ==
    /\ At(k, {"leaving"})
    /\ Tell(Members, Remaining)
    /\ End(k)
    /\ UNCHANGED <<hosts, waitingFor, membership, game>>

-----------------------------------------------------------------------------
(* Games. *)

Switch ==
    /\ switches < MaxSwitches
    /\ switches' = switches + 1

\* handleStart tells the acting hosts of their host for the time of the game.
StartGame ==
    /\ Switch
    /\ gameState = "NotStarted"
    /\ connections # <<>>
    /\ Begin([Stage("start", Nobody) EXCEPT !.told = IF enabled THEN {} ELSE Client])
    /\ UNCHANGED <<hosts, waitingFor, membership, believes, gameState>>

FinishStart(k) ==
    /\ At(k, {"start"})
    /\ IsThrough(k)
    /\ gameState' = "Started"
    /\ Continue(k, Stage("starting", Nobody))
    /\ UNCHANGED <<hosts, waitingFor, membership, believes, switches>>

\* If a listener of room.gamestart cancels it, they are told their own again.
Started(k) ==
    /\ At(k, {"starting"})
    /\ \/ /\ gameState' = "NotStarted"
          /\ Continue(k, [Stage("cancel", Nobody) EXCEPT
                            !.told = IF enabled THEN {} ELSE Client])
       \/ /\ UNCHANGED gameState
          /\ End(k)
    /\ UNCHANGED <<hosts, waitingFor, membership, believes, switches>>

\* handleEnd: after a game that the server has hosted the connections are
\* cleared, unless a listener of room.gameend cancels the end, and the players
\* join again.
EndGame ==
    /\ serverAsHost
    /\ gameState = "Started"
    /\ gameState' = "Ended"
    /\ Begin(Stage("ending", Nobody))
    /\ UNCHANGED <<hosts, waitingFor, membership, believes, switches>>

FinishEnd(k) ==
    /\ At(k, {"ending"})
    /\ \/ gameState' = "Started" /\ UNCHANGED connections
       \/ connections' = <<>> /\ UNCHANGED gameState
    /\ End(k)
    /\ UNCHANGED <<hosts, waitingFor, players, gone, believes, switches>>

-----------------------------------------------------------------------------
(* What plugins and the console call. *)

\* enableSaaH: the host becomes an acting host if the caller asks for it, as
\* the console does.
EnableSaaH ==
    /\ Switch
    /\ serverAsHost' = TRUE
    /\ \E addActingHost \in BOOLEAN :
        acting' = IF addActingHost /\ hostId # Server THEN Insert(hostId) ELSE acting
    /\ hostId' = Server
    /\ Begin(Stage("server", Nobody))
    /\ UNCHANGED <<enabled, waitingFor, membership, believes, gameState>>

\* disableSaaH: the first acting host, or the first connection, is to be the
\* host; if it is not there, nobody is.
DisableSaaH ==
    LET first == CASE acting # <<>> -> Head(acting)
                   [] acting = <<>> /\ connections # <<>> -> Head(connections)
                   [] OTHER -> Nobody
    IN
    /\ Switch
    /\ gameState # "Ended"
    /\ serverAsHost' = FALSE
    /\ IF first \in Members
       THEN Begin([Stage("select", Nobody) EXCEPT !.host = first])
       ELSE UNCHANGED calls
    /\ UNCHANGED <<hostId, enabled, acting, waitingFor, membership, believes,
                   gameState>>

\* The listeners of room.selecthost return; all are told.
Selected(k) ==
    /\ At(k, {"select"})
    /\ \/ UNCHANGED <<hostId, acting>>
       \/ \E pick \in Members \cup {calls[k].host} :
            /\ hostId' = pick
            /\ acting' = RemoveFirst(acting, pick)
    /\ Continue(k, Stage("host", Nobody))
    /\ UNCHANGED <<serverAsHost, enabled, waitingFor, membership, believes, game>>

SetHost(c) ==
    /\ Switch
    /\ ~serverAsHost
    /\ c \in Present
    /\ hostId' = c
    /\ Begin(Stage("host", c))
    /\ UNCHANGED <<serverAsHost, enabled, acting, waitingFor, membership, believes,
                   gameState>>

\* A call that tells c of one host, if c can be told.
Update(c, host) ==
    IF c \in Present
    THEN Begin([Stage("tell", c) EXCEPT !.to = c, !.host = host])
    ELSE UNCHANGED calls

\* The console does not add who is the host or an acting host.
AddActingHost(c) ==
    /\ Switch
    /\ c \in Members
    /\ c \notin Acting \cup {hostId}
    /\ acting' = Append(acting, c)
    /\ IF waitingFor = <<>> THEN Update(c, c) ELSE UNCHANGED calls
    /\ UNCHANGED <<serverAsHost, hostId, enabled, waitingFor, membership, believes,
                   gameState>>

\* Mutant of RemoveActingHost: the client is not told.
RemoveActingHostQuietly(c) ==
    /\ Switch
    /\ c \in Members
    /\ c \in Acting
    /\ acting' = RemoveFirst(acting, c)
    /\ UNCHANGED <<serverAsHost, hostId, enabled, waitingFor, membership, believes,
                   calls, gameState>>

RemoveActingHost(c) ==
    /\ Switch
    /\ c \in Members
    /\ c \in Acting
    /\ acting' = RemoveFirst(acting, c)
    /\ Update(c, Server)
    /\ UNCHANGED <<serverAsHost, hostId, enabled, waitingFor, membership, believes,
                   gameState>>

DisableActingHosts ==
    /\ Switch
    /\ enabled
    /\ Begin(Stage("disable", Nobody))
    /\ UNCHANGED <<hosts, waitingFor, membership, believes, gameState>>

EnableActingHosts ==
    /\ Switch
    /\ ~enabled
    /\ IF waitingFor = <<>>
       THEN Begin(Stage("enable", Nobody)) /\ UNCHANGED enabled
       ELSE enabled' = TRUE /\ UNCHANGED calls
    /\ UNCHANGED <<serverAsHost, hostId, acting, waitingFor, membership, believes,
                   gameState>>

\* The loop of one of these calls, or a broadcast, is over.
FinishLoop(k) ==
    /\ At(k, {"server", "host", "disable", "enable", "cancel", "broadcast"})
    /\ IsThrough(k)
    /\ enabled' = CASE calls[k].op = "disable" -> FALSE
                    [] calls[k].op = "enable" -> TRUE
                    [] OTHER -> enabled
    /\ End(k)
    /\ UNCHANGED <<serverAsHost, hostId, acting, waitingFor, membership, believes,
                   game>>

-----------------------------------------------------------------------------
(* Steps. *)

Proceed(k) ==
    \/ Choose(k) \/ Send(k) \/ Ask(k)
    \/ JoinElected(k) \/ JoinedGame(k) \/ JoinGame(k) \/ Enter(k) \/ FinishJoin(k)
    \/ Spawned(k) \/ FinishReset(k)
    \/ FinishLeft(k) \/ LeaveElected(k) \/ RemovePlayer(k)
    \/ FinishStart(k) \/ Started(k) \/ FinishEnd(k)
    \/ Selected(k) \/ FinishLoop(k)

Act ==
    \/ \E k \in 1 .. Len(calls) : Proceed(k)
    \/ \E c \in Client :
        \/ Join(c) \/ SetNameplate(c) \/ Leave(c)
        \/ SetHost(c) \/ AddActingHost(c) \/ RemoveActingHost(c)
    \/ StartGame \/ EndGame
    \/ EnableSaaH \/ DisableSaaH
    \/ EnableActingHosts \/ DisableActingHosts

\* Clients for whom a packet is on its way that names a host who was chosen
\* before: an update or a broadcast that waits for its turn or its listeners,
\* an acting host that will be named when it spawns a player, and a client
\* that was told of the host when it joined and is not yet in connections,
\* where no loop finds it.
InTransit ==
    {c \in Client : \E call \in ToSet(calls) :
        \/ call.to = c
        \/ call.op = "broadcast" /\ c \notin call.told
        \/ call.op \in {"told", "shown", "asked"} /\ call.client = c}

\* History: these packets are out of date when the hosts change.
Overtake == overtaken' = IF hosts' = hosts THEN overtaken ELSE overtaken \cup InTransit

Next == Act /\ Overtake

Spec == Init /\ [][Next]_vars

-----------------------------------------------------------------------------
Call ==
    {call \in [op : Op, client : Client \cup {Nobody}, told : SUBSET Client,
               to : Client \cup {Nobody}, host : Host] :
        /\ call.op \in JoinOp => call.client # Nobody
        /\ call.op = "electActing" => call.host \in Client}

TypeOK ==
    /\ {serverAsHost, enabled} \subseteq BOOLEAN
    /\ hostId \in Host
    /\ acting \in Seq(Client \cup {Nobody})
    /\ IsInjective(acting)
    /\ waitingFor \in Seq(Client)
    /\ connections \in Seq(Client)
    /\ IsInjective(connections)
    /\ {players, gone, overtaken} \subseteq SUBSET Client
    /\ believes \in [Client -> Host]
    /\ calls \in Seq(Call)
    /\ gameState \in {"NotStarted", "Started", "Ended"}
    /\ switches \in 0 .. MaxSwitches

\* All calls are over, but for what clients may have been asked for.
Quiet == \A call \in ToSet(calls) : call.op = "asked"

\* Who believes to be the host is the host or an acting host, unless the hosts
\* changed while a packet for it was under way, or between the packet that
\* told it in its join and its entry into connections.
ClaimIsGranted ==
    Quiet => \A c \in Present \ overtaken :
                believes[c] = c => c \in Acting \cup {hostId}

\* Under the same condition the host was not told that another client is the
\* host: at most the server, by removeActingHost or when somebody has left.
HostIsNotMisled ==
    Quiet /\ hostId \in Present \ overtaken => believes[hostId] \in {hostId, Server}
=============================================================================
