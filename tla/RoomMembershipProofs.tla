------------------------ MODULE RoomMembershipProofs ------------------------
(***************************************************************************)
(* What holds of a room for every set of clients and every number of       *)
(* places.  The first half is about any number of overlapping calls.  The  *)
(* second is about calls that do not overlap (MaxPending = 1), which is    *)
(* what most of the code was written for: what it promises then, with the  *)
(* invariant that ties the room, the stage of the only call, the screens   *)
(* and what the clients know together.                                     *)
(***************************************************************************)
EXTENDS RoomMembership, SequenceTheorems, FiniteSetTheorems, TLAPS

\* What the Map of connections yields and keeps.
LEMMA MembersAreClients ==
    ASSUME RoomTypeOK
    PROVE  /\ Members \subseteq Client
           /\ connections # <<>> => Head(connections) \in Client
  BY DEF RoomTypeOK, Members

LEMMA MapKeepsClients ==
    ASSUME RoomTypeOK, NEW c \in Client
    PROVE  Inserted(c) \in Seq(Client) /\ Without(c) \in Seq(Client)
  <1>1. connections \in Seq(Client) BY DEF RoomTypeOK
  <1>2. Inserted(c) \in Seq(Client) BY <1>1 DEF Inserted
  <1>3. CASE c \in Members
    <2>1. Place(c) \in 1 .. Len(connections)
      BY <1>3 DEF Place, Members
    <2>2. SubSeq(connections, 1, Place(c) - 1) \in Seq(Client)
      BY <1>1, <2>1, SubSeqProperties
    <2>3. SubSeq(connections, Place(c) + 1, Len(connections)) \in Seq(Client)
      BY <1>1, <2>1, SubSeqProperties
    <2> QED BY <1>2, <1>3, <2>2, <2>3, ConcatProperties DEF Without
  <1>4. CASE c \notin Members
    BY <1>1, <1>2, <1>4 DEF Without
  <1> QED BY <1>3, <1>4

\* Packets leave every client with a screen and with a set of players.
LEMMA PacketsKeepClients ==
    ASSUME ClientsTypeOK, NEW S \in SUBSET Client, NEW c \in Client
    PROVE  /\ \A known \in SUBSET Client :
                SendJoinedGame(S, known) => ClientsTypeOK'
           /\ SendJoinGame(S, c) => view' \in [Client -> SUBSET Client]
           /\ SendRemovePlayer(S, c) => view' \in [Client -> SUBSET Client]
  <1>1. ASSUME NEW known \in SUBSET Client, SendJoinedGame(S, known)
        PROVE  ClientsTypeOK'
    BY <1>1 DEF ClientsTypeOK, SendJoinedGame, Screens
  <1>2. SendJoinGame(S, c) => view' \in [Client -> SUBSET Client]
    BY DEF ClientsTypeOK, SendJoinGame
  <1>3. SendRemovePlayer(S, c) => view' \in [Client -> SUBSET Client]
    BY DEF ClientsTypeOK, SendRemovePlayer
  <1> QED BY <1>1, <1>2, <1>3

LEMMA ShowKeepsClients ==
    ASSUME ClientsTypeOK, NEW S, NEW from, NEW to \in Screens,
           Show(S, from, to)
    PROVE  client' \in [Client -> Screens]
  BY DEF ClientsTypeOK, Show

-----------------------------------------------------------------------------
\* The state of the room.
LEMMA StepKeepsRoom ==
    ASSUME TypeOK, [Next]_vars
    PROVE  RoomTypeOK'
  <1> USE DEF RoomTypeOK
  <1>0. RoomTypeOK BY DEF TypeOK
  <1>1. CASE UNCHANGED room
    BY <1>0, <1>1 DEF room
  <1>2. CASE Call
    <2>1. CASE TimeOut
      BY <1>0, <2>1 DEF TimeOut
    <2>2. ASSUME NEW c \in Client,
                 AskJoin(c) \/ Disconnect(c) \/ StartGame(c) \/ EndGame(c)
          PROVE  RoomTypeOK'
      BY <1>0, <2>2 DEF AskJoin, Disconnect, StartGame, EndGame, room
    <2> QED BY <1>2, <2>1, <2>2 DEF Call
  <1>3. CASE ContinueRoom
    <2>1. <<>> \in Seq(Client) OBVIOUS
    <2> QED
      BY <1>0, <1>3, <2>1
      DEF ContinueRoom, SendStartGame, SendEndGame, ClearConnections,
          DestroyTimedOut, UnregisterTimedOut, Destroy, Unregister, room
  <1>4. ASSUME NEW c \in Client, ContinueJoin(c)
        PROVE  RoomTypeOK'
    <2>1. CASE HostReturns(c) \/ WaitForHost(c) \/ AddMember(c)
      <3>1. Inserted(c) \in Seq(Client) BY <1>0, MapKeepsClients
      <3> QED BY <1>0, <2>1, <3>1 DEF HostReturns, WaitForHost, AddMember
    <2>2. CASE BecomeHost(c)
      BY <1>0, <2>2 DEF BecomeHost
    <2>3. CASE Refuse(c) \/ SelectHost(c) \/ EnterLobby(c) \/ Announce(c)
               \/ AnnounceHost(c) \/ SendWaitForHost(c)
      BY <1>0, <2>3 DEF Refuse, SelectHost, EnterLobby, Announce, AnnounceHost,
                        SendWaitForHost, room
    <2>4. CASE Admit(c) \/ FinishJoin(c)
      BY <1>0, <2>4 DEF Admit, FinishJoin
    <2>5. CASE JoinOtherClients(c) \/ FinishJoinOthers(c)
      BY <1>0, <2>5 DEF JoinOtherClients, FinishJoinOthers, JoinWaiting
    <2> QED BY <1>4, <2>1, <2>2, <2>3, <2>4, <2>5 DEF ContinueJoin
  <1>5. ASSUME NEW c \in Client, ContinueLeave(c)
        PROVE  RoomTypeOK'
    <2>1. CASE LeaveRoom(c)
      <3>1. Without(c) \in Seq(Client) BY <1>0, MapKeepsClients
      <3> QED BY <1>0, <2>1, <3>1 DEF LeaveRoom
    <2>2. CASE ElectHost(c)
      <3>1. elected[c] \in Client \cup {Nobody} BY DEF TypeOK, CallsTypeOK
      <3> QED BY <1>0, <2>2, <3>1 DEF ElectHost
    <2>3. CASE RemoveConnection(c) \/ LeaveOther(c) \/ LeaveEmpty(c)
               \/ PickHost(c) \/ HostDidNotWait(c)
      BY <1>0, <2>3 DEF RemoveConnection, LeaveOther, LeaveEmpty, PickHost,
                        HostDidNotWait, room
    <2>4. CASE DestroyEmpty(c) \/ UnregisterEmpty(c)
      BY <1>0, <2>4 DEF DestroyEmpty, UnregisterEmpty, Destroy, Unregister
    <2>5. CASE HostWaited(c) \/ FinishHostWaited(c)
      BY <1>0, <2>5 DEF HostWaited, FinishHostWaited, JoinWaiting
    <2> QED BY <1>5, <2>1, <2>2, <2>3, <2>4, <2>5 DEF ContinueLeave
  <1> QED BY <1>1, <1>2, <1>3, <1>4, <1>5 DEF Next, vars

-----------------------------------------------------------------------------
\* The calls in progress, and who is in the room and on the worker.
LEMMA JoinKeepsCalls ==
    ASSUME CallsTypeOK, NEW c \in Client, ContinueJoin(c)
    PROVE  CallsTypeOK'
  <1> USE DEF CallsTypeOK, JoinStage, JoinStages
  <1>1. CASE Refuse(c)
    BY <1>1 DEF Refuse, LeaveStages
  <1>2. CASE Admit(c) \/ SelectHost(c) \/ BecomeHost(c) \/ EnterLobby(c)
    BY <1>2 DEF Admit, SelectHost, BecomeHost, EnterLobby
  <1>3. CASE Announce(c) \/ AddMember(c) \/ FinishJoin(c) \/ SendWaitForHost(c)
    BY <1>3 DEF Announce, AddMember, FinishJoin, SendWaitForHost
  <1>4. CASE HostReturns(c) \/ AnnounceHost(c) \/ WaitForHost(c)
    BY <1>4 DEF HostReturns, AnnounceHost, WaitForHost
  <1>5. CASE JoinOtherClients(c) \/ FinishJoinOthers(c)
    BY <1>5 DEF JoinOtherClients, FinishJoinOthers
  <1> QED BY <1>1, <1>2, <1>3, <1>4, <1>5 DEF ContinueJoin

LEMMA LeaveKeepsCalls ==
    ASSUME TypeOK, NEW c \in Client, ContinueLeave(c)
    PROVE  CallsTypeOK'
  <1> USE DEF CallsTypeOK, LeaveStage, LeaveStages
  <1>0. CallsTypeOK /\ RoomTypeOK BY DEF TypeOK
  <1>1. CASE RemoveConnection(c)
    BY <1>0, <1>1 DEF RemoveConnection
  <1>2. CASE LeaveRoom(c)
    BY <1>0, <1>2 DEF LeaveRoom
  <1>3. CASE LeaveEmpty(c) \/ DestroyEmpty(c) \/ UnregisterEmpty(c)
    BY <1>0, <1>3 DEF LeaveEmpty, DestroyEmpty, UnregisterEmpty
  <1>4. CASE PickHost(c)
    <2>1. Head(connections) \in Client
      BY <1>0, <1>4, MembersAreClients DEF PickHost
    <2>2. Head(connections) # Nobody
      BY <2>1, RoomAssumption DEF RoomAssumption
    <2> QED BY <1>0, <1>4, <2>1, <2>2 DEF PickHost
  <1>5. CASE LeaveOther(c) \/ HostDidNotWait(c) \/ FinishHostWaited(c)
    BY <1>0, <1>5 DEF LeaveOther, HostDidNotWait, FinishHostWaited, TellLeft
  <1>6. CASE ElectHost(c)
    BY <1>0, <1>6 DEF ElectHost, TellLeft
  <1>7. CASE HostWaited(c)
    BY <1>0, <1>7 DEF HostWaited
  <1> QED
    BY <1>1, <1>2, <1>3, <1>4, <1>5, <1>6, <1>7 DEF ContinueLeave

LEMMA StepKeepsCalls ==
    ASSUME TypeOK, [Next]_vars
    PROVE  CallsTypeOK'
  <1>0. CallsTypeOK BY DEF TypeOK
  <1>1. CASE UNCHANGED vars
    BY <1>0, <1>1 DEF vars, calls, CallsTypeOK
  <1>2. CASE Call
    <2>1. CASE TimeOut
      BY <1>0, <2>1 DEF TimeOut, CallsTypeOK, TimeoutStages
    <2>2. ASSUME NEW c \in Client, AskJoin(c)
          PROVE  CallsTypeOK'
      BY <1>0, <2>2 DEF AskJoin, JoinStage, JoinStages, CallsTypeOK
    <2>3. ASSUME NEW c \in Client, Disconnect(c)
          PROVE  CallsTypeOK'
      BY <1>0, <2>3 DEF Disconnect, LeaveStage, LeaveStages, CallsTypeOK
    <2>4. ASSUME NEW c \in Client, StartGame(c) \/ EndGame(c)
          PROVE  CallsTypeOK'
      BY <1>0, <2>4 DEF StartGame, EndGame, CallsTypeOK, GameStages
    <2> QED BY <1>2, <2>1, <2>2, <2>3, <2>4 DEF Call
  <1>3. CASE ContinueRoom
    BY <1>0, <1>3
    DEF ContinueRoom, SendStartGame, SendEndGame, ClearConnections,
        DestroyTimedOut, UnregisterTimedOut, CallsTypeOK, GameStages,
        TimeoutStages
  <1>4. ASSUME NEW c \in Client, ContinueJoin(c) \/ ContinueLeave(c)
        PROVE  CallsTypeOK'
    BY <1>0, <1>4, JoinKeepsCalls, LeaveKeepsCalls
  <1> QED BY <1>1, <1>2, <1>3, <1>4 DEF Next

-----------------------------------------------------------------------------
\* What the clients show and know.
LEMMA JoinKeepsClients ==
    ASSUME TypeOK, NEW c \in Client, ContinueJoin(c)
    PROVE  ClientsTypeOK'
  <1>0. /\ ClientsTypeOK /\ Members \subseteq Client
        /\ players \subseteq Client /\ waiting \subseteq Client
    BY MembersAreClients DEF TypeOK, RoomTypeOK
  <1>1. CASE Refuse(c)
    BY <1>0, <1>1, ShowKeepsClients DEF Refuse, ClientsTypeOK, Screens
  <1>2. CASE EnterLobby(c)
    BY <1>0, <1>2, PacketsKeepClients DEF EnterLobby
  <1>3. CASE HostReturns(c)
    <2>1. SendJoinedGame({c}, Members \ {c}) BY <1>3 DEF HostReturns
    <2> QED BY <1>0, <2>1, PacketsKeepClients
  <1>4. CASE WaitForHost(c)
    BY <1>0, <1>4, PacketsKeepClients DEF WaitForHost, ClientsTypeOK
  <1>5. CASE SendWaitForHost(c)
    BY <1>0, <1>5, ShowKeepsClients DEF SendWaitForHost, ClientsTypeOK, Screens
  <1>6. CASE AnnounceHost(c)
    BY <1>0, <1>6, PacketsKeepClients DEF AnnounceHost, ClientsTypeOK
  <1>7. CASE Announce(c)
    <2>1. SendJoinGame(Members \cap players, c) BY <1>7 DEF Announce
    <2> QED BY <1>0, <1>7, <2>1, PacketsKeepClients DEF Announce, ClientsTypeOK
  <1>8. CASE JoinOtherClients(c)
    <2>1. SendJoinedGame(waiting \cap Members, Members)
      BY <1>8 DEF JoinOtherClients, JoinWaiting
    <2> QED BY <1>0, <2>1, PacketsKeepClients
  <1>9. CASE UNCHANGED <<client, view>>
    BY <1>0, <1>9 DEF ClientsTypeOK
  <1> QED
    BY <1>1, <1>2, <1>3, <1>4, <1>5, <1>6, <1>7, <1>8, <1>9
    DEF ContinueJoin, Admit, SelectHost, BecomeHost, AddMember, FinishJoin,
        FinishJoinOthers

LEMMA LeaveKeepsClients ==
    ASSUME TypeOK, NEW c \in Client, ContinueLeave(c)
    PROVE  ClientsTypeOK'
  <1>0. /\ ClientsTypeOK /\ Members \subseteq Client
        /\ waiting \subseteq Client
    BY MembersAreClients DEF TypeOK, RoomTypeOK
  <1>1. CASE SendRemovePlayer(Members, c) /\ UNCHANGED client
    BY <1>0, <1>1, PacketsKeepClients DEF ClientsTypeOK
  <1>2. CASE HostWaited(c)
    <2>1. SendJoinedGame(waiting \cap Members, Members)
      BY <1>2 DEF HostWaited, JoinWaiting
    <2> QED BY <1>0, <2>1, PacketsKeepClients
  <1>3. CASE DestroyEmpty(c)
    BY <1>0, <1>3, ShowKeepsClients
    DEF DestroyEmpty, Destroy, ClientsTypeOK, Screens
  <1>4. CASE UNCHANGED <<client, view>>
    BY <1>0, <1>4 DEF ClientsTypeOK
  <1> QED
    BY <1>1, <1>2, <1>3, <1>4
    DEF ContinueLeave, RemoveConnection, LeaveRoom, LeaveOther, LeaveEmpty,
        UnregisterEmpty, PickHost, ElectHost, FinishHostWaited, HostDidNotWait,
        TellLeft

LEMMA StepKeepsClients ==
    ASSUME TypeOK, [Next]_vars
    PROVE  ClientsTypeOK'
  <1>0. ClientsTypeOK BY DEF TypeOK
  <1>1. CASE UNCHANGED <<client, view>>
    BY <1>0, <1>1 DEF ClientsTypeOK
  <1>2. ASSUME NEW c \in Client, AskJoin(c) \/ Disconnect(c)
        PROVE  ClientsTypeOK'
    BY <1>0, <1>2 DEF AskJoin, Disconnect, ClientsTypeOK, Screens
  <1>3. CASE SendStartGame \/ SendEndGame
    BY <1>0, <1>3, ShowKeepsClients
    DEF SendStartGame, SendEndGame, ClientsTypeOK, Screens
  <1>4. CASE DestroyTimedOut
    BY <1>0, <1>4, ShowKeepsClients
    DEF DestroyTimedOut, Destroy, ClientsTypeOK, Screens
  <1>5. ASSUME NEW c \in Client, ContinueJoin(c) \/ ContinueLeave(c)
        PROVE  ClientsTypeOK'
    BY <1>5, JoinKeepsClients, LeaveKeepsClients
  <1>6. ASSUME NEW c \in Client, StartGame(c) \/ EndGame(c)
        PROVE  ClientsTypeOK'
    BY <1>1, <1>6 DEF StartGame, EndGame
  <1> QED
    BY <1>1, <1>2, <1>3, <1>4, <1>5, <1>6
    DEF Next, vars, Call, TimeOut, ContinueRoom, ClearConnections,
        UnregisterTimedOut

LEMMA InitIsTyped == Init => TypeOK
  <1> SUFFICES ASSUME Init PROVE TypeOK OBVIOUS
  <1>1. RoomTypeOK
    <2>1. connections \in Seq(Client) BY DEF Init
    <2>2. players = {} /\ waiting = {} /\ hostId = Nobody
      BY DEF Init
    <2>3. {destroyed, registered, joinedFlag} \subseteq BOOLEAN
      BY DEF Init
    <2>4. gameState = "NotStarted" BY DEF Init
    <2> QED BY <2>1, <2>2, <2>3, <2>4 DEF RoomTypeOK
  <1>2. CallsTypeOK
    <2>1. join \in [Client -> JoinStages] /\ leave \in [Client -> LeaveStages]
      BY DEF Init, JoinStages, LeaveStages
    <2>2. elected \in [Client -> Client \cup {Nobody}]
      BY DEF Init
    <2>3. \A c \in Client : elected[c] = Nobody /\ leave[c] = "no"
      BY DEF Init
    <2>4. game \in GameStages /\ timeout \in TimeoutStages
      BY DEF Init, GameStages, TimeoutStages
    <2>5. inRoom \subseteq Client /\ online \subseteq Client
      BY DEF Init
    <2> QED BY <2>1, <2>2, <2>3, <2>4, <2>5 DEF CallsTypeOK
  <1>3. ClientsTypeOK BY DEF Init, ClientsTypeOK, Screens
  <1> QED BY <1>1, <1>2, <1>3 DEF TypeOK

\* The room, the calls in progress and the clients keep their types, however
\* many calls of attemptJoin, disconnect, handleStart, handleEnd and destroy
\* overlap; in particular a disconnect has picked a host exactly while it is
\* between the choice and its last packets (handleRemoteLeave).
THEOREM RoomTypeCorrect == Spec => []TypeOK
  <1>1. TypeOK /\ [Next]_vars => TypeOK'
    BY StepKeepsRoom, StepKeepsCalls, StepKeepsClients DEF TypeOK
  <1> QED BY <1>1, InitIsTyped, PTL DEF Spec
-----------------------------------------------------------------------------
\* A player that is not in the room is one that a join is about to let in:
\* handleLeave and handleRemoteLeave take both away in one step.
PlayersAreAdmitted ==
    \A c \in players : c \in inRoom \/ join[c] \in {"player", "selecting", "host"}

LEMMA StepKeepsAdmitted ==
    ASSUME TypeOK, PlayersAreAdmitted, [Next]_vars
    PROVE  PlayersAreAdmitted'
  <1> USE DEF PlayersAreAdmitted
  <1>0. /\ players \subseteq Client
        /\ join \in [Client -> JoinStages]
    BY DEF TypeOK, RoomTypeOK, CallsTypeOK
  <1>1. CASE UNCHANGED <<players, inRoom, join>>
    BY <1>1
  <1>2. ASSUME NEW c \in Client, AskJoin(c)
        PROVE  PlayersAreAdmitted'
    BY <1>0, <1>2 DEF AskJoin, JoinStage, room
  <1>3. ASSUME NEW c \in Client, ContinueJoin(c)
        PROVE  PlayersAreAdmitted'
    <2>1. CASE Refuse(c)
      BY <1>0, <2>1 DEF Refuse, JoinStage, room
    <2>2. CASE Admit(c)
      BY <1>0, <2>2 DEF Admit, JoinStage
    <2>3. CASE SelectHost(c) \/ BecomeHost(c)
      BY <1>0, <2>3 DEF SelectHost, BecomeHost, JoinStage, room
    <2>4. CASE EnterLobby(c) \/ HostReturns(c) \/ WaitForHost(c)
      BY <1>0, <2>4 DEF EnterLobby, HostReturns, WaitForHost, JoinStage, room
    <2>5. CASE Announce(c) \/ AddMember(c) \/ FinishJoin(c)
      BY <1>0, <2>5 DEF Announce, AddMember, FinishJoin, JoinStage, room
    <2>6. CASE AnnounceHost(c) \/ JoinOtherClients(c) \/ FinishJoinOthers(c)
               \/ SendWaitForHost(c)
      BY <1>0, <2>6 DEF AnnounceHost, JoinOtherClients, FinishJoinOthers,
                        SendWaitForHost, JoinStage, room
    <2> QED BY <1>3, <2>1, <2>2, <2>3, <2>4, <2>5, <2>6 DEF ContinueJoin
  <1>4. ASSUME NEW c \in Client, LeaveRoom(c)
        PROVE  PlayersAreAdmitted'
    BY <1>0, <1>4 DEF LeaveRoom
  <1> QED
    BY <1>1, <1>2, <1>3, <1>4
    DEF Next, vars, room, calls, Call, TimeOut, Disconnect, StartGame, EndGame,
        ContinueRoom, SendStartGame, SendEndGame, ClearConnections,
        DestroyTimedOut, UnregisterTimedOut, ContinueLeave, RemoveConnection,
        LeaveOther, LeaveEmpty, DestroyEmpty, UnregisterEmpty, PickHost,
        ElectHost, HostWaited, FinishHostWaited, HostDidNotWait

\* When no call is in progress, the players of the room are clients that are
\* in it, however the calls of attemptJoin and disconnect have overlapped.
THEOREM PlayersStayInRoom == Spec => []PlayersAreInRoom
  <1>1. Init => TypeOK /\ PlayersAreAdmitted
    BY InitIsTyped DEF Init, PlayersAreAdmitted
  <1>2. TypeOK /\ PlayersAreAdmitted /\ [Next]_vars
            => TypeOK' /\ PlayersAreAdmitted'
    BY StepKeepsRoom, StepKeepsCalls, StepKeepsClients, StepKeepsAdmitted
    DEF TypeOK
  <1>3. TypeOK /\ PlayersAreAdmitted => PlayersAreInRoom
    BY DEF TypeOK, RoomTypeOK, PlayersAreAdmitted, PlayersAreInRoom, Quiet
  <1> QED BY <1>1, <1>2, <1>3, PTL DEF Spec

-----------------------------------------------------------------------------
\* A destroyed room that the worker still has is about to be taken out of its
\* rooms by the call of destroy that destroyed it.
DestroyIsFinished ==
    LET finishing == \/ \E c \in Client : leave[c] = "unregistering"
                     \/ timeout = "unregistering"
    IN  /\ ~registered => destroyed
        /\ finishing => destroyed
        /\ destroyed /\ registered => finishing

LEMMA StepKeepsDestroyed ==
    ASSUME TypeOK, DestroyIsFinished, [Next]_vars
    PROVE  DestroyIsFinished'
  <1> USE DEF DestroyIsFinished
  <1>0. leave \in [Client -> LeaveStages]
    BY DEF TypeOK, CallsTypeOK
  <1>1. CASE UNCHANGED <<registered, destroyed, leave, timeout>>
    BY <1>1
  <1>2. CASE TimeOut
    BY <1>2 DEF TimeOut
  <1>3. CASE DestroyTimedOut \/ UnregisterTimedOut
    BY <1>3 DEF DestroyTimedOut, UnregisterTimedOut, Destroy, Unregister
  <1>4. ASSUME NEW c \in Client, DestroyEmpty(c) \/ UnregisterEmpty(c)
        PROVE  DestroyIsFinished'
    BY <1>0, <1>4
    DEF DestroyEmpty, UnregisterEmpty, Destroy, Unregister, LeaveStage
  <1>5. ASSUME UNCHANGED <<registered, destroyed, timeout>>,
               NEW c \in Client, leave[c] # "unregistering",
               NEW stage, stage # "unregistering",
               leave' = [leave EXCEPT ![c] = stage]
        PROVE  DestroyIsFinished'
    BY <1>0, <1>5
  <1>6. ASSUME NEW c \in Client, Disconnect(c) \/ Refuse(c)
        PROVE  DestroyIsFinished'
    <2>1. UNCHANGED <<registered, destroyed, timeout>>
      BY <1>6 DEF Disconnect, Refuse, room
    <2>2. \/ leave' = leave
          \/ leave[c] = "no" /\ leave' = [leave EXCEPT ![c] = "sending"]
      BY <1>6 DEF Disconnect, Refuse, LeaveStage
    <2> QED BY <1>1, <1>5, <2>1, <2>2
  <1>7. ASSUME NEW c \in Client, ContinueLeave(c),
               ~DestroyEmpty(c), ~UnregisterEmpty(c)
        PROVE  DestroyIsFinished'
    <2>1. UNCHANGED <<registered, destroyed, timeout>>
      BY <1>7 DEF ContinueLeave, RemoveConnection, LeaveRoom, LeaveOther,
                  LeaveEmpty, PickHost, ElectHost, HostWaited,
                  FinishHostWaited, HostDidNotWait, room
    <2>2. /\ leave[c] # "unregistering"
          /\ \E stage \in LeaveStages \ {"unregistering"} :
                leave' = [leave EXCEPT ![c] = stage]
      BY <1>7 DEF ContinueLeave, RemoveConnection, LeaveRoom, LeaveOther,
                  LeaveEmpty, PickHost, ElectHost, HostWaited,
                  FinishHostWaited, HostDidNotWait, LeaveStage, TellLeft,
                  LeaveStages
    <2> QED BY <1>5, <2>1, <2>2
  <1>8. ASSUME NEW c \in Client, ContinueJoin(c), ~Refuse(c)
        PROVE  DestroyIsFinished'
    BY <1>1, <1>8
    DEF ContinueJoin, Admit, SelectHost, BecomeHost, EnterLobby, Announce,
        AddMember, FinishJoin, HostReturns, AnnounceHost, JoinOtherClients,
        FinishJoinOthers, WaitForHost, SendWaitForHost, room
  <1> QED
    BY <1>1, <1>2, <1>3, <1>4, <1>6, <1>7, <1>8
    DEF Next, vars, room, calls, Call, AskJoin, StartGame, EndGame,
        ContinueRoom, SendStartGame, SendEndGame, ClearConnections

\* When no call is in progress, the worker has the room exactly if it was not
\* destroyed, whichever calls of BaseRoom.destroy have overlapped with what.
THEOREM DestroyedLeavesWorker == Spec => []DestroyedIsUnregistered
  <1>1. Init => TypeOK /\ DestroyIsFinished
    BY InitIsTyped DEF Init, DestroyIsFinished
  <1>2. TypeOK /\ DestroyIsFinished /\ [Next]_vars
            => TypeOK' /\ DestroyIsFinished'
    BY StepKeepsRoom, StepKeepsCalls, StepKeepsClients, StepKeepsDestroyed
    DEF TypeOK
  <1>3. TypeOK /\ DestroyIsFinished => DestroyedIsUnregistered
    BY DEF TypeOK, RoomTypeOK, DestroyIsFinished, DestroyedIsUnregistered, Quiet
  <1> QED BY <1>1, <1>2, <1>3, PTL DEF Spec
-----------------------------------------------------------------------------
(* The Map of connections, as a set of members and a number of places. *)

\* A Map has one entry for a key.
NoDuplicates ==
    \A k, l \in 1 .. Len(connections) : connections[k] = connections[l] => k = l

\* What a step makes of the Map when it inserts, deletes or clears.
LEMMA InsertedMembers ==
    ASSUME RoomTypeOK, NoDuplicates, NEW c \in Client, connections' = Inserted(c)
    PROVE  /\ Members' = Members \cup {c}
           /\ NoDuplicates'
           /\ Len(connections') <= Len(connections) + 1
  <1>1. connections \in Seq(Client) /\ Len(connections) \in Nat
    BY DEF RoomTypeOK
  <1>2. CASE c \in Members
    BY <1>1, <1>2 DEF Inserted, Members, NoDuplicates
  <1>3. CASE c \notin Members
    <2>. DEFINE n == Len(connections)
    <2>1. /\ connections' = Append(connections, c)
          /\ Len(connections') = n + 1
          /\ connections'[n + 1] = c
          /\ \A k \in 1 .. n : connections'[k] = connections[k]
      BY <1>1, <1>3 DEF Inserted
    <2>2. 1 .. n + 1 = (1 .. n) \cup {n + 1}
      BY <1>1
    <2>3. \A k \in 1 .. n : connections[k] # c
      BY <1>3 DEF Members
    <2>4. Members' = Members \cup {c}
      BY <2>1, <2>2 DEF Members
    <2>5. NoDuplicates'
      BY <1>1, <2>1, <2>2, <2>3 DEF NoDuplicates
    <2> QED BY <1>1, <2>1, <2>4, <2>5
  <1> QED BY <1>2, <1>3

\* Deleting moves what follows up by one place.
LEMMA WithoutMembers ==
    ASSUME RoomTypeOK, NoDuplicates, NEW c \in Client, connections' = Without(c)
    PROVE  /\ Members' = Members \ {c}
           /\ NoDuplicates'
           /\ Len(connections') <= Len(connections)
  <1>1. connections \in Seq(Client) /\ Len(connections) \in Nat
    BY DEF RoomTypeOK
  <1>2. CASE c \notin Members
    BY <1>1, <1>2 DEF Without, Members, NoDuplicates
  <1>3. CASE c \in Members
    <2>. DEFINE n == Len(connections)
                p == Place(c)
                moved(k) == IF k < p THEN k ELSE k + 1
    <2>1. p \in 1 .. n /\ connections[p] = c
      BY <1>3 DEF Place, Members
    <2>. DEFINE before == SubSeq(connections, 1, p - 1)
                after == SubSeq(connections, p + 1, n)
    <2>2. connections' = before \o after
      BY <1>3 DEF Without
    <2>. HIDE DEF p
    <2>3. /\ before \in Seq(Client) /\ Len(before) = p - 1
          /\ \A k \in 1 .. p - 1 : before[k] = connections[k]
      BY <1>1, <2>1, SubSeqProperties
    <2>4. /\ after \in Seq(Client) /\ Len(after) = n - p
          /\ \A k \in 1 .. n - p : after[k] = connections[k + p]
      BY <1>1, <2>1, SubSeqProperties
    <2>. HIDE DEF before, after
    <2>5. /\ Len(connections') = n - 1
          /\ \A k \in 1 .. n - 1 : connections'[k] = connections[moved(k)]
      <3>1. /\ Len(connections') = (p - 1) + (n - p)
            /\ \A k \in 1 .. (p - 1) + (n - p) :
                  connections'[k] = IF k <= p - 1 THEN before[k]
                                                ELSE after[k - (p - 1)]
        BY <2>2, <2>3, <2>4, ConcatProperties
      <3>2. (p - 1) + (n - p) = n - 1
        BY <1>1, <2>1
      <3>3. ASSUME NEW k \in 1 .. n - 1
            PROVE  connections'[k] = connections[moved(k)]
        <4>1. CASE k < p
          BY <1>1, <2>1, <2>3, <3>1, <3>2, <4>1
        <4>2. CASE ~(k < p)
          <5>1. /\ k - (p - 1) \in 1 .. n - p
                /\ (k - (p - 1)) + p = k + 1
            BY <1>1, <2>1, <4>2
          <5> QED BY <1>1, <2>1, <2>4, <3>1, <3>2, <4>2, <5>1
        <4> QED BY <4>1, <4>2
      <3> QED BY <3>1, <3>2, <3>3
    <2>6. /\ \A k \in 1 .. n - 1 : moved(k) \in (1 .. n) \ {p}
          /\ \A l \in (1 .. n) \ {p} : \E k \in 1 .. n - 1 : l = moved(k)
          /\ \A k, l \in 1 .. n - 1 : moved(k) = moved(l) => k = l
      <3>1. \A l \in (1 .. n) \ {p} :
               /\ (IF l < p THEN l ELSE l - 1) \in 1 .. n - 1
               /\ moved(IF l < p THEN l ELSE l - 1) = l
        BY <1>1, <2>1
      <3>2. /\ \A k \in 1 .. n - 1 : moved(k) \in (1 .. n) \ {p}
            /\ \A k, l \in 1 .. n - 1 : moved(k) = moved(l) => k = l
        BY <1>1, <2>1
      <3> QED BY <3>1, <3>2
    <2>. HIDE DEF moved
    <2>7. Members' = {connections[l] : l \in (1 .. n) \ {p}}
      <3>1. Members' = {connections[moved(k)] : k \in 1 .. n - 1}
        BY <2>5 DEF Members
      <3> QED BY <2>6, <3>1
    <2>8. \A l \in 1 .. n : connections[l] = c <=> l = p
      BY <2>1 DEF NoDuplicates
    <2>9. Members' = Members \ {c}
      BY <2>7, <2>8 DEF Members
    <2>10. NoDuplicates'
      BY <2>5, <2>6 DEF NoDuplicates
    <2> QED BY <1>1, <2>5, <2>9, <2>10
  <1> QED BY <1>2, <1>3

\* An empty Map.
LEMMA NoMembers ==
    ASSUME RoomTypeOK
    PROVE  /\ connections = <<>> <=> Members = {}
           /\ connections # <<>> => Head(connections) \in Members
  BY DEF RoomTypeOK, Members

LEMMA ClearedMembers ==
    ASSUME connections' = <<>>
    PROVE  Members' = {}
  BY DEF Members

\* The actions that insert into the Map, and the one that deletes.
LEMMA MapInserts ==
    ASSUME TypeOK, NoDuplicates, NEW c \in Client,
           HostReturns(c) \/ WaitForHost(c) \/ AddMember(c)
    PROVE  /\ Members' = Members \cup {c}
           /\ NoDuplicates'
           /\ Len(connections') <= Len(connections) + 1
  <1>1. connections' = Inserted(c)
    BY DEF HostReturns, WaitForHost, AddMember
  <1> QED BY <1>1, InsertedMembers DEF TypeOK

LEMMA MapDeletes ==
    ASSUME TypeOK, NoDuplicates, NEW c \in Client, LeaveRoom(c)
    PROVE  /\ Members' = Members \ {c}
           /\ NoDuplicates'
           /\ Len(connections') <= Len(connections)
  <1>1. connections' = Without(c)
    BY DEF LeaveRoom
  <1> QED BY <1>1, WithoutMembers DEF TypeOK

\* The other actions clear the Map or leave it alone.
LEMMA MapStays ==
    ASSUME [Next]_vars,
           \A c \in Client : /\ ~HostReturns(c) /\ ~WaitForHost(c)
                             /\ ~AddMember(c) /\ ~LeaveRoom(c)
    PROVE  \/ ClearConnections /\ connections' = <<>> /\ Members' = {}
           \/ ~ClearConnections /\ connections' = connections /\ Members' = Members
  <1>1. CASE ClearConnections
    BY <1>1 DEF ClearConnections, Members
  <1>2. CASE ~ClearConnections
    <2>1. connections' = connections
      BY <1>2
      DEF Next, vars, room, Call, TimeOut, AskJoin, Disconnect, StartGame,
          EndGame, ContinueRoom, SendStartGame, SendEndGame, DestroyTimedOut,
          UnregisterTimedOut, ContinueJoin, Refuse, Admit, SelectHost,
          BecomeHost, EnterLobby, Announce, FinishJoin, AnnounceHost,
          JoinOtherClients, FinishJoinOthers, SendWaitForHost, ContinueLeave,
          RemoveConnection, LeaveOther, LeaveEmpty, DestroyEmpty,
          UnregisterEmpty, PickHost, ElectHost, HostWaited, FinishHostWaited,
          HostDidNotWait
    <2> QED BY <1>2, <2>1 DEF Members
  <1> QED BY <1>1, <1>2

\* The Map has one entry for a client after every step.
LEMMA StepKeepsNoDuplicates ==
    ASSUME TypeOK, NoDuplicates, [Next]_vars
    PROVE  NoDuplicates'
  <1>1. CASE connections' = connections \/ connections' = <<>>
    BY <1>1 DEF NoDuplicates
  <1> QED BY <1>1, MapInserts, MapDeletes, MapStays

\* What the steps of a join have in common, the refusal apart.
LEMMA JoinMoves ==
    ASSUME NEW c \in Client, ContinueJoin(c), ~Refuse(c)
    PROVE  /\ join[c] # "no"
           /\ UNCHANGED <<leave, elected, game, timeout, online, destroyed,
                          registered>>
           /\ \E s \in JoinStages : join' = [join EXCEPT ![c] = s]
  BY DEF ContinueJoin, Admit, SelectHost, BecomeHost, EnterLobby, Announce,
         AddMember, FinishJoin, HostReturns, AnnounceHost, JoinOtherClients,
         FinishJoinOthers, WaitForHost, SendWaitForHost, HostIsKnown, JoinStage,
         JoinStages, room

\* And the steps of a leave.
LEMMA LeaveMoves ==
    ASSUME NEW c \in Client, ContinueLeave(c)
    PROVE  /\ leave[c] # "no"
           /\ UNCHANGED <<join, game, timeout, joinedFlag>>
           /\ \E s \in LeaveStages : leave' = [leave EXCEPT ![c] = s]
  BY DEF ContinueLeave, RemoveConnection, LeaveRoom, LeaveOther, LeaveEmpty,
         DestroyEmpty, UnregisterEmpty, PickHost, ElectHost, HostWaited,
         FinishHostWaited, HostDidNotWait, LeaveStage, TellLeft, LeaveStages, room
-----------------------------------------------------------------------------
(* Places, for any number of overlapping calls. *)

\* The stages of a join that has been given a place.
Entering == {"player", "selecting", "host", "joined", "announced"}

\* The clients that join, that leave, and that have been given a place.
Joining == {c \in Client : join[c] # "no"}
Leaving == {c \in Client : leave[c] # "no"}
Entrants == {c \in Client : join[c] \in Entering}

\* A client that enters has no connection in the room yet.
EntersAsNew == \A c \in Client : join[c] \in Entering => c \notin Members

\* Every join in progress but one may have counted the same free place.
PlacesAreShared ==
    /\ Pending <= MaxPending
    /\ Len(connections) + Cardinality(Entrants) <= MaxPlayers + MaxPending - 1

\* Sets with at most one element more, with none more, and with one less.
LEMMA AtMostOneMore ==
    ASSUME NEW S, IsFiniteSet(S), NEW x, NEW T \in SUBSET (S \cup {x})
    PROVE  /\ IsFiniteSet(T)
           /\ Cardinality(T) \in Nat /\ Cardinality(S) \in Nat
           /\ Cardinality(T) <= Cardinality(S) + 1
  <1>1. /\ IsFiniteSet(S \cup {x})
        /\ Cardinality(S) \in Nat
        /\ Cardinality(S \cup {x}) <= Cardinality(S) + 1
    <2>1. Cardinality(S) \in Nat
      BY FS_CardinalityType
    <2>2. /\ IsFiniteSet(S \cup {x})
          /\ Cardinality(S \cup {x}) = IF x \in S THEN Cardinality(S)
                                                 ELSE Cardinality(S) + 1
      BY FS_AddElement
    <2> QED BY <2>1, <2>2
  <1>2. /\ IsFiniteSet(T) /\ Cardinality(T) \in Nat
        /\ Cardinality(T) <= Cardinality(S \cup {x})
        /\ Cardinality(S \cup {x}) \in Nat
    BY <1>1, FS_Subset, FS_CardinalityType
  <1> QED BY <1>1, <1>2

LEMMA NotMore ==
    ASSUME NEW S, IsFiniteSet(S), NEW T \in SUBSET S
    PROVE  /\ IsFiniteSet(T)
           /\ Cardinality(T) \in Nat /\ Cardinality(S) \in Nat
           /\ Cardinality(T) <= Cardinality(S)
  BY FS_Subset, FS_CardinalityType

LEMMA OneLess ==
    ASSUME NEW S, IsFiniteSet(S), NEW x \in S, NEW T \in SUBSET (S \ {x})
    PROVE  Cardinality(T) <= Cardinality(S) - 1
  <1>1. /\ IsFiniteSet(S \ {x})
        /\ Cardinality(S \ {x}) = Cardinality(S) - 1
        /\ Cardinality(S) \in Nat
    BY FS_RemoveElement, FS_CardinalityType
  <1> QED BY <1>1, NotMore

\* There are finitely many calls.
LEMMA FiniteCalls ==
    /\ IsFiniteSet(Joining) /\ IsFiniteSet(Leaving) /\ IsFiniteSet(Entrants)
    /\ Cardinality(Joining) \in Nat /\ Cardinality(Leaving) \in Nat
    /\ Cardinality(Entrants) \in Nat
  <1>1. /\ Joining \subseteq Client /\ Leaving \subseteq Client
        /\ Entrants \subseteq Client
    BY DEF Joining, Leaving, Entrants
  <1> QED BY <1>1, RoomAssumption, NotMore DEF RoomAssumption

\* A step adds a call only where MayCall lets it, and goes on with it later:
\* a join that is refused becomes a leave.
LEMMA StepKeepsPending ==
    ASSUME TypeOK, Pending <= MaxPending, [Next]_vars
    PROVE  Pending' <= MaxPending
  <1> DEFINE flag(s) == IF s # "no" THEN 1 ELSE 0
  <1>0. /\ join \in [Client -> JoinStages] /\ leave \in [Client -> LeaveStages]
        /\ Joining \subseteq Client /\ Leaving \subseteq Client
        /\ IsFiniteSet(Joining) /\ IsFiniteSet(Leaving)
        /\ Cardinality(Joining) \in Nat /\ Cardinality(Leaving) \in Nat
        /\ MaxPending \in Nat
    BY FiniteCalls, RoomAssumption
    DEF TypeOK, CallsTypeOK, Joining, Leaving, RoomAssumption
  <1>1. /\ Pending = Cardinality(Joining) + Cardinality(Leaving)
                        + flag(game) + flag(timeout)
        /\ Pending' = Cardinality(Joining') + Cardinality(Leaving')
                        + flag(game') + flag(timeout')
    BY DEF Pending, Joining, Leaving
  <1>2. ASSUME Joining' \subseteq Joining, Leaving' \subseteq Leaving,
               game' # "no" => game # "no", timeout' # "no" => timeout # "no"
        PROVE  Pending' <= MaxPending
    <2>1. /\ Cardinality(Joining') \in Nat /\ Cardinality(Leaving') \in Nat
          /\ Cardinality(Joining') <= Cardinality(Joining)
          /\ Cardinality(Leaving') <= Cardinality(Leaving)
      BY <1>0, <1>2, NotMore
    <2> QED BY <1>0, <1>1, <1>2, <2>1
  <1>3. CASE Call
    <2>1. Pending < MaxPending
      BY <1>3 DEF Call, TimeOut, AskJoin, Disconnect, StartGame, EndGame,
                  Command, MayCall
    <2>2. ASSUME NEW c \in Client, AskJoin(c)
          PROVE  Pending' <= MaxPending
      <3>1. /\ Joining' \subseteq Joining \cup {c} /\ Leaving' = Leaving
            /\ UNCHANGED <<game, timeout>>
        BY <1>0, <2>2 DEF AskJoin, JoinStage, Joining, Leaving
      <3>2. /\ Cardinality(Joining') \in Nat
            /\ Cardinality(Joining') <= Cardinality(Joining) + 1
        BY <1>0, <3>1, AtMostOneMore
      <3> QED BY <1>0, <1>1, <2>1, <3>1, <3>2
    <2>3. ASSUME NEW c \in Client, Disconnect(c)
          PROVE  Pending' <= MaxPending
      <3>1. /\ Leaving' \subseteq Leaving \cup {c} /\ Joining' = Joining
            /\ UNCHANGED <<game, timeout>>
        BY <1>0, <2>3 DEF Disconnect, LeaveStage, Joining, Leaving
      <3>2. /\ Cardinality(Leaving') \in Nat
            /\ Cardinality(Leaving') <= Cardinality(Leaving) + 1
        BY <1>0, <3>1, AtMostOneMore
      <3> QED BY <1>0, <1>1, <2>1, <3>1, <3>2
    <2>4. CASE TimeOut \/ \E c \in Client : StartGame(c) \/ EndGame(c)
      <3>1. /\ Joining' = Joining /\ Leaving' = Leaving
            /\ \/ timeout' = timeout /\ game = "no"
               \/ game' = game /\ timeout' = "destroying"
        BY <2>4 DEF TimeOut, StartGame, EndGame, Command, Joining, Leaving
      <3> QED BY <1>0, <1>1, <2>1, <3>1
    <2> QED BY <1>3, <2>2, <2>3, <2>4 DEF Call
  <1>4. CASE ContinueRoom
    <2>1. /\ Joining' = Joining /\ Leaving' = Leaving
          /\ game' # "no" => game # "no"
          /\ timeout' # "no" => timeout # "no"
      BY <1>4 DEF ContinueRoom, SendStartGame, SendEndGame, ClearConnections,
                  DestroyTimedOut, UnregisterTimedOut, Joining, Leaving
    <2> QED BY <1>2, <2>1
  <1>5. ASSUME NEW c \in Client, Refuse(c)
        PROVE  Pending' <= MaxPending
    <2>1. /\ c \in Joining /\ Joining' \subseteq Joining \ {c}
          /\ Leaving' \subseteq Leaving \cup {c}
          /\ UNCHANGED <<game, timeout>>
      BY <1>0, <1>5 DEF Refuse, JoinStage, Joining, Leaving
    <2>2. /\ Cardinality(Joining') \in Nat /\ Cardinality(Leaving') \in Nat
          /\ Cardinality(Joining') <= Cardinality(Joining) - 1
          /\ Cardinality(Leaving') <= Cardinality(Leaving) + 1
      BY <1>0, <2>1, AtMostOneMore, OneLess, NotMore
    <2> QED BY <1>0, <1>1, <2>1, <2>2
  <1>6. ASSUME NEW c \in Client, ContinueJoin(c), ~Refuse(c)
        PROVE  Pending' <= MaxPending
    <2>1. /\ Joining' \subseteq Joining /\ Leaving' = Leaving
          /\ UNCHANGED <<game, timeout>>
      BY <1>0, <1>6, JoinMoves DEF Joining, Leaving
    <2> QED BY <1>2, <2>1
  <1>7. ASSUME NEW c \in Client, ContinueLeave(c)
        PROVE  Pending' <= MaxPending
    <2>1. /\ Joining' = Joining /\ Leaving' \subseteq Leaving
          /\ UNCHANGED <<game, timeout>>
      BY <1>0, <1>7, LeaveMoves DEF Joining, Leaving
    <2> QED BY <1>2, <2>1
  <1>8. CASE UNCHANGED vars
    <2>1. /\ Joining' = Joining /\ Leaving' = Leaving
          /\ UNCHANGED <<game, timeout>>
      BY <1>8 DEF vars, calls, Joining, Leaving
    <2> QED BY <1>2, <2>1
  <1> QED
    BY <1>3, <1>4, <1>5, <1>6, <1>7, <1>8 DEF Next

\* Only its own join inserts a connection, and ends to enter with it.
LEMMA StepKeepsNew ==
    ASSUME TypeOK, NoDuplicates, EntersAsNew, [Next]_vars
    PROVE  EntersAsNew'
  <1> USE DEF EntersAsNew, Entering
  <1>0. join \in [Client -> JoinStages]
    BY DEF TypeOK, CallsTypeOK
  <1>1. ASSUME NEW c \in Client, HostReturns(c) \/ WaitForHost(c) \/ AddMember(c)
        PROVE  EntersAsNew'
    <2>1. Members' = Members \cup {c}
      BY <1>1, MapInserts
    <2>2. \E s \in {"host joined", "waits", "added"} : join' = [join EXCEPT ![c] = s]
      BY <1>1 DEF HostReturns, WaitForHost, AddMember, JoinStage
    <2> QED BY <1>0, <2>1, <2>2
  <1>2. ASSUME NEW c \in Client, LeaveRoom(c)
        PROVE  EntersAsNew'
    <2>1. Members' = Members \ {c}
      BY <1>2, MapDeletes
    <2> QED BY <1>0, <1>2, <2>1 DEF LeaveRoom
  <1>3. ASSUME Members' = Members \/ Members' = {},
               \A c \in Client : join'[c] \in Entering /\ join[c] \notin Entering
                                    => c \notin Members
        PROVE  EntersAsNew'
    BY <1>3
  <1>4. ASSUME \A c \in Client : /\ ~HostReturns(c) /\ ~WaitForHost(c)
                                 /\ ~AddMember(c) /\ ~LeaveRoom(c)
        PROVE  EntersAsNew'
    <2>1. Members' = Members \/ Members' = {}
      BY <1>4, MapStays
    <2>2. CASE UNCHANGED join
      BY <1>3, <2>1, <2>2
    <2>3. ASSUME NEW c \in Client, Admit(c)
          PROVE  EntersAsNew'
      BY <1>0, <1>3, <2>1, <2>3 DEF Admit, JoinStage
    <2>4. ASSUME NEW c \in Client,
                 \/ AskJoin(c) \/ Refuse(c) \/ SelectHost(c) \/ BecomeHost(c)
                 \/ EnterLobby(c) \/ Announce(c) \/ FinishJoin(c)
                 \/ AnnounceHost(c) \/ JoinOtherClients(c) \/ FinishJoinOthers(c)
                 \/ SendWaitForHost(c)
          PROVE  EntersAsNew'
      <3>1. \A d \in Client : join'[d] \in Entering => join[d] \in Entering
        BY <1>0, <2>4
        DEF AskJoin, Refuse, SelectHost, BecomeHost, EnterLobby, HostIsKnown,
            Announce, FinishJoin, AnnounceHost, JoinOtherClients,
            FinishJoinOthers, SendWaitForHost, JoinStage
      <3> QED BY <1>3, <2>1, <3>1
    <2> QED
      BY <1>4, <2>2, <2>3, <2>4, LeaveMoves
      DEF Next, vars, calls, Call, TimeOut, Disconnect, StartGame, EndGame,
          ContinueRoom, SendStartGame, SendEndGame, ClearConnections,
          DestroyTimedOut, UnregisterTimedOut, ContinueJoin
  <1> QED BY <1>1, <1>2, <1>4

\* A place is counted for a join when it is admitted, and is a connection
\* afterwards.
LEMMA StepKeepsShared ==
    ASSUME TypeOK, NoDuplicates, EntersAsNew, PlacesAreShared, [Next]_vars
    PROVE  PlacesAreShared'
  <1>0. /\ join \in [Client -> JoinStages]
        /\ Entrants \subseteq Client /\ IsFiniteSet(Entrants)
        /\ Cardinality(Entrants) \in Nat
        /\ MaxPending \in Nat \ {0} /\ MaxPlayers \in Nat \ {0}
        /\ Len(connections) \in Nat /\ Len(connections') \in Nat
        /\ Len(connections) + Cardinality(Entrants) <= MaxPlayers + MaxPending - 1
    <2>1. connections \in Seq(Client) /\ connections' \in Seq(Client)
      BY StepKeepsRoom DEF TypeOK, RoomTypeOK
    <2>2. Len(connections) \in Nat /\ Len(connections') \in Nat
      BY <2>1
    <2> QED
      BY <2>2, FiniteCalls, RoomAssumption
      DEF TypeOK, CallsTypeOK, Entrants, PlacesAreShared, RoomAssumption
  <1>1. Pending' <= MaxPending
    BY StepKeepsPending DEF PlacesAreShared
  <1>2. SUFFICES Len(connections') + Cardinality(Entrants')
                    <= MaxPlayers + MaxPending - 1
    BY <1>1 DEF PlacesAreShared
  \* Who is admitted found a free place; it and the others that enter are
  \* calls in progress.
  <1>3. ASSUME NEW c \in Client, Admit(c)
        PROVE  Len(connections') + Cardinality(Entrants')
                    <= MaxPlayers + MaxPending - 1
    <2>1. /\ Len(connections) < MaxPlayers /\ connections' = connections
          /\ Entrants' \subseteq Joining
      BY <1>0, <1>3 DEF Admit, JoinStage, Entrants, Entering, Joining
    <2>2. /\ Cardinality(Entrants') \in Nat
          /\ Cardinality(Entrants') <= Cardinality(Joining)
      BY <2>1, FiniteCalls, NotMore
    <2>3. Cardinality(Joining) <= MaxPending
      <3> DEFINE flag(s) == IF s # "no" THEN 1 ELSE 0
      <3>1. Pending = Cardinality(Joining) + Cardinality(Leaving)
                        + flag(game) + flag(timeout)
        BY DEF Pending, Joining, Leaving
      <3>2. flag(game) \in Nat /\ flag(timeout) \in Nat
        OBVIOUS
      <3> HIDE DEF flag
      <3> QED BY <1>0, <3>1, <3>2, FiniteCalls DEF PlacesAreShared
    <2> QED BY <1>0, <2>1, <2>2, <2>3, FiniteCalls
  \* A connection takes the place of one that enters.
  <1>4. ASSUME NEW c \in Client, HostReturns(c) \/ WaitForHost(c) \/ AddMember(c)
        PROVE  Len(connections') + Cardinality(Entrants')
                    <= MaxPlayers + MaxPending - 1
    <2>1. Len(connections') <= Len(connections) + 1
      BY <1>4, MapInserts
    <2>2. c \in Entrants /\ Entrants' \subseteq Entrants \ {c}
      BY <1>0, <1>4 DEF HostReturns, WaitForHost, AddMember, HostIsKnown,
                        JoinStage, Entrants, Entering
    <2>3. /\ Cardinality(Entrants') \in Nat
          /\ Cardinality(Entrants') <= Cardinality(Entrants) - 1
      BY <1>0, <2>2, OneLess, NotMore
    <2> QED BY <1>0, <2>1, <2>3
  <1>5. ASSUME Len(connections') <= Len(connections), Entrants' \subseteq Entrants
        PROVE  Len(connections') + Cardinality(Entrants')
                    <= MaxPlayers + MaxPending - 1
    <2>1. /\ Cardinality(Entrants') \in Nat
          /\ Cardinality(Entrants') <= Cardinality(Entrants)
      BY <1>0, <1>5, NotMore
    <2> QED BY <1>0, <1>5, <2>1
  <1>6. ASSUME NEW c \in Client, LeaveRoom(c)
        PROVE  Len(connections') + Cardinality(Entrants')
                    <= MaxPlayers + MaxPending - 1
    <2>1. Len(connections') <= Len(connections)
      BY <1>6, MapDeletes
    <2>2. Entrants' \subseteq Entrants
      BY <1>6 DEF LeaveRoom, Entrants
    <2> QED BY <1>5, <2>1, <2>2
  <1>7. ASSUME \A c \in Client : /\ ~HostReturns(c) /\ ~WaitForHost(c)
                                 /\ ~AddMember(c) /\ ~LeaveRoom(c) /\ ~Admit(c)
        PROVE  Len(connections') + Cardinality(Entrants')
                    <= MaxPlayers + MaxPending - 1
    <2>1. Len(connections') <= Len(connections)
      <3>1. connections' = connections \/ connections' = <<>>
        BY <1>7, MapStays
      <3> QED BY <1>0, <3>1
    <2>2. CASE UNCHANGED join
      <3>1. Entrants' = Entrants
        BY <2>2 DEF Entrants
      <3> QED BY <1>5, <2>1, <3>1
    <2>3. ASSUME NEW c \in Client,
                 \/ AskJoin(c) \/ Refuse(c) \/ SelectHost(c) \/ BecomeHost(c)
                 \/ EnterLobby(c) \/ Announce(c) \/ FinishJoin(c)
                 \/ AnnounceHost(c) \/ JoinOtherClients(c) \/ FinishJoinOthers(c)
                 \/ SendWaitForHost(c)
          PROVE  Len(connections') + Cardinality(Entrants')
                      <= MaxPlayers + MaxPending - 1
      <3>1. Entrants' \subseteq Entrants
        BY <1>0, <2>3
        DEF AskJoin, Refuse, SelectHost, BecomeHost, EnterLobby, HostIsKnown,
            Announce, FinishJoin, AnnounceHost, JoinOtherClients,
            FinishJoinOthers, SendWaitForHost, JoinStage, Entrants, Entering
      <3> QED BY <1>5, <2>1, <3>1
    <2> QED
      BY <1>7, <2>2, <2>3, LeaveMoves
      DEF Next, vars, calls, Call, TimeOut, Disconnect, StartGame, EndGame,
          ContinueRoom, SendStartGame, SendEndGame, ClearConnections,
          DestroyTimedOut, UnregisterTimedOut, ContinueJoin
  <1> QED BY <1>3, <1>4, <1>6, <1>7

\* handleRemoteJoin counts the connections against settings.maxPlayers before
\* the awaits after which it adds one, so joins that overlap may find the same
\* free place.  However the calls overlap, a room exceeds its maximum by less
\* than the number of calls that overlap.
THEOREM OverflowIsBounded ==
    Spec => [](Len(connections) <= MaxPlayers + MaxPending - 1)
  <1>1. Init => TypeOK /\ NoDuplicates /\ EntersAsNew /\ PlacesAreShared
    <2> SUFFICES ASSUME Init
                 PROVE  NoDuplicates /\ EntersAsNew /\ PlacesAreShared
      BY InitIsTyped
    <2>1. /\ Joining = {} /\ Leaving = {} /\ Entrants = {}
          /\ game = "no" /\ timeout = "no" /\ Len(connections) = 0
      BY DEF Init, Joining, Leaving, Entrants, Entering
    <2>2. Cardinality({}) = 0
      BY FS_EmptySet
    <2>3. Pending = 0 /\ Len(connections) + Cardinality(Entrants) = 0
      <3>1. Pending = Cardinality(Joining) + Cardinality(Leaving) + 0 + 0
        BY <2>1 DEF Pending, Joining, Leaving
      <3> QED BY <2>1, <2>2, <3>1
    <2>4. PlacesAreShared
      BY <2>3, RoomAssumption DEF PlacesAreShared, RoomAssumption
    <2> QED
      BY <2>1, <2>4 DEF NoDuplicates, EntersAsNew, Entrants, Init
  <1>2. TypeOK /\ NoDuplicates /\ EntersAsNew /\ PlacesAreShared /\ [Next]_vars
            => TypeOK' /\ NoDuplicates' /\ EntersAsNew' /\ PlacesAreShared'
    BY StepKeepsRoom, StepKeepsCalls, StepKeepsClients, StepKeepsNoDuplicates,
       StepKeepsNew, StepKeepsShared
    DEF TypeOK
  <1>3. TypeOK /\ PlacesAreShared
            => Len(connections) <= MaxPlayers + MaxPending - 1
    <2> SUFFICES ASSUME TypeOK, PlacesAreShared
                 PROVE  Len(connections) <= MaxPlayers + MaxPending - 1
      OBVIOUS
    <2>1. Len(connections) \in Nat
      BY DEF TypeOK, RoomTypeOK
    <2> QED
      BY <2>1, FiniteCalls, RoomAssumption DEF PlacesAreShared, RoomAssumption
  <1> QED BY <1>1, <1>2, <1>3, PTL DEF Spec

\* With one call at a time the room keeps to settings.maxPlayers.
THEOREM RoomNeverOverflows ==
    ASSUME MaxPending = 1
    PROVE  Spec => []Capacity
  <1>1. Len(connections) <= MaxPlayers + MaxPending - 1 => Capacity
    BY RoomAssumption DEF Capacity, RoomAssumption
  <1> QED BY <1>1, OverflowIsBounded, PTL

-----------------------------------------------------------------------------
(* Calls that do not overlap. *)

\* The join of c, the leave of c, or something that the room does is the only
\* call in progress.
OnlyJoin(c) ==
    /\ \A d \in Client : d # c => join[d] = "no"
    /\ \A d \in Client : leave[d] = "no"
    /\ game = "no" /\ timeout = "no"

OnlyLeave(c) ==
    /\ \A d \in Client : join[d] = "no"
    /\ \A d \in Client : d # c => leave[d] = "no"
    /\ game = "no" /\ timeout = "no"

OnlyRoom ==
    /\ \A d \in Client : join[d] = "no" /\ leave[d] = "no"
    /\ game = "no" \/ timeout = "no"

\* At most one call is in progress.
OneCall ==
    /\ \A c \in Client : join[c] # "no" => OnlyJoin(c)
    /\ \A c \in Client : leave[c] # "no" => OnlyLeave(c)
    /\ game # "no" \/ timeout # "no" => OnlyRoom

\* The stages in which a client still asks, and in which one has left.
Asking == {"found", "not found", "player", "selecting", "host", "waits"}
Left == {"left", "picked", "elected", "others joined"}

\* Members are in the room, who is in the room has a player, and only a
\* client that is just leaving is not connected any more.
IsThere ==
    /\ Members \subseteq inRoom
    /\ inRoom \subseteq players
    /\ \A c \in Client :
        /\ join[c] \in Entering => c \in players
        /\ join[c] \in {"joined", "announced"} => c \in inRoom
        /\ c \in inRoom => c \in online \/ leave[c] = "leaving"

\* Who is gone.
IsGone ==
    \A c \in Client :
        /\ c \notin online => client[c] = "gone"
        /\ client[c] = "gone" => c \notin online \/ leave[c] = "sending"
        /\ leave[c] \in {"sending", "leaving"} => client[c] = "gone"
        /\ join[c] # "no" => client[c] # "gone"

\* A client asks as long as its join has not answered.
IsAsking == \A c \in Client : client[c] = "asking" <=> join[c] \in Asking

\* What a member shows.
MemberShows ==
    \A c \in Client :
        /\ c \in Members =>
            \/ client[c] \in {"in", "playing", "waiting"}
            \/ leave[c] \in {"sending", "leaving"}
            \/ join[c] = "waits"
            \/ game = "clearing"
        /\ join[c] = "found" => c \notin Members
        /\ join[c] \in {"joined", "announced"} => client[c] = "in"

\* Who shows the game.
SeesAsMember ==
    /\ game = "starting" => gameState = "Started"
    /\ \A c \in Client :
        /\ Sees(c) =>
            /\ c \in Members \/ join[c] \in {"joined", "announced"}
            /\ game # "clearing"
            /\ gameState = "Ended" => game = "ending"
        /\ client[c] = "playing" => gameState = "Started" \/ game = "ending"
        /\ join[c] \in {"joined", "announced", "added", "host joined",
                        "host announced", "others joined"} => gameState # "Ended"

\* Who waits is a member, and after the end of a game every member waits until
\* the host is back.
WaitsForHost ==
    /\ waiting \subseteq Members
    /\ \A c \in Client :
        /\ client[c] = "waiting" \/ join[c] = "waits" => c \in waiting
        /\ leave[c] = "others joined" => waiting = {}
    /\ waiting # {} =>
        \/ gameState = "Ended" /\ game = "no"
        \/ \E c \in Client : join[c] \in {"host joined", "host announced"}
    /\ gameState = "Ended" /\ game = "no" =>
        /\ Members \subseteq waiting
        /\ hostId \in Members => \E c \in Client : leave[c] = "elected"

\* The host that a leaving client has picked is still a member.
ElectedIsMember ==
    \A c \in Client :
        /\ leave[c] = "picked" => elected[c] \in Members
        /\ leave[c] = "elected" => elected[c] \in Members /\ elected[c] = hostId

\* The room has a host, or the call that will give it one goes on.
HasHost ==
    registered /\ players # {} =>
        \/ hostId \in players
        \/ \E c \in Client : join[c] \in {"player", "selecting"}
        \/ \E c \in Client : leave[c] \in {"left", "picked"} /\ hostId = c
        \/ \E c \in Client : leave[c] \in {"destroying", "unregistering"}

\* A room is destroyed when it has no connections.
EmptyAtTheEnd ==
    /\ destroyed <=> gameState = "Destroyed"
    /\ destroyed \/ timeout # "no" \/ ~joinedFlag => Members = {}
    /\ ~joinedFlag => gameState # "Ended"
    /\ \A c \in Client :
        /\ leave[c] \in {"destroying", "unregistering"} => Members = {}
        /\ join[c] \notin {"no", "not found"} => registered /\ ~destroyed

\* What the client e knows of the client d: it is told of d just before d
\* becomes a member, and of its leaving some steps after.
ViewIsRight(e, d) ==
    /\ Sees(e) =>
        (d \in view[e] /\ leave[d] \notin Left <=>
            \/ d \in Members
            \/ join[d] = "announced"
            \/ join[d] = "joined" /\ d = e)
    /\ leave[d] \in Left => d \notin Members
    /\ join[d] = "host joined" => d \in Members

ViewsMembers == \A e, d \in Client : ViewIsRight(e, d)

\* With room for one call, a call starts only when none is in progress.
LEMMA CallWhenQuiet ==
    ASSUME MaxPending = 1, TypeOK, MayCall
    PROVE  Quiet
  <1> DEFINE J == {c \in Client : join[c] # "no"}
             L == {c \in Client : leave[c] # "no"}
  <1>1. IsFiniteSet(J) /\ IsFiniteSet(L)
    BY RoomAssumption, FS_Subset
  <1>2. Cardinality(J) \in Nat /\ Cardinality(L) \in Nat
    BY <1>1, FS_CardinalityType
  <1>3. /\ Cardinality(J) = 0 /\ Cardinality(L) = 0
        /\ game = "no" /\ timeout = "no"
    <2> HIDE DEF J, L
    <2>1. Cardinality(J) + Cardinality(L) + (IF game # "no" THEN 1 ELSE 0)
            + (IF timeout # "no" THEN 1 ELSE 0) < 1
      BY DEF MayCall, Pending, J, L
    <2> QED BY <1>2, <2>1
  <1>4. J = {} /\ L = {}
    BY <1>1, <1>3, FS_EmptySet
  <1> QED BY <1>3, <1>4 DEF Quiet

\* Every action that starts a call asks for room.
LEMMA CallIsQuiet ==
    ASSUME MaxPending = 1, TypeOK, Call
    PROVE  Quiet
  BY CallWhenQuiet
  DEF Call, TimeOut, AskJoin, Disconnect, StartGame, EndGame, Command

\* A call starts when there is none, and goes on alone.
LEMMA StepKeepsOneCall ==
    ASSUME MaxPending = 1, TypeOK, OneCall, [Next]_vars
    PROVE  OneCall'
  <1> USE DEF OneCall, OnlyJoin, OnlyLeave, OnlyRoom
  <1>0. join \in [Client -> JoinStages] /\ leave \in [Client -> LeaveStages]
    BY DEF TypeOK, CallsTypeOK
  <1>1. CASE UNCHANGED <<join, leave, game, timeout>>
    BY <1>1
  <1>2. CASE Call
    <2>1. Quiet
      BY <1>2, CallIsQuiet
    <2>2. CASE TimeOut
      BY <1>0, <2>1, <2>2 DEF TimeOut, Quiet
    <2>3. ASSUME NEW c \in Client,
                 AskJoin(c) \/ Disconnect(c) \/ StartGame(c) \/ EndGame(c)
          PROVE  OneCall'
      BY <1>0, <2>1, <2>3 DEF AskJoin, Disconnect, StartGame, EndGame, Quiet,
                              JoinStage, LeaveStage
    <2> QED BY <1>2, <2>2, <2>3 DEF Call
  <1>3. CASE ContinueRoom
    BY <1>0, <1>3 DEF ContinueRoom, SendStartGame, SendEndGame, ClearConnections,
                      DestroyTimedOut, UnregisterTimedOut
  <1>4. ASSUME NEW c \in Client, join[c] # "no", UNCHANGED <<game, timeout>>,
               \/ UNCHANGED leave /\ \E s : join' = [join EXCEPT ![c] = s]
               \/ /\ join' = [join EXCEPT ![c] = "no"]
                  /\ leave' = [leave EXCEPT ![c] = "sending"]
        PROVE  OneCall'
    BY <1>0, <1>4
  <1>5. ASSUME NEW c \in Client, ContinueJoin(c)
        PROVE  OneCall'
    <2>1. join[c] # "no" /\ UNCHANGED <<game, timeout>>
      BY <1>5
      DEF ContinueJoin, Refuse, Admit, SelectHost, BecomeHost, EnterLobby,
          Announce, AddMember, FinishJoin, HostReturns, AnnounceHost,
          JoinOtherClients, FinishJoinOthers, WaitForHost, SendWaitForHost,
          HostIsKnown
    <2>2. CASE Refuse(c)
      BY <1>4, <2>1, <2>2 DEF Refuse, JoinStage
    <2>3. CASE ~Refuse(c)
      <3>1. UNCHANGED leave /\ \E s : join' = [join EXCEPT ![c] = s]
        BY <1>5, <2>3
        DEF ContinueJoin, Admit, SelectHost, BecomeHost, EnterLobby, Announce,
            AddMember, FinishJoin, HostReturns, AnnounceHost, JoinOtherClients,
            FinishJoinOthers, WaitForHost, SendWaitForHost, JoinStage
      <3> QED BY <1>4, <2>1, <3>1
    <2> QED BY <2>2, <2>3
  <1>6. ASSUME NEW c \in Client, ContinueLeave(c)
        PROVE  OneCall'
    <2>1. leave[c] # "no" /\ UNCHANGED <<join, game, timeout>>
      BY <1>6 DEF ContinueLeave, RemoveConnection, LeaveRoom, LeaveOther,
                  LeaveEmpty, DestroyEmpty, UnregisterEmpty, PickHost, ElectHost,
                  HostWaited, FinishHostWaited, HostDidNotWait
    <2>2. \E s : leave' = [leave EXCEPT ![c] = s]
      BY <1>6 DEF ContinueLeave, RemoveConnection, LeaveRoom, LeaveOther,
                  LeaveEmpty, DestroyEmpty, UnregisterEmpty, PickHost, ElectHost,
                  HostWaited, FinishHostWaited, HostDidNotWait, LeaveStage, TellLeft
    <2> QED BY <1>0, <2>1, <2>2
  <1> QED
    BY <1>1, <1>2, <1>3, <1>5, <1>6 DEF Next, vars, calls

\* With one call at a time, a call that goes on is the only one.
LEMMA OneJoin ==
    ASSUME TypeOK, OneCall, NEW c \in Client, ContinueJoin(c)
    PROVE  /\ join[c] # "no" /\ game = "no" /\ timeout = "no"
           /\ \A d \in Client : leave[d] = "no"
           /\ \A d \in Client : d # c => join[d] = "no"
  <1>1. join[c] # "no"
    BY JoinMoves DEF Refuse
  <1> QED BY <1>1 DEF OneCall, OnlyJoin

\* The same for a leave.
LEMMA OneLeave ==
    ASSUME TypeOK, OneCall, NEW c \in Client, ContinueLeave(c)
    PROVE  /\ UNCHANGED <<join, game, timeout, joinedFlag>>
           /\ game = "no" /\ timeout = "no"
           /\ \A d \in Client : join[d] = "no"
           /\ \A d \in Client : d # c => leave[d] = "no" /\ leave'[d] = "no"
  <1>1. OnlyLeave(c)
    BY LeaveMoves DEF OneCall
  <1>2. PICK s \in LeaveStages : leave' = [leave EXCEPT ![c] = s]
    BY LeaveMoves
  <1>3. leave \in [Client -> LeaveStages]
    BY DEF TypeOK, CallsTypeOK
  <1>4. UNCHANGED <<join, game, timeout, joinedFlag>>
    BY LeaveMoves
  <1> QED BY <1>1, <1>2, <1>3, <1>4 DEF OnlyLeave

\* So is a step of a start or an end of the game, or of a timer.
LEMMA OneOfRoom ==
    ASSUME OneCall, ContinueRoom
    PROVE  /\ UNCHANGED <<join, leave, inRoom, online>>
           /\ \A d \in Client : join[d] = "no" /\ leave[d] = "no"
           /\ game = "no" \/ timeout = "no"
  BY DEF ContinueRoom, SendStartGame, SendEndGame, ClearConnections,
         DestroyTimedOut, UnregisterTimedOut, OneCall, OnlyRoom

\* Only Disconnect and Refuse make a client go, and RemoveConnection is next.
LEMMA StepKeepsGone ==
    ASSUME MaxPending = 1, TypeOK, OneCall, IsAsking, IsGone, [Next]_vars
    PROVE  IsGone'
  <1> USE DEF IsGone
  <1>0. /\ join \in [Client -> JoinStages] /\ leave \in [Client -> LeaveStages]
        /\ client \in [Client -> Screens] /\ online \subseteq Client
    BY DEF TypeOK, CallsTypeOK, ClientsTypeOK
  <1>1. CASE UNCHANGED <<join, leave, online, client>>
    BY <1>1
  <1>2. CASE Call
    <2>1. Quiet
      BY <1>2, CallIsQuiet
    <2>2. ASSUME NEW c \in Client, AskJoin(c)
          PROVE  IsGone'
      BY <1>0, <2>1, <2>2 DEF AskJoin, Quiet, JoinStage
    <2>3. ASSUME NEW c \in Client, Disconnect(c)
          PROVE  IsGone'
      BY <1>0, <2>1, <2>3 DEF Disconnect, Quiet, LeaveStage
    <2> QED BY <1>1, <1>2, <2>2, <2>3 DEF Call, TimeOut, StartGame, EndGame
  <1>3. CASE ContinueRoom
    BY <1>0, <1>3 DEF ContinueRoom, SendStartGame, SendEndGame, ClearConnections,
                      DestroyTimedOut, UnregisterTimedOut, Destroy, Show
  <1>4. ASSUME NEW c \in Client, Refuse(c)
        PROVE  IsGone'
    BY <1>0, <1>4 DEF Refuse, OneCall, OnlyJoin, IsAsking, Asking, JoinStage, Show
  \* The other stages of a join keep who is gone, and where the leaving are.
  <1>5. ASSUME NEW c \in Client, ContinueJoin(c), ~Refuse(c)
        PROVE  IsGone'
    <2>1. /\ join[c] # "no" /\ UNCHANGED <<leave, online>>
          /\ \E s \in JoinStages : join' = [join EXCEPT ![c] = s]
      BY <1>5
      DEF ContinueJoin, Admit, SelectHost, BecomeHost, EnterLobby, Announce,
          AddMember, FinishJoin, HostReturns, AnnounceHost, JoinOtherClients,
          FinishJoinOthers, WaitForHost, SendWaitForHost, HostIsKnown, JoinStage,
          JoinStages
    <2>2. \A d \in Client : client'[d] = "gone" <=> client[d] = "gone"
      BY <1>0, <1>5
      DEF ContinueJoin, Admit, SelectHost, BecomeHost, EnterLobby, Announce,
          AddMember, FinishJoin, HostReturns, AnnounceHost, JoinOtherClients,
          FinishJoinOthers, WaitForHost, SendWaitForHost, SendJoinedGame, Show,
          JoinWaiting
    <2> QED BY <1>0, <2>1, <2>2
  <1>6. ASSUME NEW c \in Client, ContinueLeave(c)
        PROVE  IsGone'
    <2>1. CASE RemoveConnection(c)
      BY <1>0, <2>1 DEF RemoveConnection, LeaveStage, OneCall, OnlyLeave
    <2>2. CASE ~RemoveConnection(c)
      <3>1. /\ leave[c] # "sending" /\ UNCHANGED <<join, online>>
            /\ \E s \in LeaveStages \ {"sending", "leaving"} :
                  leave' = [leave EXCEPT ![c] = s]
        BY <1>6, <2>2
        DEF ContinueLeave, LeaveRoom, LeaveOther, LeaveEmpty, DestroyEmpty,
            UnregisterEmpty, PickHost, ElectHost, HostWaited, FinishHostWaited,
            HostDidNotWait, LeaveStage, TellLeft, LeaveStages
      <3>2. \A d \in Client : client'[d] = "gone" <=> client[d] = "gone"
        BY <1>0, <1>6, <2>2
        DEF ContinueLeave, LeaveRoom, LeaveOther, LeaveEmpty, DestroyEmpty,
            UnregisterEmpty, PickHost, ElectHost, HostWaited, FinishHostWaited,
            HostDidNotWait, Destroy, Show, JoinWaiting, SendJoinedGame
      <3> QED BY <1>0, <3>1, <3>2
    <2> QED BY <2>1, <2>2
  <1> QED
    BY <1>1, <1>2, <1>3, <1>4, <1>5, <1>6 DEF Next, vars, calls

\* A connection is added after its player and its room, and goes with them.
LEMMA StepKeepsThere ==
    ASSUME MaxPending = 1, TypeOK, OneCall, NoDuplicates, IsGone, IsThere,
           [Next]_vars
    PROVE  IsThere'
  <1> USE DEF IsThere, Entering
  <1>0. /\ join \in [Client -> JoinStages] /\ leave \in [Client -> LeaveStages]
        /\ players \subseteq Client /\ inRoom \subseteq Client
        /\ connections' = connections => Members' = Members
    BY DEF TypeOK, CallsTypeOK, RoomTypeOK, Members
  <1>1. CASE UNCHANGED <<connections, players, inRoom, online, join, leave>>
    BY <1>0, <1>1
  <1>2. CASE Call
    <2>1. Quiet
      BY <1>2, CallIsQuiet
    <2>2. ASSUME NEW c \in Client, AskJoin(c) \/ Disconnect(c)
          PROVE  IsThere'
      BY <1>0, <2>1, <2>2 DEF AskJoin, Disconnect, Quiet, JoinStage, LeaveStage, room
    <2> QED
      BY <1>1, <1>2, <2>2 DEF Call, TimeOut, StartGame, EndGame
  <1>3. CASE ClearConnections
    <2>1. Members' = {} /\ UNCHANGED <<players, inRoom, online, join, leave>>
      BY <1>3 DEF ClearConnections, Members
    <2> QED BY <1>0, <2>1
  <1>4. ASSUME NEW c \in Client, ContinueJoin(c)
        PROVE  IsThere'
    <2>1. c \in online /\ leave[c] = "no"
      <3>1. join[c] # "no"
        BY <1>4, JoinMoves DEF Refuse
      <3> QED BY <3>1 DEF IsGone, OneCall, OnlyJoin
    <2>2. CASE Refuse(c)
      BY <1>0, <2>2 DEF Refuse, OneCall, OnlyJoin, JoinStage, room
    <2>3. CASE Admit(c) \/ SelectHost(c) \/ BecomeHost(c)
      BY <1>0, <2>3 DEF Admit, SelectHost, BecomeHost, JoinStage, room
    <2>4. CASE EnterLobby(c)
      BY <1>0, <2>1, <2>4 DEF EnterLobby, HostIsKnown, JoinStage, room
    <2>5. CASE HostReturns(c) \/ WaitForHost(c)
      <3>1. Members' = Members \cup {c}
        BY <2>5, MapInserts
      <3>2. /\ inRoom' = inRoom \cup {c} /\ c \in players
            /\ UNCHANGED <<players, online, leave>>
            /\ \E s \in {"host joined", "waits"} : join' = [join EXCEPT ![c] = s]
        BY <2>5 DEF HostReturns, WaitForHost, HostIsKnown, JoinStage
      <3> QED BY <1>0, <2>1, <3>1, <3>2
    <2>6. CASE AddMember(c)
      <3>1. Members' = Members \cup {c}
        BY <2>6, MapInserts
      <3> QED BY <1>0, <2>6, <3>1 DEF AddMember, JoinStage
    <2>7. CASE Announce(c) \/ FinishJoin(c) \/ AnnounceHost(c)
               \/ JoinOtherClients(c) \/ FinishJoinOthers(c) \/ SendWaitForHost(c)
      BY <1>0, <2>7 DEF Announce, FinishJoin, AnnounceHost, JoinOtherClients,
                        FinishJoinOthers, SendWaitForHost, JoinStage, room
    <2> QED
      BY <1>4, <2>2, <2>3, <2>4, <2>5, <2>6, <2>7 DEF ContinueJoin
  <1>5. ASSUME NEW c \in Client, ContinueLeave(c)
        PROVE  IsThere'
    <2>1. CASE RemoveConnection(c)
      BY <1>0, <2>1 DEF RemoveConnection, LeaveStage, room
    <2>2. CASE LeaveRoom(c)
      <3>1. Members' = Members \ {c}
        BY <2>2, MapDeletes
      <3>2. \A d \in Client : join[d] = "no"
        BY <2>2 DEF LeaveRoom, OneCall, OnlyLeave
      <3> QED BY <1>0, <2>2, <3>1, <3>2 DEF LeaveRoom, LeaveStage
    <2>3. CASE ~RemoveConnection(c) /\ ~LeaveRoom(c)
      <3>1. /\ UNCHANGED <<connections, players, inRoom, online, join>>
            /\ leave[c] # "leaving"
        BY <1>5, <2>3
        DEF ContinueLeave, LeaveOther, LeaveEmpty, DestroyEmpty,
            UnregisterEmpty, PickHost, ElectHost, HostWaited,
            FinishHostWaited, HostDidNotWait, room
      <3> QED BY <1>0, <1>5, <3>1, LeaveMoves
    <2> QED BY <2>1, <2>2, <2>3
  <1> QED
    BY <1>1, <1>2, <1>3, <1>4, <1>5
    DEF Next, vars, room, calls, ContinueRoom, SendStartGame, SendEndGame,
        DestroyTimedOut, UnregisterTimedOut

\* The packets that end the asking are sent where the join stops waiting.
LEMMA StepKeepsAsking ==
    ASSUME MaxPending = 1, TypeOK, OneCall, MemberShows, IsGone, IsAsking,
           [Next]_vars
    PROVE  IsAsking'
  <1> USE DEF IsAsking, Asking
  <1>0. /\ join \in [Client -> JoinStages] /\ client \in [Client -> Screens]
    BY DEF TypeOK, CallsTypeOK, ClientsTypeOK
  <1>1. CASE UNCHANGED <<join, client>>
    BY <1>1
  <1>2. ASSUME UNCHANGED join, \A d \in Client : join[d] = "no",
               \A d \in Client : client'[d] = "asking" => client[d] = "asking"
        PROVE  IsAsking'
    BY <1>2
  <1>3. CASE Call
    <2>1. Quiet
      BY <1>3, CallIsQuiet
    <2>2. ASSUME NEW c \in Client, AskJoin(c)
          PROVE  IsAsking'
      BY <1>0, <2>1, <2>2 DEF AskJoin, Quiet, JoinStage
    <2>3. ASSUME NEW c \in Client, Disconnect(c)
          PROVE  IsAsking'
      BY <1>0, <1>2, <2>1, <2>3 DEF Disconnect, Quiet
    <2> QED
      BY <1>1, <1>3, <2>2, <2>3 DEF Call, TimeOut, StartGame, EndGame
  <1>4. CASE ContinueRoom
    <2>1. UNCHANGED join /\ \A d \in Client : join[d] = "no"
      BY <1>4 DEF ContinueRoom, SendStartGame, SendEndGame, ClearConnections,
                  DestroyTimedOut, UnregisterTimedOut, OneCall, OnlyRoom
    <2>2. \A d \in Client : client'[d] = "asking" => client[d] = "asking"
      BY <1>0, <1>4
      DEF ContinueRoom, SendStartGame, SendEndGame, ClearConnections,
          DestroyTimedOut, UnregisterTimedOut, Destroy, Show
    <2> QED BY <1>2, <2>1, <2>2
  <1>5. ASSUME NEW c \in Client, ContinueLeave(c)
        PROVE  IsAsking'
    <2>1. UNCHANGED join /\ \A d \in Client : join[d] = "no"
      BY <1>5, LeaveMoves DEF OneCall, OnlyLeave
    <2>2. \A d \in Client : client'[d] = "asking" => client[d] = "asking"
      BY <1>0, <1>5
      DEF ContinueLeave, RemoveConnection, LeaveRoom, LeaveOther, LeaveEmpty,
          DestroyEmpty, UnregisterEmpty, PickHost, ElectHost, HostWaited,
          FinishHostWaited, HostDidNotWait, Destroy, Show, JoinWaiting,
          SendJoinedGame
    <2> QED BY <1>2, <2>1, <2>2
  <1>6. ASSUME NEW c \in Client, ContinueJoin(c)
        PROVE  IsAsking'
    <2>1. \A d \in Client : d # c => join[d] = "no" /\ client[d] # "asking"
      <3>1. join[c] # "no"
        BY <1>6, JoinMoves DEF Refuse
      <3> QED BY <3>1 DEF OneCall, OnlyJoin
    <2>2. client[c] # "gone"
      BY <1>6, JoinMoves DEF Refuse, IsGone
    <2>3. CASE Refuse(c)
      BY <1>0, <2>1, <2>3 DEF Refuse, JoinStage, Show
    <2>4. CASE Admit(c) \/ SelectHost(c) \/ BecomeHost(c)
      BY <1>0, <2>1, <2>4
      DEF Admit, SelectHost, BecomeHost, JoinStage, MemberShows
    <2>5. CASE EnterLobby(c)
      BY <1>0, <2>1, <2>2, <2>5 DEF EnterLobby, JoinStage, SendJoinedGame
    <2>6. CASE HostReturns(c)
      BY <1>0, <2>1, <2>2, <2>6 DEF HostReturns, JoinStage, SendJoinedGame
    <2>7. CASE WaitForHost(c)
      BY <1>0, <2>1, <2>7 DEF WaitForHost, HostIsKnown, JoinStage
    <2>8. CASE SendWaitForHost(c)
      BY <1>0, <2>1, <2>8 DEF SendWaitForHost, JoinStage, Show
    <2>9. CASE JoinOtherClients(c)
      BY <1>0, <2>1, <2>9 DEF JoinOtherClients, JoinWaiting, SendJoinedGame, JoinStage
    <2>10. CASE Announce(c) \/ AddMember(c) \/ FinishJoin(c) \/ AnnounceHost(c)
                \/ FinishJoinOthers(c)
      BY <1>0, <2>1, <2>10 DEF Announce, AddMember, FinishJoin, AnnounceHost,
                               FinishJoinOthers, JoinStage
    <2> QED
      BY <1>6, <2>3, <2>4, <2>5, <2>6, <2>7, <2>8, <2>9, <2>10 DEF ContinueJoin
  <1> QED
    BY <1>1, <1>3, <1>4, <1>5, <1>6 DEF Next, vars, calls

\* Every packet that takes a member from the game takes it from the members.
LEMMA StepKeepsShown ==
    ASSUME MaxPending = 1, TypeOK, OneCall, NoDuplicates, IsThere, IsGone,
           IsAsking, EmptyAtTheEnd, MemberShows, [Next]_vars
    PROVE  MemberShows'
  <1> USE DEF MemberShows
  <1>0. /\ join \in [Client -> JoinStages] /\ leave \in [Client -> LeaveStages]
        /\ client \in [Client -> Screens]
        /\ connections' = connections => Members' = Members
    <2>1. connections' = connections => Members' = Members
      BY DEF Members
    <2> QED BY <2>1 DEF TypeOK, CallsTypeOK, ClientsTypeOK
  <1>1. CASE UNCHANGED <<connections, join, leave, game, client>>
    BY <1>0, <1>1
  <1>2. CASE Call
    <2>1. Quiet
      BY <1>2, CallIsQuiet
    <2>2. ASSUME NEW c \in Client, AskJoin(c)
          PROVE  MemberShows'
      BY <1>0, <2>1, <2>2 DEF AskJoin, Quiet, JoinStage, room
    <2>3. ASSUME NEW c \in Client, Disconnect(c)
          PROVE  MemberShows'
      BY <1>0, <2>1, <2>3 DEF Disconnect, Quiet, LeaveStage, room
    <2>4. ASSUME NEW c \in Client, StartGame(c) \/ EndGame(c)
          PROVE  MemberShows'
      BY <1>0, <2>1, <2>4 DEF StartGame, EndGame, Quiet
    <2> QED
      BY <1>1, <1>2, <2>2, <2>3, <2>4 DEF Call, TimeOut
  <1>3. CASE ContinueRoom
    <2>1. /\ UNCHANGED <<join, leave>>
          /\ \A c \in Client : join[c] = "no" /\ leave[c] = "no"
      BY <1>3 DEF ContinueRoom, SendStartGame, SendEndGame, ClearConnections,
                  DestroyTimedOut, UnregisterTimedOut, OneCall, OnlyRoom
    <2>2. CASE SendStartGame \/ SendEndGame
      BY <1>0, <2>1, <2>2 DEF SendStartGame, SendEndGame, Show, room
    <2>3. CASE ClearConnections
      <3>1. Members' = {}
        BY <2>3 DEF ClearConnections, Members
      <3> QED BY <2>1, <3>1
    <2>4. CASE DestroyTimedOut \/ UnregisterTimedOut
      <3>1. Members' = {}
        BY <1>0, <2>4 DEF DestroyTimedOut, UnregisterTimedOut, EmptyAtTheEnd
      <3> QED BY <2>1, <3>1
    <2> QED BY <1>3, <2>2, <2>3, <2>4 DEF ContinueRoom
  <1>4. ASSUME NEW c \in Client, ContinueJoin(c)
        PROVE  MemberShows'
    <2>1. /\ client[c] # "gone" /\ leave[c] = "no" /\ game = "no"
          /\ \A d \in Client : d # c => join[d] = "no" /\ leave[d] = "no"
      <3>1. join[c] # "no"
        BY <1>4, JoinMoves DEF Refuse
      <3> QED BY <3>1 DEF OneCall, OnlyJoin, IsGone
    <2>2. CASE Refuse(c)
      BY <1>0, <2>1, <2>2 DEF Refuse, JoinStage, Show, room
    <2>3. CASE Admit(c) \/ SelectHost(c) \/ BecomeHost(c)
      BY <1>0, <2>1, <2>3 DEF Admit, SelectHost, BecomeHost, JoinStage, room
    <2>4. CASE EnterLobby(c)
      BY <1>0, <2>1, <2>4 DEF EnterLobby, JoinStage, SendJoinedGame, room
    <2>5. CASE HostReturns(c)
      <3>1. Members' = Members \cup {c}
        BY <2>5, MapInserts
      <3>2. /\ client'[c] = "in"
            /\ \A d \in Client : d # c => client'[d] = client[d]
            /\ join' = [join EXCEPT ![c] = "host joined"] /\ UNCHANGED <<leave, game>>
        BY <1>0, <2>1, <2>5 DEF HostReturns, JoinStage, SendJoinedGame
      <3> QED BY <1>0, <2>1, <3>1, <3>2
    <2>6. CASE WaitForHost(c)
      <3>1. Members' = Members \cup {c}
        BY <2>6, MapInserts
      <3> QED BY <1>0, <2>1, <2>6, <3>1 DEF WaitForHost, JoinStage
    <2>7. CASE SendWaitForHost(c)
      <3>1. client[c] = "asking"
        BY <2>7 DEF SendWaitForHost, IsAsking, Asking
      <3> QED BY <1>0, <2>1, <2>7, <3>1 DEF SendWaitForHost, JoinStage, Show, room
    <2>8. CASE JoinOtherClients(c)
      <3>1. \A d \in Client : client'[d] \in {"in", client[d]}
        BY <1>0, <2>8 DEF JoinOtherClients, JoinWaiting, SendJoinedGame
      <3> QED BY <1>0, <2>1, <2>8, <3>1 DEF JoinOtherClients, JoinStage
    <2>9. CASE AddMember(c)
      <3>1. Members' = Members \cup {c}
        BY <2>9, MapInserts
      <3> QED BY <1>0, <2>1, <2>9, <3>1 DEF AddMember, JoinStage
    <2>10. CASE Announce(c) \/ FinishJoin(c) \/ AnnounceHost(c) \/ FinishJoinOthers(c)
      BY <1>0, <2>1, <2>10 DEF Announce, FinishJoin, AnnounceHost,
                               FinishJoinOthers, JoinStage, room
    <2> QED
      BY <1>4, <2>2, <2>3, <2>4, <2>5, <2>6, <2>7, <2>8, <2>9, <2>10
      DEF ContinueJoin
  <1>5. ASSUME NEW c \in Client, ContinueLeave(c)
        PROVE  MemberShows'
    <2>1. /\ UNCHANGED <<join, game>> /\ game = "no"
          /\ \A d \in Client : join[d] = "no"
          /\ \A d \in Client : d # c => leave[d] = "no" /\ leave'[d] = "no"
      BY <1>0, <1>5, LeaveMoves DEF OneCall, OnlyLeave
    <2>2. CASE RemoveConnection(c)
      BY <1>0, <2>1, <2>2 DEF RemoveConnection, LeaveStage, IsThere, room
    <2>3. CASE LeaveRoom(c)
      <3>1. Members' = Members \ {c}
        BY <2>3, MapDeletes
      <3> QED BY <1>0, <2>1, <2>3, <3>1 DEF LeaveRoom
    <2>4. CASE DestroyEmpty(c) \/ UnregisterEmpty(c)
      <3>1. Members' = {}
        BY <1>0, <2>4 DEF DestroyEmpty, UnregisterEmpty, EmptyAtTheEnd
      <3> QED BY <2>1, <3>1
    <2>5. CASE HostWaited(c)
      <3>1. \A d \in Client : client'[d] \in {"in", client[d]}
        BY <1>0, <2>5 DEF HostWaited, JoinWaiting, SendJoinedGame
      <3> QED BY <1>0, <2>1, <2>5, <3>1 DEF HostWaited
    <2>6. CASE LeaveOther(c) \/ LeaveEmpty(c) \/ PickHost(c) \/ ElectHost(c)
               \/ FinishHostWaited(c) \/ HostDidNotWait(c)
      <3>1. UNCHANGED <<connections, client>> /\ leave[c] \notin {"sending", "leaving"}
        BY <2>6 DEF LeaveOther, LeaveEmpty, PickHost, ElectHost,
                    FinishHostWaited, HostDidNotWait, room
      <3> QED BY <1>0, <2>1, <3>1
    <2> QED
      BY <1>5, <2>2, <2>3, <2>4, <2>5, <2>6 DEF ContinueLeave
  <1> QED
    BY <1>1, <1>2, <1>3, <1>4, <1>5 DEF Next, vars, room, calls

\* Nobody is left in the game when the game has ended.
LEMMA StepKeepsSeers ==
    ASSUME MaxPending = 1, TypeOK, OneCall, NoDuplicates, IsGone, MemberShows,
           EmptyAtTheEnd, SeesAsMember, [Next]_vars
    PROVE  SeesAsMember'
  <1> USE DEF SeesAsMember, Sees
  <1>0. /\ join \in [Client -> JoinStages] /\ leave \in [Client -> LeaveStages]
        /\ client \in [Client -> Screens]
        /\ connections' = connections => Members' = Members
    <2>1. connections' = connections => Members' = Members
      BY DEF Members
    <2> QED BY <2>1 DEF TypeOK, CallsTypeOK, ClientsTypeOK
  <1>1. CASE UNCHANGED <<connections, join, game, gameState, client>>
    BY <1>0, <1>1
  <1>2. CASE Call
    <2>1. Quiet
      BY <1>2, CallIsQuiet
    <2>2. ASSUME NEW c \in Client, AskJoin(c) \/ Disconnect(c)
          PROVE  SeesAsMember'
      BY <1>0, <2>1, <2>2 DEF AskJoin, Disconnect, Quiet, JoinStage, room
    <2>3. ASSUME NEW c \in Client, StartGame(c) \/ EndGame(c)
          PROVE  SeesAsMember'
      BY <1>0, <2>1, <2>3 DEF StartGame, EndGame, Quiet
    <2> QED
      BY <1>1, <1>2, <2>2, <2>3 DEF Call, TimeOut
  <1>3. CASE ContinueRoom
    <2>1. /\ UNCHANGED join /\ \A c \in Client : join[c] = "no"
      BY <1>3 DEF ContinueRoom, SendStartGame, SendEndGame, ClearConnections,
                  DestroyTimedOut, UnregisterTimedOut, OneCall, OnlyRoom
    <2>2. CASE SendStartGame
      BY <1>0, <2>1, <2>2 DEF SendStartGame, Show, room
    <2>3. CASE SendEndGame
      BY <1>0, <2>1, <2>3 DEF SendEndGame, Show, room
    <2>4. CASE ClearConnections
      BY <1>0, <2>1, <2>4 DEF ClearConnections
    <2>5. CASE DestroyTimedOut \/ UnregisterTimedOut
      <3>1. Members = {} /\ game = "no" /\ gameState' = "Destroyed" /\ UNCHANGED game
        BY <2>5 DEF DestroyTimedOut, UnregisterTimedOut, Destroy, Unregister,
                    EmptyAtTheEnd, OneCall, OnlyRoom
      <3>2. \A c \in Client : client'[c] \in {"out", client[c]}
        BY <1>0, <2>5 DEF DestroyTimedOut, UnregisterTimedOut, Destroy, Show
      <3> QED BY <1>0, <2>1, <3>1, <3>2
    <2> QED BY <1>3, <2>2, <2>3, <2>4, <2>5 DEF ContinueRoom
  <1>4. ASSUME NEW c \in Client, ContinueJoin(c)
        PROVE  SeesAsMember'
    <2>1. /\ client[c] # "gone" /\ game = "no"
          /\ \A d \in Client : d # c => join[d] = "no"
      <3>1. join[c] # "no"
        BY <1>4, JoinMoves DEF Refuse
      <3> QED BY <3>1 DEF OneCall, OnlyJoin, IsGone
    <2>2. CASE Refuse(c)
      BY <1>0, <2>1, <2>2 DEF Refuse, JoinStage, Show, room
    <2>3. CASE Admit(c) \/ SelectHost(c) \/ BecomeHost(c)
      BY <1>0, <2>1, <2>3 DEF Admit, SelectHost, BecomeHost, JoinStage, room
    <2>4. CASE EnterLobby(c)
      BY <1>0, <2>1, <2>4 DEF EnterLobby, JoinStage, SendJoinedGame, room
    <2>5. CASE HostReturns(c)
      <3>1. Members' = Members \cup {c}
        BY <2>5, MapInserts
      <3>2. /\ client'[c] = "in"
            /\ \A d \in Client : d # c => client'[d] = client[d]
            /\ join' = [join EXCEPT ![c] = "host joined"] /\ UNCHANGED game
            /\ gameState = "Ended" /\ gameState' = "NotStarted"
        BY <1>0, <2>1, <2>5 DEF HostReturns, JoinStage, SendJoinedGame
      <3> QED BY <1>0, <2>1, <3>1, <3>2
    <2>6. CASE WaitForHost(c)
      <3>1. Members' = Members \cup {c}
        BY <2>6, MapInserts
      <3> QED BY <1>0, <2>1, <2>6, <3>1 DEF WaitForHost, JoinStage
    <2>7. CASE SendWaitForHost(c)
      BY <1>0, <2>1, <2>7 DEF SendWaitForHost, JoinStage, Show, room
    <2>8. CASE JoinOtherClients(c)
      <3>1. \A d \in Client : \/ client'[d] = client[d]
                              \/ client'[d] = "in" /\ d \in Members
        BY <1>0, <2>8 DEF JoinOtherClients, JoinWaiting, SendJoinedGame
      <3> QED BY <1>0, <2>1, <2>8, <3>1 DEF JoinOtherClients, JoinStage
    <2>9. CASE AddMember(c)
      <3>1. Members' = Members \cup {c}
        BY <2>9, MapInserts
      <3> QED BY <1>0, <2>1, <2>9, <3>1 DEF AddMember, JoinStage
    <2>10. CASE Announce(c) \/ FinishJoin(c) \/ AnnounceHost(c) \/ FinishJoinOthers(c)
      BY <1>0, <2>1, <2>10 DEF Announce, FinishJoin, AnnounceHost,
                               FinishJoinOthers, JoinStage, room
    <2> QED
      BY <1>4, <2>2, <2>3, <2>4, <2>5, <2>6, <2>7, <2>8, <2>9, <2>10
      DEF ContinueJoin
  <1>5. ASSUME NEW c \in Client, ContinueLeave(c)
        PROVE  SeesAsMember'
    <2>1. /\ UNCHANGED <<join, game>> /\ game = "no"
          /\ \A d \in Client : join[d] = "no"
      BY <1>5, LeaveMoves DEF OneCall, OnlyLeave
    <2>2. CASE LeaveRoom(c)
      <3>1. Members' = Members \ {c} /\ client[c] = "gone"
        BY <2>2, MapDeletes DEF LeaveRoom, IsGone
      <3> QED BY <1>0, <2>1, <2>2, <3>1 DEF LeaveRoom
    <2>3. CASE DestroyEmpty(c) \/ UnregisterEmpty(c)
      <3>1. Members = {} /\ gameState' = "Destroyed"
        BY <2>3 DEF DestroyEmpty, UnregisterEmpty, Destroy, Unregister,
                    EmptyAtTheEnd
      <3>2. \A d \in Client : client'[d] \in {"out", client[d]}
        BY <1>0, <2>3 DEF DestroyEmpty, UnregisterEmpty, Destroy, Show
      <3> QED BY <1>0, <2>1, <3>1, <3>2
    <2>4. CASE HostWaited(c)
      <3>1. \A d \in Client : \/ client'[d] = client[d]
                              \/ client'[d] = "in" /\ d \in Members
        BY <1>0, <2>4 DEF HostWaited, JoinWaiting, SendJoinedGame
      <3> QED BY <1>0, <2>1, <2>4, <3>1 DEF HostWaited
    <2>5. CASE UNCHANGED <<connections, gameState, client>>
      BY <1>0, <2>1, <2>5
    <2> QED
      BY <1>5, <2>2, <2>3, <2>4, <2>5
      DEF ContinueLeave, RemoveConnection, LeaveOther, LeaveEmpty, PickHost,
          ElectHost, FinishHostWaited, HostDidNotWait, room
  <1> QED
    BY <1>1, <1>2, <1>3, <1>4, <1>5 DEF Next, vars, room, calls

\* No call comes between picking a host and electing it.
LEMMA StepKeepsElected ==
    ASSUME MaxPending = 1, TypeOK, OneCall, NoDuplicates, IsThere,
           ElectedIsMember, [Next]_vars
    PROVE  ElectedIsMember'
  <1> USE DEF ElectedIsMember
  <1>0. /\ leave \in [Client -> LeaveStages]
        /\ elected \in [Client -> Client \cup {Nobody}]
        /\ connections' = connections => Members' = Members
    <2>1. connections' = connections => Members' = Members
      BY DEF Members
    <2> QED BY <2>1 DEF TypeOK, CallsTypeOK
  <1>1. CASE UNCHANGED <<connections, hostId, leave, elected>>
    BY <1>0, <1>1
  <1>2. ASSUME \A d \in Client : leave'[d] \notin {"picked", "elected"}
        PROVE  ElectedIsMember'
    BY <1>2
  <1>3. CASE Call
    <2>1. Quiet
      BY <1>3, CallIsQuiet
    <2>2. ASSUME NEW c \in Client, Disconnect(c)
          PROVE  ElectedIsMember'
      BY <1>0, <2>1, <2>2 DEF Disconnect, Quiet, LeaveStage
    <2> QED
      BY <1>1, <1>3, <2>2 DEF Call, TimeOut, AskJoin, StartGame, EndGame, room
  <1>4. CASE ContinueRoom
    <2>1. UNCHANGED leave /\ \A d \in Client : leave[d] = "no"
      BY <1>4 DEF ContinueRoom, SendStartGame, SendEndGame, ClearConnections,
                  DestroyTimedOut, UnregisterTimedOut, OneCall, OnlyRoom
    <2> QED BY <1>2, <2>1
  <1>5. ASSUME NEW c \in Client, ContinueJoin(c)
        PROVE  ElectedIsMember'
    <2>1. \A d \in Client : leave[d] = "no"
      <3>1. join[c] # "no"
        BY <1>5, JoinMoves DEF Refuse
      <3> QED BY <3>1 DEF OneCall, OnlyJoin
    <2>2. leave' = leave \/ leave' = [leave EXCEPT ![c] = "sending"]
      BY <1>5, JoinMoves DEF Refuse
    <2> QED BY <1>0, <1>2, <2>1, <2>2
  <1>6. ASSUME NEW c \in Client, ContinueLeave(c)
        PROVE  ElectedIsMember'
    <2>1. \A d \in Client : d # c => leave'[d] = "no"
      BY <1>0, <1>6, LeaveMoves DEF OneCall, OnlyLeave
    <2>2. CASE PickHost(c)
      <3>1. Head(connections) \in Members
        BY <2>2, NoMembers DEF PickHost, TypeOK
      <3> QED BY <1>0, <2>1, <2>2, <3>1 DEF PickHost, LeaveStage, room
    <2>3. CASE ElectHost(c)
      BY <1>0, <2>1, <2>3, RoomAssumption DEF ElectHost, LeaveStage, TellLeft
    <2>4. CASE ~PickHost(c) /\ ~ElectHost(c)
      <3>1. leave'[c] \notin {"picked", "elected"}
        BY <1>0, <1>6, <2>4
        DEF ContinueLeave, RemoveConnection, LeaveRoom, LeaveOther, LeaveEmpty,
            DestroyEmpty, UnregisterEmpty, HostWaited, FinishHostWaited,
            HostDidNotWait, LeaveStage, TellLeft
      <3> QED BY <1>2, <2>1, <3>1
    <2> QED BY <2>2, <2>3, <2>4
  <1> QED
    BY <1>1, <1>3, <1>4, <1>5, <1>6 DEF Next, vars, room, calls

\* waitingForHost fills after a game has ended and empties when the host is
\* back or another one is elected.
LEMMA StepKeepsWaiting ==
    ASSUME MaxPending = 1, TypeOK, OneCall, NoDuplicates, EntersAsNew, IsThere,
           IsGone, IsAsking, MemberShows, SeesAsMember, ElectedIsMember,
           EmptyAtTheEnd, WaitsForHost, [Next]_vars
    PROVE  WaitsForHost'
  <1> USE DEF WaitsForHost
  <1>0. /\ join \in [Client -> JoinStages] /\ leave \in [Client -> LeaveStages]
        /\ client \in [Client -> Screens] /\ waiting \subseteq Client
        /\ connections' = connections => Members' = Members
    <2>1. connections' = connections => Members' = Members
      BY DEF Members
    <2> QED BY <2>1 DEF TypeOK, RoomTypeOK, CallsTypeOK, ClientsTypeOK
  <1>1. CASE UNCHANGED <<connections, waiting, hostId, gameState, join, leave,
                         game, client>>
    BY <1>0, <1>1
  <1>2. CASE Call
    <2>1. Quiet
      BY <1>2, CallIsQuiet
    <2>2. ASSUME NEW c \in Client, AskJoin(c)
          PROVE  WaitsForHost'
      BY <1>0, <2>1, <2>2 DEF AskJoin, Quiet, JoinStage, room
    <2>3. ASSUME NEW c \in Client, Disconnect(c)
          PROVE  WaitsForHost'
      BY <1>0, <2>1, <2>3 DEF Disconnect, Quiet, LeaveStage, room
    <2>4. ASSUME NEW c \in Client, StartGame(c) \/ EndGame(c)
          PROVE  WaitsForHost'
      <3>1. waiting = {}
        BY <2>1, <2>4 DEF StartGame, EndGame, SeesAsMember, Sees, Quiet
      <3>2. /\ gameState' = "Started" \/ game' = "ending"
            /\ waiting' = {} /\ UNCHANGED <<connections, join, leave, client>>
        BY <2>4, <3>1 DEF StartGame, EndGame
      <3> QED BY <1>0, <2>1, <3>1, <3>2 DEF Quiet
    <2> QED
      BY <1>1, <1>2, <2>2, <2>3, <2>4 DEF Call, TimeOut
  <1>3. CASE ContinueRoom
    <2>1. /\ UNCHANGED <<join, leave, waiting>>
          /\ \A c \in Client : join[c] = "no" /\ leave[c] = "no"
      BY <1>3 DEF ContinueRoom, SendStartGame, SendEndGame, ClearConnections,
                  DestroyTimedOut, UnregisterTimedOut, OneCall, OnlyRoom, room
    <2>2. \A d \in Client : client'[d] = "waiting" => client[d] = "waiting"
      BY <1>0, <1>3
      DEF ContinueRoom, SendStartGame, SendEndGame, ClearConnections,
          DestroyTimedOut, UnregisterTimedOut, Destroy, Show
    <2>3. CASE SendStartGame
      <3>1. gameState = "Started"
        BY <2>3 DEF SendStartGame, SeesAsMember
      <3> QED BY <1>0, <2>1, <2>2, <2>3, <3>1 DEF SendStartGame, room
    <2>4. CASE SendEndGame
      BY <1>0, <2>1, <2>2, <2>4 DEF SendEndGame, room
    <2>5. CASE ClearConnections
      <3>1. Members' = {}
        <4>1. connections' = <<>>
          BY <2>5 DEF ClearConnections
        <4> QED BY <4>1, ClearedMembers
      <3>2. waiting = {}
        BY <2>1, <2>5 DEF ClearConnections
      <3> QED BY <1>0, <2>1, <2>2, <2>5, <3>1, <3>2 DEF ClearConnections
    <2>6. CASE DestroyTimedOut \/ UnregisterTimedOut
      <3>1. Members' = {} /\ waiting = {} /\ gameState' = "Destroyed"
        BY <1>0, <2>6 DEF DestroyTimedOut, UnregisterTimedOut, Destroy, Unregister,
                          EmptyAtTheEnd
      <3> QED BY <2>1, <2>2, <3>1
    <2> QED BY <1>3, <2>3, <2>4, <2>5, <2>6 DEF ContinueRoom
  <1>4. ASSUME NEW c \in Client, ContinueJoin(c)
        PROVE  WaitsForHost'
    <2>1. /\ client[c] # "gone" /\ game = "no"
          /\ \A d \in Client : leave[d] = "no"
          /\ \A d \in Client : d # c => join[d] = "no"
      <3>1. join[c] # "no"
        BY <1>4, JoinMoves DEF Refuse
      <3> QED BY <3>1 DEF OneCall, OnlyJoin, IsGone
    <2>2. CASE Refuse(c)
      BY <1>0, <2>1, <2>2 DEF Refuse, JoinStage, Show, room
    <2>3. CASE Admit(c) \/ SelectHost(c)
      BY <1>0, <2>1, <2>3 DEF Admit, SelectHost, JoinStage, room
    <2>4. CASE BecomeHost(c)
      <3>1. c \notin Members
        BY <2>4 DEF BecomeHost, EntersAsNew, Entering
      <3> QED BY <1>0, <2>1, <2>4, <3>1 DEF BecomeHost, JoinStage
    <2>5. CASE EnterLobby(c)
      BY <1>0, <2>1, <2>5
      DEF EnterLobby, HostIsKnown, JoinStage, SendJoinedGame, room
    <2>6. CASE HostReturns(c)
      <3>1. Members' = Members \cup {c}
        BY <2>6, MapInserts
      <3>2. /\ client'[c] = "in"
            /\ \A d \in Client : d # c => client'[d] = client[d]
            /\ join' = [join EXCEPT ![c] = "host joined"]
            /\ UNCHANGED <<waiting, leave>>
            /\ gameState' = "NotStarted"
        BY <1>0, <2>1, <2>6 DEF HostReturns, JoinStage, SendJoinedGame
      <3>3. join'[c] = "host joined"
        BY <1>0, <3>2
      <3> QED BY <1>0, <2>1, <3>1, <3>2, <3>3
    <2>7. CASE WaitForHost(c)
      <3>1. Members' = Members \cup {c}
        BY <2>7, MapInserts
      <3>2. hostId \notin Members'
        BY <2>1, <2>7, <3>1 DEF WaitForHost
      <3> QED BY <1>0, <2>1, <2>7, <3>1, <3>2 DEF WaitForHost, JoinStage
    <2>8. CASE SendWaitForHost(c)
      BY <1>0, <2>1, <2>8 DEF SendWaitForHost, JoinStage, Show, room
    <2>9. CASE JoinOtherClients(c)
      <3>1. waiting' = {} /\ gameState # "Ended"
        BY <2>9 DEF JoinOtherClients, JoinWaiting, SeesAsMember
      <3>2. \A d \in Client : client'[d] # "waiting"
        BY <1>0, <2>9 DEF JoinOtherClients, JoinWaiting, SendJoinedGame
      <3> QED BY <1>0, <2>1, <2>9, <3>1, <3>2 DEF JoinOtherClients, JoinStage
    <2>10. CASE AddMember(c)
      <3>1. Members' = Members \cup {c} /\ gameState # "Ended"
        BY <2>10, MapInserts DEF AddMember, SeesAsMember
      <3> QED BY <1>0, <2>1, <2>10, <3>1 DEF AddMember, JoinStage
    <2>11. CASE Announce(c) \/ FinishJoin(c)
      <3>1. gameState # "Ended"
        BY <2>11 DEF Announce, FinishJoin, SeesAsMember
      <3> QED BY <1>0, <2>1, <2>11, <3>1 DEF Announce, FinishJoin, JoinStage, room
    <2>12. CASE AnnounceHost(c)
      <3>1. gameState # "Ended" /\ join'[c] = "host announced"
        BY <1>0, <2>12 DEF AnnounceHost, JoinStage, SeesAsMember
      <3> QED BY <1>0, <2>1, <2>12, <3>1 DEF AnnounceHost, JoinStage, room
    <2>13. CASE FinishJoinOthers(c)
      <3>1. gameState # "Ended" /\ waiting = {}
        BY <2>1, <2>13 DEF FinishJoinOthers, SeesAsMember
      <3> QED BY <1>0, <2>1, <2>13, <3>1 DEF FinishJoinOthers, JoinStage
    <2> QED
      BY <1>4, <2>2, <2>3, <2>4, <2>5, <2>6, <2>7, <2>8, <2>9, <2>10, <2>11,
         <2>12, <2>13
      DEF ContinueJoin
  <1>5. ASSUME NEW c \in Client, ContinueLeave(c)
        PROVE  WaitsForHost'
    <2>1. /\ UNCHANGED <<join, game>> /\ game = "no"
          /\ \A d \in Client : join[d] = "no"
          /\ \A d \in Client : d # c => leave[d] = "no" /\ leave'[d] = "no"
      <3>1. OnlyLeave(c)
        BY <1>5, LeaveMoves DEF OneCall
      <3> QED BY <1>0, <1>5, <3>1, LeaveMoves DEF OnlyLeave
    <2>2. CASE LeaveRoom(c)
      <3>1. Members' = Members \ {c} /\ client[c] = "gone"
        BY <2>2, MapDeletes DEF LeaveRoom, IsGone
      <3> QED BY <1>0, <2>1, <2>2, <3>1 DEF LeaveRoom, LeaveStage
    <2>3. CASE DestroyEmpty(c) \/ UnregisterEmpty(c)
      <3>1. /\ Members' = {} /\ waiting = {} /\ waiting' = {}
            /\ gameState' = "Destroyed"
        BY <1>0, <2>3 DEF DestroyEmpty, UnregisterEmpty, Destroy, Unregister,
                          EmptyAtTheEnd
      <3>2. \A d \in Client : client'[d] = "waiting" => client[d] = "waiting"
        BY <1>0, <2>3 DEF DestroyEmpty, UnregisterEmpty, Destroy, Show
      <3> QED BY <1>0, <2>1, <3>1, <3>2
    <2>4. CASE HostWaited(c)
      <3>1. waiting' = {}
        BY <2>4 DEF HostWaited, JoinWaiting
      <3>2. \A d \in Client : client'[d] # "waiting"
        BY <1>0, <2>4 DEF HostWaited, JoinWaiting, SendJoinedGame
      <3> QED BY <1>0, <2>1, <2>4, <3>1, <3>2 DEF HostWaited
    <2>5. CASE ElectHost(c)
      <3>1. elected[c] \in inRoom \cap players
        BY <2>5 DEF ElectHost, ElectedIsMember, IsThere
      <3>2. leave' = [leave EXCEPT ![c] = "elected"] /\ leave'[c] = "elected"
        BY <1>0, <2>5, <3>1 DEF ElectHost, LeaveStage
      <3> QED BY <1>0, <2>1, <2>5, <3>2 DEF ElectHost
    <2>6. CASE HostDidNotWait(c)
      <3>1. gameState # "Ended"
        BY <2>1, <2>6 DEF HostDidNotWait, ElectedIsMember
      <3> QED BY <1>0, <2>1, <2>6, <3>1 DEF HostDidNotWait, TellLeft, LeaveStage, room
    <2>7. CASE FinishHostWaited(c)
      BY <1>0, <2>1, <2>7 DEF FinishHostWaited, TellLeft, LeaveStage
    <2>8. CASE RemoveConnection(c) \/ LeaveOther(c) \/ LeaveEmpty(c) \/ PickHost(c)
      <3>1. /\ UNCHANGED <<connections, waiting, hostId, gameState, client>>
            /\ leave[c] # "elected" /\ leave'[c] # "others joined"
        BY <1>0, <2>8 DEF RemoveConnection, LeaveOther, LeaveEmpty, PickHost,
                          TellLeft, LeaveStage, room
      <3> QED BY <1>0, <2>1, <3>1
    <2> QED
      BY <1>5, <2>2, <2>3, <2>4, <2>5, <2>6, <2>7, <2>8 DEF ContinueLeave
  <1> QED
    BY <1>1, <1>2, <1>3, <1>4, <1>5 DEF Next, vars, room, calls

\* A host that leaves is replaced by the call in which it leaves.
LEMMA StepKeepsHost ==
    ASSUME MaxPending = 1, TypeOK, OneCall, IsThere, ElectedIsMember,
           DestroyIsFinished, HasHost, [Next]_vars
    PROVE  HasHost'
  <1> USE DEF HasHost
  <1>0. join \in [Client -> JoinStages] /\ leave \in [Client -> LeaveStages]
    BY DEF TypeOK, CallsTypeOK
  <1>1. CASE UNCHANGED <<registered, players, hostId, join, leave>>
    BY <1>1
  <1>2. ASSUME UNCHANGED <<registered, players, hostId>>,
               registered /\ players # {} => hostId \in players
        PROVE  HasHost'
    BY <1>2
  <1>3. CASE Call
    <2>1. Quiet
      BY <1>3, CallIsQuiet
    <2>2. UNCHANGED <<registered, players, hostId>>
      BY <1>3 DEF Call, TimeOut, AskJoin, Disconnect, StartGame, EndGame, room
    <2> QED BY <1>2, <2>1, <2>2 DEF Quiet
  <1>4. CASE ContinueRoom
    <2>1. \/ UNCHANGED <<registered, players, hostId, join, leave>>
          \/ registered' = FALSE
      BY <1>4 DEF ContinueRoom, SendStartGame, SendEndGame, ClearConnections,
                  DestroyTimedOut, UnregisterTimedOut, Unregister, room
    <2> QED BY <1>1, <2>1
  <1>5. ASSUME NEW c \in Client, ContinueJoin(c)
        PROVE  HasHost'
    <2>1. /\ \A d \in Client : leave[d] = "no"
          /\ \A d \in Client : d # c => join[d] = "no"
      <3>1. join[c] # "no"
        BY <1>5, JoinMoves DEF Refuse
      <3> QED BY <3>1 DEF OneCall, OnlyJoin
    <2>2. CASE Admit(c)
      BY <1>0, <1>2, <2>1, <2>2 DEF Admit, JoinStage
    <2>3. CASE SelectHost(c)
      <3>1. join'[c] = "selecting"
        BY <1>0, <2>3 DEF SelectHost, JoinStage
      <3> QED BY <3>1
    <2>4. CASE BecomeHost(c)
      BY <2>4 DEF BecomeHost, IsThere, Entering
    <2>5. CASE ~Admit(c) /\ ~SelectHost(c) /\ ~BecomeHost(c)
      <3>1. /\ UNCHANGED <<registered, players, hostId>>
            /\ join[c] = "player" => hostId \in players
            /\ join[c] # "selecting"
        BY <1>5, <2>5
        DEF ContinueJoin, Refuse, EnterLobby, Announce, AddMember, FinishJoin,
            HostReturns, AnnounceHost, JoinOtherClients, FinishJoinOthers,
            WaitForHost, SendWaitForHost, HostIsKnown, room
      <3> QED BY <1>2, <2>1, <3>1
    <2> QED BY <2>2, <2>3, <2>4, <2>5
  <1>6. ASSUME NEW c \in Client, ContinueLeave(c)
        PROVE  HasHost'
    <2>1. OnlyLeave(c)
      BY <1>6, LeaveMoves DEF OneCall
    <2>2. /\ \A d \in Client : join[d] = "no"
          /\ \A d \in Client : d # c => leave[d] = "no"
          /\ timeout = "no"
      BY <2>1 DEF OnlyLeave
    <2>3. CASE LeaveRoom(c)
      <3>1. leave'[c] = "left"
        BY <1>0, <2>3 DEF LeaveRoom, LeaveStage
      <3> QED BY <2>2, <2>3, <3>1 DEF LeaveRoom
    <2>4. CASE LeaveEmpty(c)
      <3>1. CASE destroyed
        <4>1. ~registered
          BY <2>2, <2>4, <3>1 DEF LeaveEmpty, DestroyIsFinished
        <4> QED BY <2>4, <4>1 DEF LeaveEmpty, room
      <3>2. CASE ~destroyed
        <4>1. leave'[c] = "destroying"
          BY <1>0, <2>4, <3>2 DEF LeaveEmpty, LeaveStage
        <4> QED BY <4>1
      <3> QED BY <3>1, <3>2
    <2>5. CASE PickHost(c)
      <3>1. leave'[c] = "picked" /\ hostId' = c
        BY <1>0, <2>5 DEF PickHost, LeaveStage, room
      <3> QED BY <3>1
    <2>6. CASE ElectHost(c)
      BY <2>6 DEF ElectHost, ElectedIsMember, IsThere
    <2>7. CASE DestroyEmpty(c)
      <3>1. leave'[c] = "unregistering"
        BY <1>0, <2>7 DEF DestroyEmpty, LeaveStage
      <3> QED BY <3>1
    <2>8. CASE UnregisterEmpty(c)
      BY <2>8 DEF UnregisterEmpty, Unregister
    <2>9. CASE RemoveConnection(c) \/ LeaveOther(c) \/ HostWaited(c)
               \/ FinishHostWaited(c) \/ HostDidNotWait(c)
      <3>1. /\ UNCHANGED <<registered, players, hostId>>
            /\ leave[c] \in {"left", "picked"} => hostId # c
            /\ leave[c] \notin {"destroying", "unregistering"}
        BY <2>9 DEF RemoveConnection, LeaveOther, HostWaited, FinishHostWaited,
                    HostDidNotWait, room
      <3> QED BY <1>2, <2>2, <3>1
    <2> QED
      BY <1>6, <2>3, <2>4, <2>5, <2>6, <2>7, <2>8, <2>9 DEF ContinueLeave
  <1> QED
    BY <1>1, <1>3, <1>4, <1>5, <1>6 DEF Next, vars, room, calls

\* Only the last leave and the timer of an empty room destroy it.
LEMMA StepKeepsEmpty ==
    ASSUME MaxPending = 1, TypeOK, OneCall, NoDuplicates, SeesAsMember,
           DestroyIsFinished, EmptyAtTheEnd, [Next]_vars
    PROVE  EmptyAtTheEnd'
  <1> USE DEF EmptyAtTheEnd
  <1>0. /\ join \in [Client -> JoinStages] /\ leave \in [Client -> LeaveStages]
        /\ {destroyed, registered, joinedFlag} \subseteq BOOLEAN
        /\ {destroyed', registered', joinedFlag'} \subseteq BOOLEAN
        /\ connections' = connections => Members' = Members
    <2>1. connections' = connections => Members' = Members
      BY DEF Members
    <2>2. RoomTypeOK'
      BY StepKeepsRoom
    <2> QED BY <2>1, <2>2 DEF TypeOK, RoomTypeOK, CallsTypeOK
  <1>1. CASE UNCHANGED <<connections, gameState, destroyed, registered,
                         joinedFlag, join, leave, timeout>>
    BY <1>0, <1>1
  <1>f. ASSUME UNCHANGED <<destroyed, registered, joinedFlag, join, timeout>>,
               Members = {} => Members' = {},
               gameState' = "Destroyed" <=> gameState = "Destroyed",
               gameState' = "Ended" => gameState = "Ended" \/ joinedFlag,
               \A d \in Client :
                  leave'[d] \in {"destroying", "unregistering"} => Members = {}
        PROVE  EmptyAtTheEnd'
    BY <1>f
  <1>2. CASE Call
    <2>1. Quiet
      BY <1>2, CallIsQuiet
    <2>2. CASE TimeOut
      BY <1>0, <2>1, <2>2 DEF TimeOut, Quiet
    <2>3. ASSUME NEW c \in Client, AskJoin(c)
          PROVE  EmptyAtTheEnd'
      <3>1. registered => ~destroyed
        BY <2>1 DEF Quiet, DestroyIsFinished
      <3> QED BY <1>0, <2>1, <2>3, <3>1 DEF AskJoin, Quiet, JoinStage, room
    <2>4. ASSUME NEW c \in Client, Disconnect(c)
          PROVE  EmptyAtTheEnd'
      BY <1>0, <2>1, <2>4 DEF Disconnect, Quiet, LeaveStage, room
    <2>5. ASSUME NEW c \in Client, StartGame(c) \/ EndGame(c)
          PROVE  EmptyAtTheEnd'
      <3>1. c \in Members
        BY <2>1, <2>5 DEF StartGame, EndGame, SeesAsMember, Sees, Quiet
      <3>2. ~destroyed /\ joinedFlag
        BY <1>0, <3>1
      <3>3. /\ UNCHANGED <<connections, destroyed, registered, joinedFlag, join,
                            leave, timeout>>
            /\ gameState' \in {"Started", "Ended"}
        BY <2>5 DEF StartGame, EndGame
      <3> QED BY <1>0, <1>f, <3>2, <3>3
    <2> QED BY <1>2, <2>2, <2>3, <2>4, <2>5 DEF Call
  <1>3. CASE ContinueRoom
    <2>1. /\ UNCHANGED <<join, leave, joinedFlag>>
          /\ \A c \in Client : join[c] = "no" /\ leave[c] = "no"
      BY <1>3 DEF ContinueRoom, SendStartGame, SendEndGame, ClearConnections,
                  DestroyTimedOut, UnregisterTimedOut, OneCall, OnlyRoom, room
    <2>2. CASE SendStartGame \/ SendEndGame
      BY <1>1, <2>1, <2>2 DEF SendStartGame, SendEndGame, room
    <2>3. CASE ClearConnections
      <3>1. Members' = {}
        BY <2>3, ClearedMembers DEF ClearConnections
      <3>2. UNCHANGED <<gameState, destroyed, registered, timeout>>
        BY <2>3 DEF ClearConnections
      <3> QED BY <1>f, <2>1, <3>1, <3>2
    <2>4. CASE DestroyTimedOut \/ UnregisterTimedOut
      <3>1. Members' = {} /\ gameState' = "Destroyed" /\ destroyed'
        BY <1>0, <2>4 DEF DestroyTimedOut, UnregisterTimedOut, Destroy, Unregister,
                          DestroyIsFinished
      <3> QED BY <1>0, <2>1, <3>1
    <2> QED BY <1>3, <2>2, <2>3, <2>4 DEF ContinueRoom
  <1>4. ASSUME NEW c \in Client, ContinueJoin(c)
        PROVE  EmptyAtTheEnd'
    <2>1. /\ timeout = "no"
          /\ \A d \in Client : leave[d] = "no"
          /\ \A d \in Client : d # c => join[d] = "no"
      <3>1. join[c] # "no"
        BY <1>4, JoinMoves DEF Refuse
      <3> QED BY <3>1 DEF OneCall, OnlyJoin
    <2>2. CASE Refuse(c)
      BY <1>0, <2>1, <2>2 DEF Refuse, JoinStage, room
    <2>3. CASE ~Refuse(c)
      <3>1. /\ join[c] \notin {"no", "not found"}
            /\ UNCHANGED <<leave, timeout, destroyed, registered>>
            /\ \E s \in JoinStages : join' = [join EXCEPT ![c] = s]
            /\ joinedFlag' \in {joinedFlag, TRUE}
        <4>1. joinedFlag' \in {joinedFlag, TRUE} /\ join[c] \notin {"no", "not found"}
          BY <1>4, <2>3
          DEF ContinueJoin, Admit, SelectHost, BecomeHost, EnterLobby,
              Announce, AddMember, FinishJoin, HostReturns, AnnounceHost,
              JoinOtherClients, FinishJoinOthers, WaitForHost, SendWaitForHost,
              HostIsKnown, room
        <4> QED BY <1>4, <2>3, <4>1, JoinMoves
      <3>2. registered /\ ~destroyed
        BY <3>1
      <3>3. /\ gameState' # "Destroyed"
            /\ gameState' \in {gameState, "NotStarted"}
        BY <1>4, <2>3, <3>2
        DEF ContinueJoin, Admit, SelectHost, BecomeHost, EnterLobby,
            Announce, AddMember, FinishJoin, HostReturns, AnnounceHost,
            JoinOtherClients, FinishJoinOthers, WaitForHost, SendWaitForHost,
            HostIsKnown, room
      <3>4. Members' = Members \/ joinedFlag'
        <4>1. CASE HostReturns(c) \/ WaitForHost(c) \/ AddMember(c)
          BY <1>0, <4>1 DEF HostReturns, WaitForHost, AddMember
        <4>2. CASE ~HostReturns(c) /\ ~WaitForHost(c) /\ ~AddMember(c)
          <5>1. connections' = connections
            BY <1>4, <2>3, <4>2
            DEF ContinueJoin, Admit, SelectHost, BecomeHost, EnterLobby,
                Announce, FinishJoin, AnnounceHost,
                JoinOtherClients, FinishJoinOthers, SendWaitForHost, room
          <5> QED BY <1>0, <5>1
        <4> QED BY <4>1, <4>2
      <3>5. ~joinedFlag' => ~joinedFlag
        BY <1>0, <3>1
      <3>6. \A d \in Client : join'[d] # "no" => d = c
        BY <1>0, <2>1, <3>1
      <3> QED BY <2>1, <3>1, <3>2, <3>3, <3>4, <3>5, <3>6
    <2> QED BY <2>2, <2>3
  <1>5. ASSUME NEW c \in Client, ContinueLeave(c)
        PROVE  EmptyAtTheEnd'
    <2>1. /\ UNCHANGED <<join, timeout, joinedFlag>>
          /\ timeout = "no"
          /\ \A d \in Client : join[d] = "no"
          /\ \A d \in Client : d # c => leave[d] = "no" /\ leave'[d] = "no"
      <3>1. OnlyLeave(c)
        BY <1>5, LeaveMoves DEF OneCall
      <3> QED BY <1>0, <1>5, <3>1, LeaveMoves DEF OnlyLeave
    <2>2. CASE LeaveRoom(c)
      <3>1. Members' = Members \ {c} /\ leave'[c] = "left"
        BY <1>0, <2>2, MapDeletes DEF LeaveRoom, LeaveStage
      <3>2. UNCHANGED <<gameState, destroyed, registered>>
        BY <2>2 DEF LeaveRoom
      <3> QED BY <1>f, <2>1, <3>1, <3>2
    <2>3. CASE LeaveEmpty(c)
      <3>1. Members = {}
        BY <2>3, NoMembers DEF LeaveEmpty, TypeOK
      <3>2. UNCHANGED <<connections, gameState, destroyed, registered>>
        BY <2>3 DEF LeaveEmpty, room
      <3> QED BY <1>0, <1>f, <2>1, <3>1, <3>2
    <2>4. CASE DestroyEmpty(c) \/ UnregisterEmpty(c)
      <3>1. Members' = {} /\ gameState' = "Destroyed" /\ destroyed'
        BY <1>0, <2>4 DEF DestroyEmpty, UnregisterEmpty, Destroy, Unregister,
                          DestroyIsFinished
      <3> QED BY <1>0, <2>1, <3>1
    <2>5. CASE RemoveConnection(c) \/ LeaveOther(c) \/ PickHost(c) \/ ElectHost(c)
               \/ HostWaited(c) \/ FinishHostWaited(c) \/ HostDidNotWait(c)
      <3>1. /\ UNCHANGED <<connections, destroyed, registered>>
            /\ leave'[c] \notin {"destroying", "unregistering"}
            /\ \/ gameState' = gameState
               \/ gameState = "Ended" /\ gameState' = "NotStarted"
        <4>1. /\ UNCHANGED <<connections, destroyed, registered>>
              /\ \/ gameState' = gameState
                 \/ gameState = "Ended" /\ gameState' = "NotStarted"
          BY <2>5
          DEF RemoveConnection, LeaveOther, PickHost, ElectHost, HostWaited,
              FinishHostWaited, HostDidNotWait, TellLeft, room
        <4>2. leave'[c] \notin {"destroying", "unregistering"}
          BY <1>0, <2>5
          DEF RemoveConnection, LeaveOther, PickHost, ElectHost, HostWaited,
              FinishHostWaited, HostDidNotWait, LeaveStage, TellLeft
        <4> QED BY <4>1, <4>2
      <3> QED BY <1>0, <1>f, <2>1, <3>1
    <2> QED BY <1>5, <2>2, <2>3, <2>4, <2>5 DEF ContinueLeave
  <1> QED
    BY <1>1, <1>2, <1>3, <1>4, <1>5 DEF Next, vars, room, calls

\* JoinedGame, JoinGame and RemovePlayer keep the views right.
LEMMA StepKeepsViews ==
    ASSUME MaxPending = 1, TypeOK, OneCall, NoDuplicates, IsThere, IsGone,
           SeesAsMember, EmptyAtTheEnd, ViewsMembers, [Next]_vars
    PROVE  ViewsMembers'
  <1> SUFFICES ASSUME NEW e \in Client, NEW d \in Client
               PROVE  ViewIsRight(e, d)'
    BY DEF ViewsMembers
  <1>0. /\ join \in [Client -> JoinStages] /\ leave \in [Client -> LeaveStages]
        /\ client \in [Client -> Screens]
        /\ view \in [Client -> SUBSET Client]
        /\ connections' = connections => Members' = Members
    <2>1. connections' = connections => Members' = Members
      BY DEF Members
    <2> QED BY <2>1 DEF TypeOK, CallsTypeOK, ClientsTypeOK
  <1>s. ViewIsRight(e, d)
    BY DEF ViewsMembers
  <1> USE DEF ViewIsRight
  \* A step that tells nobody anything, and ends or starts no stage on which
  \* the views depend, keeps them.
  <1>f. ASSUME UNCHANGED <<connections, view>>, Sees(e)' => Sees(e),
               leave'[d] \in Left <=> leave[d] \in Left,
               join'[d] = "announced" <=> join[d] = "announced",
               join'[d] = "joined" <=> join[d] = "joined",
               join'[d] = "host joined" => join[d] = "host joined"
        PROVE  ViewIsRight(e, d)'
    BY <1>0, <1>s, <1>f
  <1>1. CASE UNCHANGED <<connections, join, leave, client, view>>
    BY <1>f, <1>1 DEF Sees
  <1>2. CASE Call
    <2>1. Quiet
      BY <1>2, CallIsQuiet
    <2>2. ASSUME NEW c \in Client, AskJoin(c) \/ Disconnect(c)
          PROVE  ViewIsRight(e, d)'
      <3>1. /\ UNCHANGED connections
            /\ Sees(e)' => Sees(e) /\ view'[e] = view[e]
        BY <1>0, <2>2 DEF AskJoin, Disconnect, Sees, room
      <3>2. /\ join'[d] \in {"no", "found", "not found"}
            /\ leave[d] = "no" /\ leave'[d] \in {"no", "sending"}
            /\ join[d] = "no"
        BY <1>0, <2>1, <2>2 DEF AskJoin, Disconnect, Quiet, JoinStage, LeaveStage
      <3> QED BY <1>0, <1>s, <3>1, <3>2 DEF Left
    <2> QED
      BY <1>1, <1>2, <2>2 DEF Call, TimeOut, StartGame, EndGame
  <1>3. CASE ContinueRoom
    <2>1. UNCHANGED <<join, leave>> /\ join[d] = "no" /\ leave[d] = "no"
      BY <1>3, OneOfRoom
    <2>2. Sees(e)' => Sees(e)
      BY <1>0, <1>3
      DEF ContinueRoom, SendStartGame, SendEndGame, ClearConnections,
          DestroyTimedOut, UnregisterTimedOut, Destroy, Show, Sees
    <2>3. CASE ClearConnections
      <3>1. ~Sees(e)'
        BY <2>2, <2>3 DEF ClearConnections, SeesAsMember
      <3> QED BY <2>1, <3>1 DEF Left
    <2>4. CASE ~ClearConnections
      <3>1. UNCHANGED <<connections, view>>
        BY <1>3, <2>4 DEF ContinueRoom, SendStartGame, SendEndGame,
                          DestroyTimedOut, UnregisterTimedOut, room
      <3> QED BY <1>f, <2>1, <2>2, <3>1
    <2> QED BY <2>3, <2>4
  <1>4. ASSUME NEW c \in Client, ContinueJoin(c)
        PROVE  ViewIsRight(e, d)'
    <2>1. /\ client[c] # "gone" /\ game = "no"
          /\ leave[d] = "no"
          /\ d # c => join[d] = "no"
      BY <1>4, OneJoin DEF IsGone
    <2>2. CASE Refuse(c)
      <3>1. Sees(e)' => Sees(e)
        BY <1>0, <2>2 DEF Refuse, Show, Sees
      <3>2. /\ UNCHANGED <<connections, view>>
            /\ join'[d] = "no" /\ join[d] \in {"no", "found", "not found"}
            /\ leave'[d] \in {"no", "sending"}
        BY <1>0, <2>1, <2>2 DEF Refuse, JoinStage, room
      <3> QED BY <1>f, <2>1, <3>1, <3>2 DEF Left
    <2>3. CASE Admit(c) \/ SelectHost(c) \/ BecomeHost(c) \/ FinishJoin(c)
               \/ FinishJoinOthers(c)
      <3>1. /\ UNCHANGED <<connections, view, client, leave>>
            /\ join[c] \in {"found", "player", "selecting", "added", "others joined"}
            /\ \E s \in {"no", "player", "selecting", "host"} :
                  join' = [join EXCEPT ![c] = s]
        BY <2>3 DEF Admit, SelectHost, BecomeHost, FinishJoin, FinishJoinOthers,
                    JoinStage, room
      <3> QED BY <1>0, <1>f, <2>1, <3>1 DEF Sees
    <2>4. CASE EnterLobby(c)
      <3>1. IF e = c THEN view'[e] = Members \cup {c}
                     ELSE view'[e] = view[e] /\ (Sees(e)' <=> Sees(e))
        BY <1>0, <2>1, <2>4 DEF EnterLobby, SendJoinedGame, Sees
      <3>2. /\ join'[d] = IF d = c THEN "joined" ELSE "no"
            /\ join[d] \notin {"joined", "announced"}
            /\ UNCHANGED <<connections, leave>>
        BY <1>0, <2>1, <2>4 DEF EnterLobby, HostIsKnown, JoinStage, room
      <3> QED BY <1>0, <1>s, <2>1, <3>1, <3>2 DEF Left
    <2>5. CASE HostReturns(c)
      <3>1. Members' = Members \cup {c} /\ ~Sees(e)
        BY <2>1, <2>5, MapInserts DEF HostReturns, SeesAsMember
      <3>2. IF e = c THEN view'[e] = Members \cup {c} ELSE ~Sees(e)'
        BY <1>0, <2>1, <2>5, <3>1 DEF HostReturns, SendJoinedGame, Sees
      <3>3. /\ join'[d] = IF d = c THEN "host joined" ELSE "no"
            /\ UNCHANGED leave
        BY <1>0, <2>1, <2>5 DEF HostReturns, JoinStage
      <3> QED BY <2>1, <3>1, <3>2, <3>3 DEF Left
    <2>6. CASE WaitForHost(c)
      <3>1. ~Sees(e)'
        BY <2>1, <2>6 DEF WaitForHost, SeesAsMember, Sees
      <3>2. join'[d] # "host joined" /\ UNCHANGED leave
        BY <1>0, <2>1, <2>6 DEF WaitForHost, JoinStage
      <3> QED BY <2>1, <3>1, <3>2 DEF Left
    <2>7. CASE SendWaitForHost(c)
      <3>1. Sees(e)' => Sees(e)
        BY <1>0, <2>7 DEF SendWaitForHost, Show, Sees
      <3>2. /\ UNCHANGED <<connections, view, leave>>
            /\ join'[d] = "no" /\ join[d] \in {"no", "waits"}
        BY <1>0, <2>1, <2>7 DEF SendWaitForHost, JoinStage, room
      <3> QED BY <1>f, <3>1, <3>2
    <2>8. CASE AnnounceHost(c)
      <3>1. /\ Sees(e)' <=> Sees(e)
            /\ view'[e] = view[e] \/ view'[e] = view[e] \cup {c}
        BY <2>8 DEF AnnounceHost, SendJoinGame, Sees
      <3>2. c \in Members
        BY <2>8 DEF AnnounceHost, ViewsMembers
      <3>3. /\ join'[d] \notin {"joined", "announced", "host joined"}
            /\ join[d] \notin {"joined", "announced"}
            /\ UNCHANGED <<connections, leave>>
        BY <1>0, <2>1, <2>8 DEF AnnounceHost, JoinStage, room
      <3> QED BY <1>0, <1>s, <2>1, <3>1, <3>2, <3>3 DEF Left
    <2>9. CASE JoinOtherClients(c)
      <3>1. \/ view'[e] = Members \cup {e} /\ e \in Members
            \/ view'[e] = view[e] /\ (Sees(e)' => Sees(e))
        BY <1>0, <2>9 DEF JoinOtherClients, JoinWaiting, SendJoinedGame, Sees
      <3>2. /\ join'[d] \notin {"joined", "announced", "host joined"}
            /\ join[d] \notin {"joined", "announced"}
            /\ UNCHANGED <<connections, leave>>
        BY <1>0, <2>1, <2>9 DEF JoinOtherClients, JoinStage
      <3> QED BY <1>0, <1>s, <2>1, <3>1, <3>2 DEF Left
    <2>10. CASE Announce(c)
      <3>1. Sees(e)' <=> Sees(e)
        BY <2>10 DEF Announce, Sees
      <3>2. Sees(e) /\ e # c => e \in Members \cap players
        BY <1>4, OneJoin DEF SeesAsMember, IsThere
      <3>3. Sees(e) => view'[e] = IF e = c THEN view[e] ELSE view[e] \cup {c}
        BY <2>10, <3>2 DEF Announce, SendJoinGame
      <3>4. /\ join'[d] = IF d = c THEN "announced" ELSE "no"
            /\ join[d] = IF d = c THEN "joined" ELSE "no"
            /\ UNCHANGED <<connections, leave>>
        BY <1>0, <2>1, <2>10 DEF Announce, JoinStage, room
      <3> QED BY <1>0, <1>s, <2>1, <3>1, <3>3, <3>4 DEF Left
    <2>11. CASE AddMember(c)
      <3>1. Members' = Members \cup {c}
        BY <2>11, MapInserts
      <3>2. /\ join'[d] = IF d = c THEN "added" ELSE "no"
            /\ join[d] = IF d = c THEN "announced" ELSE "no"
            /\ UNCHANGED <<leave, view, client>>
        BY <1>0, <2>1, <2>11 DEF AddMember, JoinStage
      <3> QED BY <1>s, <2>1, <3>1, <3>2 DEF Left, Sees
    <2> QED
      BY <1>4, <2>2, <2>3, <2>4, <2>5, <2>6, <2>7, <2>8, <2>9, <2>10, <2>11
      DEF ContinueJoin
  <1>5. ASSUME NEW c \in Client, ContinueLeave(c)
        PROVE  ViewIsRight(e, d)'
    <2>1. /\ UNCHANGED join /\ join[d] = "no"
          /\ d # c => leave[d] = "no" /\ leave'[d] = "no"
          /\ Sees(e) => e \in Members
      BY <1>5, OneLeave DEF SeesAsMember
    <2>2. CASE RemoveConnection(c) \/ PickHost(c)
      <3>1. /\ UNCHANGED <<connections, view, client>>
            /\ leave'[c] \in Left <=> leave[c] \in Left
        BY <1>0, <2>2 DEF RemoveConnection, PickHost, LeaveStage, Left, room
      <3> QED BY <1>f, <2>1, <3>1 DEF Sees, Left
    <2>3. CASE LeaveRoom(c)
      <3>1. Members' = Members \ {c}
        BY <2>3, MapDeletes
      <3>2. /\ leave[c] = "leaving" /\ leave'[c] = "left"
            /\ UNCHANGED <<client, view>>
        BY <1>0, <2>3 DEF LeaveRoom, LeaveStage
      <3> QED BY <1>s, <2>1, <3>1, <3>2 DEF Left, Sees
    <2>4. CASE LeaveEmpty(c)
      <3>1. Members = {} /\ UNCHANGED <<connections, client>>
        BY <2>4, NoMembers DEF LeaveEmpty, TypeOK, room
      <3>2. ~Sees(e)' /\ d \notin Members'
        BY <1>0, <2>1, <3>1 DEF Sees
      <3> QED BY <2>1, <3>2
    \* The client that leaves is taken out of every view.
    <2>5. ASSUME TellLeft(c), leave[c] \in Left, UNCHANGED <<connections, client>>
          PROVE  ViewIsRight(e, d)'
      <3>1. Sees(e) => view'[e] = view[e] \ {c}
        BY <2>1, <2>5 DEF TellLeft, SendRemovePlayer
      <3>2. leave'[c] = "no"
        BY <1>0, <2>5 DEF TellLeft, LeaveStage
      <3> QED BY <1>0, <1>s, <2>1, <2>5, <3>1, <3>2 DEF Sees, Left
    <2>6. CASE LeaveOther(c) \/ HostDidNotWait(c) \/ FinishHostWaited(c)
      <3>1. TellLeft(c) /\ leave[c] \in Left /\ UNCHANGED <<connections, client>>
        BY <2>6 DEF LeaveOther, HostDidNotWait, FinishHostWaited, Left, room
      <3> QED BY <2>5, <3>1
    <2>7. CASE ElectHost(c)
      <3>1. CASE elected[c] \in inRoom \cap players
        <4>1. /\ UNCHANGED <<connections, view, client>>
              /\ leave'[c] \in Left <=> leave[c] \in Left
          BY <1>0, <2>7, <3>1 DEF ElectHost, LeaveStage, Left
        <4> QED BY <1>f, <2>1, <4>1 DEF Sees, Left
      <3>2. CASE elected[c] \notin inRoom \cap players
        <4>1. TellLeft(c) /\ leave[c] \in Left /\ UNCHANGED <<connections, client>>
          BY <2>7, <3>2 DEF ElectHost, Left
        <4> QED BY <2>5, <4>1
      <3> QED BY <3>1, <3>2
    <2>8. CASE HostWaited(c)
      <3>1. \/ view'[e] = Members \cup {e} /\ e \in Members
            \/ view'[e] = view[e] /\ (Sees(e)' => Sees(e))
        BY <1>0, <2>8 DEF HostWaited, JoinWaiting, SendJoinedGame, Sees
      <3>2. /\ leave[c] \in Left /\ leave'[c] \in Left
            /\ UNCHANGED connections
        BY <1>0, <2>8 DEF HostWaited, LeaveStage, Left
      <3>3. leave'[d] \in Left <=> leave[d] \in Left
        BY <2>1, <3>2 DEF Left
      <3> QED BY <1>0, <1>s, <2>1, <3>1, <3>2, <3>3
    <2>9. CASE DestroyEmpty(c) \/ UnregisterEmpty(c)
      <3>1. Sees(e)' => Sees(e)
        BY <1>0, <2>9 DEF DestroyEmpty, UnregisterEmpty, Destroy, Show, Sees
      <3>2. /\ UNCHANGED <<connections, view>>
            /\ leave[c] \notin Left /\ leave'[c] \notin Left
        BY <1>0, <2>9 DEF DestroyEmpty, UnregisterEmpty, LeaveStage, Left
      <3> QED BY <1>f, <2>1, <3>1, <3>2 DEF Left
    <2> QED
      BY <1>5, <2>2, <2>3, <2>4, <2>6, <2>7, <2>8, <2>9 DEF ContinueLeave
  <1> QED
    BY <1>1, <1>2, <1>3, <1>4, <1>5 DEF Next, vars, room, calls
-----------------------------------------------------------------------------
\* What is true of a room whose calls do not overlap.
SequentialInv ==
    /\ OneCall
    /\ NoDuplicates /\ EntersAsNew
    /\ IsThere /\ IsGone
    /\ IsAsking /\ MemberShows /\ SeesAsMember
    /\ WaitsForHost /\ ElectedIsMember /\ HasHost
    /\ EmptyAtTheEnd /\ DestroyIsFinished
    /\ ViewsMembers

\* In a new room nobody is anywhere.
LEMMA InitIsSequential ==
    ASSUME Init
    PROVE  SequentialInv
  <1>0. /\ connections = <<>> /\ Members = {} /\ players = {} /\ waiting = {}
        /\ gameState = "NotStarted" /\ destroyed = FALSE /\ registered = TRUE
        /\ inRoom = {} /\ online = Client
        /\ game = "no" /\ timeout = "no"
        /\ \A c \in Client : /\ join[c] = "no" /\ leave[c] = "no"
                             /\ client[c] = "out"
    BY DEF Init, Members
  <1>1. OneCall
    BY <1>0 DEF OneCall, OnlyJoin, OnlyLeave, OnlyRoom
  <1>2. NoDuplicates /\ EntersAsNew
    BY <1>0, RoomAssumption DEF NoDuplicates, EntersAsNew, Entering
  <1>3. IsThere
    BY <1>0 DEF IsThere, Entering
  <1>4. IsGone /\ IsAsking
    BY <1>0 DEF IsGone, IsAsking, Asking
  <1>5. MemberShows
    BY <1>0 DEF MemberShows
  <1>6. SeesAsMember
    BY <1>0 DEF SeesAsMember, Sees
  <1>7. WaitsForHost /\ ElectedIsMember
    BY <1>0 DEF WaitsForHost, ElectedIsMember
  <1>8. HasHost
    BY <1>0 DEF HasHost
  <1>9. EmptyAtTheEnd
    BY <1>0 DEF EmptyAtTheEnd
  <1>10. DestroyIsFinished
    BY <1>0 DEF DestroyIsFinished
  <1>11. ViewsMembers
    BY <1>0 DEF ViewsMembers, ViewIsRight, Sees, Left
  <1> QED
    BY <1>1, <1>2, <1>3, <1>4, <1>5, <1>6, <1>7, <1>8, <1>9, <1>10, <1>11
    DEF SequentialInv

\* Every part is kept with the help of some of the others.
LEMMA StepKeepsSequential ==
    ASSUME MaxPending = 1, TypeOK, SequentialInv, [Next]_vars
    PROVE  SequentialInv'
  <1>0. /\ OneCall /\ NoDuplicates /\ EntersAsNew /\ IsThere /\ IsGone
        /\ IsAsking /\ MemberShows /\ SeesAsMember /\ WaitsForHost
        /\ ElectedIsMember /\ HasHost /\ EmptyAtTheEnd /\ DestroyIsFinished
        /\ ViewsMembers
    BY DEF SequentialInv
  <1>1. OneCall'           BY <1>0, StepKeepsOneCall
  <1>2. NoDuplicates'      BY <1>0, StepKeepsNoDuplicates
  <1>3. EntersAsNew'       BY <1>0, StepKeepsNew
  <1>4. IsThere'           BY <1>0, StepKeepsThere
  <1>5. IsGone'            BY <1>0, StepKeepsGone
  <1>6. IsAsking'          BY <1>0, StepKeepsAsking
  <1>7. MemberShows'       BY <1>0, StepKeepsShown
  <1>8. SeesAsMember'      BY <1>0, StepKeepsSeers
  <1>9. WaitsForHost'      BY <1>0, StepKeepsWaiting
  <1>10. ElectedIsMember'  BY <1>0, StepKeepsElected
  <1>11. HasHost'          BY <1>0, StepKeepsHost
  <1>12. EmptyAtTheEnd'    BY <1>0, StepKeepsEmpty
  <1>13. DestroyIsFinished' BY <1>0, StepKeepsDestroyed
  <1>14. ViewsMembers'     BY <1>0, StepKeepsViews
  <1> QED
    BY <1>1, <1>2, <1>3, <1>4, <1>5, <1>6, <1>7, <1>8, <1>9, <1>10, <1>11,
       <1>12, <1>13, <1>14
    DEF SequentialInv

\* As long as the calls of attemptJoin, disconnect, handleStart, handleEnd and
\* destroy do not overlap, every stage of each of them finds the room, the
\* clients and what they know as the stages before have left them.
THEOREM SequentialIsInvariant ==
    ASSUME MaxPending = 1
    PROVE  Spec => [](TypeOK /\ SequentialInv)
  <1>1. Init => TypeOK /\ SequentialInv
    BY InitIsTyped, InitIsSequential
  <1>2. TypeOK /\ SequentialInv /\ [Next]_vars => TypeOK' /\ SequentialInv'
    BY StepKeepsRoom, StepKeepsCalls, StepKeepsClients, StepKeepsSequential
    DEF TypeOK
  <1> QED BY <1>1, <1>2, PTL DEF Spec

\* Between calls that do not overlap, the connections of a room are those of
\* clients that are connected, in the room and have a player in it
\* (handleRemoteJoin, handleRemoteLeave).
THEOREM NoGhostIsLeft ==
    ASSUME MaxPending = 1
    PROVE  Spec => []NoGhost
  <1>1. TypeOK /\ SequentialInv => NoGhost
    <2> SUFFICES ASSUME TypeOK, SequentialInv, Quiet, NEW c \in Members
                 PROVE  c \in online \cap inRoom \cap players
      BY DEF NoGhost
    <2>1. c \in inRoom /\ c \in players
      BY DEF SequentialInv, IsThere
    <2>2. c \in Client
      BY DEF SequentialInv, IsThere, TypeOK, CallsTypeOK
    <2>3. leave[c] = "no"
      BY <2>2 DEF Quiet
    <2> QED BY <2>1, <2>2, <2>3 DEF SequentialInv, IsThere
  <1> QED BY <1>1, SequentialIsInvariant, PTL

\* Between calls that do not overlap, no client still waits for an answer to
\* its JoinGame: every way through attemptJoin and handleRemoteJoin ends with
\* a packet to it.
THEOREM EveryJoinIsAnswered ==
    ASSUME MaxPending = 1
    PROVE  Spec => []AskedIsAnswered
  <1>1. SequentialInv => AskedIsAnswered
    BY DEF SequentialInv, IsAsking, Asking, Quiet, AskedIsAnswered
  <1> QED BY <1>1, SequentialIsInvariant, PTL

\* Between calls that do not overlap, a room with players has a host among
\* them, whoever left and whatever has been elected (Hostable.host,
\* handleRemoteLeave).
THEOREM RoomKeepsHost ==
    ASSUME MaxPending = 1
    PROVE  Spec => []HostIsPlayer
  <1>1. SequentialInv => HostIsPlayer
    BY DEF SequentialInv, HasHost, Quiet, HostIsPlayer
  <1> QED BY <1>1, SequentialIsInvariant, PTL

\* Between calls that do not overlap, a client that shows that it waits for
\* the host is in waitingForHost, and nobody is there when the host is back or
\* the game has not ended: _joinOtherClients lets in all of them.
THEOREM OnlyMembersWait ==
    ASSUME MaxPending = 1
    PROVE  Spec => []WaitingIsMember
  <1>1. SequentialInv => WaitingIsMember
    <2> SUFFICES ASSUME SequentialInv, Quiet
                 PROVE  /\ \A c \in Client : client[c] = "waiting" =>
                                c \in waiting \cap Members
                        /\ waiting # {} =>
                                gameState = "Ended" /\ hostId \notin Members
      BY DEF WaitingIsMember
    <2> QED BY DEF SequentialInv, WaitsForHost, Quiet
  <1> QED BY <1>1, SequentialIsInvariant, PTL

\* Between calls that do not overlap, every member in the lobby or the game
\* knows exactly the members, whatever JoinedGame, JoinGame and RemovePlayer
\* it was sent, and in which order the others came, left and came back.
THEOREM MembersKnowEachOther ==
    ASSUME MaxPending = 1
    PROVE  Spec => []MembersAreKnown
  <1>1. TypeOK /\ SequentialInv => MembersAreKnown
    <2> SUFFICES ASSUME TypeOK, SequentialInv, Quiet,
                        NEW c \in Members \ waiting
                 PROVE  Sees(c) /\ view[c] = Members
      BY DEF MembersAreKnown
    <2>1. Members \subseteq Client /\ view[c] \subseteq Client
      BY MembersAreClients DEF TypeOK, ClientsTypeOK
    <2>2. client[c] \in {"in", "playing", "waiting"}
      BY <2>1 DEF SequentialInv, MemberShows, Quiet
    <2>3. Sees(c)
      BY <2>1, <2>2 DEF SequentialInv, WaitsForHost, Sees
    <2>4. ASSUME NEW d \in Client
          PROVE  d \in view[c] <=> d \in Members
      <3>1. ViewIsRight(c, d)
        BY <2>1 DEF SequentialInv, ViewsMembers
      <3>2. join[d] = "no" /\ leave[d] = "no"
        BY DEF Quiet
      <3> QED BY <2>3, <3>1, <3>2 DEF ViewIsRight, Left
    <2> QED BY <2>1, <2>3, <2>4
  <1> QED BY <1>1, SequentialIsInvariant, PTL

\* A room that the worker has dropped keeps its state Destroyed: of the calls
\* that go on after destroy, none is one that could play in it, because with
\* one call at a time nobody is in the room by then.
THEOREM DestructionIsFinal ==
    ASSUME MaxPending = 1
    PROVE  Spec => DestroyedIsFinal
  <1>1. TypeOK /\ SequentialInv /\ [Next]_vars
            => [~registered => gameState' = gameState]_vars
    <2> SUFFICES ASSUME TypeOK, SequentialInv, [Next]_vars, ~registered
                 PROVE  gameState' = gameState
      OBVIOUS
    <2>1. destroyed /\ gameState = "Destroyed" /\ Members = {}
      BY DEF SequentialInv, DestroyIsFinished, EmptyAtTheEnd
    <2>2. \A c \in Client : join[c] \in {"no", "not found"}
      BY <2>1 DEF SequentialInv, EmptyAtTheEnd
    <2>3. \A c \in Client : ~Sees(c)
      BY <2>1, <2>2 DEF SequentialInv, SeesAsMember
    <2>4. ASSUME NEW c \in Client, StartGame(c) \/ EndGame(c)
          PROVE  FALSE
      BY <2>3, <2>4 DEF StartGame, EndGame, Sees
    <2>5. ASSUME NEW c \in Client, ContinueJoin(c)
          PROVE  gameState' = gameState
      BY <2>1, <2>2, <2>5
      DEF ContinueJoin, Refuse, Admit, SelectHost, BecomeHost, EnterLobby,
          Announce, AddMember, FinishJoin, HostReturns, AnnounceHost,
          JoinOtherClients, FinishJoinOthers, WaitForHost, SendWaitForHost, room
    <2>6. ASSUME NEW c \in Client, ContinueLeave(c)
          PROVE  gameState' = gameState
      BY <2>1, <2>6
      DEF ContinueLeave, RemoveConnection, LeaveRoom, LeaveOther, LeaveEmpty,
          DestroyEmpty, UnregisterEmpty, PickHost, ElectHost, HostWaited,
          FinishHostWaited, HostDidNotWait, Destroy, Unregister, room
    <2>7. CASE ContinueRoom
      BY <2>1, <2>7
      DEF ContinueRoom, SendStartGame, SendEndGame, ClearConnections,
          DestroyTimedOut, UnregisterTimedOut, Destroy, Unregister, room
    <2> QED
      BY <2>4, <2>5, <2>6, <2>7
      DEF Next, Call, TimeOut, AskJoin, Disconnect, vars, room
  <1> QED BY <1>1, SequentialIsInvariant, PTL DEF Spec, DestroyedIsFinal
=============================================================================
