# A verification of the Mouthwash game server

TLA+ modules, model-checked with TLC and proved with TLAPS, for the parts of
this repository that keep players connected, in order and in the right room,
and that decide meetings, sabotages and the end of a game.
The repository holds an Among Us server (`Hindenburg`), the protocol and game
library it is built on (`SkeldJS`), server plugins and game modes
(`hbplugin-*`), an account server, a load balancer (`mediator`), a web site, a
launcher and a client mod. Paths below are relative to `src/`.

## 1. Inventory

| Component | Source | State it keeps | Operations | Talks to |
|---|---|---|---|---|
| Reliable layer, client to server | `Hindenburg/src/worker/Worker.ts` (`handleMessage`), `Connection.ts` | `nextExpectedNonce`, `unorderedMessageMap`, `worker.connections` | receive a datagram, acknowledge, drop, hold, accept, drain, Hello | the UDP socket, the decoder, every packet handler |
| Reliable layer, server to client | `Worker.ts` (`sendPacket`, handler of `AcknowledgePacket`, `pollClientReliability`), `Connection.ts` | `unackedPackets`, `_incrNonce` | send, acknowledge, poll, ping, resend, give up | rooms and handlers (send), timers, `Connection.disconnect` |
| Room membership and lifecycle | `BaseRoom.ts`, `Room.ts`, `Worker.ts` (`attemptJoin`), `Connection.disconnect`, `SkeldJS/packages/core/lib/Hostable.ts` | `connections`, `players`, `waitingForHost`, `hostId`, `gameState`, `_destroyed`, `playerJoinedFlag`, `worker.rooms`, `connection.room` | join, leave, elect a host, start, end, re-join, time out, destroy | packets to the members, listeners of plugins at every event |
| Worker: rooms, codes, game list | `Worker.ts` | `rooms`, `connections`, `lastClientId` | `createRoom`, `generateRoomCode`, host game, list games | rooms, configuration |
| Server-as-a-Host and acting hosts | `BaseRoom.ts` | `hostIsMe`, `actingHostIds`, `actingHostWaitingFor` | enable and disable, add and remove an acting host | membership, chat commands |
| Perspectives | `Perspective.ts`, `src/api/perspective` | filters, a copy of the room's objects | create, destroy, route messages in and out | room, plugins |
| Plugins and chat commands | `src/handlers`, `src/api` | loaded plugins, their listeners and registered messages | import, load, unload, register | worker, every room |
| HTTP matchmaker | `src/matchmaker` | none worth the name | tokens, list and find games | worker |
| Game state | `SkeldJS/packages/core/lib/Hostable.ts`, `PlayerData.ts`, `Networkable.ts` | `players`, `objectList`, `networkedObjects`, end-game intents | spawn, despawn, data, RPC, end-game intents | objects, events |
| Meetings and votes | `core/lib/objects/MeetingHud.ts` | vote states, the timer | vote, clear a vote, skip, complete, a player leaves | players, events, room |
| Ship systems and sabotages | `core/lib/systems`, `core/lib/misc` | per system: doors, timers, consoles, users | update, sabotage, repair, detonate | ship object, players |
| Roles, logic, end of game | `core/lib/roles`, `core/lib/logic`, `core/lib/endgame` | roles, intents | assign roles, check the end conditions | Hostable |
| Other objects | `core/lib/objects` | sequence numbers, player data | spawn, move, murder, tasks | Hostable |
| Events | `SkeldJS/packages/events` | lists of listeners | on, once, off, emit, emitSerial | everything |
| Protocol | `SkeldJS/packages/protocol`, `util`, `constant` | decoder listeners | decode, `emitDecoded` | worker |
| DTLS | `SkeldJS/packages/dtls` | handshake state | handshake, retransmit | UDP |
| Client library | `SkeldJS/packages/client`, `state` | `_nonce`, received and sent packets | connect, join, send | server |
| Account server | `account-server` | sessions, users, games (database) | HTTP endpoints | authentication plugin |
| Load balancer and master plugin | `mediator`, `hbplugin-mouthwashgg-master` | nodes and rooms in Redis | pick a node, publish rooms and players | workers |
| Mouthwash plugins | `hbplugin-mouthwashgg*` | sessions, movement history, lobby settings | authenticate, record, check, count | account server, worker events |
| Game modes and maps | `hbplugin-mwgg-*` | roles, buttons, cooldowns | role abilities | Mouthwash API |
| Front ends, types, tooling | `web`, `Launcher`, `mod-bepinex-client`, `mouthwash-types`, `tooling`, `misc`, `docs` | - | - | - |

Smaller packages of SkeldJS (`data`, `eos`, `generate-eos-token`, `lan`,
`matchmaking`, `pathfinding`, `reactor`, `text`, `translations`) and the
command line of Hindenburg (`bin`, `scripts`, `src/util`, `src/logger`,
`src/interfaces`, `src/components`) are data tables, formatting, setup or
stand-alone clients.

### How the server's parts interact

Everything runs in one Node.js process per worker, on one event loop. There are
no threads and no locks: a function is atomic from one `await` to the next, and
at an `await` any other call may run. `Worker.handleMessage` is started by the
socket once per datagram and nobody awaits it. It runs the packet handlers,
which call the room (`attemptJoin`, `handleRemoteJoin`, `disconnect`,
`handleStart`, `handleEnd`), which emits events. The listeners of plugins are
awaited, and they do real I/O in them: `hbplugin-mouthwashgg-master/src/plugin.ts:114`
writes to Redis, `hbplugin-mouthwashgg-api/src/plugin.ts:338` asks the account
server. So each of these awaits is a place where calls truly overlap. Timers
add the polls of reliability (2 s) and the room's `FixedUpdate`.

### What is hard, and what makes each part correct

* Inbound: UDP loses, repeats and reorders; invocations overlap at three awaits;
  handlers throw. Correct: no handler runs twice for one nonce; with message
  ordering the order of sending is kept; what was acknowledged is not lost;
  what is held is executed.
* Outbound: copies and acknowledgements are lost; a resend races a late
  acknowledgement; the client dies. Correct: a packet is remembered until it is
  acknowledged; a living client is kept; a dead one is dropped in bounded time.
* Membership: join, leave, election and destruction overlap; clients come back
  after a game into a room whose connections were cleared. Correct: the members
  are present clients, never more than fit; players are in the room; the host is
  one of them; whoever asked is answered; clients know the members; a destroyed
  room is gone for good.
* Hosts: the server, a player, or several acting hosts; updates go to one client
  after the other, each after the listeners of its broadcast, and a client is told of
  the host before it is one of the connections. Correct: once all is sent, nobody
  believes to be the host who is neither the host nor an acting host, and the host does
  not believe in another client, unless the hosts changed while a packet was under way.
* Meetings: votes, their suspended listeners and reverts race the time-out and the
  leaving of players. Correct: until the result nobody present votes for
  a player that has left, the last vote brings the result, the exiled player has won the
  vote, the meeting ends.
* End of game: four checks, each after awaits of its own, and updates that overlap.
  Correct: an outnumbered crew loses, no end is lost between two updates, and a game
  that was not ended is not shown as ended.
* Sabotages: two players repair at once, listeners revert, a timer runs. Correct:
  clients show what the server has, two consoles repair, a critical sabotage ends if
  the impostors stop to sabotage.
* Events: listeners that remove themselves or others while the list is walked.
  Correct: once is once, nobody is called twice by an emission, nobody is passed
  over for ever.

The complete list, each entry at its line, is `hazards` in `PROJECT.json`.

## 2. Modules

| Module | Models | Lines |
|---|---|---|
| `OrderedDelivery` | what ordered, reliable delivery promises (abstract) | - |
| `ReliableInbound` | `Worker.handleMessage` for one connection | `Worker.ts` 1527-1685 |
| `MCReliableInbound` | symmetry for TLC | - |
| `ReliableInboundProofs` | theorems about it | - |
| `ReliableOutbound` | sending, acknowledging, polling for one connection | `Worker.ts` 933-942, 1320-1347, 1494-1520 |
| `ReliableOutboundProofs` | theorems about it | - |
| `RoomMembership` | one room from creation to destruction | `BaseRoom.ts` 713-747, 1447-1944; `Worker.ts` 1746-1783 |
| `MCRoomMembership` | symmetry for TLC | - |
| `RoomMembershipProofs` | theorems about it | - |
| `ActingHosts` | who is the host, and who believes to be | `BaseRoom.ts` 261-351, 474-492, 914-1035, 1187-1432, 1447-1761, 1809-1834, 1910-1944; `Worker.ts` 530-625 |
| `MCActingHosts` | symmetry for TLC | - |
| `ActingHostsProofs` | theorems about it | - |
| `EndConditions` | the counts that decide a game | `MeetingHud.ts`, `PlayerControl.ts`, `Hostable.ts`, `GameData.ts` |
| `MeetingVoting` | one meeting, to the end of its timers | `MeetingHud.ts` 84-113, 233-316, 485-556; `Hostable.ts` 749-792 |
| `MCMeetingVoting` | the order of the players for TLC | - |
| `MeetingVotingProofs` | theorems about it | - |
| `GameEnd` | from what decides a game to the message that ends it | `PlayerControl.ts` 777-907, 1902-1921; `BaseRoom.ts` 769-794, 1910-1944 |
| `GameEndProofs` | theorems about it | - |
| `Sabotages` | a system that is repaired at two consoles | `ReactorSystem.ts`, `LifeSuppSystem.ts`, `HqHudSystem.ts`, `InnerShipStatus.ts` |
| `SabotagesProofs` | theorems about it | - |
| `EventEmitter` | the listeners of one event | `EventEmitter.ts` 32-162 |
| `EventEmitterProofs` | theorems about it | - |

`MeetingVoting` and `GameEnd` both extend `EndConditions`: what a meeting, a
murder, a leaving player and a task compare is written once. `ReliableInbound`
instantiates `OrderedDelivery`. The other modules meet in the state they share
(the members of a room, the dead and the players that have left), each with the
environment that the others are to it.

`map` in `PROJECT.json` gives the lines of every definition. Definitions called
`Mutant of X` in a module are plausible bugs, each of which breaks a property;
they are in no specification.

### ReliableInbound

`next` is `nextExpectedNonce`, `held` is `unorderedMessageMap`, and `task[t]`
says at which await invocation `t` of `handleMessage` is suspended: `ack` (the
acknowledgement is being sent), `emit` (the packet's handlers run), `drain` (the
handlers of a held packet run) and `hello`. `Receive` is the code up to the
first await; `DropBehind`, `Hold` and `Accept` the decision after it;
`FinishHandlers` and `FinishDrained` the turns of the loop over the held packets,
with the read of `nextExpectedNonce` before the await and the delete after it in
the steps where the code has them. The number of elements of `Invocation` bounds
how many invocations overlap. A packet is its index; `Nonce` is its 16-bit number.
Handlers are a record in `handled` of which started, in which order. The client is
external: it numbers, resends and takes acknowledgements as the client library
does (`SkeldJS/packages/client/lib/client.ts`).

Left out: rate limiting (touches neither nonces nor held packets), unreliable
packets, packets of other connections.

### ReliableOutbound

Time is in ticks of 500 ms, so the code's 2000, 1500 and 8000 ms are 4, 3 and
16; the comparisons keep their direction (`>`). `unacked` is `unackedPackets`
(nonce and time of sending), `nonce` is `_incrNonce`, `requested` counts the
packets that `sendPacket` was called for. `PollDrops` and `PollResends` are the
two ways through `pollClientReliability`; a copy and its acknowledgement take
less than a tick or are lost, and `MaxLost` bounds the losses of one packet.
`disconnect` waits for its packet before it removes the connection, which is the
stage `closing`.

### RoomMembership

The variables are the room's fields plus, for every call in progress, the await
at which it is suspended: `join[c]` in `attemptJoin` and `handleRemoteJoin`,
`leave[c]` in `Connection.disconnect` and `handleRemoteLeave`, `game` in
`handleStart` and `handleEnd`, `timeout` in the `destroy` that `FixedUpdate`
starts. One action per stretch between two awaits: for a join,
`AskJoin`, `Refuse` or `Admit`, `SelectHost`, `BecomeHost`, then `EnterLobby`,
`Announce`, `AddMember`, `FinishJoin`, or `HostReturns`, `AnnounceHost`,
`JoinOtherClients`, `FinishJoinOthers`, or `WaitForHost`, `SendWaitForHost`.
`client[c]` is the screen a client shows and `view[c]` the players it was told
of; both are external and exist to say what the packets achieved. `MaxPending`
bounds the calls in progress: 1 means that they do not overlap.

Abstractions: a broadcast reaches its receivers in one step (the layer above
orders and repeats packets); plugins delay events but neither cancel nor alter
them; a connection is disconnected once; one start or end of a game at a time;
a client that leaves does not come back under its id (ids are never reused).
Left out: Server-as-a-Host and acting hosts (they are in `ActingHosts`), bans,
chat-mode and version checks, spawning of objects.

### ActingHosts

`acting` is `actingHostIds` and `waitingFor` is `actingHostWaitingFor`, both in
their order; `believes[c]` is the host that client `c` was told of last (external:
the client library assigns it from JoinedGame, JoinGame and RemovePlayer,
`SkeldJS/packages/state/lib/state.ts`). `calls` holds the functions under way, each a
record with its stage `op`, the clients it has told and the update that it is about to
send; every await is a change of stage, and any other call may come in there.

* Loops over clients: `setHost` and `disableSaaH` (`host`), `enableSaaH` (`server`),
  `disableActingHosts` and `enableActingHosts`, the reset by the listener of the
  nameplate (`reset`) and by `handleRemoteLeave` (`left`), and `handleStart` (`start`,
  `cancel`). `Choose` is the read of the host to name, `Send` the packet behind the
  await of `ClientBroadcastEvent`. The loops are over live collections, so they see who
  is added or removed (`Targets`, `Untold`).
* A join: `Join` (`attemptJoin` and the choice to elect), `JoinElected` (the listeners
  of `room.selecthost` have returned), `JoinedGame` (the client is told of the host),
  `JoinGame` (the others are), `Enter` (`connections.set`), `FinishJoin`.
* A leave: `Leave`, the reset if the acting hosts only waited for the client,
  `FinishLeft` (is another host to be chosen?), `LeaveElected`, the update of the chosen
  acting host, `RemovePlayer`.
* The first acting host of a room without settings is told without listeners and asked
  to spawn a player (`Ask`); when it has, the despawn that makes everybody believe in it
  is broadcast (`Spawned`).
* Games: `StartGame`, `FinishStart`, `Started`, `EndGame`, `FinishEnd`; calls of plugins
  and the console: the other actions.

Which host a listener chooses, or whether it cancels the choice, is nondeterministic.
`overtaken` is history: the clients for whom a packet that names a host was under way
(`InTransit`) when the hosts changed. `MaxSwitches` bounds games and the calls of plugins
and of the console, `MaxCalls` those under way. Left out: `disableSaaH` on the end screen
and joins to it without Server-as-a-Host (`RoomMembership` has those), the removal of
players that are not ready when a game starts (it is a leave), listeners that cancel a
broadcast, perspectives.

### EndConditions, MeetingVoting

`votes[p]` is `votedForId`, `casting[p]` how many of p's votes wait for their
listeners, `aftermath` the results whose `_votingComplete` is in one of its two sleeps.
`Cast` is `_handleCastVote` up to its await; `FinishCast` and `RevertVote` what follows
it; `RunOutOfTime` the time-out; `KillExiled`, `Close` and `FinishMeeting` the
aftermath; `Leave` is `Hostable.handleLeave`. `Tally` is the loop over the vote states
and `ExiledWonTheVote` compares it with what it should compute (`Winners`). `timed`
and `suspends` are chosen in `Init`: a meeting with or without a time limit, with or
without listeners that take time. `mayVote` is external: a client votes once, and
again when it was told that its vote was cleared. `Order` is the order of `GameData`,
which is not that of the ids: an id that was free is given to the next who joins
(`Hostable.ts:764`), behind the others. Left out: chat notes, the
serialization of vote states, the mirror of a meeting on a client.

### GameEnd

`dead`, `gone` and `left` are the flags of `GameData` and the tasks left to each
crewmate; `murders` and `exile` are the calls that are suspended in their listeners;
`intents`, `updates` and `ends` are `endGameIntents`, the calls of `FixedUpdate` that
offer intents, and those of `handleEnd`. `cancels` bounds how often listeners cancel
an end or revert a death. `objects` says that the objects of the game are there: what
happens to them after the end is not followed. A task that is reported twice, a
vent and an altered victim are left out; a guardian angel may protect any victim.

### Sabotages

One system, whose `kind` is chosen in `Init`. `sys` is its timer and its completed
consoles, `calls` the handlers that are suspended in their listeners, with the state
each has saved to restore (`old`). `Agree`, `Revert` and `Alter` are what listeners may
answer; `meddle` says which calls they interfere with. `FixedUpdate` is one tick of
`InnerShipStatus`: `Detoriorate`, and `Serialize` if the system is dirty. `told` is what
the clients show. `Time` is the number of ticks that a sabotage lasts; it may be repeated without end.
Not modelled:
the other systems, each a state of its own with calls of the same shape.

### EventEmitter

`listeners` is the array for one event name, in which each listener is a closure of its
own; its `kind`, chosen when it is added, says how it was registered (`on`, `once`,
`waitf`) or that it uses the function `off` that it is given. `emissions` are the calls of
`emit`, `emitSerial` and `emitSync` under way, each with its index `next` into the array and
its stage: `CallNext` is a turn of the loop that calls, `Done` what a listener does after
its await, `Resume` the code behind the await, `RemoveNext` a turn of the loop that
removes those that asked for it. `heard` counts calls. The loops of `emit` and `emitSync`
are not interrupted by another emission (`Idle`), but the listeners that they call may
change the array (`MayChange`). Left out: listeners that throw, an emission that a listener
starts before its first await (later it is like any other), what `emit` returns.

## 3. Runs

| Run | Bounds | Shows |
|---|---|---|
| `InboundOrdered` | 1 invocation, 4 packets, ordering on | `DeliveredInOrder` and `AllDeliveredInOrder` (implements `OrderedDelivery`, safety and liveness), `AckedIsKept` |
| `InboundOverlap` | 2 invocations, 4 packets, ordering off, handlers throw, a stray first datagram | `HandledInOrder`: no nonce is ever handled twice |
| `OutboundLossy` | 44 ticks, 2 packets beside the pings, 3 losses per packet, window 2, death at any moment | `RespondingIsKept`, `ReliablyRecorded`, `DeadIsRemoved` |
| `RoomSequential` | 4 clients, 3 places, calls do not overlap | `NoGhost`, `HostIsPlayer`, `Capacity`, `WaitingIsMember`, `AskedIsAnswered`, `MembersAreKnown`, `DestroyedIsFinal` |
| `RoomOverlap` | 3 clients, 2 places, 2 calls overlap | `PlayersAreInRoom`, `DestroyedIsUnregistered` |
| `ActingHosts` | 2 clients, 2 calls overlap, 2 switches | `ClaimIsGranted`, `HostIsNotMisled` |
| `MeetingVotes` | 3 players, one under a reused id, 1 impostor, 1 dead or gone before, 1 leaves, 2 votes in their listeners | `VotesForPresent`, `NoResultIsMissed`, `ExiledWonTheVote`, `MeetingEnds` |
| `GameEnds` | 3 players, 1 impostor, 1 leaves, 1 task each, 2 murders, 2 intents, 2 updates and ends overlap, 1 cancel or revert | `StateIsHonest`, `OutnumberedEnds`, `NoEndIsLost` |
| `SabotagedShip` | 2 consoles, 2 ticks, any number of sabotages, 2 calls overlap | `ClientsAgree`, `RepairedByTwo`, `CriticalEnds` |
| `Emissions` | 3 listeners of any kinds, 2 emissions overlap | `OnceIsOnce`, `CalledOnce`, `OnStays`, `EverybodyHears` |
| `InboundNonceWraps` | 3 packets, nonces up to 2, fair | violates `SentIsHandled` |
| `RoomRejoin` | 2 clients, calls do not overlap | violates `EndedCanRejoin` |

The type invariant of each module is checked by one of its runs.

Why the bounds are enough to be interesting:

* 4 inbound packets: Hello, a gap, and two packets held behind it, so that the
  loop drains more than one. Two invocations are what an overlap needs.
* `OutboundLossy` has a window of 2 instead of 8, which makes it *harder* to keep
  a living client, and its 44 ticks reach the ages at which a packet may cost the
  connection, and the removal of a client that dies late. With 4 losses per packet
  `RespondingIsKept` fails, so 3 is tight, and one poll fewer in `PollsToRemove`
  breaks `DeadIsRemoved`.
* 4 clients with 3 places: the room fills up, refuses one, loses its host, plays a
  game, and clients come back before and after the host, in one behaviour.
* `RoomSequential`: its calls do not overlap, and its properties are promised only then;
  which of them fail otherwise, and why, is in section 5.
* `ActingHosts`: two clients are a host and another that takes its place, two calls a
  join, leave or loop that another interrupts at any of its awaits. 3 clients with one
  switch less or with calls one at a time (12 million and 190 thousand states), and 3
  calls with one switch (9 million), show nothing else.
* `MeetingVotes`: three players make ties, majorities and skips, one of them may be
  dead or leave, and two votes of one or of two players wait for listeners at once. The
  order 1, 2, 0 is that of a lobby that player 0 has left and another has joined.
* `GameEnds`: one death or one player that leaves makes the crew outnumbered, so that
  all checks race; two intents and two updates let an end overlap another.
* `SabotagedShip`: two consoles are what repairs, two calls what overlaps, and
  a sabotage hits a system that is sabotaged or just repaired, again and again.
* `Emissions`: with three listeners one can be passed over behind one that removes
  itself and in front of one that is not.
* In the `MC` modules symmetry is over invocations or clients, which no
  definition tells apart; it is used in no run with a liveness property.

Runs say `CHECK_DEADLOCK FALSE` where a bounded number of packets, ticks, clients or
players comes to an end; `SabotagedShip` and `Emissions` never stop.

### Fairness

In every module: a promise that is awaited settles, and the event loop takes the
continuation up (weak fairness of the continuations), because listeners are asked to
return and network calls time out. A timer or an interval fires although calls come in
again and again (strong fairness where such a call can disable the step for a moment).
No fairness is asked of what a player or a plugin may choose to do.

* `ReliableInbound`: `WF(Continue(t))`; `WF(Send)`, `WF(ResendPacket(i))`: the client
  goes on sending and resends what is not acknowledged. `SF(DeliverPacket(i))` and
  `FairLoss(i)`: a network on which a packet is sent again and again delivers it again
  and again, that is, it does not lose every copy.
* `MeetingVoting`: strong fairness of the time-out and of the sleeps, weak of the
  listeners of votes. Nobody has to vote: `MeetingEnds` rests on the time-out alone.
* `GameEnd`: weak fairness of murders, of an exile that is closing and of updates and
  ends under way; strong fairness of `FixedUpdate` and of the sleep of the meeting.
* `Sabotages`: strong fairness of `FixedUpdate` (it is blocked when `MaxCalls` calls are
  under way), weak of calls. `CriticalEnds` assumes in its statement that from some
  moment on nobody sabotages: nothing in the code keeps an impostor from it.
* `EventEmitter`: weak fairness of emissions under way. `EverybodyHears` assumes in its
  statement that the event is emitted again and again.

`RoomMembership`, `ActingHosts` and `ReliableOutbound` are checked for safety only; the
bounded removal of a dead client is stated with the clock (`DeadIsRemoved`).

## 4. Proofs

All theorems hold for every value of the constants that satisfies the module's
`ASSUME` (types of the constants, and what the containers of the code guarantee) and the
hypotheses named. Every safety property of the passing runs is a theorem. The invariants
of rooms, of the outbound layer and of the end of a game were checked by TLC before they
were proved, and where these name a hypothesis, TLC finds the property violated without
it.

* `ReliableInboundProofs`
  * `TypeCorrect`: the type invariant, inductive as it stands.
  * `NeverTwiceUnordered` (hypothesis: message ordering off): `[]HandledInOrder`.
    `HandledInOrder` is not inductive: it says nothing of the nonces to come.
    `UnorderedInv` adds that every handled nonce is behind `next`, that no
    invocation is in the loop over held packets, and that an unknown client has
    `next = 0` and nothing handled. Then `Accept`, which requires
    `Nonce(i) >= next` in the same step, can only append a larger nonce. The
    number of overlapping invocations does not matter, and handlers may throw.
  * `OneAtATimeIsOrdered` (hypotheses: message ordering on, one invocation, no
    handler throws, the nonces do not wrap): the layer implements
    `OrderedDelivery`. `OrderedInv` ties `next` and the length of `handled` to
    the stage of the only invocation: `next = Len(handled) + 1`, except while a
    held packet is being handled, when `next = Len(handled)`, and
    `handled[k] = k`. Each step is an abstract send, an abstract handle, or a
    stutter. No hypothesis is idle: with a
    second invocation, a throwing handler, a smaller `NonceLimit`, or without
    ordering, TLC finds `DeliveredInOrder` violated in `InboundOrdered`.
  * `AckedStaysKept` (`[]AckedIsKept`; the same hypotheses, but handlers may throw and a
    stray datagram may come first): `KeptInv` says of a nonce that is acknowledged, or
    whose acknowledgement is on its way, that it is handled, held, or at the stage of the
    only invocation between the acknowledgement and either. With nonces that start again
    (`NonceLimit = 2`) TLC finds it violated.
* `ReliableOutboundProofs`
  * `OutboundTypeCorrect`: needs `nonce <= sends + polled`, because every nonce
    is a packet of a room or a ping, and a ping needs a poll of its own.
  * `RecordedWhileNoncesFit` (hypothesis: `MaxNonce <= NonceLimit`):
    `[]ReliablyRecorded`, for any losses, resends and removals.
    The hypothesis is needed: with `NonceLimit = 5` TLC finds a packet that is
    neither recorded nor sent.
  * `RespondingStays` (`[]RespondingIsKept`; hypothesis:
    `MaxLost * PollEvery + ResendAfter <= DropAfter`, three lost copies with the intervals
    of the code): `RespondingInv` says of every unacknowledged packet of a living client
    that it is in flight or has lost a copy (`Awaited`), and that it is no older than
    the polls that its lost copies account for: so it cannot reach the age at which it
    would cost the connection. The hypothesis is what the intervals have to satisfy.
  * `DeadAreRemoved` (`[]DeadIsRemoved`; hypothesis: `MaxNonce <= NonceLimit`): after a
    death every poll sends a ping that stays unacknowledged. `DeadInv` counts them: `j`
    polls after the first of them at least `j + 1` packets are recorded (`Unanswered`), the
    oldest entry is the first (`InOrder`), and polls are in time. Without the hypothesis
    (`NonceLimit = 5`) pings are not recorded and the window never fills.
* `RoomMembershipProofs`
  * `RoomTypeCorrect`: any number of clients, places and overlapping calls.
  * `PlayersStayInRoom`: `[]PlayersAreInRoom`. In the middle of a join the
    property is false, so the invariant `PlayersAreAdmitted` says that a player
    that is not in the room is one whose join is between `Admit` and entering.
    It survives because leaving takes both away in one step.
  * `DestroyedLeavesWorker`: `[]DestroyedIsUnregistered`. `DestroyIsFinished`
    says that a destroyed room is unregistered or some call is about to do so,
    whether it came from the last leave, from the timer, or from both.
  * `OverflowIsBounded`, for any number of overlapping calls: at most
    `MaxPlayers + MaxPending - 1` connections. `PlacesAreShared` counts the connections
    together with the joins that were admitted and have not entered.
  * With `MaxPending = 1`, any number of clients and places: `RoomNeverOverflows`
    (`Capacity`), `NoGhostIsLeft` (`NoGhost`), `EveryJoinIsAnswered` (`AskedIsAnswered`),
    `RoomKeepsHost` (`HostIsPlayer`), `OnlyMembersWait` (`WaitingIsMember`),
    `MembersKnowEachOther` (`MembersAreKnown`) and `DestructionIsFinal`
    (`DestroyedIsFinal`). All but the first follow from one invariant,
    `SequentialIsInvariant`. None of the properties is inductive, because each speaks of a
    quiet room only: `SequentialInv` says what holds at every await of the one call in
    progress. Who is a member, by its stage (`IsThere`, `IsGone`, `EntersAsNew`); what a
    client's screen says of its membership (`IsAsking`, `MemberShows`); who has been told of
    whom, when the loop over the members is half done (`SeesAsMember`, `ViewsMembers`);
    that the chosen host is a member until it is told (`ElectedIsMember`, `HasHost`); and
    that an ended game starts with nobody (`EmptyAtTheEnd`). `OneCall` makes the stages
    exclude each other: that is what `MaxPending = 1` gives, and what overlapping calls
    take away (section 5).

* `ActingHostsProofs`
  * `HostsTypeCorrect`: any number of clients, calls and switches.
  * `ClaimsAreGranted` (`[]ClaimIsGranted`) and `HostIsNeverMisled`
    (`[]HostIsNotMisled`): both speak of moments when no call is under way, so the invariant
    `HostsInv` has two parts. `CallsOK`: what a packet under way carries suits its client
    (`Suits`, `Carries`), or the client is in `overtaken`. `MembersOK`: so does what a
    client believes, or some call is going to tell it (`Owes`). Any number of clients, of
    overlapping calls and of switches.
* `MeetingVotingProofs`
  * `MeetingTypeCorrect`; `VotesAreChecked` (`[]NoResultIsMissed`): a state in which
    everybody has voted and no result was announced has a vote that is still to be
    checked. `AwaitedInv` adds that who is dead or disconnected has no vote under way that
    would count (`DeadAreSilent`), so that a death never completes the vote unseen.
  * `VotesStayForPresent` (`[]VotesForPresent`), for any order of the players: until a
    result is announced nobody present votes for a player that has left. After it
    `_populateStates` copies votes from one player to another (section 5).
  * `WinnerIsExiled` (`[][..]` of `ExiledWonTheVote`), for any players, votes, and order of
    the vote states: `Leads` is the invariant of the loop in `Tally`, that the best so far
    has the most votes and is the only one with them, or two have them, or none has any.
    `Tally` is a recursive function, so its theorem needs that the function exists
    (`LoopRuns`) and an induction over the turns; both take the first turn at which they
    would fail (`LeastExists`), which needs no operator as a parameter. It uses that the
    ids of players are the keys of a Map, each there once.
  * `OneResultIsAnnounced`: without a time limit and with listeners that do not suspend
    a meeting announces one result: after it everybody has voted, and a client votes
    again only if its vote was cleared before.
* `GameEndProofs`
  * `GameTypeCorrect`; `OneEndingIsTold` and `StateStaysHonest`, from `EndInv`: as long
    as the objects of a game are there nothing was told; without suspension at most one
    update or end is under way, and none once the objects are gone.
  * `EndsAreKept` (`NoEndIsLost`, an action property), for any number of overlapping
    updates and ends: what is registered is handed over from `endGameIntents` to an update
    to an end without loss (`EndsUnderWay` does not shrink unless a listener cancels), as
    long as the game runs. The lemmas `Kept*` show it for each step.
  * `TasksAndTeamsStayTrue`: an end by tasks, or because the impostors have left, is still
    true when it is told (`StillWon`), whatever listeners revert. `IsWon` says that every such intent
    that waits, is being offered or was kept is in the set `Won` of the reasons that are
    true; no step takes one out of `Won`. The exile of the last impostor is the only
    reason that can be out of date (section 5).
* `SabotagesProofs`
  * `SabotageTypeCorrect`; `RepairsLast`.
  * `ClientsAgreeAlways`: what is told is the state as of the last time it was not dirty,
    for any number of consoles and overlapping calls.
  * `RepairedByTwoAlways`: `RepairIsComing` says that a sabotaged system at which two
    consoles are completed has a call under way that has added one and will count.
* `EventEmitterProofs`
  * `EmitterTypeCorrect`; `OnceIsCalledOnce`: a listener of `once` that has been called is
    no longer in the array. `NobodyIsCalledTwice`: the array is in the order of registration
    (`Increasing`), and whoever an emission has called was registered before all listeners
    from its index on (`IsBehind`): a removal moves the others to the front by one place,
    so none of those called gets behind the index.
  * `ListenersStay` (`OnStays`): without the function `off` no emission removes anything
    (`IsAsked`), and what removes itself was not added with `on`.

Only model-checked: the liveness properties `AllDeliveredInOrder`, `MeetingEnds`,
`OutnumberedEnds`, `CriticalEnds` and `EverybodyHears` (fairness and ENABLED are out of the
prover's reach), and the two properties of the runs that TLC must find violated.
`OneResult`, `OneEnding`, `RepairLasts` and the bound of `OverflowIsBounded` are only
proved.

## 5. What the checks found

Two are runs that TLC must find violated, and `findings` in `PROJECT.json`:

* `InboundNonceWraps`: `nextExpectedNonce` does not wrap with the client's nonces.
  After 65535 reliable packets every further one is acknowledged and dropped.
* `RoomRejoin`: after a game `connections` is cleared; when the only client that is
  back leaves again, the room is destroyed under those still on the end screen.

Further observations. Those with a configuration in brackets are reproduced by changing
its constants as said; the others were met while translating the code.

Reliable layer and rooms:

* With message ordering and two invocations, a held packet is executed twice, because
  its entry is deleted only after its handlers are awaited (`Worker.ts:1643`), and
  `AckedIsKept` fails: after the await the entry at the *current* expected nonce is
  deleted (`Worker.ts:1654`) [`InboundOrdered` with two invocations]. Without message
  ordering it fails with one: a packet that was overtaken is acknowledged and dropped.
* `SentIsHandled` fails when handlers throw (what is held behind is not drained),
  and when a datagram of unknown type comes first: it makes a connection that
  expects nonce 0 (`Worker.ts:1532`), and the Hello that follows is held for ever
  [`InboundNonceWraps` with `NonceLimit = 5` and the switch on].
* The server's own nonces do not wrap either: beyond 16 bits the write fails before the
  packet is recorded (`Worker.ts:1500`), so that a client that dies afterwards is not
  removed (`DeadIsRemoved` fails) [`OutboundLossy` with `NonceLimit = 5`].
* `Capacity`, `HostIsPlayer`, `WaitingIsMember`, `AskedIsAnswered`, `MembersAreKnown`,
  `NoGhost` and `DestroyedIsFinal` fail with `MaxPending = 2` [`RoomSequential`]: the free
  places, the host and the members are read before an await and used after it; a client
  that leaves while its join is suspended is put into `connections` afterwards
  (`BaseRoom.ts:1642`); a join that is suspended while the room is destroyed goes on.
* A room whose first join is suspended when `createTimeout` passes is destroyed
  with that player in it (`BaseRoom.ts:744`).
* The comment at `Connection.ts:331` says that `disconnect` does not remove the
  connection from the worker; line 380 does.
* Two rooms get one code if their creations overlap and both draw it (`Worker.ts:964`).

Hosts:

* A client whose join overlaps a change of host is not told of it: it hears who is the
  host at `BaseRoom.ts:1591` and is one of the connections, over which `setHost` and
  `enableSaaH` loop, only at line 1642. Two clients can then believe to be the host.
* The host that an update names is read before the listeners of its broadcast are awaited
  (`BaseRoom.ts:940`, `992`), so an older update can be sent after a newer one. The
  despawn of the player that a first acting host has spawned is sent to all clients in its
  name (`BaseRoom.ts:482`): all believe it to be the host until they are told otherwise.
* `enableSaaH` or `disableSaaH` during an election of the other can leave a room in
  Server-as-a-Host mode that has a client as its host.
* An acting host may go on believing that the server is the host: a join during the
  reset of the acting hosts empties `actingHostWaitingFor` too early; a client that
  leaves makes `RemovePlayer` name the server to a newly chosen acting host right after
  it was told its own id; a player can be in `actingHostWaitingFor` twice after a game
  and is removed once (`BaseRoom.ts:1691`). Who joined first and is ready last is
  ignored, so the list may never become empty.
* A join makes an acting host although acting hosts are disabled (the comment at
  `BaseRoom.ts:1394` says that none are assigned until they are enabled).
* `enableSaaH` in a room without players makes id 0 an acting host, so no player
  becomes one. `removeActingHost` in a room that is not in Server-as-a-Host mode tells
  the client that the server is the host.

Meetings and the end of a game:

* A player that left before a meeting has a vote state that `canVote`, so the meeting
  does not end before its time, and never if there is no time limit.
* The time-out is cleared 10 s after a result: until then it, or a vote that was on
  its way, announces a second one, which may exile another player.
* After a result `_populateStates` writes the votes by position in `GameData`, not by id
  (`MeetingHud.ts:485`): when an id was reused in the lobby, a player gets the vote of
  another, also of one who has left.
* The revert of a vote whose voter has left neither clears it nor checks for the result,
  so the others can wait for the time-out although all of them have voted.
* A player that is exiled and has left counts as a crewmate (`MeetingHud.ts:522`).
* A disconnect of the last living impostor registers nothing as long as a dead one is
  connected; a crewmate with unfinished tasks that leaves does not cause a check of the
  tasks. A reverted exile is not checked again.
* With two impostors the crewmates can be told that they have won although an impostor
  lives: one has been murdered by the other, who is then exiled; the check counts no living
  impostor while the listeners of the murder are still awaited, and a listener then reverts
  that death (`PlayerControl.ts:790`, `MeetingHud.ts:522`). So no property says that the
  end by an exile is still true when it is told.
* A listener that cancels `room.gameend` discards what it was called for: the intents of
  that update are not offered again.
* Overlapping calls of `FixedUpdate` can end a game twice, and an end that is cancelled
  resets the state that another has set: hence the `~suspends` in `StateIsHonest`.

Ship and events:

* A revert after the next tick is not told to the clients, for the oxygen, for MIRA HQ
  and for a sabotage of the reactor. The revert of a second sabotage ends the first.
* `Object.values` of a Map is empty, so `anySabotaged` is never true and the cooldown of
  a sabotage does not keep anybody from the next: each one starts the timer again, and an
  impostor that goes on sabotaging keeps a critical sabotage from ever ending.
* `emit` passes over the listener behind one that was added with `once`. The function
  `off` that a listener is given looks the listener up by its index when it is called, and
  then removes another one, or none (`EventEmitter.ts:44`).

## 6. Not modelled

* Bans, version and chat-mode checks of a join, rate limits: filters in front of what
  is modelled, with no state that another part reads.
* Spawning, despawning and data of net objects, movement, cosmetics, vents: each field
  is overwritten by its owner; what matters of their order is the reliable layer's.
  A second `StartGame` while the first is between its awaits spawns them twice.
* The remaining systems of a ship (doors, decontamination, lights, the helicopter,
  cameras, medical scan, moving platform): timers and sets of their own with calls of the
  shape of `Sabotages`.
* Assignment of roles and tasks, codes of rooms, the game list: random choices and a
  ranking.
* Codecs, translations, data tables, formatting, configuration: no state.
* Plugins, perspectives, game modes: what they do to the server, delaying,
  cancelling, reverting and switching, is in every module; what they do beyond it is
  theirs. Their loading is file and package I/O.
* Account server, load balancer, matchmaker: requests whose atomicity is that of a
  database.
* DTLS, the client library, web site, launcher, client mod: not part of the server; of the
  client there is as much in the modules as the server relies on.

What a next step could prove: how far `ActingHosts` and `Sabotages` promise more than their
properties say (which acting host is chosen, how long a repair lasts), and that
`RoomMembership` with calls that do not overlap implements an abstract room whose joins
and leaves are single steps; `SequentialIsInvariant` has what such a proof needs.
