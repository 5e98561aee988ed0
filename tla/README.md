# Hollow Hearts: a TLA+ model of the multiplayer system

Hollow Hearts is a networked game of Hearts with contracts and transmutations:
a client (`src/src/main.c` and `src/src/game`, drawn with Raylib), an
authoritative game server `hh-server` (`src/src/server`) and a lobby `hh-lobby`
(`src/src/lobby`, accounts in SQLite). This directory holds TLA+ modules of its
logic, TLC configurations that check them on small instances, and proofs that
TLAPS checks for instances of any size.

## 1. The system

| part | state it keeps | operations | talks to |
|---|---|---|---|
| room table (`server/room.c`) | `g_rooms[]`: status, code, four `PlayerSlot`s, `connected_count`, the game | create, join, leave, add/remove AI, start, tick, reconnect, destroy | called by the network loop and the lobby link |
| network loop (`server/server_net.c`) | `ConnSlotInfo` of each connection | one update = poll, accept, receive, tick, broadcast, cleanup, detect | clients through the socket table |
| socket table (`net/socket.c`) | `NetConn[]`: state, ring buffers, `user_data` | listen, accept, connect, poll, send, receive, close | the kernel |
| authoritative game (`server/server_game.c`) | phase and sub-state, timers, hands, trick, transmutations, contracts | apply a command, tick | ticked by its room |
| rules (`core/`) | `GameState`: hands, trick, scores, passing | deal, pass, play, complete trick, score | used by server and client |
| contracts, transmutations (`phase2/`) | draft pools, inventories, effects | draft, apply, evaluate | used by the game |
| lobby link (`server/lobby_link.c`) | one connection to the lobby, registration | register, heartbeat, result, room destroyed | lobby |
| lobby (`lobby/`) | sessions, rooms, matchmaking queue, server registry, friends | login, create/join room, queue, results | clients, game servers, SQLite |
| client connection (`net/client_net.c`, `net/reconnect.c`) | connection state, backoff, update queues | connect, handshake, reconnect with backoff | game server |
| messages (`net/protocol.c`) | none | write and read every message, build a player's view, convert commands | everything that is sent |
| state reception (`net/state_recv.c`) | the client's copy of the game | apply a view: turn the seats, keep the player's arrangement | client connection |
| client game flow (`main.c`, `game/`) | local phases, pass and trick animations, the queue of updates | take an update or defer it, throw, fly, pile up, ask the player | client connection, drawing |
| drawing, sound, settings, assets, vendored code | - | - | - |

`hh-server` is one thread: 60 times a second `server_net_update` runs its seven
stages and `lobby_link_update` follows. Nothing is locked and nothing is saved, so
the hard behaviour is in the *order* of things: what the network does between two
stages, which stage sees it first, and which of the tables - connections,
`ConnSlotInfo`s, rooms - already knows. A room may be destroyed by three different
stages (a handler, the tick, the cleanup) while connections still refer to it;
entries of both tables are reused at once; a player may return in the tick in
which the AI takes over; the lobby answers late or never.

What makes each component correct:

* rooms and network loop: a `ConnSlotInfo` never dangles; the player count is
  exact; a dropped player is detected, keeps the seat for the grace period, and
  only that player gets it back; a finished room delivers the result, then closes;
  codes are unique.
* authoritative game: cards are conserved, everyone plays in turn, each sub-state is
  left by a player's action or a timeout, a trick is seen complete by the clients
  before it is taken, scores add up to 26 points or a moon.
* transmutations and contracts: what is attached to a card follows the card, no
  transmutation is lost, the contracts know every trick, forced leads are obeyed.
* lobby: whoever asked for a room or a match is answered and is in the tables until
  then; a code is waited for by one request; a match has four players who are there;
  a game server that is up is registered; the code of a room in play is known.
* client connection: a reconnection ends, whatever is lost, and the token it keeps
  opens the player's seat.
* state reception: updates are applied in order; the player sees the game from the own
  seat, nothing of what the others hide, and the hand as arranged.
* client game flow: every card is shown once and in order although updates arrive in
  bursts, and the client comes to ask the player whenever the server waits for it.
* messages and framing: what is read is what was written; messages arrive whole, once
  and in order.

## 2. Modules

| module | models | kind |
|---|---|---|
| `Room` | `server/room.c`: every operation as an operator from a room to a room | pure |
| `ServerNet` | `server/server_net.c` over `Room` and the socket table | state machine |
| `SeatLifecycle` | what the server promises of one room and its seats | abstract specification |
| `MCServerNet` | instances for TLC | model |
| `ServerNetProofs` | lemmas on the operations of `Room`, the inductive invariant of `ServerNet` | proofs |
| `ServerNetStepProofs` | what its steps do to a room and to a connection: the refinement of `SeatLifecycle` and the action properties | proofs |
| `GameState` | `core/game_state.c`, `trick.c`, `hand.c`, `card.c`: the rules as operators from a game to a game | pure |
| `ServerGame` | `server/server_game.c` in the vanilla mode over `GameState`, and the change detection of `sv_broadcast_state` | state machine |
| `HeartsTable` | the game of Hearts, without server, seats or time | abstract specification |
| `MCServerGame`, `MCTurnClock` | instances for TLC; the second counts how long a turn has lasted | model |
| `ServerGameProofs` | lemmas on the rules and on sums of points, the inductive invariants of `ServerGame`, what the clients have been told, the refinement of `HeartsTable` | proofs |
| `LobbyTables` | `lobby/matchmaking.c`, `rooms.c`, `server_registry.c`: the lobby's tables and every operation on them | pure |
| `Lobby` | `lobby/lobby_net.c` over `LobbyTables`, with `net/lobby_client.c`, the online menu of `main.c` and `server/lobby_link.c` at the other ends | state machine |
| `MCLobby` | instances for TLC | model |
| `LobbyProofs` | lemmas on the tables, theorems about `Lobby` | proofs |
| `Transmutations` | `phase2/transmutation_logic.c` over `GameState`: slots, effects, forced leads | pure |
| `Contracts` | `phase2/contract_logic.c`: the draft, and the contracts with all their conditions | pure |
| `Competitive` | `server/ai_competitive.c`: what the AI knows, its evaluations and choices | pure |
| `TransmutedGame` | `server/server_game.c` in the transmutations mode over these three | state machine |
| `MCTransmuted` | the definitions of `assets/defs`, and instances for TLC | model |
| `TransmutedProofs` | the inductive invariant of `TransmutedGame`: draft, contracts, points | proofs |
| `Packing` | how a message is put into bytes and taken out: writers and readers as sequences of steps | pure |
| `ViewPacking`, `Protocol` | every writer, reader, length check and dispatch of `net/protocol.c` | pure |
| `Codec` | what the writer makes of a message and the reader of that, and when the two agree | pure |
| `WireMessages` | every type of message, with the counts at which the code decides | instance data |
| `Exchange` | a message sent at one end and received at the other, then the next | state machine |
| `MCExchange` | its instance for TLC | model |
| `Link` | `net/socket.c`: ring buffers, partial sends and reads, framing, closing | state machine |
| `Channel` | what the socket promises: a queue of messages | abstract specification |
| `MCLink` | an instance for TLC, with `Codec` for what the two ends make of the bytes | model |
| `LinkProofs` | the refinement of `Channel` | proofs |
| `PlayerView` | `net_build_player_view` and `net/state_recv.c` | pure |
| `ClientNet` | `net/client_net.c`, `net/reconnect.c` and the parts of `main.c` that drive them, over `PlayerView` | state machine |
| `MCClientNet` | a game to look at, instances for TLC | model |
| `ClientNetProofs` | the inductive invariants of `ClientNet`, what a view shows and what becomes of it on the screen | proofs |
| `TurnFlow` | `main.c`'s taking of updates, `game/pass_phase.c`, `game/turn_flow.c`, `game/phase_transitions.c` | state machine |
| `MCTurnFlow` | instances for TLC | model |
| `TurnFlowProofs` | the inductive invariant of `TurnFlow` | proofs |

Who uses whom: `ServerNet` over `Room`; `ServerGame` over `GameState`;
`TransmutedGame` over `Competitive`, `Contracts`, `Transmutations` and `GameState`;
`Lobby` over `LobbyTables`; `Exchange` over `Codec`, `Protocol`, `ViewPacking` and `Packing`;
`ClientNet` over `PlayerView`. Three refinements tie a detailed module to an abstract
one: `ServerNet` to `SeatLifecycle`, `ServerGame` to `HeartsTable`, `Link` to
`Channel`. Where a module needs a neighbour it has a reduced one as its environment:
`ClientNet` has rooms and seats as `Room` has them, `TurnFlow` the phases and tricks of
the server in the order `ServerGame` and `TransmutedGame` go through them.

### Room

A room is a record with the fields of `Room` and `PlayerSlot` that decide anything.
`changed` stands for the change detection of `sv_broadcast_state` (`force_broadcast`,
`state_dirty`, the comparison with `last_broadcast`). A duration is a number of
ticks: `GraceTicks` is `DISCONNECT_GRACE_SEC / FIXED_DT`. Tokens are the clients
themselves (what the lobby gave them) and the numbers the server draws.

Operators with a comment that begins with "Slip" are small programming errors put
beside the operation they could have happened in. No specification uses them: they
show which property notices.

### ServerNet

`stage` is the stage of `server_net_update` that is about to run; the actions are

| stage | code | actions |
|---|---|---|
| poll | `net_socket_update` | `Poll`: flushes, sees closed peers, ends CLOSING connections |
| accept | the `net_socket_accept` loop | `Accept`, `AcceptRefused`, `AcceptDone` |
| recv | `sv_handle_message`, connections in index order | `HandshakeReject/Create/Join/Reconnect/NoMemory`, `AddAI`, `RemoveAI`, `StartGame`, `Ignored`, `Disconnect`, `RecvDone` |
| tick | `room_tick_all` | `Tick` |
| broadcast | `sv_broadcast_state` | `Broadcast` |
| cleanup | `sv_cleanup_finished_rooms` | `Cleanup` |
| detect | the scan for dropped connections | `DetectDrop`, `DetectDone` |

Each handler is one action with everything it does, `room_leave`, the news for the
room and `net_socket_close` included. The environment is `ClientConnect`,
`ClientSend`, `ClientQuit`, `ClientDrop` (a crash or a lost network) and the two
messages of the lobby, `LobbyCreateRoom` and `LobbyEloResult`. A client sends what
`client_net.c` can send: an empty or a known code with its lobby token, or the code
and token of its last `HANDSHAKE_ACK`. A peer's close may be seen in any later poll,
so both orders - the new connection accepted before or after the old one is seen
closed - happen.

`user_data` is kept through `conn_close_fd` and cleared by `conn_reset`, as in
`socket.c`; this is what stage 7 relies on. `peer`, `gone` and `ticket` describe the
clients' side; `told` records which `GAME_OVER`s were queued on a connection.

Left out: the game in a room is a black box that may progress and may end in any
tick; send buffers are empty or not and never full; chat, PING and INPUT_CMD; names
and room options; what is behind the lobby's messages.

### SeatLifecycle

The promise to players, one room at a time: a waiting room is filled and left seat by
seat and ends with its last player; a game starts full; a seat in a game becomes
DISCONNECTED, never EMPTY; the AI takes seats of absent players only; a game is
destroyed only when none of its seats is CONNECTED. `RoomsLiveTheirLife` is the
refinement: every step of `ServerNet` is, for every room, a step of
`SeatLifecycle` or a stutter, with `phase` the room's status and `seat` the status
of its slots.

### GameState

A card is `<<suit, rank>>` with the numbers of `card.h`. Hands are sets: without
transmutations `hand_sort` follows every deal and pass and no card is there twice, so
"the first card" of a loop over a hand is the card with the lowest index. The
shuffle is the choice of a dealing. Each function of the code that changes the game
is an operator with its name; `trick_is_valid_play`, `CanSelectPass` and
`game_state_is_valid_play` are the early returns. Points, moon and the next leader
are all decided in `game_state_complete_trick`, as they are there.

### ServerGame

One playing room. `stage` divides a turn of the server's loop:

| stage | code | actions |
|---|---|---|
| net | stage 3 and 7 of `server_net_update`: `server_game_apply_cmd`, `room_leave`, `room_reconnect` | `SelectCard`, `ConfirmPass`, `ConfirmScores`, `PlayCard`, `Leave`, `Return`, `NetDone` |
| grace | `room_update_timers` | `Grace` |
| tick | `server_game_tick`: the phase and the sub-state choose one action | `DealNoPass`, `DealPass`, `TickSelect`, `TickExecute`, `TickTransmute`, `TickHuman`, `TickAI`, `TickBroadcast`, `TickTrickDone`, `TickEvaluate`, `TickScoresWait`, `TickAdvance` |
| send | `sv_broadcast_state` | `Send` |

Any number of commands arrive in "net", so a tick finds every combination of them. A
command the code rejects changes nothing and is not a step. `gs` is the `GameState`
inside `ServerGame`, `sg` the rest of it. `is_human` and `slots` are two pieces of
state, as in the code, and differ while a player is away and the grace period lasts:
the clock of such a player runs. The grace period itself is counted by `ServerNet`;
here it may end in any tick. `last_broadcast`, `state_dirty` and
`force_broadcast` are the change detector; `seen[p]` is the last state update client
`p` got (`View`, from `net_build_player_view`), and `NotSeen` after a drop.

The basic AI is modelled exactly (`AiPasses`, `AutoCards`: which card it prefers).
The competitive AI is a heuristic of 2000 lines: any legal card, any cards to pass
of the hand it looks at, which is that of `comp_seat`, the seat it was set up for.

Left out here: dealer, draft, transmutations, rogue and duel (vanilla has none of
them; they are in `TransmutedGame`), and the statistics.

### HeartsTable

What the players were promised: who holds the two of clubs leads it, the table goes
round, whoever can follow suit does, points on the first trick and hearts led only
when there is nothing else, the highest card of the suit takes the trick and its
points, the last trick scores and a moon turns the points around. `RulesKept` says
that every step of `ServerGame` is a step of it or a stutter.

### LobbyTables and Lobby

`lobby` is one record with the tables: the queue by slot with `enqueue_order`, the
pending matches, the pending private rooms, the rows of `rooms` in the database and
the registry. The operations of the three files are operators from tables to tables.
The slots of the two pending arrays and of the registry are sets: where the code
takes the first slot that fits, the model takes any. Sqlite does not fail.

`Lobby` is the three kinds of program together. `stage` is the stage of
`lobby_net_update`:

| stage | code | actions |
|---|---|---|
| poll | `net_socket_update` | `Poll` |
| accept | the `net_socket_accept` loop | `Accept`, `AcceptDone` |
| recv | `lby_handle_message` | `Hello`, `OldHello`, `Login`, `LoginResponse`, `CreateRoom`, `CreateRefused`, `JoinRoom`, `Queue`, `QueueMatch`, `QueueCancel`, `ServerRegister`, `ServerHeartbeat`, `ServerRoomCreated`, `ServerRoomRefused`, `ServerResult`, `ServerRoomDestroyed`, `Farewell`, `RecvDone` |
| detect | the scan for dropped connections | `DetectDrop`, `DetectDone` |
| maintain | the expiries, every 30 s | `ExpireMatch`, `ExpirePending`, `ExpireServer`, `CleanupCode`, `MaintainDone` |

Before a poll the other programs act. A client (`ClientConnect`, `ClientHello`,
`ClientAsks`, `ClientBack`, `ClientRead`, `ClientLost`, `ClientEnds`) has two pieces of
state, as in the code: `g_state` of `lobby_client.c` and the subphase of the online
menu, and the second decides what becomes of an answer. A game server
(`ServerConnect`, `ServerRegisters`, `ServerBeats`, `ServerCreateRoom`, `ServerSkips`,
`RoomStarts`, `RoomFinishes`, `RoomEmpties`, `RoomCloses`, `ServerEnds`) has the rooms
it hosts: what it tells the lobby of them, and when it tells nothing, is what
`server_net.c` and `room.c` do (a room is announced as destroyed only when its last
player leaves before the start).

`mail[p]` is what the lobby has sent to a program and it has not read, `inbox[i]`
the other direction. A drop is seen at any later poll, so a program may be back on
another entry before its old one is cleaned up.

Abstractions: a session token is the account; a client logs in to its own account,
and where `Outsiders` is TRUE perhaps with another version or a key that does not fit
the name it stored; a connection the lobby closes is closed at once; a time limit may
have passed whenever it is looked at; heartbeats that repeat the number of rooms are
left out. Left out too: registration and the change of a name, PING, LOGOUT (no
client sends it), queue positions, statistics, friends, and the transaction that
records a result and computes the ratings (an `ELO_RESULT` comes or does not).

### Transmutations, Contracts and Competitive

A transmutation turns a card of a hand into another, so a hand may have a card twice:
hands are sequences here. What is known of a transmuted card is in `slots[p]`, at the
same place as the card; every operation of the code on the two arrays is an operator on
both or, where the code has separate calls, on one, as in the code. `tti` is the
`TrickTransmuteInfo` of the trick. An effect that draws lots (the roulette) makes the
winner a member of a set. Two slips are worth knowing: a fog keeps the card it is laid on
(`slot.original`), and a card may have a fog and another transmutation.

`Contracts` has the draft (`available`, `picked`, `has_picked`: the hands go round the
table when all have picked) and, per contract of a player, the counts that
`contract_on_trick_complete` keeps, with all 21 conditions of `contract_evaluate`.

`Competitive` has what the AI has seen (`voids`, where the queen is, who has taken hearts,
who may be shooting the moon) and every choice made of it, weights included, multiplied
out to integers.

### TransmutedGame

| code | actions |
|---|---|
| deal, dealer, draft | `TickDeal`, `DealerCommand`, `TickDealer`, `SelectContract`, `TickDraft` |
| pass | `SelectCard`, `ConfirmPass`, `SelectTransmutation`, `ApplyTransmutation`, `TickSelect`, `TickExecute`, `TickTransmute` |
| play | `PlayCard`, `TickHuman`, `TickAI`, `TickTrickDone`, `RogueReveal` |
| scores | `TickEvaluate`, `ConfirmScores`, `TickAdvance` |
| seats | `TakeOver` (the end of a grace period), `Return` |

The clocks are `ServerGame`'s; here a timeout may happen at any tick, so every race of a
command with a timeout is in the model. `Starts` are the games to look at: hands, the
round, points and inventories at the deal of a round.

### Packing, ViewPacking, Protocol, Codec, Exchange

A writer is a sequence of steps: `Need(n)` is a length check, `Refuse(c)` an early return,
`F(f, w)` the field `f` in `w` bytes. `Run` executes a writer over a buffer of a length
and leaves cells behind; a reader goes over the cells, and what does not start or end
where a cell does becomes garbage, as do all fields after it. So a width, an order, a
count or a limit that differs between the two hands of `protocol.c` shows, and the values
themselves are not needed. A field that is touched before a length check has covered its
bytes is kept in `unsure`. Commands are converted to their wire form and back
(`net_input_cmd_from_local`, `net_input_cmd_to_local`) with the numbers they carry.
`Codec!ReadAsWritten` judges a message from the sender's call to the receiver's; what
`deser_player_view` does otherwise than the rest is named there and nowhere excused:
`Refused`, the whole views it discards, and `Uncounted`, the fields its checks leave out.

### Link and Channel

One direction of a connection: the sender's ring, the operating system's stream of
`StreamRoom` bytes that may take and give any part, the receiver's ring, `Close` with its
draining `CLOSING` state, and errors on either side. A ring is the array of the code with
its `head` and `tail`, copied in two pieces where it wraps, and keeps old bytes that are
not overwritten. Byte `i` of the frame of the `n`-th accepted message is `<<n, i>>`, so that
a byte from the wrong place or a stale one is seen. `Channel` is a queue; `IsAChannel` maps what is accepted and not taken to it.

### PlayerView and ClientNet

`BuildPlayerView` and `StateRecvApply` are the two functions that turn the server's game
into what a player sees; seats are turned so that the player is 0. The public arrays with
an entry per seat (points, scores, shields, curses...) are treated alike and are one array,
`table`.

`ClientNet` is one client: `g_state`, the connection, the handshake, the two queues, the
backoff of `reconnect.c`, the saved way back of `settings.c`. Its frame is
`ClientNetUpdate` (loss, handshake, update, retry), then the menu, the player
(`MoveCard`, transmuting optimistically, leaving, cancelling), `ShowPassConfirmed` and
`ShowView`. The environment is the network (connections open or fail, break while
messages are under way) and a server with rooms, seats and a game that goes through the
states of `Story`.

### TurnFlow

`cl` is what the client shows. A `Frame` is one turn of the main loop: confirmations of
the pass, at most one update (or none: `Deferred` is the `would_defer` of `main.c`), then the scores,
`phase_transition_update`, `pass_phase_update` and `flow_update`, in the order of the code.
`elapsed` says whether the timer or animation that runs has ended, `alt` makes the choices
that are not modelled further. The server's updates enter a queue of
`STATE_QUEUE_CAP` places whose oldest is dropped when it is full. `shown` is the card of the
trick and round that was last seen flying. Clicks are `ConfirmPass`, `PickOpponent`,
`PickSuit` and `ToggleSettings`.

## 3. Runs

| run | instance | shows |
|---|---|---|
| `seats` | 2 clients, 2 connections, 1 room of 2 seats, 2 sessions, grace and rating wait of 2 ticks | `InfoNamesItsSeat`, `CountIsExact`, `SeatsFitThePhase`, `GraceIsHonoured`, `SeatReturnsToItsOwner`, `ResultBeforeClose`, the refinement of `SeatLifecycle` (4.2 million states) |
| `live` | 1 client, 1 connection, 2 rooms and codes, two frames in flight | `CodesAreUnique`; `FinishedRoomsClose` and `DroppedSeatsResolve` under fairness (0.3 million) |
| `two` | two players whose commands, drops and returns interleave, competitive AI, the queen of spades, one round; turns are timed by `MCTurnClock` | `EveryCardOnce`, `ConfirmedPassIsKept`, `TricksAreSeenWhole`, `ClientsUpToDate`, `NobodyIsCutShort`, the refinement of `HeartsTable` (2.9 million) |
| `ends` | one player, three basic AIs, one dealing, a limit of 10 points: a game of several rounds with each pass direction | `PointsAddUp`; `GameEnds` under fairness (0.2 million) |
| `phase2` | the transmutations mode: seven tables, three cards each, that bring effects together, one human seat, either AI, a draft of 8 pairs | `PairsStayWhole`, `SlotsMatchHands`, `TransmutationsAreKept`, `ContractsSeeEveryTrick`, `LeadsAreObeyed`, `PointsAreAccounted` (0.3 million) |
| `lobby` | 2 clients, matches of 2, 3 connections, 2 codes, 2 requests; one client goes away, a code is deleted | `WaitersAreTracked`, `QueueNeverFills`, `CodesNameOneRequest` (3.3 million) |
| `lobby_live` | 1 client, also of another version or with another key, a server that need not answer, whose link breaks and whose rooms end | `LinkIsRegistered`; `RequestsAreAnswered` under fairness (1.2 million) |
| `link` | rings of 4 bytes, frames of 1 to 3, a stream of 3, 4 messages, one malformed; and every type of message with its smallest and largest counts, views with every count a check decides on, commands with boundary numbers | the refinement of `Channel` (`IsAChannel`), `WellFormedTrafficArrives` under fairness (29 thousand); `FieldsArrive`: each frame of the link stands for all messages that its receiver reads, or for all that it refuses, and they are read as they were written |
| `client` | one client, 2 rooms, 2 seats, 3 states of a game, 1 break, 2 starts, 2 attempts | `ViewsAreInOrder`, `SeenFromTheSeat`, `OthersStayHidden`, `TokenOpensTheSeat`, `ArrangementIsKept`, `ReconnectionEnds` (0.7 million) |
| `flow` | a player at the second seat, a round of two tricks with one rogue, an update that is repeated, a queue of 3 | `CardsShownInOrder`; `TurnIsOffered` under fairness (0.6 million) |
| `toss` | as `flow`, one trick, a player who is not at the server's first seat | `PassStaysOpen` is violated |
| `short_views` | the same messages, sent and received one after the other | `WholeViewsAreRead` is violated |

### Bounds

The room layer: `InboxCap` frames of a connection that are read and not handled yet,
`MaxSessions` session tokens drawn. Two seats are enough for a creator and another
player; two connections for one that is reused while the other plays; two sessions
for two seated players, or for one that leaves and comes back. A return to a running
game draws no token and is not bounded. The system may stop (the bound is reached and
every client is silent, and the server only turns its stages), so deadlock is
not checked.

The vanilla game: the deck and `TricksPerRound` (2 instead of 13), one card
passed instead of 3, few dealings, timeouts of one or two ticks. Two cards each
are enough for a first trick, where points may not be discarded, and a last one,
which scores. The decks have suits somebody is void of, hearts and, in `two`, the
queen. A timeout of one tick already differs from the command before it and after it.
Scores are bounded by the end of the game: `ScoreLimit` plus one round. A game that is
over stops (`Ended`), so that deadlock is checked in these runs and in `phase2`.

The transmutations mode: three cards each, one card passed, hands of two pairs in the
draft, inventories given at the start of a round. Each of the seven `Starts` brings
together effects that touch the same field or the same card: curse, crown, bounty and
anchor; fog, a card that always wins, joker, pendulum and shield; parasite with trap and
inversion and two transmutations to one card; mirror, binding, roulette and gatherer; a
rogue with a mirror of it; a plain first round; and a round after which nobody has points,
so that there is no dealer (`sv_determine_dealer` looks for more than -1 point).
`Careless = FALSE` says of the players that they do not transmute a card they have selected to pass, and do not leave a
competitive table while cards are selected; both lose something in the code (see below),
and with them excluded the rest can be checked.

The lobby: `InboxCap` frames of a connection not handled yet, and one bound
for each kind of event that could go on for ever (`MaxRequests`, `MaxClientDrops`,
`MaxServerDrops`, `MaxExpiries`, `MaxRoomEvents`, `MaxCleanups`; `Spend` is their
guard). A match of two has a first and a last player, as one of four has; three
connections let a program come back on another entry than the one it left; two
requests are enough to cancel one and ask again while its answer is under way.
`WaitersAreTracked` is checked without killed servers and without rooms that end: a
killed server's waiters are forgotten, and a code that is drawn again lets a
`ROOM_DESTROYED` of the old room remove the request for the new one (see below). The
stages of the lobby go on for ever, so no state is a deadlock.

The messages of `link` and `short_views`: counts at their limits and at those the code
compares with. The views of the classic mode are all there, from an empty hand to one of 13
cards, those of the transmutations mode with hands of 0, 3, 4, 5 and 13. `FieldsArrive`
expects of the reader that it discards the classic views with three cards or fewer and
nothing else, and of its length checks that they leave out the fields of `Uncounted` and no
other.

`link`: a ring one byte longer than the longest frame, so that every frame wraps at every
offset; four messages let each of the four offsets come up with a full and an empty ring.
It stops after `MaxSent` messages. The real header has 4 bytes and a ring 16384; what can
differ is where a frame is cut, and it is cut everywhere.

`client`: a break in any state, one more attempt than the first, a queue of two views so
that it overflows, two rooms so that a client has an old token. The player may leave every
screen and come back. It stops when starts and breaks are used up.

`flow`: one round from the menu to the end of the game, so that dealing, passing, two tricks
and the scores follow each other while up to three updates wait; the queue overflows when
the client falls behind. With `MaxRounds = 2` and `MaxRepeats = 0` (2.7 million states)
both properties hold too; the run is kept smaller. Two of the four seats lead and win, and two pass: the
player's own and another, on either side of the rotation. `Reconnecting = FALSE`: the
client has been there from the deal.

### Fairness

* `live`: weak fairness of `Server`, the disjunction of the server's own steps, and
  nothing of clients, network or lobby: the main loop (`server_main.c:117`) runs updates
  for as long as the process lives. In `recv` the loop ends because clients add frames in
  `poll` only, which is when the code reads them.
* `ends`: weak fairness of `Loop`, that the server's loop goes on, and nothing of players.
  That all commands of a stage are followed by `NetDone` follows from it: a `SelectCard`
  may be repeated for ever, but `Loop` stays enabled, as the code handles the frames
  read by one poll and no others.
* `lobby_live`: weak fairness of `Update` (the loop of `lobby_main.c`), strong fairness of
  each client's own frame (`ClientFrame`: it reads what it was sent; strong because a
  client's frame waits here for the stage between two updates), and strong fairness of
  the time limit of a pending room, which `lobby_net_update` looks at every 30 s. Nothing
  is asked of game servers or of the network.
* `link`: weak fairness of the two ends' updates and of taking messages out, which both
  programs do in every frame. `SenderUpdate` and `RecvUpdate` move at least one byte if
  there is one and room for it, as `send` and `recv` on a writable or readable socket do.
  Errors may happen at any time and end the promise.
* `client`: weak fairness of `ClientNetUpdate` (called every frame, and a timer that runs
  ends), and of the network's and server's part that TCP and the server's own loop
  justify: an attempt to connect succeeds or fails, a handshake that arrived is answered,
  a connection the server is closing gets closed. Nothing is asked of the player.
* `flow`: weak fairness of `Frame` with its timer elapsed: frames go on and animations have
  a length. Nothing is asked of the server or the player.

### Findings with a run

* `toss`: `pass_phase.c:609` keeps the card selection open "so the human can still select
  and confirm" when others throw first, and asks for seat 0, the player's own. But the
  confirmations carry the server's numbers (`main.c:919` does not turn them). A player at
  seat 1 to 3 sees the own selection end when the player at the server's seat 0 confirms:
  the cards are thrown as if they were the player's own, and the pass can no longer be
  chosen; the timeout does it.
* `short_views`: `deser_player_view` asks for 80 bytes before it reads anything, for the
  "base fields before phase2 need ~80 bytes" (`protocol.c:1999`). They take 72 and two for
  each card: a view of the classic mode with three cards or fewer is discarded whole, and
  the client sees nothing of the round from its tenth card on, the scores included, until
  the next deal if there is one. The properties about updates (`TricksAreSeenWhole`, `ClientsUpToDate`) are
  of what the server sends.

### Disagreements met while modelling that have no run of their own

The models behave as the code does and no property claims the contrary; where a run's
instance leaves the case out, it is named above. Server:

* Stages 1 and 2 of an update may free and reuse the entry of a dropped connection before
  stage 7 looks for it (`server_net.c:192`). `conn_reset` has cleared `user_data`, nobody
  calls `room_leave`, the seat stays CONNECTED and its grace period never starts, though
  `docs/NETWORKING.md:139` says that a drop is detected. The lobby's stages have the same
  gap (`lobby_net.c:215`): a place in the queue then names whoever took the entry, the
  check "verify all 4 matched players are still connected" (`lobby_net.c:1056`) looks at
  the entry only, and a match may have one player twice.
* `turn_timer_seq` is to be "reset whenever the active turn changes"
  (`server_game.h:109-114`), which the code finds out by comparing a number made of the
  tricks played, the cards in the trick and whose turn it is (`server_game.c:1284-1290`).
  The number repeats in the next round. When every turn of a round is played by a command
  in the tick that offers it or between two ticks, the clock has not moved on, and a turn
  of the next round may inherit what was left of it: with four human seats and two rounds
  of one trick `NobodyIsCutShort` does not hold. It does in the instance `two`, where a
  tick of every round sees a turn begin because a seat is the AI's.
* A seat the competitive AI takes over while cards are selected was never set up
  (`comp_ai_init_hand` runs at the deal) and chooses cards of seat 0. They are refused
  in every tick and the pass never ends (`server_game.c:1057`), though `docs/SETUP.md:186`
  says the AI takes over.
* `ROGUE_WAIT` has no timeout, and the seat of a player who has left is not served either
  (`server_game.c:1373`); the comment at `server_game.c:1293` says that clients that drop
  or freeze cannot stall the table.
* A connection's flags are cleared before its update is sent (`server_net.c:694`): what a
  full send buffer refuses is not sent again until something else changes.
* A client that returns to a waiting room presents its session token, and `room_join`
  stores it as the seat's `lobby_token` (`room.c:217`): the result goes to the lobby
  under a token it never issued. (The client does so in `main.c`'s reconnection;
  `docs/NETWORKING.md:242` has the lobby's token there.)
* The moon shot statistic compares `round_points` with 26 after the redistribution
  (`server_game.c:1966`): the three others are counted, the shooter is not.
* Room created by the lobby that nobody joins are never destroyed; the first seat's
  leaving a waiting room leaves nobody who may start it.

Second phase (`phase2`'s instance leaves out the two that `Careless` names):

* A card that was selected to be passed and is transmuted then keeps the hint of before,
  and its transmutation is lost when the cards move (comment at `server_game.c:1174`).
  Selecting again with another hint counts one card twice.
* Two equal transmuted cards of one definition make the AI's choice of a pass fail in
  every tick; `comp_ai_select_pass` counts an unsigned rank down past zero.
* `sv_ai_play_card` checks a joker with one hint and plays it with another: the fallback
  plays the first card of the hand and does not shift its slots
  (`server_game.c:1346-1358`); a human's timeout tries for ever. The same happens to an AI
  with the ace of hearts twice, its own and one made by the definition that always wins,
  when it is to lead and hearts are not broken: the transmuted one may be led and is asked
  for without a hint, the natural one is meant and refused, and its slot stays behind. With
  such a deal `SlotsMatchHands`, `TransmutationsAreKept` and the last conjunct of
  `LeadsAreObeyed` do not hold; the deals of the run have none.
* The AI is told of the pass after the selections were cleared (`server_game.c:1157`), and
  of a trick with the wrong condition (`server_game.c:1770`): it notices neither, though
  `docs/COMPETITIVE_AI.md:52` says it does.
* `low_heart_max_rank = 6` is the eight (ranks count from the two); the comment of
  PREVENT_MOON (`contract_logic.c:379-383`) says another condition than the code; the
  draft may be cut short by what is left of `pass_phase_timer`; a curse that forces a heart
  as lead leaves hearts broken.

Lobby:

* A game server whose connection closes is removed silently: the clients that wait for
  a room of it, which have no time limit, wait for ever (`lobby_net.c:471`);
  `docs/NETWORKING.md:331` says that they "get immediate error (not 15s timeout)".
* A player who cancels a room and queues at once is led into the cancelled room by its
  late `ROOM_ASSIGNED` (`main.c:278`), and stays in the lobby's queue.
* The code of a room in play is deleted ten minutes after it was drawn
  (`rooms.c:127`): nothing sets the status 'playing' or extends the time. When it is drawn
  again, a `ROOM_DESTROYED` of the old room removes the request for the new one.
* A client that leaves is removed from one pending match (`matchmaking.c:205`), and
  may be in two. A result is dropped when the link is down (`lobby_link.c:282`).
  `svreg_expire_dead` closes whatever connection has the entry now (`server_registry.c:190`).

Messages and client:

* Two length checks of a view count fewer bytes than are read after them: 18 of the 22 up to
  `turn_time_limit` (`protocol.c:2042`), and 30 of a tail of the second phase that is longer
  (`protocol.c:2112`). `FieldsArrive` names the fields (`Uncounted`). What the server writes
  is always whole, so no message of the program is read wrongly; the size comment of
  `protocol.h:45-54` is short by 80, the buffers are large enough.
* Any failed connection deletes the saved way back (`main.c:331-336`), so that a player
  whose server was unreachable once cannot return; `docs/SETUP.md:184-188`.
* A connection lost while the handshake of a reconnection is under way ends in ERROR with
  attempts left (`client_net.c:463`); `docs/NETWORKING.md:142`. Cancelling between two
  attempts leaves `g_state` at RECONNECTING (`client_net.c:354`).
* Updates still queued are flushed when the server closes a finished room.
* A player who comes back into a round that is being played gets the deal's animation and
  the phase PASSING, and can play only after the next update (`main.c:1125-1129` says it
  avoids this). `TurnIsOffered` does not hold with `Reconnecting = TRUE`.
* With two rogues in one round the second may show what the first revealed
  (`turn_flow.c:287-290`), for the server does not reset its count within a round.

## 4. Proofs

Each theorem holds for every value of the constants that the named assumptions of its
module allow; a run of section 3 shows the same property on a small instance, and the
invariants below were checked there before they were proved.

### The room layer

Any number of seats, rooms, connections, clients and codes, any grace period. The
assumptions: the sizes are positive, the null values are none of the values, and
`TokensAssumption`: a token the server draws is none that the lobby gave (both are 32
random bytes: `protocol.h`'s `NET_AUTH_TOKEN_LEN`).

`ServerNetProofs!IInv` has four parts: `ConnsOK` (types of the socket table; only an
open connection has something to send, and it has a peer), `RoomsOK` (every room is a
`GoodRoom`: typed, count exact, seats fit the phase, an active room has a code),
`InfosOK` (`InfoNamesItsSeat`) and `RestOK`. It is inductive. `InfoNamesItsSeat` alone
is not: `room_leave` destroys a waiting room when the *count* reaches zero, and only
because the count is exact is there nobody else in it; the tick destroys a game with
count zero, and again only `CountIsExact` says that no connection plays in it. The
other way round, `CountIsExact` needs the guards on the slots' status. Two
connections cannot name one seat because a seat has one `conn_id`.

It starts with one lemma per operation of `room.c`: it takes a good room to a good
room and keeps the seats of the connections it does not concern (`Serves`). The proof
of an action picks the room and cites the lemma.

Theorems: `TypeCorrect`, `InfosNeverDangle`, `CountIsAlwaysExact`, `SeatsAlwaysFit`.

`ServerNetStepProofs` proves what a step may never do. Every action is described twice,
and the properties look at the descriptions only: by what it does to the rooms
(`RoomsStep`: their flags, one room rewritten by one of five operations, all of them
ticked, the finished ones cleaned up) and by what it does to one connection (`Hung`: it
is closed or new; `Held`: its peer stays, its inbox loses its first message or gets one
more).

* `RoomsLiveAsPromised` is the refinement of `SeatLifecycle`: the initial rooms are its
  initial state, and each of the five operations, a tick and a cleanup is a step of it
  or a stutter for every room. Only in a waiting room can one step take a seat and leave
  it again (the acknowledgement cannot be queued); that it is the room's first seat
  follows from the guards of the join.
* `GraceIsKept`: a seat goes to the AI when its timer has run out and the timer loses
  one per tick (`TickSeats`); a game that a tick destroys has no connected seat, by
  `CountIsExact`.
* `CodesStayUnique` is inductive by itself: a room that is opened has a fresh code and
  no other operation changes one.
* `ResultsComeFirst` needs an invariant, `ResultsOK`: a connection of a finished room
  was told the result, with the ratings once the lobby has sent them, or the room is
  marked for a broadcast; and that comes before the cleanup.
* `SeatsReturnToOwners` needs two. `TokensOK`: the session token of a taken seat is a
  number drawn so far, and no two seats of the server have the same. `TalksOK`: a
  handshake that is not read yet presents the ticket its client holds or a token of the
  lobby's (`FramesOK`), and of two connections of one client only one has anything unread
  (`OnlyOneTalks`). A ticket is replaced only by the answer to a handshake of its own
  client (`TicketStep`), and then nothing unread presents the old one.

### The game

Any deck of `4 * TricksPerRound` cards with the two of clubs, any number of cards
passed, any seats, dealings and clocks, from `DeckAssumption`, `OptionAssumption`,
`SeatAssumption`, `DealAssumption` and `TimeAssumption`.

`GoodGame` of `ServerGameProofs` says of a game record: it is typed, the trick has at most four
cards, every card is in one place and the hands are as long as the tricks played make
them (`CardsOnce`), and the fields fit the phase (`FitsPhase`): no trick before the
play, selections that are held cards and full when confirmed, plays in turn from a
leader who is a player. There is a lemma for each operation of the rules. `CardsOnce`
alone is not inductive: the exchange keeps the length of the hands only if what is
selected is held and has the right size, and a play shortens the right hand only if
the player has not played in this trick, which is `InTurn` (four consecutive places
modulo 4 are different). That the winner of a trick is a player needs a highest card
of the suit led to exist, shown for the four places without induction
(`HighestPlace`); that a dealing is disjoint is a counting argument over the four
hands (`DealtDisjoint`).

Its `IInv` adds what the sub-states of the server rely on: `PassLink` (the
sub-state EXECUTE has four confirmed passes, TRANSMUTE has a leader, somebody holds
the two of clubs until then) and `PlayLink` (a player is on the clock only with room
in the trick, a trick is resolved only when full).

Theorems: `TypeCorrect`, `CardsAreKept`, `PassIsKept`.

*What clients have been told.* `Inf` relates `seen`, `last_broadcast` and the game at
each stage of the loop: whatever differs between the game and a connected client's last
update either differs from `last_broadcast` too, or a flag forces the next update; a
client that has just come back has nothing and its flag is set; the fourth card of a
trick is sent before `TRICK_DONE` takes it away. `UpdatesMissNothing` (`ClientsUpToDate`)
and `TricksAreShown` (`TricksAreSeenWhole`) follow.

*Points.* The points of a set of cards are a fold, and so a sum over a set
(`MapThenSumSet`). Nothing about it can be proved by the library's induction theorems,
which take an operator. Instead each lemma about sums looks at a smallest
counterexample among the subsets of a finite set (`SmallestSet`): the recursive function
of the fold exists (`SumExists`), is the same whatever set it is defined over
(`SumsAgree`), may take any member first (`TotalWithout`) and adds up over disjoint sets
(`TotalUnion`).
`SumsUp` then says where the points of the deck are in every phase; a play moves them
from a hand to the trick (`SumsPlay`), the end of a trick to a player, the end of a
round to the scores, trebled by a moon (`SumsComplete`). Theorem: `PointsAreKept`.

*The rules.* The last part of `ServerGameProofs` shows that `ServerGame` implements
`HeartsTable` (`HeartsIsPlayed`). What a step does to the game is one of eight operations or nothing
(`GameSteps`); each is a step of `HeartsTable` or a stutter under the mapping
`Laid`/`Table`/`Leader`/`RoundStage`. The invariant `RInv` is `IInv`, `SumsUp` and
`LeadHolds`: before the first card the leader holds the two of clubs. Where the two
modules say one thing in two ways, a lemma shows that they agree: the code's
`trick_is_valid_play` and what the table allows (`LegalIsAllowed`), the loop that finds
the winner and the highest card (`TrickIsTaken`), the running score of a trick and the
worth of its cards (`PointsOfFour`), the directions of the pass (`PassIsExchange`).

### The transmutations

`TransmutedProofs` is about the mode as a whole, for any definitions of cards and
contracts, any pools, deals and inventories at the start, any number of players that are
people, either AI, and also for players who are `Careless`; from `DefsAssumption` (points
are numbers), `PoolAssumption` (no contract and no transmutation twice in a pool, no more
rounds than pairs in a hand) and `TableAssumption`. `Inv` has four parts:

* `Shape`: the records keep the fields that are read.
* `DraftGoesOn`: a draft is active in its own sub-state and nowhere else, and its round is
  the game's (`sg.draft_round` and `draft.round` are counted apart in the code). In round
  n everybody has picked n pairs, or one more, and no contract is at two places, in what is
  left or in what was picked (`Drafted`). `PairsStayWhole` alone is not inductive: it
  counts, and a count says nothing of where a pair may come up again. The count then
  follows from a bijection with the places of the hands (`SpreadOut`).
* `OnTheTable`: a trick is of players and full exactly when it is to be resolved, the lead
  is a number. So the winner the loops of `transmute_trick_get_winner` find is always a
  player (`WinnerIsAPlayer`), through jokers, always-winning cards, bindings, crowns and
  roulettes.
* `ContractsCount`: from the draft to the last trick every contract has seen all tricks
  (`Entered`). Streaks are the hard part: `Runs` says that s is the length of the run that
  ends with the last trick, and why it ends there, and that m bounds every run and is
  reached by one. A trick that is won joins the run before it (`RunGoesOn`), one that is
  lost ends it (`RunEnds`); the definition by `Max` follows (`StreaksAreRuns`).

Most steps leave alone what `Inv` reads (`Untouched`). A tick of the draft makes up to four
picks one after the other, each of which keeps `Drafted` (`PickKeeps`, `InTurnKeeps`). Cards
are played by `Plays` or `Forces`, whoever asks for them (`CardStep`); nothing is assumed of
what the AI chooses. `PointsAreAccounted` follows from `Inv` and the fields of a resolved
trick (`CompletedFields`, `PointsForFields`): only `TickTrickDone` counts a trick
(`TricksAreCounted`), and it gives away what the bounty takes and what is left
(`PointsGoSomewhere`).

Theorems: `PairsAreKept`, `EveryTrickIsSeen`, `EveryPointIsAccounted`.

### The link

`LinkProofs` proves that the rings, the stream and the framing implement `Channel`
(`LinkIsAChannel`), for every capacity that holds the largest frame, any size of the
stream and any messages, from `RingHoldsAFrame`. The invariant: the bytes of the messages accepted form one log, of which the
sender's ring, the stream and the receiver's ring hold consecutive pieces; `head` and
`tail` of a ring are positions in the log, and since never more than the capacity lies
between them, what is read at a position modulo the capacity is what was written there;
the receiver always stands at the start of a message, and so the four bytes it reads as a
length are one. Every step moves one end of
a piece; an end that is closed has no piece any more.

### The lobby

The theorems hold for any number of clients, servers and codes, any finite number of
connections, any size of a match and of the queue, from `TableSizes`, `LobbyPrograms`
(the programs are told apart) and `AbsentEntry`, `AbsentRow` and `AbsentServer` (an empty
row is no row). `LobbyProofs!Safe` is
an invariant of the tables alone: `Shaped` (they keep their fields), `QueueSafe`
(orders are numbers, fewer entries than a match needs) and `CodesSafe` (a code that is
waited for has a row, and one request). `CodesNameOneRequest` alone is not inductive:
`lobby_rooms_generate_code` looks at the rows and at the pending rooms but not at the
pending matches, and is right only because a match's code has a row, which the
deletion of codes must not take away. `QueueNeverFills` needs the orders: only
because an entry does not come before itself does a match take everyone
(`MatchTakesAll`). Most handlers only take things out of the tables
(`FewerRequests`, `FewerEntries`).

`LinksSafe` is an invariant of the registry and of the connections of the game servers:
a connection that has registered and is up at the server's end is the one its registry
entry names (`RegisteredOK`). A drop and a registration that cross could break that, so
the rest says why they do not. A server has one connection, or one in the backlog, that it
has not closed (`LinksOK`). While frames of an earlier one are unread, the later one has
neither registered nor anything in its inbox, and by the time drops are detected
everything read has been handled (`FramesOK`): a connection is accepted in the stage before
the frames are handled, and its own frames can only arrive in a later update. So the
cleanup of an old connection finds no entry, or one with another `conn_id`.

`WaitsSafe` says where the request or the answer of a client that waits is (`WaitsOK`): its
request in the connection's inbox and not taken back by a later QUEUE_CANCEL (`Standing`),
an answer in its mail, or an entry in the tables. A handler may take a request out of the
tables only if it writes to the client, and two do not. `lby_handle_server_room_destroyed`
removes the pending rooms of a code without a word; this is harmless only because the
`ROOM_CREATED` that told the client came before. `CodesOK` says so: as long as no code is
deleted, nobody speaks of a code before it is drawn (`Unused`), and in front of the
`ROOM_DESTROYED` of a room still waited for stands its `ROOM_CREATED` (`Opening`,
`Announced`). The cleanup of a game server's connection forgets its requests; `ServersStay`
excludes it, as long as no server has lost its connection. The two assumptions are those of
the property itself (`Sheltered`): both failures are in the code (section 3). What is known
in any behaviour is `PlainOK`; the invariant is relative to `Safe` and `LinksSafe`. The
steps are of a few kinds, with a lemma each: a message handled (`HandledStep`), a connection
closed (`ClosedStep`), a time limit (`ExpiredStep`, `ExpireServerWaits`), the stages of an
update (`StageWaits`), the programs (`ClientWaits`, `ServerWaits`).

Theorems: `QueueIsShort`, `CodesAreOneRequests`, `LinksAreRegistered`, `WaitersStayTracked`.

### The client

Any number of rooms, broken connections and restarts, and any story of games that have
the fields `PlayerView` names, from `SeatsAssumption`, `StoryAssumption` and
`CapsAssumption`. `ClientNetProofs!IInv` says where client and server stand:

* `HandshakeOK`: one handshake is under way at a time; its answer comes before anything
  else, to a client that waits for it and has no views.
* `BoundOK`: a seat bound to the connection is of the room the client asked for, and its
  token is the one the client has, or is about to get (`Due`): between the server's
  acceptance and the client's reading of it, these are different.
* `OrderOK`: the views in the queue and those in flight (`Coming`) are of the client's
  room, in order, and none is older than the one shown.
* `MadeOK`: a view shown or under way is of a room that has started and is not ahead of
  it, so that the next one made is not older.
* `HeldOK`: with a game on the screen or a view under way, and with a way back in the
  settings, the token opens its seat, and the room does not wait any more. Without the
  last part a seat could be given to somebody else: a player who drops out of a waiting
  room loses it (`sv_cleanup_connection`), one who drops out of a game does not.

Every step is one of five kinds, with a lemma each: the screen and the menu
(`OnTheScreen`), a connection that goes or comes (`HungUp`), a message read (`ReadOn`),
messages sent (`Sent`), a handshake answered (`WelcomeKeeps`, `RejectKeeps`). Rooms only
go on (`RoomsGoOn`), and so what was made and what is held stays so (`StaysMade`,
`StaysHeld`). `OthersStayHidden` is about `net_build_player_view` alone (`PublicView`),
and is proved for every game.

What the client shows has an invariant of its own on top of this one, `SeatInv`:

* `SeatedOK`: a client that is at a seat, or will be as soon as it has read the acceptance
  under way, has its server's bindings, its queue and everything in flight for this seat
  and no other. Each view was built for it from one of the game's states, apart from
  the confirmations, which go on within a version.
* `ShownOK`: the copy is a mirror of one of the game's states (`Mirrors`) from the seat
  the client is in or comes back to. Without a connection this is the seat the token
  opens (`HasSeat`), and no two tokens of a room are the same (`RoomsOK`): so a client
  that is accepted again is at the seat its copy was made for.
* A mirror's cards go with their slots: hand and slots of the copy have the same pairs,
  each as often, as the server's (`PairCounts`), as long as no transmutation is guessed
  ahead of the server. Only this says something of a hand with equal cards.

The player's own moves change the copy without a view (`CopyArranged`, `CopyTransmuted`,
`CopyConfirmed`), every other step leaves it alone or drops it (`CopyKept`). `Arrangement`
is a recursion over the old hand, and the proofs of what it yields use no induction theorem:
the first place where it would fail, or a smallest set of places (`SmallestSet`), is led to
a contradiction. It takes every place of the new hand once (`Permutes`), so that pairs are
only put in another order (`PairsInAnyOrder`), and of two cards both hands have, the one
that was first stays first (`HandLaidOut`). `ThereAndBack` is about `remap_seat` and
its reverse. `StoryAssumption` has only the shape of a game in it: players
are seats or nobody, hands are sequences, and in the second phase a view has one slot for
each card of the hand, as `net_build_player_view` fills the array.

Theorems: `ViewsComeInOrder`, `TokensOpenTheSeat`, `ViewsShowNoOthers`, `ViewsAreOfTheSeat`,
`ArrangementStays`.

### What the client shows

`TurnFlowProofs` holds for any number of tricks in a round, any capacity of the queue, any
seats, rounds, rogues and repeated updates, for a client that comes from the menu or into a
running round, from `FlowAssumption`. `CardsShownInOrder` is about what the client has seen;
the server may be several updates ahead of it. The invariant therefore names the update the
client took last, and consists of two halves, both as long as no update was lost:

* `Queue`: the updates that wait lead from that one to the game at the server, each by one
  message (`Follows`: the same again, a rogue's choice, the beginning of the play, a card,
  the end of a trick, of a game, a new round). So a card is never told together with the end
  of its trick, a rogue's choice comes before the next card, and only a whole trick ends.
* `Fits`: what each step of the flow shows of the trick the client knows of, as the place of
  `prev_trick_count` between nothing and `num_played`, and that `saved` is that trick. At rest
  the flow has shown everything it knows (`Resting`), or has cards left (`Amid`), and then
  the deferral of `main.c` keeps the end of the trick out (`NewsInPlay`): without
  `saved # NoTrick` and `prev_trick_count` in `Deferred` the last cards would be lost. Steps of
  the rogue are before a trick's first card, because its owner has not chosen yet.

Between the taking of an update and the flow's step in the same frame there may be one thing
to do that `Fits` excludes: one card to show, a new trick, a choice to reveal (`Ready`).
`NewsOutsidePlay` and `NewsInPlay` show that an update leaves no more than that, `FlowFits`
that the flow does it at once and shows the follower of what it showed. The server's steps
extend the queue (`QueueGrows`, `ServerStep`); the pass, the scores and the settings are
aside (`PassIsAside`), for the settings only because nothing is taken while they are open.

Theorem: `CardsAreShownInOrder`.

### What is not proved

Only model-checked:

* every liveness property (`FinishedRoomsClose`, `DroppedSeatsResolve`, `GameEnds`,
  `RequestsAreAnswered`, `WellFormedTrafficArrives`, `ReconnectionEnds`, `TurnIsOffered`):
  liveness under fairness is out of the prover's reach;
* `NobodyIsCutShort`, which is false for some instances (section 3);
* `FieldsArrive`: it rests on `Packing`, which unrolls the steps of a message with recursive
  operators, and what a recursion computes is an induction over data;
* `SlotsMatchHands`, `TransmutationsAreKept` and `LeadsAreObeyed` of `TransmutedGame`: they
  hold of the deals and definitions of the run and not of all (section 3), so that there is
  no theorem;
* `PassStaysOpen` of `TurnFlow` and `WholeViewsAreRead` of `Exchange`, which the code violates
  (section 3).

`TypeCorrect` of the room layer and of the game are proved and need no run: the parts of
their invariants that are not types are checked.

## 5. What is left

* The lobby's accounts: sessions and names, friends, a result that is recorded once.

Not modelled, and why:

* The duel and the echo: `contract_logic.c:178-181` keeps them out of every draft, and
  their commands are refused outside of them.
* Ratings and statistics (floating point and SQL sums), key files and signatures, the
  parser of the definition files (it runs once and keeps no state).
* Chat lines, names, room options, PING.
* Screens, clicks and drags, settings, drawing, sound, vendored code: no other component
  depends on them.
