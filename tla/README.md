# Brain Wiz: specifications and proofs

Brain Wiz is a quiz for a shared screen (the host) and phones (the players). A
NestJS server keeps rooms, drives each game through its rounds and is the only
authority; host and phones talk to it over WebSocket and a few REST calls. Paths
below are relative to `src/src/` unless they start with `src/`.

The server is one Node.js process: no two handlers run at the same instant, but
every `await` of a database query is a point where any other handler, timer or
socket message may run. Nearly everything that is hard about the server comes
from state read before such a point and used after it, so its specifications
have **one step per stretch of code between two awaits**. The apps are
reducers over an ordered stream of events that may break at any time: their
specifications have **one step per event, timer or touch**.

## 1. Inventory

| Component | State | Operations | Talks to |
|---|---|---|---|
| `ConnectionRegistry` (`server/room/lobby/connection-registry.ts`) | hosts, clients, memberships, tokens, grace and teardown timers, in memory | register, unregister, look up, set and clear tokens and timers | called by lobby, answers, broadcaster |
| `LobbyService`, players (`server/room/lobby/lobby.service.ts`) | calls in flight | join, rejoin, leave, disconnect, grace expiry, kick, start | registry, `ClientService`, engine (`abort`) |
| `LobbyService`, host and room | host token, host grace, teardown | create, connect host, flow settings, start, close, tear down | registry, `RoomService`, engine (`run`) |
| `ClientService`, `RoomService` | tables `clients`, `rooms` | find, save whole entities, remove | lobby, scoring, engine |
| `GameEngineService`, `PhaseTimer` (`server/room/game/`) | per room: abort flag, phase, countdown, last leaderboard | run, abort, phases of a round, leaderboard, roadmap | bus, presenter, `RoomService` |
| `AnswerService` | per room an open window: submitted, progress | submit, submitRound, progress, finalize | bus, registry, table `client_answers` |
| `ScoringService` | per room a scoring context | score the closed round | bus, `ClientService` |
| `RoundPresenter`, `RoundBuilder`, `FlowService` | tables `rounds`, `questions` | show a question, expand a flow to rounds, normalize and randomize a flow | broadcaster, bus |
| `RoomBroadcaster` | a cache nobody reads | send to a socket or a room | registry |
| `SocketGateway`, `HeartbeatMonitor` (`server/socket/`) | idle timers, tracked sockets | admit, dispatch, close | lobby, answers |
| `RateLimiter`, `HostAuthThrottle` | counters per address and socket | let a message or an attempt pass | gateway, lobby |
| Client app (`client/`) | reducer state, saved player | reduce events, reconnect, answer | the server |
| Host app, flow editor (`host/`) | reducer state, draft of a flow | reduce events, edit, autosave, start | the server |
| Minigames (`minigames/`, `server/room/game/minigames/`) | a puzzle, the phone's surface | deal, play, judge, score | presenter, answers, scoring |

How they interact. The gateway calls the lobby and the answer service. The
services of a game coordinate through `GameEventBus`, a synchronous in-process
bus: `ROUND_WINDOW_OPENED` (presenter to answers and scoring),
`ALL_PLAYERS_ANSWERED` (answers to engine), `ROUND_WINDOW_FINALIZE_REQUESTED` and
`ROUND_WINDOW_FINALIZED` (engine to answers and back), `ROUND_WINDOW_CLOSED`
(engine to answers and scoring), `ROUND_SCORED` (scoring to engine),
`ROUND_WINDOW_ABORTED` (engine to both), `HOST_SKIP_TIMER` (lobby to engine).
Lobby and scoring both write the rows of `clients`; engine, lobby and host calls
all write the row of `rooms`; the lobby changes the sockets the answer service
counts. The apps see the game only through broadcasts, and their answers,
progress and flow come back as messages and requests.

What is hard: handlers of several sockets interleave on one player or one room;
entities are read, kept over awaits and saved whole (`repository.save` writes
every column that differs, and inserts a row that was removed); windows and
contexts are keyed by room, so a straggler of one round can reach the next; the
engine stops waiting after a timeout, and its services carry on; an abort can
find the loop anywhere; queries fail, and a query that failed may have been
committed; sockets drop with frames in flight, pages are reloaded, and a screen
is put together from events of which some may be missing.

What makes each component correct is the property list of its run in section 3.

## 2. Modules

| Module | Models | Role |
|---|---|---|
| `ConnectionRegistry` | the registry's maps | part of `LobbyMembership` and `Gateway` |
| `Gateway` | sockets, admissions, heartbeats, idle timers over the registry | composition |
| `LobbyMembership` | the players of a room over the registry | composition |
| `RoomLifecycle` | the row of a room, its host, its two timers, its engine's life | component |
| `GameData`, `AnswerService`, `ScoringService` | tables, windows, contexts | parts of `GameRound` |
| `GameRound` | engine, answers, scoring and lobby around one game | composition |
| `GameShow` | what a game promises its audience | abstract specification, refined by `GameRound` |
| `GameScript` | the broadcasts of a game, in order | shared by the two apps |
| `ClientApp`, `ClientSession` | the phone; the phone with its side of the server | component, composition |
| `GameFlow`, `Serpentine`, `FlowEditor` | flows and plans; the snake and its drops; the editor | parts of `HostSession` |
| `Leaderboard` | standings and roadmap | part of `HostSession` |
| `HostApp`, `HostSession` | the host's page; the page with its side of the server | component, composition |
| `MinigameScores`, `SlidingPuzzle`, `LightSwitch`, `VaultRush`, `GuessTheWord`, `BalanceScale`, `BonkAir` | generators, rules, solvers, scorers | operators of `MinigameRound` |
| `MinigameRound` | one minigame round from the deal to the score | composition |
| `MC*` | instances for TLC | |
| `LobbyMembershipProofs`, `RoomLifecycleProofs`, `GameRoundProofs`, `ClientSessionProofs`, `HostSessionProofs`, `MinigameRoundProofs` | theorems | each about the module it is named after and its parts |
| `GatewayProofs` | theorems | about `ConnectionRegistry` and `Gateway` |
| `GameScriptProofs` | lemmas about the broadcasts of a game | used by the proofs about the two apps |

Definitions whose comment begins with "Slip" or "Mutant" are wrong on purpose. No
specification uses them: each stands for a plausible mistake in the operator
after it, and putting it in that operator's place must make a property fail.

### ConnectionRegistry, Gateway

`hosts`, `clients` and `membership` are `_hosts`, `_clients` and `_membership`; a
missing entry is `None`. `reused` is a history variable: some socket was
registered while it was something else, which nothing in the gateway prevents.
`Gateway` adds the life of a socket: a connection opens, an admission is begun
and registers after its awaits, the heartbeat marks and reaps, the idle timer
looks once, and close events arrive or do not (a socket may vanish). Whether a
rate limiter lets a message pass is left open: every message may be refused.

### LobbyMembership

One room. `present` and `online` are the rows of `clients`; `join`, `leave`,
`expire` and `kick` hold, for each socket or player, the await at which its
handler is suspended:

| Handler | Steps |
|---|---|
| `joinClient` | `SendJoin`, `FindRoom`, `FindClient` or `FindNobody`, `ReadRoster`, `Admit` |
| `leaveClient` | `Leave`, `RemoveLeaver` |
| `handleDisconnect` | `Drop`, `FindDropped`, `SaveDropped`, `ArmGrace` |
| `expireGrace` | `GraceFires`, `FindExpired`, `RemoveExpired` |
| `kickPlayerByRoom` | `AskKick`, `Kick` or `KickNobody`, `RemoveKicked` |
| `startGame` | `CountPlayers`, `StartGame` |

A grace timer is two things in the code: a `setTimeout` and the handle stored for
the player. `pending` counts the timeouts that will fire, `armed` says whether a
handle is stored; overwriting a handle leaves its timeout pending but out of
reach. A rejoin may bring a wrong token, so it may be refused at any time. `left`
records who has left, was kicked or has expired: an expired player is not counted
that is back already, or whose rejoin has its token checked (`BackAlready`).

### RoomLifecycle

A handler in flight is a *task* with the status of the entity it has read; saving
for the sake of another column writes that status back. `rewound` records the
rooms whose status was moved back that way (a host socket saved over a start, a
flow stored over a close, a round of the engine over `closeRoom`). It happens in
the code; the properties speak of rooms to which it has not happened, and the
constraint `StatusKept` follows a behaviour no further once it has. `stranded`
records the rooms that stay ACTIVE without an engine because something else failed as
well: building the state to broadcast, between the save of `startRoom()` and `run()`
(`StartFails`), or the queries of `abandonQuietly()`, whose failure is caught and
logged (`AbandonFails`). No call can start or end such a room; it closes when its host
has gone, which `HostlessCloses` includes. `game[r]` is
the engine's loop for the room; `seat` and `sockets` are what the room sees of
its players. `aim[h]` is the room a host socket asks for: a room has lost its host
only when a socket that was its own has gone (`Hostless`). With one room that goes
without saying; the proof for several made it be said.

### GameData, AnswerService, ScoringService, GameRound, GameShow

* `GameData`: `roster`, `online`, `total` are the rows of `clients`, `rows` those
  of `client_answers`. `SaveClient` is `save` of an entity read earlier,
  `RemoveClient` includes the cascade to the answers. `Fail` takes one of
  `MaxFaults` failures.
* `AnswerService`: `window` is the round of the room's `OpenWindow`. Handlers keep
  the window object over awaits, so `submitted` and `progress` exist per round.
  `saving` holds the INSERTs in flight. An INSERT and what follows it are one
  step: nothing between the two reads what the continuation writes.
* `ScoringService`: `ctx` is the context's round, `job[r]` the state of
  `scoreRound` for round r: what it read and which query it awaits.
* `GameRound`: `pc` is what the engine's loop awaits. `Timed` values are
  countdowns, `Querying` values are queries, `finalizing` and `scoring` are the
  two awaits of `closeAndAwaitScore`. A bus event is delivered synchronously, so
  `SubmissionSaved` contains the end of the question it may cause, and that the
  first turn of `finalizeWindow`. The lobby's side is one call per player at a
  time; their overlap is the subject of `LobbyMembership`. `overdue` records the
  rounds whose finalizing or scoring outlasted its timeout: their late end deletes
  the window or the context of whichever round is open then (`answer.service.ts:273`,
  `scoring.service.ts:77`).
* `GameShow` has six variables and no services: rounds come one by one, each asks,
  closes, scores and reveals; answers are open only while it asks; points are
  given only while it scores (or, if `Late`, at any time); a game that was
  stopped starts no round and is never "finished" unless the last round had been
  shown. `Show` in `GameRound` maps `pc` to its `stage`, `window # NoRound` to
  `open` and `aborted` to `stopped`.

A countdown may end at any time: real durations are not modelled, which adds
behaviours and removes none. A correct answer is worth one point here: what it is
really worth is the subject of `MinigameRound`. A submission that fails
validation changes nothing and is not an action.

### GameScript, ClientApp, ClientSession

`GameScript` is the sequence of events `run()` sends for given kinds of rounds. `app`
is the state of `clientSocketReducer`; a question, a content and a reveal are the
numbers of their rounds. `link`, `timer` and `attempts` are the socket of
`useClientSocket` and its reconnects, `inbox` and `outbox` the frames in flight, which
a drop or a reload loses. A player may also leave while the socket is down, which
clears the phone and tells the server nothing. `Screen` is `renderApp` and its
helpers. `ClientSession` adds the server's half with atomic handlers. `missed` and
`lost` record that the phone has missed an event of the round, or that a frame of its
own, or the answer to one, was lost with a socket: the properties say what they
excuse.

### GameFlow, Serpentine, FlowEditor, Leaderboard, HostApp, HostSession

`GameFlow` has the three shapes of a flow (the editor's, the stored one, the plan
of rounds) and the conversions between them, with every clamp of either side.
`FlowEditor` is the editor's state and effects, `Serpentine` where its blocks
are drawn and where a drop lands, `HostApp` the reducer, socket, screen and tabs of
the host's page, `Leaderboard` the engine's standings and roadmap and their
drawing. `HostSession` composes them with the room's row, whose handlers are
tasks as in `RoomLifecycle`, here with the flow they have read. The rounds of a game
stay in their table: a second game in the room violates the unique index on room and
round number (`round.entity.ts:38`), fails and is abandoned. `raced`, `behind`
and `missed` record what the properties excuse: the stored flow is not the one
saved last, the editor was opened on a late snapshot, an event was missed.

### Minigames, MinigameRound

The modules of the games translate generators, rules, solvers and scorers; a random
choice is any choice. `MinigameRound` plays one round: the deal, the surface of the
phone with its effects, progress and feedback frames, the answer and its save, the
close and the adapter's score. In `BonkAir` lengths are twentieths of a cell and
time goes in steps of `StepLength`; straight and diagonal flight, turns in the air,
separation, storm, border, runways, stars and the early bonus are those of
`bonkAirGame.ts`. Military zones need a difficulty the server never uses.

## 3. Runs

| Run | Instance | Distinct states | Properties |
|---|---|---|---|
| `gateway` | 1 room, 1 player, 2 sockets, fairness | 122,162 | maps agree, ghosts come only of late admissions, nothing outlives a socket, dead and idle sockets are closed |
| `membership` | 2 players, 3 sockets, 2 drops | 377,787 | leavers, kicked and expired stay out; only a hasty join leaves a ghost |
| `membership_timers` | 1 player, 3 sockets, 3 drops, fairness | 277,471 | an offline player has a timer, and is resolved |
| `room_lifecycle` | 1 room, 2 host sockets, 1 player, 2 calls, fairness | 596,464 | a hostless room has a timer and closes; an active room has an engine, unless starting or abandoning it failed as well |
| `game_round` | 2 players, 2 rounds (minigame, quiz), 1 fault, 2 lobby calls | 1,306,191 | answers, progress and credits; `GameRound` implements `GameShow` |
| `game_timeouts` | 1 player, 2 rounds, 2 lobby calls, timeouts, fairness | 581,275 | answers only in a question, window and context of one round, nothing scored unawaited, except after an overdue round; termination |
| `client_session` | a quiz and a minigame round, 3 faults, 1 reconnect, fairness | 1,730,870 | screen, lock, credentials, spinner |
| `minigames` | one round of each of six games | 681,912 | fair deals, fair judgement, solved is paid, routes fly, replay is score |
| `host_session` | 2 themes, 1 minigame, flows of up to 4 blocks on 2 columns, 1 fault | 1,335,634 | screen, edits, plan, drops, leaderboard |
| `accepted_unscored` | 2 players, 1 quiz round | violation | an accepted answer is revealed as a timeout |
| `guess_overwritten` | guess the word among the six games | violation | a guess takes the place of another |
| `flushed_early` | Bonk Air | violation | an empty plan is handed in at the start |

### Bounds, and why they are enough

* Two players are the least for whom "all answered", "the last one gone" and
  "another one's snapshot" differ from their opposites; two rounds are the least in
  which a straggler meets a successor, and one of them is of each kind. Three
  sockets let a player be displaced, come back and race its own late disconnect.
* `MaxDrops`, `MaxCalls`, `MaxFaults`, `MaxEdits`, `MaxSends`, `MaxStarts`,
  `MaxHosts`, `MaxTurns` bound what the environment does, never what the code does
  in answer. With `MaxInbox = 1` a page lags one frame behind the server at most.
  The reducers handle frames one by one and in order, and a screen is compared with
  the game only when the inbox is empty; what a longer queue adds is more frames
  lost at once, which `missed` excuses alike, and snapshots that are overtaken: an
  editor opened between two of them must not count as having seen the second
  (`raced` in `Open`). `HostShowsGame` and `EditsSettle` were therefore also checked
  with `MaxInbox = 2` and flows of two blocks (too slow for a regular run); the theorems
  hold for every `MaxInbox`.
* `OneTroubleLater` (`game_round`) follows a behaviour into its second round only
  with at most one call or failure so far: all combinations of two calls and a
  failure are explored in the first round, and each single one across the two.
* `StatusKept` (`room_lifecycle`) is explained above. `MaxRounds` and `MaxTroubles`
  (`host_session`) keep a game that is played out to two rounds and one save or fault,
  and `ShortGames` follows a behaviour on from the start of a game only while there
  are two rounds at most and two saves or faults in all (longer plans are still
  compared with their flow); a minigame before a quiz fits. Four blocks on two columns
  give the snake a second, reversed row, into which a drop may go.
* `PlanIsFollowed` (`minigames`) follows a Bonk Air plan only while nothing of it
  was lost, and for seven turns less three per fault. Its airspace is 9 by 7 cells
  with two planes; `IsPlayed` names the puzzles that are played out, all others are
  dealt and checked by `DealtFairly` alone. `MCScrambleMoves`, `MCDictionary`,
  `MCSites` and `MCTouched` are the puzzles and touches in which solved boards,
  letters that occur twice, storms, stars and collisions occur.

Where a run has `CHECK_DEADLOCK FALSE` the system really stops: a game ends, a room
closes, a socket is used up. A deadlock is an error in `minigames`, whose round goes
on until it is scored and shown (`Over`).

### Fairness

* `LobbyMembership!Spec`: a query comes back and a timeout fires. Nobody has to
  join, leave, drop or be kicked.
* `GameRound!FairSpec`: the engine's own queries come back, its countdowns tick,
  and the two timeouts of `closeAndAwaitScore` fire. Nothing is assumed of INSERTs,
  of the scoring's queries or of the lobby: `GameEnds` holds although none of them
  may ever return, because RxJS's `timeout` is on both awaits. A query of the
  engine itself has no timeout; that it returns is an assumption on the driver.
* `RoomLifecycle!FairSpec`: the host's grace timer fires and the queries of the
  host's departure and expiry come back. No other call has to, and
  starting or abandoning a game may fail. Nobody has to come back.
* `Gateway!FairSpec`: the heartbeat's interval and the idle timers fire, and a
  socket the server itself closes or terminates does close. An admission need not
  be answered, and a socket that vanishes need not send a close event.
* `ClientApp`, `ClientSession!FairSpec`: timers fire, a socket that is not refused
  opens, frames on an open socket are handled. The network may refuse as long as
  faults are left, and the reconnect counter ends it.

### What the violations show

1. `AcceptedIsNotTimeout` (`server/room/game/scoring.service.ts:66`). Closing the
   window waits for snapshots, not for submissions in flight. An answer saved after
   the scoring has read the rows is acknowledged and then shown as a timeout.
2. `GuessesAreSpent` (`minigames/wordleGame/mock/WordleGameMock.tsx:57`). Every tick
   of the timer makes the phone apply its last feedback again, which forgets the
   guess in flight; the next one replaces it on the server. A player has as many
   tries as there are ticks.
3. `FlushedAtTheEnd` (`client/App.tsx:178`). `secondsRemaining` is written only by
   ticks. A phone that missed `ROUND_START` mounts Bonk Air with the last second of
   the round before and hands in an empty plan, first with the old round's id,
   which is refused and so runs the effect again, then with the new one.

### What the models also have, and no run is spent on

* A question may end before every connected player has answered
  (`answer.service.ts:323` against its lines 5-6): the counts compared are of
  different sets. The scoring's save of a stale entity writes `isConnected: false`
  over a return, and the next player who leaves aborts the game
  (`client.service.ts:58`). `expireGrace` may remove a player that has come back
  (`lobby.service.ts:237`). Two joins may both pass the capacity and the name check
  (`lobby.service.ts:101`), and a newcomer that was looked up in the lobby may be
  admitted to a running game (`lobby.service.ts:96`).
* A round that outlasts the engine's timeout ends late and takes the window or the
  context of the next one (`answer.service.ts:273`, `scoring.service.ts:77`): answers
  to that round are refused, or never scored. The properties of `game_timeouts` say
  `overdue` where it may happen. A room stranded ACTIVE by a failing start or
  abandonment stays so until its host leaves (`lobby.service.ts:353-357`,
  `game-engine.service.ts:477-479`).
* A reconnect's acknowledgement omits the avatar, so that a reload after one
  reconnect forgets the player. A rejoining phone gets only a room state, never
  the running question: `RoomBroadcaster.syncSocketState` has no caller.
* The first guess's feedback, lost with a socket, keeps the keyboard locked;
  sliding moves made offline are never sent again; a light switch puzzle solved
  while its save failed is not paid; Bonk Air drawings made after the flush are
  shown and not handed in.
* `setRoomFlow()` does not look at the status: a save that arrives after the start
  puts the room back to the lobby with its game under way. Edits not yet saved when
  the tab is left or the game starts are lost, overlapping saves may land out of
  order, the start's timeout is not cleared when the lobby goes
  (`host/components/SetupLobby.tsx:58`), `HOST_SKIP_TIMER` names no round, and a
  drop from the palette ignores the maximum of blocks (`host/screens/FlowEditor.tsx:457`).
* `buildRoadmapThemes` merges blocks of a theme that are apart, so the roadmap of a
  flow A B A names the wrong rounds, that of the default flow among them; a second
  game in a room, which a start after a late `setRoomFlow()` asks for, fails on the
  numbers of the stored rounds, and the room is abandoned; a second block of a theme
  may be left without questions, against `docs/other/rest-api.md:31-32`. Ties at game
  over are ranked by the order of keys, not as the leaderboard had them.
* `RateLimiter` and `HostAuthThrottle` call their windows sliding; they are fixed,
  so twice the limit may pass around a boundary.

## 4. Proofs

TLAPS proves the following for every value of the constants: every invariant and
every action property that the runs check, except `DealtFairly` for two of the
six minigames (it is proved for the other four).
The assumptions are the named ones of the modules: `NoneAssumption` and
`NoHostAssumption` (`None` is no id), `GameAssumption` (at least one round, bounds
are naturals, finitely many players), `LobbyAssumption` (bounds are naturals, the
room is one of the registry's), `KindsAssumption` (a round is a quiz or a game)
and `FlowAssumption` (themes and minigames are finitely many and no block is both,
bounds and defaults are in the ranges their constants have in the code, and the
bounds of a minigame's time are multiples of its step, as in
`flow.constants.ts:6-8`), `ColumnsAssumption` (the snake has a column),
`TimeLimitAssumption` (a round takes time), `LightAssumption` (there is a lamp),
`DictionaryAssumption` (words are equally long, and there is a try), `BonkAssumption`
(an airspace has cells and planes, and their places are in hundredths of an edge) and
`RoundAssumption` (the games are the six, a scramble has moves, a touched cell is on
the grid). The inductive invariants named below were checked by TLC
on small instances before they were proved.

**Registry.**

* `RegistryTypeCorrect`, then `RegistryBacked` by induction on `MembershipBacked`
  alone: a new registration displaces the socket stored under its key, so no second
  socket can keep the same membership. `RegistryOwned` needs `MembershipBacked`
  beside `EntriesOwned`: removing a membership is safe only because the entry it
  names is the one removed. `RegistryOnlyOwnerRemoves` says that a player's entry goes
  exactly when the socket that unregisters is the one stored in it, so a displaced
  socket's late close leaves its successor's entry alone; it follows from
  `MembershipBacked` in the state before the step. They are about
  `ConnectionRegistry!Spec`, any sequence of registrations.
* `LobbyKeepsRegistry` and `GatewayKeepsRegistry` carry them over: every step of the
  lobby, and of the gateway, is a step of the registry or leaves it alone.
  `GatewayKeepsOwners` states what follows behind the gateway.

**Gateway.** `GhostsAreLate` and `NothingIsLeft` are inductive with the type
invariant: whoever admits a socket records whether it had closed, and what a close
event cleans up is all that is kept of a socket.

**Lobby.**

* `MembershipTypeCorrect`: the count of pending timeouts never goes below zero
  because a stored handle has one that is pending (`TimersTypeOK`), and a membership
  names a player that has been given an id (`IdsAreUsed`).
* `GhostsOnlyFromHaste` needs `OneCall` (a socket's join and leave do not overlap,
  and none runs while it is registered) and `HastyJoins` (a join that outlives its
  socket is a hasty one).
* `GoneForGood`: `LeftForGood` follows from `GoneStayGone` (who has left, was kicked
  or has expired holds no token, no membership, and no rejoin that found one is under
  way) and `NewcomersAreNew` (a join past its checks admits an id that nothing else
  knows). It is the tokens that keep leavers out: rows are inserted by any stale
  `save`. Of the registry the lobby's proofs need only `PlayersBacked`, that a
  player's membership is the socket stored for the player, which is inductive there.
* `OfflineAreTimed`: by induction on `OfflineHasTimer` with `OneCall`. Each step that
  takes a timer away either brings the player back, removes it, or is a step of a
  handler that will arm another.

**Room.** `RoomInv` is inductive, and `ActiveRoomsRun` and `HostlessAreTimed` by
induction given it. `ReadsAreOld` is the core: what a handler has read is not ahead
of the row, so a save may only write a status back, which `rewound` records.
A loop that ends leaves its room finished, abandoned or `stranded`.
`RowsExist` says of whom a row is held, `GamesAreStarted` that a loop runs only in a
room past the lobby, and `HostsAreLinked` and `ConnectsAreOwn` which sockets may be a
room's host: a socket connects once and to the room it named.

**Game.**

* `TypeCorrect`: `TypeOK` is inductive with `RoundUnderway`, without which a step of
  the loop might index the functions of a round with `NoRound`.
* `WindowClosedOutsideQuestion`: `WindowOpenOnlyInQuestion` is inductive given
  `TypeOK`. A late `LastSnapshot` of an old round only ever closes a window.
* `AbortedGameStops`: the round grows only in `NextRound`, which looks at the flag
  of the state before the step.
* `RoundsScoredInTime`: `ScoresSettled` is inductive given `TypeOK`: a job under way is
  that of the engine's round while it waits for the scores, or of a round it has
  given up (`overdue`).
* `SubmissionsStored`: `SubmittedIsStored` is inductive given `TypeOK`. Every step
  that ends an INSERT adds the row or takes the player out of `submitted`, and the
  only step that deletes rows records the player in `removed`.
* `ShowIsKept`: `Spec => ShowGoesOn`, the refinement of `GameShow`. Initial states
  map to initial states; `ShowStep` maps every step to a step of the show or a
  stutter, one lemma per service. It needs the window's invariant (an abort that
  finds no question must find no open window), `ScoresSettled` (points only while the
  show scores), and two more, proved inductive in the same module: `RoundInStep` (no
  round before the loop, no leaderboard after the last) and `OneSnapshot` (while
  awaits do not time out, a snapshot is saved only for the round being finalized,
  one at a time, so its end closes no other). With timeouts the show allows
  `CloseLate` and late credits, and the theorem covers that too.
* `WindowsAreScored` needs `ContextInStep`: apart from a question and its close there
  is no context, so the one a question finds is its own, and `OverdueBehind`:
  a round that was given up has been closed, so it is behind any question.
* `RevealsAreConsistent` and `ScoresAreEarned` rest on `JobsInStep`: a round is scored
  after its close and once. `CreditsFollowRoster` adds that the players whom a
  scoring calls late are not among the rows it read, `CreditedOnce` that it credits
  nobody twice, and `ScoresCovered` bounds not only the table but every copy of a
  score that somebody has read and may yet save by what had been credited.
* `ProgressIsScored`: `ProgressKept` is about the end of a round; `VisitedKept` is what
  leads there: who was taken off the list of snapshots has submitted or is gone.

**Phone.**

* The lemmas about `GameScript` say where the script is in its rounds: the round of
  an event, that rounds follow each other, which event shows a round, and what the
  next event does to the phase, the round and the question that are up. The script
  is defined in closed form (an event's place determines its round and its step), so
  these hold for every sequence of rounds without induction.
* `TokensAreNew`: the token the server makes is none that it or the phone has.
* `AdmissionsAreOrderly`: `Admission` is inductive with the type invariant. At most one
  request to be admitted is under way, or its answer (`OneAdmission`); a frame that
  ends the membership is the last one (`EndsAreLast`); an acknowledgement under way
  brings the token the server expects (`AckIsGood`). Each needs the others: a second
  request would make the server rotate a token whose acknowledgement is under way.
* `CredentialsStayGood`: the run's `CredsAreGood` excuses a phone with any frame in its
  inbox. Provable is the sharper `CredsAreCurrent`, in which only an acknowledgement
  stands for the missing token.
* `ScreensFollow` and `LocksAreHeard`: the properties speak of a phone with an empty
  inbox; the invariants `PhaseComes` and `ContentComes` speak of all others. For each
  field they look at the latest frame under way that writes it, or at the phone if
  there is none. `OnlyShown` (nothing is up that the server has not sent) keeps a
  question of an old round from looking like the current one's, and
  `LocksAreAnswers` follows an answer from the phone to the server and a refusal
  back. `Fresh` says when a phone that has missed something will be excused no more.

**Host.**

* `HostTypeCorrect`: flows stay flows on their way from the editor over the row, the
  frames and the plan. `HostTypeOK` says besides that a game is started only by a
  click (`StartsAreClicked`) and that `cue` points into the script of the plan
  (`CueInGame`). `PlanFromFlow` and `NormalizeForStorage` are folds over a flow: that
  a fold exists and keeps the type of what it folds is shown for the values it takes
  at the first k items (`IsFold`, `FoldExists`), by induction on k in the form
  `CountUp`, which speaks of a set of numbers and needs no operator for a parameter.
* `HostShows`: the property speaks of a host in step with an empty inbox, the
  invariant `HostFollows` of all others. `HostIsLinked` says when the server holds
  the page's socket, `LobbyUntilStart` that a room whose game has not begun is in the
  lobby. `LobbyComes` and `GameComes` (phase, round, content, reveal) say of each
  field of the page that the last frame under way that writes it (`EndsIn`) is of the
  room as it is, or, if none is (`HasNone`), that the page itself has it. `OverOnce`:
  a room has one game, so while it is played its page has not heard of its end, and
  final scores never hide a leaderboard. `Fresh` is
  as on the phone, and so are the lemmas about the script. `FlowComes` says the same
  of the flow, game or not: unless the row's flow is not the one saved last, the last
  snapshot under way has it, or the page.
* `EditsAreStored`: what the row, the engine's copy of it and the tasks hold are
  stored flows (`RowsAreStored`), and a stored flow is a fixed point: shown by the
  editor and normalized again it is the same (`StoredFlowsAreFixed`). That needs the
  time bounds to be multiples of the step; with others a time at a bound would be
  rounded away from it. Hence an editor just opened shows what is stored
  (`OpenedIsStored`, where `FlowComes` says that the snapshot it was opened with is
  the row's). While it is open and quiet, the save numbered `sent` has its flow
  (`LastIsShown`), and either that save or its task is still under way, or the row
  has what it asked for (`LastArrives`); `SavesAreSent` keeps older ones apart.
  `NormalizedIsStoredAs` says of one normalization that the items that can be played
  keep their order, and their times and counts up to the bounds.
* `GamesPlayTheFlow`: a game keeps the plan of the flow it has read, or, if the room
  has had one before, fails (`PlanIsKept`), and `FlowIsPlanned` says what that plan
  is: a round for every question asked for that is there, none twice, one for every
  minigame, in the order of the items. It is shown for the plan of the first k items
  (`PlannedSoFar`): of a theme's questions those above `left` have been handed out,
  each to one round, so the next item's are others (`ThemeHandedOut`), and its rounds
  come last (`OrderKept`). A stored flow that is not empty gives a round at least
  (`SomethingPlanned`), because what is stored is of the catalog. (`Available` is a
  constant: questions that are deleted after a flow was stored are not modelled.)
* `DropsFollow`: for every size of a flow and every number of columns. A place in a
  flow is its row and its place in the row, and no other's (`PlaceOf`); hence the
  scan of `computeDropIndex` stops at the first block that the cursor has not passed
  on the snake (`BeforeIsNotPast`, by cases on the row of the cursor and the
  direction of that row), the blocks it has passed are those before the drop
  (`DropsAtCursor`), and `moveBlock` puts the moved one between them and the others
  (`MovedTo`). `ArrowsFollow` is about the cells of a block and its successor.
* `LeaderboardTells`: `compareLeaderboardPlayers` is a strict order whatever the last
  board was (`StandingsOrdered`), and what `sort()` makes of a set in such an order has
  everyone once and in it (`SortedIs`: the number of those ahead grows along it, so it
  numbers the set). Who passes, on two boards, someone who stays had come after on the
  first and comes first on the second: not by the tie, which the first board decides,
  so by points; the arrow is the difference of two places, and those ahead on both
  boards cancel out (`PassingFollows`). `StandingsFollow` says it for any players and
  points. On the roadmap the questions of the themes before one are the rounds of
  those themes (`ThemeStartIs`, by a sum theme by theme); if the rounds of a theme
  follow each other these are the rounds before its first (`CoveredBefore`), and the
  last new round up to one is the first of its theme (`LastNamed`).

**Minigames.** `InvCorrect`: the inductive invariant of a round is `Inv`, of four parts.

* `Base`: types, the content is the first frame a phone gets, and a phone that is
  offline has nothing under way.
* `LockOK`: unless a frame was lost, at most one answer is under way, and a phone that
  has handed in has it under way, taken, or refused with the refusal under way
  (`OneAnswer`). A save under way is of an answer that was taken (`SavesFollow`).
* `HandedOK`: what is under way, saved or accepted is what the phone shows, in Guess
  the word what the server has judged (`AnswersAreShown`). Without `OneAnswer` a second
  answer could overtake the first.
* `More`: what each game keeps besides. `SlideOK`: the last board under way, or stored,
  is the one on the phone. `LightOK`: the lamps are the dealt ones after the pressed
  switches, each pressed once. `WordOK`: rows are guesses the server has judged.
  `FlightOK`: a flight on the phone is the flight of its plan. `ContentOK`: a content
  of the last round is shown only after a fault. `NoRefusal`: without faults nothing
  is refused.

A step of the phone keeps `Inv` because of what it does to the screen and to the queue
it sends on (`PhoneDid`), shown game by game; the other steps leave the screen alone.

* `KeyboardIsFreedCorrect` and `RoutesAreFlyableCorrect` follow from `Inv`.
  `SolvedIsPaidCorrect`: when the window closes the row holds what the phone shows, and
  what the phone shows is worth points, each game by its own scorer.
* `ReplayIsScoredCorrect`: phone and server fly the same plan, the phone step by step
  and the server to the end (`RunHeadless`). A flight is one flight: a run from a plan
  is determined by it (`RunIsOne`), and what has flown k steps is the run's k-th state
  (`FlownIsRun`).
* `JudgedFairlyCorrect`: the two passes of the judge are folds over the letters. A fold
  is shown to be made turn by turn (`HasTurns`, by `CountUp`), and what a turn keeps is
  a count: the letters of the solution left over are those not yet given to a mark
  (`MarkedOn`). Hence a letter that occurs twice in a guess is marked as often as the
  solution has it, exact places first.
* `DealtFairlyByRule` is `DealtFairly` for light switch (pressing the scrambled
  switches again turns every lamp on, whatever the wiring), vault rush (the clues
  leave one code), guess the word, and balance scale: `EasyBalances` and
  `HardBalances` name the item that levels each layout of the code, `TorqueByItem`
  sums the torque item by item, so that any other option tilts the scale
  (`LevelWithOne`), and cards of one side are counted apart (`StacksApart`).
* `BoardsAreSolvable`: a scrambled sliding puzzle has a way back, since a tile that was
  moved can be moved back (`MovedBack`), for any number of scrambling moves.

These proofs made assumptions be said that the instances had met unnoticed: places in
an airspace are in hundredths of an edge, words are sequences, and there is a try.

Proving the host corrected the model twice: an editor opened between two snapshots had
to count as `raced`, and a random flow has the size that was asked for, clamped,
whatever the size of the palette (`flow.service.ts:79`).

Model-checked only:

* liveness (`GameEnds`, `OfflineResolves`, `HostlessCloses`, `ZombiesAreFreed`,
  `IdleAreClosed`, `SpinnerEnds`), which is out of the prover's reach;
* `DealtFairly` for the sliding puzzle (its boards are proved solvable, but that the
  search finds a way of the fewest moves within `SolverTurns` is a fact about `A*` and
  its queue, found by induction over paths of any length) and for Bonk Air (the
  reference route is flown by a recursion over time, and whether it ends within
  `MaxSimSteps` depends on the airspace).

## 5. Not modelled

* `RateLimiter`, `HostAuthThrottle`: counters per address and socket. They decide
  only whether a message is dropped, which `Gateway` and `LobbyMembership` leave open.
* `RoomBroadcaster`'s cache and its removal of sockets whose send throws: the cache
  is never read, and `ws.send` does not throw.
* `randomizeRoomFlow` (a `setRoomFlow` with a drawn flow), `sendQuestionToRoom`,
  timestamps and `appendUsedQuestionsId` of a room; the ranking of the game-over
  screens; the shuffle of a question's options.
* REST mapping, question management, seeders, migrations, health, QR codes, styles,
  sounds and deployment: plain reads and writes, or no state at all.
* Bonk Air's floating point, canvas, undo and test buttons (in the code, not in the
  page). `ReferenceRoute` has as few moves as the route Dijkstra finds, which weighs
  diagonals.
* The wording and layout of every message and screen.

## 6. Plan

1. `RateLimiter` and `HostAuthThrottle` against the window their comments describe.
2. `DealtFairly` of the sliding puzzle: that the search finds a way back of the fewest
   moves.
