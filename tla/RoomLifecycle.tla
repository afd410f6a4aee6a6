---------------------------- MODULE RoomLifecycle ----------------------------
(***************************************************************************)
(* The life of a room (server/room/room.service.ts, the host and room      *)
(* half of lobby.service.ts, room.controller.ts and the loop of            *)
(* game-engine.service.ts): it is created, its host connects, drops and    *)
(* comes back, its flow is stored, its game starts and ends, and two       *)
(* timers close it: the host's grace and the teardown of an empty room.    *)
(*                                                                         *)
(* Every handler awaits queries, and between two awaits the others run: a  *)
(* handler in flight is a task, with the status of the room entity it has  *)
(* read.  The repository saves a whole entity, so a task that saves for    *)
(* the sake of another column writes that status back as well: the tables  *)
(* are reduced to the status, which is what these saves endanger.  How a   *)
(* player's own row fares is LobbyMembership's subject; here a player has  *)
(* a seat in a room, connected ("on") or waiting for him ("off").          *)
(***************************************************************************)
EXTENDS Naturals, FiniteSets

CONSTANTS
    Rooms, Codes,  \* rooms, and the join codes generateRoomCode() can draw
    MaxHosts,      \* bound: host sockets, numbered as they connect
    Players,
    MinPlayers,    \* ROOM.MIN_PLAYERS_TO_START
    MaxCalls,      \* bound: flow calls, start calls and joins in a behaviour
    None

Hosts == 1..MaxHosts

ASSUME NoHostAssumption == None \notin Hosts \cup Codes \cup Players

VARIABLES
    status,   \* of the row: "none" before the insert, then RoomStatusEnum
    code,     \* the join code of a room, None before it is drawn
    token,    \* the rooms whose host token the registry holds
    host,     \* the registered host socket of a room (_hosts), or None
    link,     \* of a host socket: "new", "asking", "up", "down", "hasty"
    aim,      \* of a host socket: the room its request names, None before it
    seat,     \* of a player in a room: "none", "on", "off"
    sockets,  \* the players registered in a room (_clients)
    grace,    \* rooms with an armed host grace timer
    teardown, \* rooms with an armed teardown timer
    tasks,    \* handlers waiting for a query
    game,     \* the engine's loop for a room: [at, seen, aborted]
    calls,    \* how many of MaxCalls have been made
    rewound,  \* history: rooms whose status a stale save has moved back
    stranded  \* history: rooms left ACTIVE when starting or abandoning them failed

rowVars == <<status, code, rewound, stranded>>
hostVars == <<token, host, link, aim>>
seatVars == <<seat, sockets>>
timerVars == <<grace, teardown>>
vars == <<rowVars, hostVars, seatVars, timerVars, tasks, game, calls>>

Live == {"lobby", "active"}
Terminal == {"finished", "abandoned"}

\* A step of a handler: what it does next, for which room and socket or
\* player, and the status of the entity it holds.
Task(op, r, who, seen) == [op |-> op, room |-> r, who |-> who, seen |-> seen]
Swap(t, next) == tasks' = (tasks \ {t}) \cup next
Idle == [at |-> "none", seen |-> "none", aborted |-> FALSE]

Init ==
    /\ status = [r \in Rooms |-> "none"] /\ code = [r \in Rooms |-> None]
    /\ host = [r \in Rooms |-> None] /\ link = [h \in Hosts |-> "new"]
    /\ aim = [h \in Hosts |-> None]
    /\ seat = [r \in Rooms |-> [p \in Players |-> "none"]]
    /\ sockets = [r \in Rooms |-> {}]
    /\ token = {} /\ grace = {} /\ teardown = {} /\ tasks = {} /\ rewound = {}
    /\ stranded = {}
    /\ game = [r \in Rooms |-> Idle] /\ calls = 0

-----------------------------------------------------------------------------
(* The repository                                                          *)

Rank(s) == CASE s = "none" -> 0 [] s = "lobby" -> 1 [] s = "active" -> 2
             [] OTHER -> 3

\* repository.save() of an entity whose status is s.
Save(r, s) ==
    /\ status' = [status EXCEPT ![r] = s]
    /\ rewound' = IF Rank(s) < Rank(status[r]) THEN rewound \cup {r}
                                               ELSE rewound
    /\ UNCHANGED stranded

Call == calls < MaxCalls /\ calls' = calls + 1

\* findByJoinCode(): the live room of a code.
FindsByCode(r) == status[r] \in Live

\* findByJoinCode() and verifyHostToken(), as the flow and start calls do.
HostMay(r) == FindsByCode(r) /\ r \in token

Playing(r) == game[r].at # "none"
Connected(r) == {p \in Players : seat[r][p] = "on"}

\* maybeTeardownRoom(): arm the timer of a room without sockets.
TeardownIfEmpty(r, left) ==
    IF left = {} /\ host[r] = None THEN teardown \cup {r} ELSE teardown

-----------------------------------------------------------------------------
(* createRoom, setRoomFlow, randomizeRoomFlow                              *)

\* generateUniqueJoinCode(): a code no live room has at this time.
DrawCode(r, c) ==
    /\ code[r] = None
    /\ \A q \in Rooms : code[q] = c => ~FindsByCode(q)
    /\ code' = [code EXCEPT ![r] = c]
    /\ UNCHANGED <<calls, status, rewound, stranded, tasks, game>>
    /\ UNCHANGED <<hostVars, seatVars, timerVars>>

\* The row is inserted; the token is set, and the first flow is on its way.
InsertRoom(r) ==
    /\ code[r] # None /\ status[r] = "none"
    /\ Save(r, "lobby")
    /\ token' = token \cup {r}
    /\ tasks' = tasks \cup {Task("flow", r, None, "lobby")}
    /\ UNCHANGED <<calls, code, host, link, aim, game, seatVars, timerVars>>

AskFlow(r) ==
    /\ Call
    /\ HostMay(r)
    /\ tasks' = tasks \cup {Task("flow", r, None, status[r])}
    /\ UNCHANGED <<game, rowVars, hostVars, seatVars, timerVars>>

\* setGameFlow() of the entity read before the flow was made playable.
StoreFlow(t) ==
    /\ t.op = "flow"
    /\ Save(t.room, t.seen)
    /\ Swap(t, {})
    /\ UNCHANGED <<calls, code, game, hostVars, seatVars, timerVars>>
-----------------------------------------------------------------------------
(* connectHost, and handleDisconnect of a host                             *)

AskHost(h, r) ==
    /\ link[h] = "new" /\ \A g \in 1..(h - 1) : link[g] # "new"
    /\ FindsByCode(r)
    /\ link' = [link EXCEPT ![h] = "asking"] /\ aim' = [aim EXCEPT ![h] = r]
    /\ tasks' = tasks \cup {Task("connect", r, h, status[r])}
    /\ UNCHANGED <<calls, token, host, game, rowVars, seatVars, timerVars>>

\* registerHost(), even of a socket that closed during the query.
RegisterHost(t) ==
    /\ t.op = "connect"
    /\ t.room \in token
    /\ host' = [host EXCEPT ![t.room] = t.who]
    /\ link' = [link EXCEPT ![t.who] = IF @ = "asking" THEN "up" ELSE @]
    /\ grace' = grace \ {t.room} /\ teardown' = teardown \ {t.room}
    /\ Swap(t, {[t EXCEPT !.op = "hostUp"]})
    /\ UNCHANGED <<calls, token, aim, game, rowVars, seatVars>>

\* The token is gone: the gateway closes the socket.
RefuseHost(t) ==
    /\ t.op = "connect"
    /\ t.room \notin token
    /\ link' = [link EXCEPT ![t.who] = "down"]
    /\ Swap(t, {})
    /\ UNCHANGED <<calls, token, host, aim, game, rowVars, seatVars, timerVars>>

\* updateHostSocket(room, connectionId)
SaveHost(t) ==
    /\ t.op = "hostUp"
    /\ Save(t.room, t.seen)
    /\ Swap(t, {})
    /\ UNCHANGED <<calls, code, game, hostVars, seatVars, timerVars>>

\* The socket closes.  Only a registered one has anything to give up.
DropHost(h) ==
    /\ link[h] \in {"asking", "up"}
    /\ link' = [link EXCEPT ![h] = IF @ = "asking" THEN "hasty" ELSE "down"]
    /\ host' = [r \in Rooms |-> IF host[r] = h THEN None ELSE host[r]]
    /\ tasks' = tasks \cup {Task("hostGone", r, h, "none") :
                                r \in {q \in Rooms : host[q] = h}}
    /\ UNCHANGED <<calls, token, aim, game, rowVars, seatVars, timerVars>>

FindGone(t) ==
    /\ t.op = "hostGone"
    /\ Swap(t, {[t EXCEPT !.op = "hostDown", !.seen = status[t.room]]})
    /\ UNCHANGED <<calls, game, rowVars, hostVars, seatVars, timerVars>>

\* Slip: the grace timer is left out when the teardown timer is armed.
SaveGoneOneTimer(t) ==
    /\ t.op = "hostDown"
    /\ Save(t.room, t.seen)
    /\ teardown' = TeardownIfEmpty(t.room, sockets[t.room])
    /\ grace' = IF t.room \in teardown' THEN grace ELSE grace \cup {t.room}
    /\ Swap(t, {})
    /\ UNCHANGED <<calls, code, game, hostVars, seatVars>>

\* updateHostSocket(room, null), armHostGrace(), maybeTeardownRoom()
SaveGone(t) ==
    /\ t.op = "hostDown"
    /\ Save(t.room, t.seen)
    /\ grace' = grace \cup {t.room}
    /\ teardown' = TeardownIfEmpty(t.room, sockets[t.room])
    /\ Swap(t, {})
    /\ UNCHANGED <<calls, code, game, hostVars, seatVars>>
-----------------------------------------------------------------------------
(* expireHostGrace, closeRoom, teardownRoom                                *)

HostGraceFires(r) ==
    /\ r \in grace
    /\ grace' = grace \ {r}
    /\ tasks' = IF host[r] = None
                THEN tasks \cup {Task("expire", r, None, "none")} ELSE tasks
    /\ UNCHANGED <<calls, teardown, game, rowVars, hostVars, seatVars>>

\* Slip: only a room in the lobby is closed, as in teardownRoom().
FindExpiredInLobby(t) ==
    /\ t.op = "expire"
    /\ Swap(t, IF status[t.room] = "lobby" THEN {[t EXCEPT !.op = "close"]}
               ELSE {})
    /\ UNCHANGED <<calls, game, rowVars, hostVars, seatVars, timerVars>>

FindExpired(t) ==
    /\ t.op = "expire"
    /\ Swap(t, IF status[t.room] \in Terminal THEN {}
               ELSE {[t EXCEPT !.op = "close"]})
    /\ UNCHANGED <<calls, game, rowVars, hostVars, seatVars, timerVars>>

\* The players are unregistered before their sockets close, so that no
\* disconnect follows: their rows stay connected.  The engine is not told.
CloseRoom(t) ==
    /\ t.op = "close"
    /\ Save(t.room, "abandoned")
    /\ sockets' = [sockets EXCEPT ![t.room] = {}]
    /\ token' = token \ {t.room}
    /\ teardown' = teardown \ {t.room}
    /\ Swap(t, {})
    /\ UNCHANGED <<calls, code, host, link, aim, seat, grace, game>>

TeardownFires(r) ==
    /\ r \in teardown
    /\ teardown' = teardown \ {r}
    /\ \/ /\ sockets[r] = {} /\ host[r] = None
          /\ token' = token \ {r}
          /\ tasks' = tasks \cup {Task("teardown", r, None, "none")}
       \/ /\ sockets[r] # {} \/ host[r] # None
          /\ UNCHANGED <<token, tasks>>
    /\ UNCHANGED <<calls, host, link, aim, grace, game, rowVars, seatVars>>

FindTorn(t) ==
    /\ t.op = "teardown"
    /\ Swap(t, IF status[t.room] = "lobby" THEN {[t EXCEPT !.op = "tear"]}
               ELSE {})
    /\ UNCHANGED <<calls, game, rowVars, hostVars, seatVars, timerVars>>

SaveTorn(t) ==
    /\ t.op = "tear"
    /\ Save(t.room, "abandoned")
    /\ Swap(t, {})
    /\ UNCHANGED <<calls, code, game, hostVars, seatVars, timerVars>>
-----------------------------------------------------------------------------
(* Players, as far as the room is concerned                                *)

\* joinClient(): a newcomer in the lobby, or one who still has a row.
AskJoin(p, r) ==
    /\ Call
    /\ FindsByCode(r)
    /\ p \notin sockets[r]
    /\ status[r] = "lobby" \/ seat[r][p] # "none"
    /\ tasks' = tasks \cup {Task("join", r, p, "none")}
    /\ UNCHANGED <<game, rowVars, hostVars, seatVars, timerVars>>

Admit(t) ==
    /\ t.op = "join"
    /\ seat' = [seat EXCEPT ![t.room][t.who] = "on"]
    /\ sockets' = [sockets EXCEPT ![t.room] = @ \cup {t.who}]
    /\ teardown' = teardown \ {t.room}
    /\ Swap(t, {})
    /\ UNCHANGED <<calls, grace, game, rowVars, hostVars>>

\* leaveClient() and handleDisconnect() of a player, up to the first await.
Depart(p, r) ==
    /\ p \in sockets[r]
    /\ sockets' = [sockets EXCEPT ![r] = @ \ {p}]
    /\ \E op \in {"leave", "drop"} :
          tasks' = tasks \cup {Task(op, r, p, "none")}
    /\ UNCHANGED <<calls, seat, game, rowVars, hostVars, timerVars>>

\* The row is removed, or saved as disconnected.
Vacate(t) ==
    /\ t.op \in {"leave", "drop"}
    /\ seat' = [seat EXCEPT ![t.room][t.who] =
                   IF t.op = "leave" \/ @ = "none" THEN "none" ELSE "off"]
    /\ Swap(t, {[t EXCEPT !.op = IF @ = "leave" THEN "left" ELSE "dropped"]})
    /\ UNCHANGED <<calls, sockets, game, rowVars, hostVars, timerVars>>

\* maybeAbortGame(); a player who has left leaves an empty room to tear down.
AbortIfDeserted(t) ==
    /\ t.op \in {"left", "dropped"}
    /\ game' = [game EXCEPT ![t.room].aborted =
                   @ \/ (/\ status[t.room] = "active" /\ Playing(t.room)
                         /\ Connected(t.room) = {})]
    /\ teardown' = IF t.op = "left"
                   THEN TeardownIfEmpty(t.room, sockets[t.room]) ELSE teardown
    /\ Swap(t, {})
    /\ UNCHANGED <<calls, grace, rowVars, hostVars, seatVars>>

\* expireGrace(): the seat of a player who did not come back.
ExpireSeat(p, r) ==
    /\ seat[r][p] = "off"
    /\ \A t \in tasks : t.op \in {"drop", "dropped"} => t.who # p
    /\ seat' = [seat EXCEPT ![r][p] = "none"]
    /\ teardown' = TeardownIfEmpty(r, sockets[r])
    /\ UNCHANGED <<calls, sockets, grace, tasks, game, rowVars, hostVars>>
-----------------------------------------------------------------------------
(* startGame and the engine                                                *)

AskStart(r) ==
    /\ Call
    /\ HostMay(r)
    /\ tasks' = tasks \cup {Task("count", r, None, status[r])}
    /\ UNCHANGED <<game, rowVars, hostVars, seatVars, timerVars>>

CountPlayers(t) ==
    /\ t.op = "count"
    /\ Swap(t, IF /\ Cardinality(Connected(t.room)) >= MinPlayers
                  /\ t.seen = "lobby"
               THEN {[t EXCEPT !.op = "start"]} ELSE {})
    /\ UNCHANGED <<calls, game, rowVars, hostVars, seatVars, timerVars>>

\* startRoom(); the state is then built and broadcast.
StartRoom(t) ==
    /\ t.op = "start"
    /\ Save(t.room, "active")
    /\ Swap(t, {[t EXCEPT !.op = "run"]})
    /\ UNCHANGED <<calls, code, game, hostVars, seatVars, timerVars>>

\* buildState() throws: the call is rejected, and the room stays ACTIVE.
StartFails(t) ==
    /\ t.op = "run"
    /\ stranded' = stranded \cup {t.room}
    /\ Swap(t, {})
    /\ UNCHANGED <<calls, status, code, rewound, game>>
    /\ UNCHANGED <<hostVars, seatVars, timerVars>>

\* run() of a room whose game is running is ignored.
RunGame(t) ==
    /\ t.op = "run"
    /\ game' = IF Playing(t.room) THEN game
               ELSE [game EXCEPT ![t.room] = [Idle EXCEPT !.at = "load"]]
    /\ Swap(t, {})
    /\ UNCHANGED <<calls, rowVars, hostVars, seatVars, timerVars>>

LoadRoom(r) ==
    /\ game[r].at = "load"
    /\ game' = [game EXCEPT ![r].at = "play", ![r].seen = status[r]]
    /\ UNCHANGED <<calls, tasks, rowVars, hostVars, seatVars, timerVars>>

\* setCurrentRound(): the entity run() has read is saved again each round.
PlayRound(r) ==
    /\ game[r].at = "play" /\ ~game[r].aborted
    /\ Save(r, game[r].seen)
    /\ UNCHANGED <<calls, code, tasks, game, hostVars, seatVars, timerVars>>

EndGame(r) ==
    /\ game[r].at = "play"
    /\ Save(r, IF game[r].aborted THEN "abandoned" ELSE "finished")
    /\ game' = [game EXCEPT ![r] = Idle]
    /\ UNCHANGED <<calls, code, tasks, hostVars, seatVars, timerVars>>

\* A query or the round builder throws: abandonQuietly() reads the room.
FailGame(r) ==
    /\ game[r].at \in {"load", "play"}
    /\ game' = [game EXCEPT ![r].at = "quit", ![r].seen = status[r]]
    /\ UNCHANGED <<calls, tasks, rowVars, hostVars, seatVars, timerVars>>

\* Slip: the row of a game that failed is left as it is.
AbandonSilently(r) ==
    /\ game[r].at = "quit"
    /\ game' = [game EXCEPT ![r] = Idle]
    /\ UNCHANGED <<calls, tasks, rowVars, hostVars, seatVars, timerVars>>

AbandonQuietly(r) ==
    /\ game[r].at = "quit"
    /\ IF game[r].seen = "active" THEN Save(r, "abandoned")
                                  ELSE UNCHANGED <<status, rewound, stranded>>
    /\ game' = [game EXCEPT ![r] = Idle]
    /\ UNCHANGED <<calls, code, tasks, hostVars, seatVars, timerVars>>

\* A query of abandonQuietly() throws too, which is only logged.
AbandonFails(r) ==
    /\ game[r].at = "quit"
    /\ stranded' = stranded \cup {r}
    /\ game' = [game EXCEPT ![r] = Idle]
    /\ UNCHANGED <<calls, status, code, rewound, tasks>>
    /\ UNCHANGED <<hostVars, seatVars, timerVars>>
-----------------------------------------------------------------------------
TaskStep(t) ==
    \/ StoreFlow(t) \/ RegisterHost(t) \/ RefuseHost(t) \/ SaveHost(t)
    \/ FindGone(t) \/ SaveGone(t) \/ FindExpired(t) \/ CloseRoom(t)
    \/ FindTorn(t) \/ SaveTorn(t) \/ Admit(t) \/ Vacate(t)
    \/ AbortIfDeserted(t) \/ CountPlayers(t) \/ StartRoom(t) \/ StartFails(t)
    \/ RunGame(t)

RoomStep(r) ==
    \/ \E c \in Codes : DrawCode(r, c)
    \/ InsertRoom(r) \/ AskFlow(r) \/ AskStart(r)
    \/ \E h \in Hosts : AskHost(h, r)
    \/ \E p \in Players : AskJoin(p, r) \/ Depart(p, r) \/ ExpireSeat(p, r)
    \/ HostGraceFires(r) \/ TeardownFires(r)
    \/ LoadRoom(r) \/ PlayRound(r) \/ EndGame(r) \/ FailGame(r)
    \/ AbandonQuietly(r) \/ AbandonFails(r)

Next ==
    \/ \E r \in Rooms : RoomStep(r)
    \/ \E t \in tasks : TaskStep(t)
    \/ \E h \in Hosts : DropHost(h)

Spec == Init /\ [][Next]_vars

\* The queries of a host's departure and of the expiry of his grace are
\* answered, and an armed timer fires.
HostTask(t) == t.op \in {"connect", "hostGone", "hostDown", "expire", "close"}
Fairness ==
    \A r \in Rooms :
        /\ WF_vars(HostGraceFires(r))
        /\ WF_vars(\E t \in tasks : t.room = r /\ HostTask(t) /\ TaskStep(t))

FairSpec == Spec /\ Fairness

\* Bound: what follows once a stale save has moved a status back is not
\* explored.  The properties say nothing of such a room.
StatusKept == rewound = {}
-----------------------------------------------------------------------------
(* Properties                                                              *)

Pending(r, ops) == \E t \in tasks : t.room = r /\ t.op \in ops

\* Nobody hosts the room, and one who did has gone.
Hostless(r) == host[r] = None /\ \E h \in Hosts : aim[h] = r /\ link[h] = "down"

\* A room whose host has gone is not forgotten: while its token is held, the
\* grace timer is armed or the handler that arms or serves it is under way,
\* whatever else reads and saves the room at the same time
\* (handleDisconnect, armHostGrace, connectHost, expireHostGrace).
HostlessHasTimer ==
    \A r \in token :
        Hostless(r)
        => \/ r \in grace
           \/ Pending(r, {"connect", "hostGone", "hostDown", "expire", "close"})
           \/ status[r] \in Terminal \/ r \in rewound

\* A room reads ACTIVE only while its game runs or is about to: unless a
\* stale save has moved its status back, a game that fails does not leave its
\* room active with nobody to end it.  Only a failure of the way out itself
\* does: of the query between startRoom() and run(), or of those with which
\* abandonQuietly() answers the first failure (startGame, run,
\* abandonQuietly, finishRoom).
ActiveHasEngine ==
    \A r \in Rooms :
        status[r] = "active" =>
            Playing(r) \/ Pending(r, {"run"}) \/ r \in rewound \cup stranded

\* A live room that loses its host gets one back or ends, unless a stale save
\* moves its status back.  For a stranded room, which no call can start or end,
\* the host's departure is the way out (armHostGrace, expireHostGrace,
\* closeRoom).
HostlessCloses ==
    \A r \in Rooms :
        (status[r] \in Live /\ r \in token /\ Hostless(r))
        ~> (host[r] # None \/ status[r] \in Terminal \/ r \in rewound)
=============================================================================
