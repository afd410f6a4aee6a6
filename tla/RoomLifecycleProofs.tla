------------------------ MODULE RoomLifecycleProofs ------------------------
(***************************************************************************)
(* Proofs about RoomLifecycle for every set of rooms, codes and players    *)
(* and every number of host sockets.  A handler in flight holds an old     *)
(* copy of the row, so the invariants say what it may still hold: nothing  *)
(* ahead of the row, unless the row itself has been moved back.            *)
(***************************************************************************)
EXTENDS RoomLifecycle, TLAPS

Statuses == {"none", "lobby", "active", "finished", "abandoned"}

Ops == {"flow", "connect", "hostUp", "hostGone", "hostDown", "expire", "close",
        "teardown", "tear", "join", "leave", "drop", "left", "dropped",
        "count", "start", "run"}

Handlers == [op : Ops, room : Rooms, who : Hosts \cup Players \cup {None},
             seen : Statuses]

RoomTypeOK ==
    /\ status \in [Rooms -> Statuses]
    /\ token \subseteq Rooms
    /\ host \in [Rooms -> Hosts \cup {None}]
    /\ link \in [Hosts -> {"new", "asking", "up", "down", "hasty"}]
    /\ aim \in [Hosts -> Rooms \cup {None}]
    /\ tasks \subseteq Handlers
    /\ game \in [Rooms -> [at : {"none", "load", "play", "quit"}, seen : Statuses,
                           aborted : BOOLEAN]]

InGame(r) == game[r].at \in {"play", "quit"}

-----------------------------------------------------------------------------
(* Rows: what a save does. *)

LEMMA Ranks ==
    /\ Rank("none") = 0 /\ Rank("lobby") = 1 /\ Rank("active") = 2
    /\ Rank("finished") = 3 /\ Rank("abandoned") = 3
BY DEF Rank

LEMMA RankOrder ==
    ASSUME NEW s \in Statuses
    PROVE  /\ Rank(s) \in Nat
           /\ Rank(s) = 2 => s = "active"
           /\ Rank(s) >= 2 => s = "active" \/ s \in Terminal
           /\ Rank(s) >= 3 <=> s \in Terminal
BY Ranks DEF Statuses, Terminal

\* A save that moves the row back is noted.
LEMMA SaveEffect ==
    ASSUME RoomTypeOK, NEW r \in Rooms, NEW s \in Statuses, Save(r, s)
    PROVE  /\ status' \in [Rooms -> Statuses]
           /\ \A q \in Rooms : status'[q] = IF q = r THEN s ELSE status[q]
           /\ rewound \subseteq rewound'
           /\ \A q \in Rooms : q \in rewound' \/ Rank(status[q]) <= Rank(status'[q])
<1>1. status \in [Rooms -> Statuses]
  BY DEF RoomTypeOK
<1>2. /\ status' \in [Rooms -> Statuses]
      /\ \A q \in Rooms : status'[q] = IF q = r THEN s ELSE status[q]
      /\ rewound \subseteq rewound'
  BY <1>1 DEF Save
<1>3. ASSUME NEW q \in Rooms PROVE q \in rewound' \/ Rank(status[q]) <= Rank(status'[q])
  <2>1. Rank(status[q]) \in Nat /\ Rank(s) \in Nat
    BY <1>1, RankOrder
  <2>2. CASE q = r
    BY <1>2, <2>1, <2>2 DEF Save
  <2>3. CASE q # r
    BY <1>2, <2>1, <2>3
  <2>4. QED
    BY <2>2, <2>3
<1>4. QED
  BY <1>2, <1>3

\* Who writes a row, and what.
RowWritten(r) ==
    \/ \E t \in tasks : /\ t.room = r /\ status'[r] = t.seen
                        /\ t.op \in {"flow", "hostUp", "hostDown"}
    \/ status'[r] \in Terminal
    \/ InsertRoom(r) /\ status'[r] = "lobby"
    \/ \E t \in tasks : t.room = r /\ StartRoom(t) /\ status'[r] = "active"
    \/ /\ game[r].at = "play" /\ status'[r] = game[r].seen
       /\ UNCHANGED game

LEMMA TaskFields ==
    ASSUME RoomTypeOK, NEW t \in tasks
    PROVE  /\ t \in Handlers /\ t.room \in Rooms /\ t.seen \in Statuses /\ t.op \in Ops
           /\ t.who \in Hosts \cup Players \cup {None}
BY DEF RoomTypeOK, Handlers

LEMMA RowMoves ==
    ASSUME RoomTypeOK, [Next]_vars
    PROVE  /\ status' \in [Rooms -> Statuses]
           /\ rewound \subseteq rewound'
           /\ \A r \in Rooms :
                /\ r \in rewound' \/ Rank(status[r]) <= Rank(status'[r])
                /\ status'[r] = status[r] \/ RowWritten(r)
<1> DEFINE Moves == /\ status' \in [Rooms -> Statuses]
                    /\ rewound \subseteq rewound'
                    /\ \A r \in Rooms :
                         /\ r \in rewound' \/ Rank(status[r]) <= Rank(status'[r])
                         /\ status'[r] = status[r] \/ RowWritten(r)
<1>1. ASSUME NEW q \in Rooms, NEW s \in Statuses, Save(q, s),
             s = status'[q] => RowWritten(q)
      PROVE  Moves
  BY <1>1, SaveEffect
<1>2. ASSUME UNCHANGED <<status, rewound>> PROVE Moves
  BY <1>2, RankOrder DEF RoomTypeOK
<1>3. /\ {"lobby", "active", "abandoned", "finished"} \subseteq Statuses
      /\ {"abandoned", "finished"} \subseteq Terminal
  BY DEF Statuses, Terminal
<1>4. ASSUME NEW t \in tasks, StoreFlow(t) \/ SaveHost(t) \/ SaveGone(t) PROVE Moves
  <2>1. Save(t.room, t.seen) /\ t.op \in {"flow", "hostUp", "hostDown"}
    BY <1>4 DEF StoreFlow, SaveHost, SaveGone
  <2>2. QED
    BY <1>1, <2>1, TaskFields DEF RowWritten
<1>5. ASSUME NEW t \in tasks, CloseRoom(t) \/ SaveTorn(t) PROVE Moves
  <2>1. Save(t.room, "abandoned")
    BY <1>5 DEF CloseRoom, SaveTorn
  <2>2. QED
    BY <1>1, <1>3, <2>1, TaskFields DEF RowWritten
<1>6. ASSUME NEW t \in tasks, StartRoom(t) PROVE Moves
  <2>1. Save(t.room, "active")
    BY <1>6 DEF StartRoom
  <2>2. QED
    BY <1>1, <1>3, <1>6, <2>1, TaskFields DEF RowWritten
<1>7. ASSUME NEW r \in Rooms, InsertRoom(r) PROVE Moves
  <2>1. Save(r, "lobby")
    BY <1>7 DEF InsertRoom
  <2>2. QED
    BY <1>1, <1>3, <1>7, <2>1 DEF RowWritten
<1>8. ASSUME NEW r \in Rooms, PlayRound(r) PROVE Moves
  <2>1. Save(r, game[r].seen) /\ game[r].at = "play" /\ UNCHANGED game
    BY <1>8 DEF PlayRound
  <2>2. game[r].seen \in Statuses
    BY DEF RoomTypeOK
  <2>3. QED
    BY <1>1, <2>1, <2>2 DEF RowWritten
<1>9. ASSUME NEW r \in Rooms, EndGame(r) PROVE Moves
  <2>1. PICK s \in {"abandoned", "finished"} : Save(r, s)
    BY <1>9 DEF EndGame
  <2>2. QED
    BY <1>1, <1>3, <2>1 DEF RowWritten
<1>10. ASSUME NEW r \in Rooms, AbandonQuietly(r) PROVE Moves
  <2>1. CASE Save(r, "abandoned")
    BY <1>1, <1>3, <2>1 DEF RowWritten
  <2>2. CASE UNCHANGED <<status, rewound>>
    BY <1>2, <2>2
  <2>3. QED
    BY <1>10, <2>1, <2>2 DEF AbandonQuietly
<1>11. ASSUME NEW t \in tasks,
              \/ RegisterHost(t) \/ RefuseHost(t) \/ FindGone(t) \/ FindExpired(t)
              \/ FindTorn(t) \/ Admit(t) \/ Vacate(t) \/ AbortIfDeserted(t)
              \/ CountPlayers(t) \/ StartFails(t) \/ RunGame(t)
       PROVE  Moves
  BY <1>2, <1>11 DEF RegisterHost, RefuseHost, FindGone, FindExpired, FindTorn, Admit,
                     Vacate, AbortIfDeserted, CountPlayers, StartFails, RunGame,
                     rowVars
<1>12. ASSUME NEW r \in Rooms,
              \/ \E c \in Codes : DrawCode(r, c)
              \/ AskFlow(r) \/ AskStart(r)
              \/ \E h \in Hosts : AskHost(h, r)
              \/ \E p \in Players : AskJoin(p, r) \/ Depart(p, r) \/ ExpireSeat(p, r)
              \/ HostGraceFires(r) \/ TeardownFires(r) \/ LoadRoom(r) \/ FailGame(r)
              \/ AbandonFails(r)
       PROVE  Moves
  BY <1>2, <1>12 DEF DrawCode, AskFlow, AskStart, AskHost, AskJoin, Depart, ExpireSeat,
                     HostGraceFires, TeardownFires, LoadRoom, FailGame, AbandonFails,
                     rowVars
<1>13. ASSUME UNCHANGED vars \/ \E h \in Hosts : DropHost(h) PROVE Moves
  BY <1>2, <1>13 DEF vars, DropHost, rowVars
<1>14. QED
  BY <1>4, <1>5, <1>6, <1>7, <1>8, <1>9, <1>10, <1>11, <1>12, <1>13
     DEF Next, TaskStep, RoomStep
-----------------------------------------------------------------------------
(* Handlers in flight: which begin, and which end. *)

\* Why a handler that was not there before is there now.
TaskBegun(u) ==
    \/ u.op = "flow" /\ u.seen # "none" /\ u.seen = status'[u.room]
    \/ /\ u.op = "connect" /\ u.seen # "none" /\ u.seen = status[u.room]
       /\ u.who \in Hosts /\ AskHost(u.who, u.room)
    \/ \E t \in tasks : /\ RegisterHost(t)
                        /\ u.op = "hostUp" /\ u.room = t.room /\ u.seen = t.seen
    \/ /\ u.op = "hostGone" /\ u.seen = "none"
       /\ u.who \in Hosts /\ DropHost(u.who) /\ host[u.room] = u.who
    \/ /\ u.op = "hostDown" /\ u.seen = status[u.room] /\ UNCHANGED status
       /\ \E t \in tasks : t.op = "hostGone" /\ t.room = u.room
    \/ \E t \in tasks : /\ StartRoom(t)
                        /\ u.op = "run" /\ u.room = t.room /\ u.seen = t.seen
    \/ /\ u.op \notin {"flow", "connect", "hostUp", "hostGone", "hostDown", "run"}
       /\ \/ u.seen = "none" \/ u.seen = status[u.room]
          \/ \E t \in tasks : u.room = t.room /\ u.seen = t.seen

LEMMA HandlerMade ==
    ASSUME NEW o \in Ops, NEW r \in Rooms, NEW w \in Hosts \cup Players \cup {None},
           NEW s \in Statuses
    PROVE  /\ Task(o, r, w, s) \in Handlers
           /\ Task(o, r, w, s).op = o /\ Task(o, r, w, s).room = r
           /\ Task(o, r, w, s).who = w /\ Task(o, r, w, s).seen = s
BY DEF Task, Handlers

LEMMA HandlerGoesOn ==
    ASSUME NEW t \in Handlers, NEW o \in Ops
    PROVE  /\ [t EXCEPT !.op = o] \in Handlers
           /\ [t EXCEPT !.op = o].op = o /\ [t EXCEPT !.op = o].room = t.room
           /\ [t EXCEPT !.op = o].who = t.who /\ [t EXCEPT !.op = o].seen = t.seen
BY DEF Handlers

LEMMA TaskMoves ==
    ASSUME RoomTypeOK, [Next]_vars, NEW u \in tasks' \ tasks
    PROVE  u \in Handlers /\ TaskBegun(u)
<1> DEFINE Goal == u \in Handlers /\ TaskBegun(u)
<1>1. /\ Ops = {"flow", "connect", "hostUp", "hostGone", "hostDown", "expire", "close",
                "teardown", "tear", "join", "leave", "drop", "left", "dropped",
                "count", "start", "run"}
      /\ status \in [Rooms -> Statuses]
      /\ "none" \in Statuses /\ "lobby" \in Statuses
      /\ Live \subseteq Statuses /\ "none" \notin Live
  BY DEF Ops, RoomTypeOK, Statuses, Live
<1>2. ASSUME NEW t \in tasks, NEW next, Swap(t, next) PROVE u \in next
  BY <1>2 DEF Swap
<1>3. ASSUME NEW t \in tasks, NEW next, Swap(t, next), next = {} PROVE FALSE
  BY <1>2, <1>3
<1>4. ASSUME NEW t \in tasks, NEW o \in Ops, u = [t EXCEPT !.op = o]
      PROVE  /\ u \in Handlers /\ u.op = o /\ u.room = t.room /\ u.who = t.who
             /\ u.seen = t.seen
  BY <1>4, TaskFields, HandlerGoesOn
<1>5. ASSUME NEW o \in Ops, NEW r \in Rooms, NEW w \in Hosts \cup Players \cup {None},
             NEW s \in Statuses, u = Task(o, r, w, s)
      PROVE  /\ u \in Handlers /\ u.op = o /\ u.room = r /\ u.who = w /\ u.seen = s
  BY <1>5, HandlerMade
<1>6. ASSUME NEW t \in tasks, RegisterHost(t) PROVE Goal
  <2>1. u = [t EXCEPT !.op = "hostUp"]
    BY <1>2, <1>6 DEF RegisterHost
  <2>2. QED
    BY <1>1, <1>4, <1>6, <2>1 DEF TaskBegun
<1>7. ASSUME NEW t \in tasks, FindGone(t) PROVE Goal
  <2>1. /\ u = [t EXCEPT !.op = "hostDown", !.seen = status[t.room]]
        /\ t.op = "hostGone" /\ UNCHANGED status
    BY <1>2, <1>7 DEF FindGone, rowVars
  <2>2. /\ u \in Handlers /\ u.op = "hostDown" /\ u.room = t.room
        /\ u.seen = status[t.room]
    BY <1>1, <2>1, TaskFields DEF Handlers
  <2>3. QED
    BY <2>1, <2>2 DEF TaskBegun
<1>8. ASSUME NEW t \in tasks, StartRoom(t) PROVE Goal
  <2>1. u = [t EXCEPT !.op = "run"]
    BY <1>2, <1>8 DEF StartRoom
  <2>2. QED
    BY <1>1, <1>4, <1>8, <2>1 DEF TaskBegun
<1>9. ASSUME NEW t \in tasks,
             FindExpired(t) \/ FindTorn(t) \/ CountPlayers(t) \/ Vacate(t)
      PROVE  Goal
  <2>1. \E o \in {"close", "tear", "start", "left", "dropped"} :
          u = [t EXCEPT !.op = o]
    <3>1. CASE FindExpired(t)
      BY <1>2, <3>1 DEF FindExpired
    <3>2. CASE FindTorn(t)
      BY <1>2, <3>2 DEF FindTorn
    <3>3. CASE CountPlayers(t)
      BY <1>2, <3>3 DEF CountPlayers
    <3>4. CASE Vacate(t)
      BY <1>2, <3>4 DEF Vacate
    <3>5. QED
      BY <1>9, <3>1, <3>2, <3>3, <3>4
  <2>2. PICK o \in {"close", "tear", "start", "left", "dropped"} :
          u = [t EXCEPT !.op = o]
    BY <2>1
  <2>3. u \in Handlers /\ u.op = o /\ u.room = t.room /\ u.seen = t.seen
    BY <1>1, <1>4, <2>2
  <2>4. QED
    BY <2>3 DEF TaskBegun
<1>10. ASSUME NEW t \in tasks,
              \/ StoreFlow(t) \/ RefuseHost(t) \/ SaveHost(t) \/ SaveGone(t)
              \/ CloseRoom(t) \/ SaveTorn(t) \/ Admit(t) \/ AbortIfDeserted(t)
              \/ StartFails(t) \/ RunGame(t)
       PROVE  FALSE
  BY <1>3, <1>10 DEF StoreFlow, RefuseHost, SaveHost, SaveGone, CloseRoom, SaveTorn,
                     Admit, AbortIfDeserted, StartFails, RunGame
<1>11. ASSUME NEW r \in Rooms, InsertRoom(r) PROVE Goal
  <2>1. u = Task("flow", r, None, "lobby")
    BY <1>11 DEF InsertRoom
  <2>2. status'[r] = "lobby"
    BY <1>1, <1>11 DEF InsertRoom, Save
  <2>3. QED
    BY <1>1, <1>5, <2>1, <2>2 DEF TaskBegun
<1>12. ASSUME NEW r \in Rooms, AskFlow(r) PROVE Goal
  <2>1. u = Task("flow", r, None, status[r]) /\ status[r] \in Live /\ UNCHANGED status
    BY <1>12 DEF AskFlow, HostMay, FindsByCode, rowVars
  <2>2. QED
    BY <1>1, <1>5, <2>1 DEF TaskBegun
<1>13. ASSUME NEW r \in Rooms, NEW h \in Hosts, AskHost(h, r) PROVE Goal
  <2>1. u = Task("connect", r, h, status[r]) /\ status[r] \in Live
    BY <1>13 DEF AskHost, FindsByCode
  <2>2. QED
    BY <1>1, <1>5, <1>13, <2>1 DEF TaskBegun
<1>14. ASSUME NEW h \in Hosts, DropHost(h) PROVE Goal
  <2>1. PICK r \in Rooms : u = Task("hostGone", r, h, "none") /\ host[r] = h
    BY <1>14 DEF DropHost
  <2>2. QED
    BY <1>1, <1>5, <1>14, <2>1 DEF TaskBegun
<1>15. ASSUME NEW r \in Rooms,
              \/ AskStart(r) \/ HostGraceFires(r) \/ TeardownFires(r)
              \/ \E p \in Players : AskJoin(p, r) \/ Depart(p, r)
       PROVE  Goal
  <2> DEFINE Asked == \E o \in {"count", "expire", "teardown", "join", "leave", "drop"},
                         w \in Players \cup {None}, s \in {"none", status[r]} :
                        u = Task(o, r, w, s)
  <2>1. Asked
    <3>1. CASE AskStart(r)
      BY <3>1 DEF AskStart
    <3>2. CASE HostGraceFires(r)
      BY <3>2 DEF HostGraceFires
    <3>3. CASE TeardownFires(r)
      BY <3>3 DEF TeardownFires
    <3>4. ASSUME NEW p \in Players, AskJoin(p, r) PROVE Asked
      BY <3>4 DEF AskJoin
    <3>5. ASSUME NEW p \in Players, Depart(p, r) PROVE Asked
      BY <3>5 DEF Depart
    <3>6. QED
      BY <1>15, <3>1, <3>2, <3>3, <3>4, <3>5
  <2>2. PICK o \in {"count", "expire", "teardown", "join", "leave", "drop"},
           w \in Players \cup {None}, s \in {"none", status[r]} :
          u = Task(o, r, w, s)
    BY <2>1
  <2>3. u \in Handlers /\ u.op = o /\ u.room = r /\ u.seen = s
    BY <1>1, <1>5, <2>2
  <2>4. QED
    BY <2>3 DEF TaskBegun
<1>16. ASSUME NEW r \in Rooms,
              \/ \E c \in Codes : DrawCode(r, c)
              \/ \E p \in Players : ExpireSeat(p, r)
              \/ LoadRoom(r) \/ PlayRound(r) \/ EndGame(r) \/ FailGame(r)
              \/ AbandonQuietly(r) \/ AbandonFails(r)
       PROVE  FALSE
  BY <1>16 DEF DrawCode, ExpireSeat, LoadRoom, PlayRound, EndGame, FailGame,
               AbandonQuietly, AbandonFails
<1>17. CASE UNCHANGED vars
  BY <1>17 DEF vars
<1>18. QED
  BY <1>6, <1>7, <1>8, <1>9, <1>10, <1>11, <1>12, <1>13, <1>14, <1>15, <1>16, <1>17
     DEF Next, TaskStep, RoomStep

\* A handler leaves only by its own step.
LEMMA TaskEnds ==
    ASSUME [Next]_vars, NEW t \in tasks, t \notin tasks'
    PROVE  TaskStep(t)
<1>1. ASSUME NEW v \in tasks, NEW next, Swap(v, next) PROVE t = v
  BY <1>1 DEF Swap
<1>2. ASSUME NEW v \in tasks, TaskStep(v) PROVE t = v
  BY <1>1, <1>2
     DEF TaskStep, StoreFlow, RegisterHost, RefuseHost, SaveHost, FindGone, SaveGone,
         FindExpired, CloseRoom, FindTorn, SaveTorn, Admit, Vacate, AbortIfDeserted,
         CountPlayers, StartRoom, StartFails, RunGame
<1>3. ASSUME NEW r \in Rooms, RoomStep(r) PROVE FALSE
  BY <1>3 DEF RoomStep, DrawCode, InsertRoom, AskFlow, AskStart, AskHost, AskJoin,
              Depart, ExpireSeat, HostGraceFires, TeardownFires, LoadRoom, PlayRound,
              EndGame, FailGame, AbandonQuietly, AbandonFails
<1>4. ~UNCHANGED vars /\ \A h \in Hosts : ~DropHost(h)
  BY DEF vars, DropHost
<1>5. QED
  BY <1>2, <1>3, <1>4 DEF Next

-----------------------------------------------------------------------------
(* Games and sockets: what a step does to them. *)

GameMoved(r) ==
    \/ game'[r].at = game[r].at /\ game'[r].seen = game[r].seen
    \/ /\ game'[r].at = "load" /\ game[r].at = "none"
       /\ \E t \in tasks : t.room = r /\ t.op = "run" /\ UNCHANGED status
    \/ /\ Playing(r) /\ InGame(r)' /\ game'[r].seen = status[r] /\ UNCHANGED status
    \/ game'[r].at = "none" /\ status'[r] \in Terminal
    \/ /\ game'[r].at = "none" /\ game[r].at = "quit" /\ UNCHANGED status
       /\ game[r].seen # "active" \/ r \in stranded'

LEMMA GameMoves ==
    ASSUME RoomTypeOK, [Next]_vars
    PROVE  /\ game' \in [Rooms -> [at : {"none", "load", "play", "quit"},
                                   seen : Statuses, aborted : BOOLEAN]]
           /\ \A r \in Rooms : GameMoved(r)
<1> DEFINE Games == [at : {"none", "load", "play", "quit"}, seen : Statuses,
                     aborted : BOOLEAN]
           Goal == game' \in [Rooms -> Games] /\ \A r \in Rooms : GameMoved(r)
<1>1. /\ game \in [Rooms -> Games] /\ status \in [Rooms -> Statuses]
      /\ \A r \in Rooms : game[r] \in Games /\ status[r] \in Statuses
      /\ "none" \in Statuses
  BY DEF RoomTypeOK, Statuses
<1>2. ASSUME NEW r \in Rooms, NEW g \in Games, game' = [game EXCEPT ![r] = g],
             GameMoved(r)
      PROVE  Goal
  BY <1>1, <1>2 DEF GameMoved
<1>3. ASSUME UNCHANGED game PROVE Goal
  BY <1>1, <1>3 DEF GameMoved
<1>4. ASSUME NEW t \in tasks, RunGame(t) PROVE Goal
  <2>1. t.room \in Rooms /\ t.op = "run" /\ UNCHANGED status
    BY <1>4, TaskFields DEF RunGame, rowVars
  <2>2. CASE Playing(t.room)
    BY <1>3, <1>4, <2>2 DEF RunGame
  <2>3. CASE ~Playing(t.room)
    <3>1. game' = [game EXCEPT ![t.room] = [Idle EXCEPT !.at = "load"]]
      BY <1>4, <2>3 DEF RunGame
    <3>2. [Idle EXCEPT !.at = "load"] \in Games /\ [Idle EXCEPT !.at = "load"].at = "load"
      BY <1>1 DEF Idle
    <3>3. game'[t.room].at = "load" /\ game[t.room].at = "none"
      BY <1>1, <2>1, <2>3, <3>1, <3>2 DEF Playing
    <3>4. QED
      BY <1>2, <2>1, <3>1, <3>2, <3>3 DEF GameMoved
  <2>4. QED
    BY <2>2, <2>3
<1>5. ASSUME NEW r \in Rooms, LoadRoom(r) \/ FailGame(r) PROVE Goal
  <2>1. PICK at \in {"play", "quit"} :
          game' = [game EXCEPT ![r].at = at, ![r].seen = status[r]]
    BY <1>5 DEF LoadRoom, FailGame
  <2>2. Playing(r) /\ UNCHANGED status
    BY <1>5 DEF LoadRoom, FailGame, Playing, rowVars
  <2>3. [game[r] EXCEPT !.at = at, !.seen = status[r]] \in Games
    BY <1>1
  <2>4. game' = [game EXCEPT ![r] = [game[r] EXCEPT !.at = at, !.seen = status[r]]]
    BY <1>1, <2>1
  <2>5. game'[r].at = at /\ game'[r].seen = status[r]
    BY <1>1, <2>3, <2>4
  <2>6. GameMoved(r)
    BY <2>2, <2>5 DEF GameMoved, InGame
  <2>7. QED
    BY <1>2, <2>3, <2>4, <2>6
<1>6. ASSUME NEW r \in Rooms, EndGame(r) PROVE Goal
  <2>1. status'[r] \in Terminal
    <3>1. PICK s \in {"abandoned", "finished"} : Save(r, s)
      BY <1>6 DEF EndGame
    <3>2. QED
      BY <1>1, <3>1 DEF Save, Terminal
  <2>2. game' = [game EXCEPT ![r] = Idle] /\ Idle \in Games /\ Idle.at = "none"
    BY <1>1, <1>6 DEF EndGame, Idle
  <2>3. GameMoved(r)
    BY <1>1, <2>1, <2>2 DEF GameMoved
  <2>4. QED
    BY <1>2, <2>2, <2>3
<1>7. ASSUME NEW r \in Rooms, AbandonQuietly(r) PROVE Goal
  <2>1. game' = [game EXCEPT ![r] = Idle] /\ Idle \in Games /\ Idle.at = "none"
    BY <1>1, <1>7 DEF AbandonQuietly, Idle
  <2>2. CASE game[r].seen = "active"
    <3>1. status'[r] \in Terminal
      BY <1>1, <1>7, <2>2 DEF AbandonQuietly, Save, Terminal
    <3>2. GameMoved(r)
      BY <1>1, <2>1, <3>1 DEF GameMoved
    <3>3. QED
      BY <1>2, <2>1, <3>2
  <2>3. CASE game[r].seen # "active"
    <3>1. game[r].at = "quit" /\ UNCHANGED status
      BY <1>7, <2>3 DEF AbandonQuietly
    <3>2. GameMoved(r)
      BY <1>1, <2>1, <2>3, <3>1 DEF GameMoved
    <3>3. QED
      BY <1>2, <2>1, <3>2
  <2>4. QED
    BY <2>2, <2>3
<1>7b. ASSUME NEW r \in Rooms, AbandonFails(r) PROVE Goal
  <2>1. game' = [game EXCEPT ![r] = Idle] /\ Idle \in Games /\ Idle.at = "none"
    BY <1>1, <1>7b DEF AbandonFails, Idle
  <2>2. game[r].at = "quit" /\ UNCHANGED status /\ r \in stranded'
    BY <1>7b DEF AbandonFails
  <2>3. GameMoved(r)
    BY <1>1, <2>1, <2>2 DEF GameMoved
  <2>4. QED
    BY <1>2, <2>1, <2>3
<1>8. ASSUME NEW t \in tasks, AbortIfDeserted(t) PROVE Goal
  <2>1. PICK b \in BOOLEAN : game' = [game EXCEPT ![t.room].aborted = b]
    <3>1. game[t.room].aborted \in BOOLEAN
      BY <1>1, TaskFields
    <3>2. QED
      BY <1>8, <3>1 DEF AbortIfDeserted
  <2>2. /\ t.room \in Rooms /\ [game[t.room] EXCEPT !.aborted = b] \in Games
        /\ game' = [game EXCEPT ![t.room] = [game[t.room] EXCEPT !.aborted = b]]
    BY <1>1, <2>1, TaskFields
  <2>3. GameMoved(t.room)
    BY <1>1, <2>2 DEF GameMoved
  <2>4. QED
    BY <1>2, <2>2, <2>3
<1>9. ASSUME NEW t \in tasks, TaskStep(t), ~RunGame(t), ~AbortIfDeserted(t)
      PROVE  UNCHANGED game
  BY <1>9
     DEF TaskStep, StoreFlow, RegisterHost, RefuseHost, SaveHost, FindGone, SaveGone,
         FindExpired, CloseRoom, FindTorn, SaveTorn, Admit, Vacate, CountPlayers,
         StartRoom, StartFails
<1>10. ASSUME NEW r \in Rooms, RoomStep(r),
              ~LoadRoom(r), ~FailGame(r), ~EndGame(r), ~AbandonQuietly(r),
              ~AbandonFails(r)
       PROVE  UNCHANGED game
  BY <1>10
     DEF RoomStep, DrawCode, InsertRoom, AskFlow, AskStart, AskHost, AskJoin, Depart,
         ExpireSeat, HostGraceFires, TeardownFires, PlayRound
<1>11. ASSUME UNCHANGED vars \/ \E h \in Hosts : DropHost(h) PROVE UNCHANGED game
  BY <1>11 DEF vars, DropHost
<1> HIDE DEF Goal
<1>12. Goal
  BY <1>3, <1>4, <1>5, <1>6, <1>7, <1>8, <1>9, <1>10, <1>11, <1>7b DEF Next
<1>13. QED
  BY <1>12 DEF Goal

\* A host's socket, and the registered host of a room.
HostMoved ==
    \/ UNCHANGED <<host, link, aim>>
    \/ \E h \in Hosts, r \in Rooms :
         /\ AskHost(h, r) /\ link[h] = "new" /\ status[r] # "none"
         /\ UNCHANGED host
         /\ link' = [link EXCEPT ![h] = "asking"] /\ aim' = [aim EXCEPT ![h] = r]
    \/ \E t \in tasks :
         /\ RegisterHost(t) /\ t.op = "connect" /\ t \notin tasks'
         /\ host' = [host EXCEPT ![t.room] = t.who] /\ UNCHANGED aim
         /\ link' = [link EXCEPT ![t.who] = IF @ = "asking" THEN "up" ELSE @]
    \/ \E t \in tasks :
         /\ RefuseHost(t) /\ t.op = "connect" /\ t.room \notin token
         /\ UNCHANGED <<host, aim, token>> /\ t \notin tasks'
         /\ link' = [link EXCEPT ![t.who] = "down"]
    \/ \E h \in Hosts :
         /\ DropHost(h) /\ link[h] \in {"asking", "up"}
         /\ link' = [link EXCEPT ![h] = IF @ = "asking" THEN "hasty" ELSE "down"]
         /\ host' = [r \in Rooms |-> IF host[r] = h THEN None ELSE host[r]]
         /\ UNCHANGED aim
         /\ \A r \in Rooms : host[r] = h =>
              \E t \in tasks' : t.op = "hostGone" /\ t.room = r

LEMMA HostMoves ==
    ASSUME RoomTypeOK, [Next]_vars
    PROVE  HostMoved
<1>1. ASSUME NEW t \in tasks, RegisterHost(t) PROVE HostMoved
  <2>1. t \notin tasks'
    <3>1. [t EXCEPT !.op = "hostUp"].op = "hostUp" /\ t.op = "connect"
      BY <1>1, TaskFields, HandlerGoesOn DEF RegisterHost, Ops
    <3>2. QED
      BY <1>1, <3>1 DEF RegisterHost, Swap
  <2>2. QED
    BY <1>1, <2>1 DEF RegisterHost, HostMoved
<1>2. ASSUME NEW t \in tasks, RefuseHost(t) PROVE HostMoved
  BY <1>2 DEF RefuseHost, HostMoved, Swap
<1>3. ASSUME NEW h \in Hosts, DropHost(h) PROVE HostMoved
  <2>1. \A r \in Rooms : host[r] = h => \E t \in tasks' : t.op = "hostGone" /\ t.room = r
    <3>1. \A r \in Rooms : host[r] = h => Task("hostGone", r, h, "none") \in tasks'
      BY <1>3 DEF DropHost
    <3>2. \A r \in Rooms : /\ Task("hostGone", r, h, "none").op = "hostGone"
                           /\ Task("hostGone", r, h, "none").room = r
      BY DEF Task
    <3>3. QED
      BY <3>1, <3>2
  <2>2. QED
    BY <1>3, <2>1 DEF DropHost, HostMoved
<1>4. ASSUME NEW h \in Hosts, NEW r \in Rooms, AskHost(h, r) PROVE HostMoved
  <2>1. status[r] # "none"
    BY <1>4 DEF AskHost, FindsByCode, Live
  <2>2. QED
    BY <1>4, <2>1 DEF AskHost, HostMoved
<1>5. ASSUME NEW t \in tasks, TaskStep(t), ~RegisterHost(t), ~RefuseHost(t)
      PROVE  UNCHANGED <<host, link, aim>>
  BY <1>5
     DEF TaskStep, StoreFlow, SaveHost, FindGone, SaveGone, FindExpired, CloseRoom,
         FindTorn, SaveTorn, Admit, Vacate, AbortIfDeserted, CountPlayers, StartRoom, StartFails,
         RunGame, hostVars
<1>6. ASSUME NEW r \in Rooms, RoomStep(r), ~(\E h \in Hosts : AskHost(h, r))
      PROVE  UNCHANGED <<host, link, aim>>
  BY <1>6
     DEF RoomStep, DrawCode, InsertRoom, AskFlow, AskStart, AskJoin, Depart,
         ExpireSeat, HostGraceFires, TeardownFires, LoadRoom, PlayRound, EndGame,
         FailGame, AbandonQuietly, AbandonFails, hostVars
<1>7. CASE UNCHANGED vars
  BY <1>7 DEF vars, hostVars, HostMoved
<1>8. QED
  BY <1>1, <1>2, <1>3, <1>4, <1>5, <1>6, <1>7 DEF Next, HostMoved

\* A room gets its token when it is inserted.
LEMMA TokenMoves ==
    ASSUME [Next]_vars, NEW r \in token'
    PROVE  r \in token \/ (r \in Rooms /\ InsertRoom(r) /\ status[r] = "none")
<1>1. ASSUME NEW q \in Rooms, InsertRoom(q)
      PROVE  r \in token \/ (r \in Rooms /\ InsertRoom(r) /\ status[r] = "none")
  BY <1>1 DEF InsertRoom
<1>2. ASSUME NEW q \in Rooms, RoomStep(q), ~InsertRoom(q) PROVE r \in token
  BY <1>2
     DEF RoomStep, DrawCode, AskFlow, AskStart, AskHost, AskJoin, Depart,
         ExpireSeat, HostGraceFires, TeardownFires, LoadRoom, PlayRound, EndGame,
         FailGame, AbandonQuietly, AbandonFails, hostVars
<1>3. ASSUME NEW t \in tasks, TaskStep(t) PROVE r \in token
  BY <1>3
     DEF TaskStep, StoreFlow, RegisterHost, RefuseHost, SaveHost, FindGone, SaveGone,
         FindExpired, CloseRoom, FindTorn, SaveTorn, Admit, Vacate, AbortIfDeserted,
         CountPlayers, StartRoom, StartFails, RunGame, hostVars
<1>4. CASE UNCHANGED vars \/ \E h \in Hosts : DropHost(h)
  BY <1>4 DEF vars, DropHost, hostVars
<1>5. QED
  BY <1>1, <1>2, <1>3, <1>4 DEF Next

-----------------------------------------------------------------------------
(* The inductive invariant. *)

\* Nothing is written or played of a room without a row, and its row is never
\* written as absent.
RowsExist ==
    /\ \A t \in tasks :
          /\ t.op \in {"flow", "connect", "hostUp", "hostDown"} => t.seen # "none"
          /\ t.op \in {"hostGone", "run"} => status[t.room] # "none"
    /\ \A r \in Rooms :
          /\ Playing(r) => status[r] # "none"
          /\ InGame(r) => game[r].seen # "none"
    /\ \A h \in Hosts : link[h] # "new" => aim[h] \in Rooms /\ status[aim[h]] # "none"

\* What a handler or the engine has read of a row is not ahead of it.
ReadsAreOld ==
    /\ \A t \in tasks : t.room \in rewound \/ Rank(t.seen) <= Rank(status[t.room])
    /\ \A r \in Rooms :
          InGame(r) => r \in rewound \/ Rank(game[r].seen) <= Rank(status[r])

\* A game runs, or is about to, only in a room that has been started.
GamesAreStarted ==
    \A r \in Rooms \ rewound :
       /\ Playing(r) \/ Pending(r, {"run"}) => Rank(status[r]) >= 2
       /\ InGame(r) => Rank(game[r].seen) >= 2

\* A registered socket is a host's of that room, and one that was displaced
\* leaves the room hosted, or has seen its successor go.
HostsAreLinked ==
    /\ \A r \in Rooms : host[r] # None =>
          /\ host[r] \in Hosts /\ aim[host[r]] = r
          /\ link[host[r]] \in {"up", "hasty"}
    /\ \A h \in Hosts : link[h] = "up" =>
          \/ host[aim[h]] # None
          \/ \E g \in Hosts : aim[g] = aim[h] /\ link[g] = "down"

\* A socket connects once, and is not registered before.
ConnectsAreOwn ==
    \A t \in tasks : t.op = "connect" =>
       /\ t.who \in Hosts /\ aim[t.who] = t.room
       /\ link[t.who] \in {"asking", "hasty"}
       /\ host[t.room] # t.who
       /\ \A u \in tasks : u.op = "connect" /\ u.who = t.who => u = t

RoomInv ==
    RoomTypeOK /\ RowsExist /\ ReadsAreOld /\ GamesAreStarted /\ HostsAreLinked
      /\ ConnectsAreOwn

LEMMA RoomTypeKept ==
    ASSUME RoomTypeOK, ConnectsAreOwn, [Next]_vars
    PROVE  RoomTypeOK'
<1>1. /\ status' \in [Rooms -> Statuses]
      /\ game' \in [Rooms -> [at : {"none", "load", "play", "quit"}, seen : Statuses,
                              aborted : BOOLEAN]]
  BY RowMoves, GameMoves
<1>2. tasks' \subseteq Handlers
  BY TaskMoves DEF RoomTypeOK
<1>3. token' \subseteq Rooms
  BY TokenMoves DEF RoomTypeOK
<1>4. /\ host' \in [Rooms -> Hosts \cup {None}]
      /\ link' \in [Hosts -> {"new", "asking", "up", "down", "hasty"}]
      /\ aim' \in [Hosts -> Rooms \cup {None}]
  BY HostMoves DEF HostMoved, RoomTypeOK, ConnectsAreOwn
<1>5. QED
  BY <1>1, <1>2, <1>3, <1>4 DEF RoomTypeOK

LEMMA RowsKept ==
    ASSUME RoomInv, [Next]_vars
    PROVE  RowsExist'
<1>1. RoomTypeOK /\ RowsExist /\ HostsAreLinked
  BY DEF RoomInv
<1>2. ASSUME NEW r \in Rooms, status[r] # "none" PROVE status'[r] # "none"
  BY <1>1, <1>2, RowMoves DEF RowWritten, Terminal, RowsExist, InGame
<1>3. ASSUME NEW t \in tasks'
      PROVE  /\ t.op \in {"flow", "connect", "hostUp", "hostDown"} => t.seen # "none"
             /\ t.op \in {"hostGone", "run"} => status'[t.room] # "none"
  <2>1. CASE t \in tasks
    BY <1>1, <1>2, <2>1, TaskFields DEF RowsExist
  <2>2. CASE t \notin tasks
    <3>1. t.room \in Rooms /\ TaskBegun(t)
      BY <1>1, <2>2, TaskMoves DEF Handlers
    <3>2. ASSUME t.op = "hostUp" PROVE t.seen # "none"
      BY <1>1, <3>1, <3>2 DEF TaskBegun, RegisterHost, RowsExist
    <3>3. ASSUME t.op = "hostDown" PROVE t.seen # "none"
      BY <1>1, <3>1, <3>3 DEF TaskBegun, RowsExist
    <3>4. ASSUME t.op = "hostGone" PROVE status[t.room] # "none"
      <4>1. /\ t.who \in Hosts /\ host[t.room] = t.who
        BY <3>1, <3>4 DEF TaskBegun
      <4>2. aim[t.who] = t.room /\ link[t.who] # "new"
        BY <1>1, <3>1, <4>1, NoHostAssumption DEF HostsAreLinked
      <4>3. QED
        BY <1>1, <4>1, <4>2 DEF RowsExist
    <3>5. ASSUME t.op = "run" PROVE status'[t.room] # "none"
      <4>1. PICK u \in tasks : StartRoom(u) /\ t.room = u.room
        BY <3>1, <3>5 DEF TaskBegun
      <4>2. QED
        BY <1>1, <3>1, <4>1 DEF StartRoom, Save, RoomTypeOK
    <3>6. QED
      BY <1>2, <3>1, <3>2, <3>3, <3>4, <3>5 DEF TaskBegun
  <2>3. QED
    BY <2>1, <2>2
<1>4. ASSUME NEW r \in Rooms
      PROVE  /\ Playing(r)' => status'[r] # "none"
             /\ InGame(r)' => game'[r].seen # "none"
  <2>1. GameMoved(r)
    BY <1>1, GameMoves
  <2>2. Playing(r)' => status[r] # "none"
    BY <1>1, <2>1 DEF GameMoved, Playing, RowsExist
  <2>3. InGame(r)' => game'[r].seen # "none"
    BY <1>1, <2>1 DEF GameMoved, Playing, InGame, RowsExist
  <2>4. QED
    BY <1>2, <2>2, <2>3
<1>5. ASSUME NEW h \in Hosts, link'[h] # "new"
      PROVE  aim'[h] \in Rooms /\ status'[aim'[h]] # "none"
  <2>1. /\ link \in [Hosts -> {"new", "asking", "up", "down", "hasty"}]
        /\ aim \in [Hosts -> Rooms \cup {None}]
        /\ link[h] # "new" => aim[h] \in Rooms /\ status[aim[h]] # "none"
    BY <1>1 DEF RoomTypeOK, RowsExist
  <2>2. CASE link[h] # "new" /\ aim'[h] = aim[h]
    BY <1>2, <2>1, <2>2
  <2>3. ASSUME NEW g \in Hosts, NEW r \in Rooms, link[g] = "new", status[r] # "none",
               link' = [link EXCEPT ![g] = "asking"], aim' = [aim EXCEPT ![g] = r]
        PROVE  (link[h] # "new" /\ aim'[h] = aim[h]) \/ aim'[h] = r
    BY <1>5, <2>1, <2>3
  <2>4. ASSUME NEW t \in tasks, t.op = "connect", UNCHANGED aim,
               \/ link' = [link EXCEPT ![t.who] = "down"]
               \/ link' = [link EXCEPT ![t.who] = IF @ = "asking" THEN "up" ELSE @]
        PROVE  link[h] # "new" /\ aim'[h] = aim[h]
    BY <1>1, <1>5, <2>1, <2>4 DEF RoomInv, ConnectsAreOwn
  <2>5. ASSUME NEW g \in Hosts, link[g] \in {"asking", "up"}, UNCHANGED aim,
               link' = [link EXCEPT ![g] = IF @ = "asking" THEN "hasty" ELSE "down"]
        PROVE  link[h] # "new" /\ aim'[h] = aim[h]
    BY <1>5, <2>1, <2>5
  <2>6. CASE UNCHANGED <<host, link, aim>>
    BY <1>5, <2>2, <2>6
  <2>7. QED
    BY <1>1, <1>2, <2>2, <2>3, <2>4, <2>5, <2>6, HostMoves DEF HostMoved
<1>6. QED
  BY <1>3, <1>4, <1>5 DEF RowsExist

LEMMA ReadsKept ==
    ASSUME RoomInv, [Next]_vars
    PROVE  ReadsAreOld'
<1>1. RoomTypeOK /\ ReadsAreOld
  BY DEF RoomInv
<1>2. /\ status \in [Rooms -> Statuses] /\ status' \in [Rooms -> Statuses]
      /\ rewound \subseteq rewound'
      /\ \A r \in Rooms : r \in rewound' \/ Rank(status[r]) <= Rank(status'[r])
      /\ \A s \in Statuses : Rank(s) \in Nat
  BY <1>1, RowMoves, RankOrder DEF RoomTypeOK
<1>3. ASSUME NEW r \in Rooms, NEW s \in Statuses,
             \/ r \in rewound \/ Rank(s) <= Rank(status[r])
             \/ s = status[r] \/ s = status'[r] \/ s = "none"
      PROVE  r \in rewound' \/ Rank(s) <= Rank(status'[r])
  <2>1. /\ Rank(s) \in Nat /\ Rank(status[r]) \in Nat /\ Rank(status'[r]) \in Nat
        /\ Rank("none") = 0
    BY <1>2, Ranks
  <2>2. QED
    BY <1>2, <1>3, <2>1
<1>4. ASSUME NEW t \in tasks'
      PROVE  t.room \in rewound' \/ Rank(t.seen) <= Rank(status'[t.room])
  <2>1. t \in Handlers /\ t.room \in Rooms /\ t.seen \in Statuses
    BY <1>1, TaskMoves, TaskFields DEF Handlers
  <2>2. CASE t \in tasks
    BY <1>1, <1>3, <2>1, <2>2 DEF ReadsAreOld
  <2>3. CASE t \notin tasks
    <3>1. \/ t.seen \in {"none", status[t.room], status'[t.room]}
          \/ \E u \in tasks : t.room = u.room /\ t.seen = u.seen
      BY <1>1, <2>3, TaskMoves DEF TaskBegun
    <3>2. QED
      BY <1>1, <1>3, <2>1, <3>1 DEF ReadsAreOld
  <2>4. QED
    BY <2>2, <2>3
<1>5. ASSUME NEW r \in Rooms, InGame(r)'
      PROVE  r \in rewound' \/ Rank(game'[r].seen) <= Rank(status'[r])
  <2>1. game'[r].seen \in Statuses /\ GameMoved(r)
    BY <1>1, GameMoves
  <2>2. game'[r].seen = status[r] \/ (InGame(r) /\ game'[r].seen = game[r].seen)
    BY <1>5, <2>1 DEF GameMoved, InGame
  <2>3. QED
    BY <1>1, <1>3, <2>1, <2>2 DEF ReadsAreOld
<1>6. QED
  BY <1>4, <1>5 DEF ReadsAreOld

LEMMA GamesKept ==
    ASSUME RoomInv, [Next]_vars
    PROVE  GamesAreStarted'
<1>1. RoomTypeOK /\ GamesAreStarted
  BY DEF RoomInv
<1>2. /\ status \in [Rooms -> Statuses] /\ status' \in [Rooms -> Statuses]
      /\ rewound \subseteq rewound'
      /\ \A r \in Rooms : r \in rewound' \/ Rank(status[r]) <= Rank(status'[r])
      /\ \A s \in Statuses : Rank(s) \in Nat
  BY <1>1, RowMoves, RankOrder DEF RoomTypeOK
<1>3. ASSUME NEW r \in Rooms \ rewound'
      PROVE  /\ Playing(r)' \/ Pending(r, {"run"})' => Rank(status'[r]) >= 2
             /\ InGame(r)' => Rank(game'[r].seen) >= 2
  <2>1. /\ r \in Rooms \ rewound /\ GameMoved(r)
        /\ Rank(status[r]) <= Rank(status'[r])
        /\ Rank(status[r]) \in Nat /\ Rank(status'[r]) \in Nat
        /\ game[r].seen \in Statuses
    BY <1>1, <1>2, GameMoves DEF RoomTypeOK
  <2>2. ASSUME Playing(r) \/ Pending(r, {"run"}) PROVE Rank(status'[r]) >= 2
    BY <1>1, <2>1, <2>2 DEF GamesAreStarted
  <2>3. ASSUME Playing(r)' PROVE Playing(r) \/ Pending(r, {"run"})
    BY <2>1, <2>3 DEF GameMoved, Playing, Pending
  <2>4. ASSUME Pending(r, {"run"})', ~Pending(r, {"run"}) PROVE Rank(status'[r]) >= 2
    <3>1. PICK u \in tasks' \ tasks : u.room = r /\ u.op = "run"
      BY <2>4 DEF Pending
    <3>2. PICK t \in tasks : StartRoom(t) /\ r = t.room
      BY <1>1, <3>1, TaskMoves DEF TaskBegun
    <3>3. status'[r] = "active"
      BY <1>1, <2>1, <3>2 DEF StartRoom, Save, RoomTypeOK
    <3>4. QED
      BY <3>3, Ranks
  <2>5. ASSUME InGame(r)' PROVE Rank(game'[r].seen) >= 2
    <3>1. CASE InGame(r) /\ game'[r].seen = game[r].seen
      BY <1>1, <2>1, <3>1 DEF GamesAreStarted
    <3>2. CASE Playing(r) /\ game'[r].seen = status[r]
      BY <1>1, <2>1, <3>2 DEF GamesAreStarted
    <3>3. QED
      BY <2>1, <2>5, <3>1, <3>2 DEF GameMoved, InGame
  <2>6. QED
    BY <2>2, <2>3, <2>4, <2>5
<1>4. QED
  BY <1>3 DEF GamesAreStarted

LEMMA ConnectsKept ==
    ASSUME RoomInv, [Next]_vars
    PROVE  ConnectsAreOwn'
<1>1. RoomTypeOK /\ ConnectsAreOwn /\ HostsAreLinked
  BY DEF RoomInv
<1>2. /\ link \in [Hosts -> {"new", "asking", "up", "down", "hasty"}]
      /\ aim \in [Hosts -> Rooms \cup {None}] /\ host \in [Rooms -> Hosts \cup {None}]
      /\ None \notin Hosts
  BY <1>1, NoHostAssumption DEF RoomTypeOK
\* Only the request of a new socket begins a connect.
<1>3. ASSUME NEW t \in tasks' \ tasks, t.op = "connect"
      PROVE  /\ t.who \in Hosts /\ t.room \in Rooms /\ link[t.who] = "new"
             /\ link'[t.who] = "asking" /\ aim'[t.who] = t.room /\ UNCHANGED host
             /\ tasks' = tasks \cup {t}
  <2>1. t.who \in Hosts /\ t.room \in Rooms /\ AskHost(t.who, t.room)
    BY <1>1, <1>3, TaskMoves DEF TaskBegun, Handlers
  <2>2. QED
    BY <1>2, <1>3, <2>1 DEF AskHost
<1>4. ASSUME NEW t \in tasks, t.op = "connect", t \in tasks'
      PROVE  /\ t.who \in Hosts /\ aim'[t.who] = t.room
             /\ link'[t.who] \in {"asking", "hasty"} /\ host'[t.room] # t.who
  <2> DEFINE Own == /\ t.who \in Hosts /\ aim'[t.who] = t.room
                    /\ link'[t.who] \in {"asking", "hasty"} /\ host'[t.room] # t.who
  <2>1. /\ t.who \in Hosts /\ aim[t.who] = t.room /\ t.room \in Rooms
        /\ link[t.who] \in {"asking", "hasty"} /\ host[t.room] # t.who
        /\ \A u \in tasks : u.op = "connect" /\ u.who = t.who => u = t
    BY <1>1, <1>4, TaskFields DEF ConnectsAreOwn
  <2>2. CASE UNCHANGED <<host, link, aim>>
    BY <2>1, <2>2
  <2>3. ASSUME NEW h \in Hosts, NEW r \in Rooms, link[h] = "new", UNCHANGED host,
               link' = [link EXCEPT ![h] = "asking"], aim' = [aim EXCEPT ![h] = r]
        PROVE  Own
    BY <1>2, <2>1, <2>3
  <2>4. ASSUME NEW u \in tasks, u.op = "connect", u \notin tasks', UNCHANGED aim,
               \/ /\ host' = [host EXCEPT ![u.room] = u.who]
                  /\ link' = [link EXCEPT ![u.who] = IF @ = "asking" THEN "up" ELSE @]
               \/ UNCHANGED host /\ link' = [link EXCEPT ![u.who] = "down"]
        PROVE  Own
    <3>1. u.who # t.who
      BY <1>4, <2>1, <2>4
    <3>2. QED
      BY <1>2, <2>1, <2>4, <3>1
  <2>5. ASSUME NEW h \in Hosts, UNCHANGED aim,
               host' = [r \in Rooms |-> IF host[r] = h THEN None ELSE host[r]],
               link' = [link EXCEPT ![h] = IF @ = "asking" THEN "hasty" ELSE "down"],
               link[h] \in {"asking", "up"}
        PROVE  Own
    BY <1>2, <2>1, <2>5
  <2>6. QED
    BY <1>1, <2>2, <2>3, <2>4, <2>5, HostMoves DEF HostMoved
<1>5. ASSUME NEW t \in tasks', t.op = "connect"
      PROVE  /\ t.who \in Hosts /\ aim'[t.who] = t.room
             /\ link'[t.who] \in {"asking", "hasty"} /\ host'[t.room] # t.who
  <2>1. CASE t \in tasks
    BY <1>4, <1>5, <2>1
  <2>2. CASE t \notin tasks
    BY <1>1, <1>2, <1>3, <1>5, <2>2 DEF HostsAreLinked
  <2>3. QED
    BY <2>1, <2>2
<1>6. ASSUME NEW t \in tasks', NEW u \in tasks', t.op = "connect", u.op = "connect",
             u.who = t.who
      PROVE  u = t
  <2>1. \A v \in tasks : v.op = "connect" => link[v.who] # "new"
    BY <1>1 DEF ConnectsAreOwn
  <2>2. CASE t \notin tasks \/ u \notin tasks
    BY <1>3, <1>6, <2>1, <2>2
  <2>3. CASE t \in tasks /\ u \in tasks
    BY <1>1, <1>6, <2>3 DEF ConnectsAreOwn
  <2>4. QED
    BY <2>2, <2>3
<1>7. QED
  BY <1>5, <1>6 DEF ConnectsAreOwn

LEMMA LinksKept ==
    ASSUME RoomInv, [Next]_vars
    PROVE  HostsAreLinked'
<1>1. RoomTypeOK /\ HostsAreLinked /\ ConnectsAreOwn
  BY DEF RoomInv
<1>2. /\ link \in [Hosts -> {"new", "asking", "up", "down", "hasty"}]
      /\ aim \in [Hosts -> Rooms \cup {None}] /\ host \in [Rooms -> Hosts \cup {None}]
      /\ None \notin Hosts
      /\ \A h \in Hosts : link[h] # "new" => aim[h] \in Rooms
  BY <1>1, NoHostAssumption DEF RoomTypeOK, RoomInv, RowsExist
<1>3. CASE UNCHANGED <<host, link, aim>>
  BY <1>1, <1>3 DEF HostsAreLinked
<1>4. ASSUME NEW h \in Hosts, NEW r \in Rooms, link[h] = "new", UNCHANGED host,
             link' = [link EXCEPT ![h] = "asking"], aim' = [aim EXCEPT ![h] = r]
      PROVE  HostsAreLinked'
  <2>1. \A g \in Hosts : g # h => link'[g] = link[g] /\ aim'[g] = aim[g]
    BY <1>2, <1>4
  <2>2. link'[h] = "asking"
    BY <1>2, <1>4
  <2>3. QED
    BY <1>1, <1>4, <2>1, <2>2 DEF HostsAreLinked
<1>5. ASSUME NEW t \in tasks, t.op = "connect", UNCHANGED aim,
             host' = [host EXCEPT ![t.room] = t.who],
             link' = [link EXCEPT ![t.who] = IF @ = "asking" THEN "up" ELSE @]
      PROVE  HostsAreLinked'
  <2>1. /\ t.room \in Rooms /\ t.who \in Hosts /\ aim[t.who] = t.room
        /\ link[t.who] \in {"asking", "hasty"}
    BY <1>1, <1>5, TaskFields DEF ConnectsAreOwn
  <2>2. link'[t.who] \in {"up", "hasty"} /\ \A g \in Hosts : g # t.who => link'[g] = link[g]
    BY <1>2, <1>5, <2>1
  <2>3. host'[t.room] = t.who /\ \A r \in Rooms : r # t.room => host'[r] = host[r]
    BY <1>2, <1>5, <2>1
  <2>4. ASSUME NEW r \in Rooms, host'[r] # None
        PROVE  /\ host'[r] \in Hosts /\ aim'[host'[r]] = r
               /\ link'[host'[r]] \in {"up", "hasty"}
    BY <1>1, <1>5, <2>1, <2>2, <2>3, <2>4 DEF HostsAreLinked
  <2>5. ASSUME NEW h \in Hosts, link'[h] = "up"
        PROVE  \/ host'[aim'[h]] # None
               \/ \E g \in Hosts : aim'[g] = aim'[h] /\ link'[g] = "down"
    <3>1. CASE aim[h] = t.room
      BY <1>2, <1>5, <2>1, <2>3, <3>1
    <3>2. CASE aim[h] # t.room
      <4>1. h # t.who /\ link[h] = "up" /\ aim[h] \in Rooms
        BY <1>2, <2>1, <2>2, <2>5, <3>2
      <4>2. host'[aim[h]] = host[aim[h]]
        BY <2>3, <3>2, <4>1
      <4>3. \A g \in Hosts : link[g] = "down" => link'[g] = "down"
        BY <2>1, <2>2
      <4>4. QED
        BY <1>1, <1>5, <4>1, <4>2, <4>3 DEF HostsAreLinked
    <3>3. QED
      BY <3>1, <3>2
  <2>6. QED
    BY <2>4, <2>5 DEF HostsAreLinked
<1>6. ASSUME NEW t \in tasks, t.op = "connect", UNCHANGED <<host, aim>>,
             link' = [link EXCEPT ![t.who] = "down"]
      PROVE  HostsAreLinked'
  <2>1. /\ t.room \in Rooms /\ t.who \in Hosts /\ aim[t.who] = t.room
        /\ link[t.who] \in {"asking", "hasty"} /\ host[t.room] # t.who
    BY <1>1, <1>6, TaskFields DEF ConnectsAreOwn
  <2>2. link'[t.who] = "down" /\ \A g \in Hosts : g # t.who => link'[g] = link[g]
    BY <1>2, <1>6, <2>1
  <2>3. \A r \in Rooms : host[r] # t.who
    BY <1>1, <1>2, <2>1 DEF HostsAreLinked
  <2>4. QED
    BY <1>1, <1>6, <2>2, <2>3 DEF HostsAreLinked
<1>7. ASSUME NEW h \in Hosts, UNCHANGED aim, link[h] \in {"asking", "up"},
             host' = [r \in Rooms |-> IF host[r] = h THEN None ELSE host[r]],
             link' = [link EXCEPT ![h] = IF @ = "asking" THEN "hasty" ELSE "down"]
      PROVE  HostsAreLinked'
  <2>1. /\ link'[h] = (IF link[h] = "asking" THEN "hasty" ELSE "down")
        /\ \A g \in Hosts : g # h => link'[g] = link[g]
    BY <1>2, <1>7
  <2>2. ASSUME NEW r \in Rooms, host'[r] # None
        PROVE  /\ host'[r] \in Hosts /\ aim'[host'[r]] = r
               /\ link'[host'[r]] \in {"up", "hasty"}
    <3>1. host'[r] = host[r] /\ host[r] # h /\ host[r] # None
      BY <1>7, <2>2
    <3>2. QED
      BY <1>1, <1>7, <2>1, <3>1 DEF HostsAreLinked
  <2>3. ASSUME NEW g \in Hosts, link'[g] = "up"
        PROVE  \/ host'[aim'[g]] # None
               \/ \E f \in Hosts : aim'[f] = aim'[g] /\ link'[f] = "down"
    <3>1. g # h /\ link[g] = "up" /\ aim[g] \in Rooms
      BY <1>2, <2>1, <2>3
    <3>2. CASE host[aim[g]] = h
      <4>1. aim[h] = aim[g] /\ link[h] = "up"
        BY <1>1, <1>2, <1>7, <3>1, <3>2 DEF HostsAreLinked
      <4>2. QED
        BY <1>7, <2>1, <4>1
    <3>3. CASE host[aim[g]] # h /\ host[aim[g]] # None
      BY <1>7, <3>1, <3>3
    <3>4. ASSUME NEW f \in Hosts, aim[f] = aim[g], link[f] = "down"
          PROVE  aim'[f] = aim'[g] /\ link'[f] = "down"
      BY <1>7, <2>1, <3>4
    <3>5. QED
      BY <1>1, <3>1, <3>2, <3>3, <3>4 DEF HostsAreLinked
  <2>4. QED
    BY <2>2, <2>3 DEF HostsAreLinked
<1>8. QED
  BY <1>1, <1>3, <1>4, <1>5, <1>6, <1>7, HostMoves DEF HostMoved

LEMMA RoomInvInit == Init => RoomInv
<1> SUFFICES ASSUME Init PROVE RoomInv
  OBVIOUS
<1>1. /\ status = [r \in Rooms |-> "none"] /\ host = [r \in Rooms |-> None]
      /\ link = [h \in Hosts |-> "new"] /\ aim = [h \in Hosts |-> None]
      /\ token = {} /\ tasks = {} /\ game = [r \in Rooms |-> Idle]
  BY DEF Init
<1>2. RoomTypeOK
  BY <1>1 DEF RoomTypeOK, Idle, Statuses
<1>3. \A r \in Rooms : ~Playing(r) /\ ~InGame(r) /\ ~Pending(r, {"run"})
  BY <1>1 DEF Playing, InGame, Pending, Idle
<1>4. RowsExist /\ ReadsAreOld /\ GamesAreStarted
  BY <1>1, <1>3 DEF RowsExist, ReadsAreOld, GamesAreStarted
<1>5. HostsAreLinked /\ ConnectsAreOwn
  BY <1>1 DEF HostsAreLinked, ConnectsAreOwn
<1>6. QED
  BY <1>2, <1>4, <1>5 DEF RoomInv

LEMMA RoomInvKept == RoomInv /\ [Next]_vars => RoomInv'
<1> SUFFICES ASSUME RoomInv, [Next]_vars PROVE RoomInv'
  OBVIOUS
<1>1. RoomTypeOK'
  BY RoomTypeKept DEF RoomInv
<1>2. QED
  BY <1>1, RowsKept, ReadsKept, GamesKept, LinksKept, ConnectsKept DEF RoomInv

-----------------------------------------------------------------------------
(* The theorems. *)

\* A room that was left active by a failure of its way out stays known as such.
LEMMA StrandedStay ==
    ASSUME [Next]_vars
    PROVE  stranded \subseteq stranded'
<1>1. ASSUME NEW t \in tasks, TaskStep(t) PROVE stranded \subseteq stranded'
  BY <1>1
     DEF TaskStep, StoreFlow, RegisterHost, RefuseHost, SaveHost, FindGone, SaveGone,
         FindExpired, CloseRoom, FindTorn, SaveTorn, Admit, Vacate, AbortIfDeserted,
         CountPlayers, StartRoom, StartFails, RunGame, Save, rowVars
<1>2. ASSUME NEW r \in Rooms, RoomStep(r) PROVE stranded \subseteq stranded'
  BY <1>2
     DEF RoomStep, DrawCode, InsertRoom, AskFlow, AskStart, AskHost, AskJoin, Depart,
         ExpireSeat, HostGraceFires, TeardownFires, LoadRoom, PlayRound, EndGame,
         FailGame, AbandonQuietly, AbandonFails, Save, rowVars
<1>3. ASSUME UNCHANGED vars \/ \E h \in Hosts : DropHost(h)
      PROVE  stranded \subseteq stranded'
  BY <1>3 DEF vars, DropHost, rowVars
<1>4. QED
  BY <1>1, <1>2, <1>3 DEF Next

LEMMA EngineKept ==
    ASSUME RoomInv, ActiveHasEngine, [Next]_vars
    PROVE  ActiveHasEngine'
<1> SUFFICES ASSUME NEW r \in Rooms, status'[r] = "active", r \notin rewound',
                    r \notin stranded'
             PROVE  Playing(r)' \/ Pending(r, {"run"})'
  BY DEF ActiveHasEngine
<1>0. r \notin stranded
  BY StrandedStay
<1>1. RoomTypeOK /\ ReadsAreOld /\ GamesAreStarted
  BY DEF RoomInv
<1>2. /\ r \notin rewound /\ Rank(status[r]) <= 2 /\ GameMoved(r)
      /\ status[r] \in Statuses /\ Rank(status[r]) \in Nat
      /\ game[r].seen \in Statuses /\ Rank(game[r].seen) \in Nat
      /\ status'[r] = status[r] \/ RowWritten(r)
  BY <1>1, RowMoves, GameMoves, RankOrder, Ranks DEF RoomTypeOK
<1>3. CASE status[r] = "active"
  <2>1. CASE Playing(r)
    <3>1. InGame(r) => game[r].seen = "active"
      <4>1. InGame(r) => Rank(game[r].seen) <= 2 /\ Rank(game[r].seen) >= 2
        BY <1>1, <1>2, <1>3, Ranks DEF ReadsAreOld, GamesAreStarted
      <4>2. QED
        BY <1>2, <4>1, RankOrder
    <3>2. QED
      BY <1>2, <2>1, <3>1 DEF GameMoved, Playing, InGame, Terminal
  <2>2. ASSUME NEW t \in tasks, t.room = r, t.op = "run", t \notin tasks'
        PROVE  Playing(r)'
    <3>1. RunGame(t)
      BY <2>2, TaskEnds
         DEF TaskStep, StoreFlow, RegisterHost, RefuseHost, SaveHost, FindGone,
             SaveGone, FindExpired, CloseRoom, FindTorn, SaveTorn, Admit, Vacate,
             AbortIfDeserted, CountPlayers, StartRoom, StartFails
    <3>2. CASE Playing(r)
      BY <2>2, <3>1, <3>2 DEF RunGame, Playing
    <3>3. CASE ~Playing(r)
      BY <1>1, <2>2, <3>1, <3>3 DEF RunGame, Playing, RoomTypeOK, Idle
    <3>4. QED
      BY <3>2, <3>3
  <2>3. QED
    BY <1>2, <1>3, <1>0, <2>1, <2>2 DEF ActiveHasEngine, Pending
<1>4. CASE status[r] # "active"
  <2>1. ASSUME NEW t \in tasks, t.room = r, t.seen = "active" PROVE FALSE
    <3>1. Rank(status[r]) >= 2
      BY <1>1, <1>2, <2>1, Ranks DEF ReadsAreOld
    <3>2. QED
      BY <1>2, <1>4, <3>1, RankOrder
  <2>2. ASSUME NEW t \in tasks, t.room = r, StartRoom(t) PROVE Pending(r, {"run"})'
    <3>1. [t EXCEPT !.op = "run"] \in tasks'
      BY <2>2 DEF StartRoom, Swap
    <3>2. [t EXCEPT !.op = "run"].op = "run" /\ [t EXCEPT !.op = "run"].room = r
      BY <1>1, <2>2, TaskFields, HandlerGoesOn DEF Ops
    <3>3. QED
      BY <3>1, <3>2 DEF Pending
  <2>3. CASE game[r].at = "play" /\ UNCHANGED game
    BY <2>3 DEF Playing
  <2>4. QED
    BY <1>2, <1>4, <2>1, <2>2, <2>3 DEF RowWritten, Terminal
<1>5. QED
  BY <1>3, <1>4

(* A room reads ACTIVE only while its game runs or is about to, unless a stale
   save has moved its status back or the way out of a failed start or game has
   failed too: whatever handlers save the entities they have read, nobody revives
   a room whose game has ended. *)
THEOREM ActiveRoomsRun == FairSpec => []ActiveHasEngine
<1>1. FairSpec => Init /\ [][Next]_vars
  BY PTL DEF FairSpec, Spec
<1>2. Init => ActiveHasEngine
  BY DEF Init, ActiveHasEngine
<1>3. RoomInv /\ ActiveHasEngine /\ [Next]_vars => ActiveHasEngine'
  BY EngineKept
<1>4. QED
  BY <1>1, <1>2, <1>3, RoomInvInit, RoomInvKept, PTL

Timed(r) ==
    \/ r \in grace
    \/ Pending(r, {"connect", "hostGone", "hostDown", "expire", "close"})
    \/ status[r] \in Terminal \/ r \in rewound

\* What stands for a hostless room's return or its end is passed on, step by
\* step, until the room is hosted, loses its token or is over.
LEMMA TimedKept ==
    ASSUME RoomInv, [Next]_vars, NEW r \in token', Timed(r), r \in token,
           host'[r] = None
    PROVE  Timed(r)'
<1>1. /\ RoomTypeOK /\ r \in Rooms /\ ConnectsAreOwn /\ host \in [Rooms -> Hosts \cup {None}]
      /\ None \notin Hosts
      /\ Ops = {"flow", "connect", "hostUp", "hostGone", "hostDown", "expire", "close",
                "teardown", "tear", "join", "leave", "drop", "left", "dropped",
                "count", "start", "run"}
  BY NoHostAssumption DEF RoomInv, RoomTypeOK, Ops
<1>2. CASE status[r] \in Terminal \/ r \in rewound
  <2>1. r \in rewound' \/ Rank(status'[r]) >= Rank(status[r])
    BY <1>1, RowMoves, RankOrder DEF RoomTypeOK
  <2>2. /\ status[r] \in Statuses /\ status'[r] \in Statuses
        /\ Rank(status[r]) \in Nat /\ Rank(status'[r]) \in Nat /\ rewound \subseteq rewound'
    BY <1>1, RowMoves, RankOrder DEF RoomTypeOK
  <2>3. QED
    BY <1>2, <2>1, <2>2, RankOrder DEF Timed
<1>3. CASE r \in grace
  <2>1. ASSUME HostGraceFires(r) PROVE Timed(r)'
    <3>1. host[r] = None
      BY <2>1 DEF HostGraceFires, hostVars
    <3>2. Task("expire", r, None, "none") \in tasks'
      BY <2>1, <3>1 DEF HostGraceFires
    <3>3. QED
      BY <3>2 DEF Timed, Pending, Task
  <2>2. ASSUME NEW t \in tasks, RegisterHost(t) PROVE r \in grace'
    <3>1. t.room \in Rooms /\ t.who \in Hosts
      BY <1>1, <2>2, TaskFields DEF RegisterHost, ConnectsAreOwn
    <3>2. t.room # r
      BY <1>1, <2>2, <3>1 DEF RegisterHost
    <3>3. QED
      BY <1>3, <2>2, <3>2 DEF RegisterHost
  <2>3. ASSUME NEW t \in tasks, TaskStep(t), ~RegisterHost(t) PROVE r \in grace'
    BY <1>3, <2>3
       DEF TaskStep, StoreFlow, RefuseHost, SaveHost, FindGone, SaveGone, FindExpired,
           CloseRoom, FindTorn, SaveTorn, Admit, Vacate, AbortIfDeserted, CountPlayers,
           StartRoom, StartFails, RunGame, timerVars
  <2>4. ASSUME NEW q \in Rooms, RoomStep(q), ~HostGraceFires(r) PROVE r \in grace'
    BY <1>3, <2>4
       DEF RoomStep, DrawCode, InsertRoom, AskFlow, AskStart, AskHost, AskJoin, Depart,
           ExpireSeat, HostGraceFires, TeardownFires, LoadRoom, PlayRound, EndGame,
           FailGame, AbandonQuietly, AbandonFails, timerVars
  <2>5. ASSUME UNCHANGED vars \/ \E h \in Hosts : DropHost(h) PROVE r \in grace'
    BY <1>3, <2>5 DEF vars, DropHost, timerVars
  <2>6. QED
    BY <2>1, <2>2, <2>3, <2>4, <2>5 DEF Next, Timed
<1>4. ASSUME NEW t \in tasks, t.room = r,
             t.op \in {"connect", "hostGone", "hostDown", "expire", "close"}
      PROVE  Timed(r)'
  <2>1. CASE t \in tasks'
    BY <1>4, <2>1 DEF Timed, Pending
  <2>2. CASE t \notin tasks'
    <3>1. \/ RegisterHost(t) \/ RefuseHost(t) \/ FindGone(t) \/ SaveGone(t)
          \/ FindExpired(t) \/ CloseRoom(t)
      BY <1>4, <2>2, TaskEnds
         DEF TaskStep, StoreFlow, SaveHost, FindTorn, SaveTorn, Admit, Vacate,
             AbortIfDeserted, CountPlayers, StartRoom, StartFails, RunGame
    <3>2. ~RegisterHost(t)
      BY <1>1, <1>4 DEF RegisterHost, ConnectsAreOwn
    <3>3. ~RefuseHost(t) /\ ~CloseRoom(t)
      BY <1>4 DEF RefuseHost, CloseRoom
    <3>4. CASE FindGone(t)
      <4>1. [t EXCEPT !.op = "hostDown", !.seen = status[t.room]] \in tasks'
        BY <3>4 DEF FindGone, Swap
      <4>2. /\ [t EXCEPT !.op = "hostDown", !.seen = status[t.room]].op = "hostDown"
            /\ [t EXCEPT !.op = "hostDown", !.seen = status[t.room]].room = r
        BY <1>1, <1>4, TaskFields DEF Handlers
      <4>3. QED
        BY <4>1, <4>2 DEF Timed, Pending
    <3>5. CASE SaveGone(t)
      BY <1>4, <3>5 DEF SaveGone, Timed
    <3>6. CASE FindExpired(t)
      <4>1. CASE status[r] \in Terminal
        BY <1>2, <4>1
      <4>2. CASE status[r] \notin Terminal
        <5>1. [t EXCEPT !.op = "close"] \in tasks'
          BY <1>4, <3>6, <4>2 DEF FindExpired, Swap
        <5>2. [t EXCEPT !.op = "close"].op = "close" /\ [t EXCEPT !.op = "close"].room = r
          BY <1>1, <1>4, TaskFields, HandlerGoesOn
        <5>3. QED
          BY <5>1, <5>2 DEF Timed, Pending
      <4>3. QED
        BY <4>1, <4>2
    <3>7. QED
      BY <3>1, <3>2, <3>3, <3>4, <3>5, <3>6
  <2>3. QED
    BY <2>1, <2>2
<1>5. QED
  BY <1>2, <1>3, <1>4 DEF Timed, Pending

LEMMA HostlessKept ==
    ASSUME RoomInv, HostlessHasTimer, [Next]_vars
    PROVE  HostlessHasTimer'
<1> SUFFICES ASSUME NEW r \in token', Hostless(r)'
             PROVE  Timed(r)'
  BY DEF HostlessHasTimer, Timed
<1>1. /\ RoomTypeOK /\ HostsAreLinked /\ ConnectsAreOwn
      /\ link \in [Hosts -> {"new", "asking", "up", "down", "hasty"}]
      /\ aim \in [Hosts -> Rooms \cup {None}] /\ host \in [Rooms -> Hosts \cup {None}]
      /\ None \notin Hosts
  BY NoHostAssumption DEF RoomInv, RoomTypeOK
<1>2. r \in Rooms
  BY <1>1, RoomTypeKept DEF RoomTypeOK
<1>3. PICK g \in Hosts : aim'[g] = r /\ link'[g] = "down"
  BY DEF Hostless
<1>4. host'[r] = None
  BY DEF Hostless
<1>5. r \in token
  <2>1. CASE r \notin token
    <3>1. status[r] = "none" /\ InsertRoom(r)
      BY <2>1, TokenMoves
    <3>2. aim[g] = r /\ link[g] = "down"
      BY <1>3, <3>1 DEF InsertRoom
    <3>3. QED
      BY <3>1, <3>2 DEF RoomInv, RowsExist
  <2>2. QED
    BY <2>1
<1>6. CASE Hostless(r)
  <2>1. Timed(r)
    BY <1>5, <1>6 DEF HostlessHasTimer, Timed
  <2>2. QED
    BY <1>4, <1>5, <2>1, TimedKept
<1>7. CASE ~Hostless(r)
  <2>1. ~UNCHANGED <<host, link, aim>>
    BY <1>3, <1>4, <1>7 DEF Hostless
  <2>2. ASSUME NEW h \in Hosts, NEW q \in Rooms, UNCHANGED host,
               link' = [link EXCEPT ![h] = "asking"], aim' = [aim EXCEPT ![h] = q]
        PROVE  FALSE
    BY <1>1, <1>3, <1>4, <1>7, <2>2 DEF Hostless
  <2>3. ASSUME NEW t \in tasks, t.op = "connect", UNCHANGED aim,
               host' = [host EXCEPT ![t.room] = t.who],
               link' = [link EXCEPT ![t.who] = IF @ = "asking" THEN "up" ELSE @]
        PROVE  FALSE
    <3>1. t.room \in Rooms /\ t.who \in Hosts
      BY <1>1, <2>3, TaskFields DEF ConnectsAreOwn
    <3>2. host[r] = None /\ aim[g] = r /\ link[g] = "down"
      BY <1>1, <1>2, <1>3, <1>4, <2>3, <3>1
    <3>3. QED
      BY <1>7, <3>2 DEF Hostless
  <2>4. ASSUME NEW t \in tasks, t.op = "connect", UNCHANGED <<host, aim>>,
               t.room \notin token, link' = [link EXCEPT ![t.who] = "down"]
        PROVE  FALSE
    <3>1. t.who \in Hosts /\ aim[t.who] = t.room
      BY <1>1, <2>4 DEF ConnectsAreOwn
    <3>2. g # t.who
      BY <1>3, <1>5, <2>4, <3>1
    <3>3. QED
      BY <1>1, <1>3, <1>4, <1>7, <2>4, <3>1, <3>2 DEF Hostless
  <2>5. ASSUME NEW h \in Hosts, UNCHANGED aim, link[h] \in {"asking", "up"},
               host' = [q \in Rooms |-> IF host[q] = h THEN None ELSE host[q]],
               link' = [link EXCEPT ![h] = IF @ = "asking" THEN "hasty" ELSE "down"],
               \A q \in Rooms : host[q] = h =>
                  \E t \in tasks' : t.op = "hostGone" /\ t.room = q
        PROVE  Timed(r)'
    <3>1. CASE host[r] = h
      BY <1>2, <2>5, <3>1 DEF Timed, Pending
    <3>2. CASE host[r] # h
      <4>1. host[r] = None
        BY <1>2, <1>4, <2>5, <3>2
      <4>2. g = h /\ link[g] = "up"
        BY <1>1, <1>3, <1>7, <2>5, <4>1 DEF Hostless
      <4>3. aim[g] = r
        BY <1>3, <2>5
      <4>4. QED
        BY <1>1, <1>7, <4>1, <4>2, <4>3 DEF HostsAreLinked, Hostless
    <3>3. QED
      BY <3>1, <3>2
  <2>6. QED
    BY <1>1, <2>1, <2>2, <2>3, <2>4, <2>5, HostMoves DEF HostMoved
<1>8. QED
  BY <1>6, <1>7

(* A room whose host has gone has an armed grace timer, or a handler under way
   that arms or serves one, whichever sockets, saves and timers of the room and
   of the others interleave with it. *)
THEOREM HostlessAreTimed == FairSpec => []HostlessHasTimer
<1>1. FairSpec => Init /\ [][Next]_vars
  BY PTL DEF FairSpec, Spec
<1>2. Init => HostlessHasTimer
  BY DEF Init, HostlessHasTimer
<1>3. RoomInv /\ HostlessHasTimer /\ [Next]_vars => HostlessHasTimer'
  BY HostlessKept
<1>4. QED
  BY <1>1, <1>2, <1>3, RoomInvInit, RoomInvKept, PTL

=============================================================================
