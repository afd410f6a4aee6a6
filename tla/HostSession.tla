----------------------------- MODULE HostSession -----------------------------
(***************************************************************************)
(* HostApp with the server's side: the host's socket and the flow and      *)
(* start calls (lobby.service.ts, room.service.ts), the plan of the rounds *)
(* (round-builder.ts) and the broadcasts of the game (GameScript).         *)
(*                                                                         *)
(* A handler reads the room's row, awaits other queries, and then saves    *)
(* the entity it has read, every column of it: a task is a handler in      *)
(* between, with that entity.  Of the row, the status and the flow are     *)
(* kept.  That players come and go matters here only for the snapshots it  *)
(* causes; whether they are enough to start is RoomLifecycle's subject.    *)
(***************************************************************************)
EXTENDS HostApp, Leaderboard

CONSTANTS
    MaxFaults,  \* bound: lost sockets, loads of the page, failed saves
    MaxInbox,   \* bound: the frames the page may lag behind the server
    MaxRounds,  \* bounds of a game that is played out: its rounds,
    MaxTroubles \* and the saves and faults before it ends

VARIABLES
    row,     \* the room's row: [status, flow]
    token,   \* whether the registry holds the host's token
    joined,  \* whether the page's socket is registered as the host's
    tasks,   \* handlers between their read and their save
    game,    \* the engine's loop: [at, row, plan], with the rounds that are stored
    cue,     \* how many events of the game's script have been sent
    faults,
    raced,   \* history: the row's flow is not the one that was saved last
    behind,  \* history: the editor was opened on a snapshot that was late
    missed   \* history: the page has missed an event of the current round

srvVars == <<row, token, joined, tasks, game, cue>>
histVars == <<faults, raced, behind, missed>>
vars == <<hostVars, srvVars, histVars>>

IsLive == row.status \in {"lobby", "active"}
Kinds == [i \in DOMAIN game.plan |-> game.plan[i].kind]
Script == ScriptOf(Kinds)
Idle == [at |-> "none", row |-> row, plan |-> <<>>]

Init ==
    /\ HostInit
    /\ row \in {[status |-> "lobby", flow |-> f] : f \in Randomized(DefaultSize)}
    /\ token = TRUE /\ joined = FALSE /\ tasks = {}
    /\ game = Idle /\ cue = 0
    /\ faults = 0 /\ raced = FALSE /\ behind = FALSE /\ missed = FALSE

-----------------------------------------------------------------------------
\* toRoomState() of an entity, with the live phase of a running game.
Snapshot(entity) ==
    LET live == IF game.at = "play" THEN PhaseIn(Script, cue) ELSE "lobby"
    IN  [name |-> "ROOM_STATE_UPDATE",
         room |-> [known |-> TRUE, flow |-> entity.flow,
                   round |-> IF cue = 0 THEN 1 ELSE RoundIn(Script, cue),
                   phase |-> IF live # "lobby" THEN live
                             ELSE CASE entity.status = "lobby" -> "lobby"
                                    [] entity.status = "active" -> "round-intro"
                                    [] OTHER -> "game-over"]]

Emit(frame) == inbox' = IF joined THEN Append(inbox, frame) ELSE inbox
CanEmit == Len(inbox) < MaxInbox

\* repository.save() of an entity: a flow it does not mean to set is the one
\* it has read.
SaveRow(entity, isOldFlow) ==
    row' = entity /\ raced' = (raced \/ (isOldFlow /\ entity.flow # row.flow))

Task(op, n, flow) == [op |-> op, n |-> n, flow |-> flow, row |-> row]
UnderWay == saves # {} \/ tasks # {} \/ inbox # <<>>

-----------------------------------------------------------------------------
(* The page, and what becomes of its socket                                *)

Page == /\ HostConnects \/ HostOpened \/ CloseEditor \/ FetchCatalog
           \/ Autosave \/ ClickStart
        /\ behind' = (behind /\ editor'.open)
        /\ UNCHANGED <<srvVars, faults, raced, missed>>

Receive == /\ HostReceives
           /\ missed' = (missed /\ Head(inbox).name # "ROUND_START")
           /\ behind' = (behind /\ editor'.open)
           /\ UNCHANGED <<srvVars, faults, raced>>

Open == /\ OpenEditor
        /\ behind' = UnderWay
        /\ raced' = (raced /\ (app.room.flow # row.flow \/ inbox # <<>>))
        /\ UNCHANGED <<srvVars, faults, missed>>

Edit == /\ EditFlow
        /\ behind' = FALSE
        /\ UNCHANGED <<srvVars, faults, raced, missed>>

\* handleDisconnect() of the host; a connect call still saves.
Leaves ==
    /\ joined' = FALSE /\ missed' = TRUE /\ behind' = FALSE
    /\ tasks' = {[t EXCEPT !.op = IF @ = "connect" THEN "late" ELSE @] :
                    t \in tasks}

Leave == /\ LeavePage /\ Leaves
         /\ UNCHANGED <<row, token, game, cue, faults, raced>>

Fault == faults < MaxFaults /\ faults' = faults + 1

\* The socket is lost, or refused by the network.
Drop ==
    /\ link \in {"opening", "open"} /\ Fault
    /\ HostClosed(FALSE) /\ Leaves
    /\ UNCHANGED <<page, saves, sent, starts, edits>>
    /\ UNCHANGED <<row, token, game, cue, raced>>

\* The page is loaded again; requests under way are still handled.
LoadPage ==
    /\ page = "room" /\ Fault
    /\ app' = Connecting /\ link' = "none" /\ inbox' = <<>>
    /\ editor' = NoEditor /\ Leaves
    /\ UNCHANGED <<page, saves, sent, starts, edits>>
    /\ UNCHANGED <<row, token, game, cue, raced>>

-----------------------------------------------------------------------------
(* The server                                                              *)

\* connectHost() until its save, or the refusal with a code of its own.
HandleHost ==
    /\ link = "open" /\ ~joined
    /\ \/ /\ IsLive /\ token
          /\ joined' = TRUE
          /\ tasks' = tasks \cup {Task("connect", 0, <<>>)}
          /\ UNCHANGED <<app, link, inbox, editor>>
       \/ /\ ~(IsLive /\ token)
          /\ HostClosed(TRUE)
          /\ UNCHANGED <<joined, tasks>>
    /\ UNCHANGED <<page, saves, sent, starts, edits, row, token>>
    /\ UNCHANGED <<game, cue, histVars>>

\* updateHostSocket(), and the snapshot for the new socket.
StoreHost(t) ==
    /\ t.op = "late" \/ (t.op = "connect" /\ CanEmit)
    /\ SaveRow(t.row, TRUE)
    /\ inbox' = IF t.op = "late" THEN inbox
                ELSE Append(inbox, Snapshot(t.row))
    /\ tasks' = tasks \ {t}
    /\ UNCHANGED <<page, app, link, starts, tabVars, token, joined>>
    /\ UNCHANGED <<game, cue, faults, behind, missed>>

\* setRoomFlow() until its save, or its refusal.
HandleSave(s) ==
    /\ saves' = saves \ {s}
    /\ \/ /\ IsLive /\ token
          /\ tasks' = tasks \cup
                {Task("flow", s.n, NormalizeForStorage(s.flow))}
          /\ UNCHANGED raced
       \/ /\ ~(IsLive /\ token)
          /\ raced' = TRUE
          /\ UNCHANGED tasks
    /\ UNCHANGED <<page, app, link, inbox, starts, editor, sent, edits, row>>
    /\ UNCHANGED <<token, joined, game, cue, faults, behind, missed>>

\* A save fails on its way, or in the database.
LoseSave(s) ==
    /\ Fault
    /\ saves' = saves \ {s}
    /\ raced' = (raced \/ s.n = sent)
    /\ UNCHANGED <<page, app, link, inbox, starts, editor, sent, edits>>
    /\ UNCHANGED <<srvVars, behind, missed>>

\* setGameFlow() and broadcastState()
StoreFlow(t) ==
    /\ t.op = "flow" /\ CanEmit
    /\ row' = [t.row EXCEPT !.flow = t.flow]
    /\ raced' = (t.n # sent)
    /\ Emit(Snapshot(row'))
    /\ tasks' = tasks \ {t}
    /\ UNCHANGED <<page, app, link, starts, tabVars, token, joined>>
    /\ UNCHANGED <<game, cue, faults, behind, missed>>

\* startGame() until startRoom(), or its refusal.
HandleStart ==
    /\ starts > 0 /\ ~\E t \in tasks : t.op = "start"
    /\ \/ /\ IsLive /\ token
          /\ tasks' = tasks \cup {Task("start", 0, <<>>)}
          /\ UNCHANGED starts
       \/ /\ ~(IsLive /\ token)
          /\ starts' = starts - 1
          /\ UNCHANGED tasks
    /\ UNCHANGED <<page, app, link, inbox, tabVars, row, token>>
    /\ UNCHANGED <<joined, game, cue, histVars>>

\* startRoom(), the snapshot, and run(), which does nothing in a running game.
StoreStart(t) ==
    /\ t.op = "start" /\ CanEmit
    /\ tasks' = tasks \ {t} /\ starts' = starts - 1
    /\ \/ /\ t.row.status # "lobby"
          /\ UNCHANGED <<inbox, row, raced, game, cue>>
       \/ /\ t.row.status = "lobby"
          /\ SaveRow([t.row EXCEPT !.status = "active"], TRUE)
          /\ Emit(Snapshot(row'))
          /\ IF game.at \in {"load", "play"}
             THEN UNCHANGED <<game, cue>>
             ELSE game' = [game EXCEPT !.at = "load"] /\ cue' = 0
    /\ UNCHANGED <<page, app, link, tabVars, token, joined>>
    /\ UNCHANGED <<faults, behind, missed>>

\* buildRounds() of the room as run() finds it: without questions, or with the
\* rounds of an earlier game, whose numbers are taken (round.entity.ts), the room
\* is abandoned without a word.
BuildRounds ==
    /\ game.at = "load"
    /\ LET plan == Plan(row.flow)
           fails == plan = <<>> \/ game.plan # <<>>
       IN  /\ game' = IF fails THEN [game EXCEPT !.at = "failed", !.row = row]
                      ELSE [at |-> "play", row |-> row, plan |-> plan]
           /\ row' = [row EXCEPT !.status =
                        IF fails /\ @ = "active" THEN "abandoned" ELSE @]
    /\ UNCHANGED <<hostVars, token, joined, tasks, cue, histVars>>

\* The next event of the game; setCurrentRound() and finishRoom() save the
\* entity that run() has read.  A game is followed as long as its host's page
\* may show it.
Broadcast ==
    /\ game.at = "play" /\ Len(game.plan) <= MaxRounds /\ CanEmit
    /\ page = "room" /\ link # "closed" /\ sent + faults <= MaxTroubles
    /\ cue' = cue + 1
    /\ LET event == Script[cue']
       IN  /\ CASE event.name = "ROUND_START" -> SaveRow(game.row, TRUE)
                [] event.name = "GAME_OVER" ->
                      SaveRow([game.row EXCEPT !.status = "finished"], TRUE)
                [] OTHER -> UNCHANGED <<row, raced>>
           /\ game' = IF event.name = "GAME_OVER"
                      THEN [game EXCEPT !.at = "over"] ELSE game
           /\ Emit(event)
    /\ missed' = (missed \/ ~joined)
    /\ UNCHANGED <<page, app, link, starts, tabVars, token, joined>>
    /\ UNCHANGED <<tasks, faults, behind>>

\* A player joins or leaves the lobby, and everyone is told.
PlayersChange ==
    /\ game.at = "none" /\ CanEmit
    /\ Emit(Snapshot(row))
    /\ UNCHANGED <<page, app, link, starts, tabVars, srvVars, histVars>>

\* expireHostGrace(), closeRoom(): the game, if any, is not told.
ExpireHost ==
    /\ ~joined /\ IsLive /\ token
    /\ row' = [row EXCEPT !.status = "abandoned"]
    /\ token' = FALSE
    /\ UNCHANGED <<hostVars, joined, tasks, game, cue, histVars>>

Next == \/ Page \/ Receive \/ Open \/ Edit \/ Leave \/ Drop \/ LoadPage
        \/ HandleHost \/ HandleStart \/ BuildRounds \/ Broadcast
        \/ PlayersChange \/ ExpireHost
        \/ \E s \in saves : HandleSave(s) \/ LoseSave(s)
        \/ \E t \in tasks : StoreHost(t) \/ StoreFlow(t) \/ StoreStart(t)
Spec == Init /\ [][Next]_vars
-----------------------------------------------------------------------------
InStep == /\ link = "open" /\ joined /\ inbox = <<>>
          /\ ~\E t \in tasks : t.op = "connect"

\* What the host's page should show after the first n events.
ExpectedOnHost(n) ==
    LET r == RoundIn(Script, n)
        phase == PhaseIn(Script, n)
    IN  CASE phase = "round-intro" -> HostShow("intro", r, FALSE)
          [] phase \in {"playing", "reveal"} ->
                HostShow(IF Kinds[r] = "quiz" THEN "quiz" ELSE "game", r,
                         phase = "reveal")
          [] phase = "leaderboard" -> HostShow("board", 0, FALSE)
          [] OTHER -> HostShow("over", 0, FALSE)

\* A host that has heard all there is shows the lobby with the room's flow,
\* and then the round the game is at: the screens follow the phases, whatever
\* snapshots late calls have sent (hostSocketReducer, App).  A late connect
\* call may change the flow without a word; before a round is shown the last
\* one may still be; and before the first phase, the lobby.
HostShowsGame ==
    /\ InStep /\ game.at = "none" =>
          /\ InLobby(app)
          /\ raced \/ app.room.flow = row.flow
    /\ InStep /\ ~missed /\ game.at = "play" /\ cue >= 2 =>
          \/ HostScreen(app) = ExpectedOnHost(cue)
          \/ /\ PhaseIn(Script, cue) = "playing"
             /\ ~ShownIn(Script, RoundIn(Script, cue), cue)

\* How many questions the editor shows, and a game asks for.
Wanted(item) == IF item.questions = 0 THEN DefaultQuestions ELSE item.questions

\* An item is stored with the time the editor shows, or with as many of the
\* questions it shows as there are.
IsItemStoredAs(item, stored) ==
    /\ stored.block = item.block
    /\ IF item.block \in Minigames
       THEN stored.time = ClampMinigameTime(item.time, item.block)
       ELSE stored.questions = Min({Wanted(item), Available[item.block]})

\* A stored flow has the items of an edited one that can be played, in order.
IsStoredAs(flow, stored) ==
    LET playable(n) == {i \in 1..n : flow[i].block \in Catalog}
    IN  /\ Len(stored) = Cardinality(playable(Len(flow)))
        /\ \A i \in playable(Len(flow)) :
              IsItemStoredAs(flow[i], stored[Cardinality(playable(i))])

\* When nothing is under way the room's flow is the one in the editor, as far
\* as it can be played: unless the last save failed, an older one landed after
\* it, a connect or start call saved the entity it had read before, or the
\* editor was opened before a save had landed and not used since (autosave,
\* setRoomFlow, the save of whole entities).
EditsSettle ==
    (editor.open /\ ~editor.unsaved /\ ~UnderWay /\ ~raced /\ ~behind)
        => IsStoredAs(editor.flow, row.flow)

\* Every round is of an item of the flow, in its order; a minigame's round is as
\* long as the lobby says, and the only one of its item.
ComesFrom(plan, flow, f) ==
    /\ \A i \in DOMAIN plan : flow[f[i]].block = plan[i].block
    /\ \A i \in DOMAIN plan \ {1} : f[i - 1] <= f[i]
    /\ \A i \in DOMAIN plan : plan[i].kind = "game" =>
          /\ plan[i].time = ClampMinigameTime(flow[f[i]].time, plan[i].block)
          /\ \A j \in DOMAIN plan \ {i} : f[j] # f[i]

ItemsOf(flow, block) == {i \in DOMAIN flow : flow[i].block = block}
RoundsOf(plan, block) == {i \in DOMAIN plan : plan[i].block = block}
AskedFor(flow, theme) ==
    UNION {{i} \X (1..Wanted(flow[i])) : i \in ItemsOf(flow, theme)}

\* A plan has a round for every question that is asked for and there, none of
\* them twice, and one for every minigame.
IsPlanOf(plan, flow) ==
    /\ \E f \in [DOMAIN plan -> DOMAIN flow] : ComesFrom(plan, flow, f)
    /\ \A t \in Themes :
          /\ Cardinality(RoundsOf(plan, t)) =
                Min({Available[t], Cardinality(AskedFor(flow, t))})
          /\ \A i, j \in RoundsOf(plan, t) :
                plan[i].question = plan[j].question => i = j
    /\ \A b \in Minigames :
          Cardinality(RoundsOf(plan, b)) = Cardinality(ItemsOf(flow, b))

\* The rounds of a game are those of the flow it was started with, and a game
\* with a flow that is not empty never fails to start, unless it is the room's
\* second (buildRounds, planFromFlow).
PlaysTheFlow ==
    LET flow == game.row.flow
    IN  /\ game.at = "failed" => flow = <<>> \/ game.plan # <<>>
        /\ game.at = "play" /\ flow # <<>> => IsPlanOf(game.plan, flow)

\* Three players, and as many boards as can follow each other, two by two.
StandingsTell == StandingsLead(1..3, 2)

\* The leaderboard tells how the game stands: nobody passes another without
\* more points, and the roadmap next to it has the player at the round that
\* was played, under the names of the rounds (buildLeaderboard,
\* buildRoadmapThemes, Roadmap).  GAME_OVER, which ranks anew, comes without.
LeaderboardTellsTheGame ==
    (game.at = "play" /\ PhaseIn(Script, cue) = "leaderboard") =>
        /\ StandingsTell
        /\ RoadmapLeads([i \in DOMAIN game.plan |-> game.plan[i].block],
                        RoundIn(Script, cue))

\* On the snake of n blocks; the sizes that bounded edits reach are looked up.
SnakeLeads(n) == DropsLand(n) /\ ArrowsLead(n)
SnakesLeading == {n \in 0..(MaxBlocks + MaxEdits) : SnakeLeads(n)}

\* A block dropped on the snake lands where the cursor is on its path, and the
\* arrows lead along it (computeDropIndex, moveBlock, buildSerpentine).
DropsFollowTheSnake ==
    editor.open =>
        LET n == Len(editor.flow)
        IN  n \in SnakesLeading \/ SnakeLeads(n)
=============================================================================
