------------------------------- MODULE HostApp -------------------------------
(***************************************************************************)
(* The host's page of a room (host/App.tsx, hooks/useHostSocket.tsx,       *)
(* hooks/hostSocketReducer.ts, components/SetupLobby.tsx): its socket,     *)
(* what it hears, and the screen and the lobby tab that show it.           *)
(*                                                                         *)
(* The state of the reducer is the record "app"; "room" is the last        *)
(* snapshot, known or not.  A question, a content and a reveal are the     *)
(* number of their round, 0 for null.  Counts, scores, the leaderboard and *)
(* the roadmap are left out: no screen is chosen by them.                  *)
(***************************************************************************)
EXTENDS FlowEditor, GameScript

CONSTANTS
    MaxStarts,  \* bound: clicks on "Start Game" that are under way
    MaxEdits,   \* bound: edits of the flow in a behaviour
    MaxSends    \* bound: saves that are sent in a behaviour

VARIABLES
    page,   \* "room", or "home" once the lobby is closed
    app,    \* the reducer's state
    link,   \* the page's socket: "none", "opening", "open", "closed"
    inbox,  \* frames on their way to the page
    editor, \* the tab "Game Flow", NoEditor while "Lobby" is shown
    saves,  \* PUT requests under way: [n, flow]
    sent,   \* how many have been sent
    starts, \* clicks on "Start Game" whose delay or request is under way
    edits   \* how many edits have been made

tabVars == <<editor, saves, sent, edits>>
hostVars == <<page, app, link, inbox, starts, tabVars>>

NoRoom == [known |-> FALSE, phase |-> "lobby", flow |-> <<>>, round |-> 0]

\* createInitialHostState()
InitialHost ==
    [status |-> "closed", fatal |-> FALSE, room |-> NoRoom, round |-> 0,
     question |-> 0, reveal |-> 0, content |-> 0, roundReveal |-> 0,
     final |-> FALSE]

\* The effect of the mount: a token is in the page's storage.
Connecting == [InitialHost EXCEPT !.status = "connecting"]

\* Slip: a round's content is still there when the next begins, and hides its
\* question.
ReduceKeepsContent(s, e) ==
    CASE e.name = "ROOM_STATE_UPDATE" -> [s EXCEPT !.room = e.room]
      [] e.name = "GAME_PHASE_CHANGE" ->
            [s EXCEPT !.room.known = TRUE, !.room.phase = e.phase,
                      !.room.round = e.round]
      [] e.name = "ROUND_START" ->
            [s EXCEPT !.round = e.round, !.roundReveal = 0]
      [] e.name = "QUESTION_SHOW" ->
            [s EXCEPT !.roundReveal = 0, !.question = e.round, !.reveal = 0]
      [] e.name = "ROUND_CONTENT_SHOW" ->
            [s EXCEPT !.content = e.round, !.roundReveal = 0]
      [] e.name = "QUESTION_REVEAL" -> [s EXCEPT !.reveal = e.round]
      [] e.name = "ROUND_REVEAL" -> [s EXCEPT !.roundReveal = e.round]
      [] e.name = "GAME_OVER" -> [s EXCEPT !.final = TRUE]
      [] OTHER -> s

\* SERVER_EVENT_HANDLERS.  A snapshot follows GAME_PHASE_CHANGE.
ReduceHost(s, e) ==
    CASE e.name = "ROOM_STATE_UPDATE" -> [s EXCEPT !.room = e.room]
      [] e.name = "GAME_PHASE_CHANGE" ->
            [s EXCEPT !.room.known = TRUE, !.room.phase = e.phase,
                      !.room.round = e.round]
      [] e.name = "ROUND_START" ->
            [s EXCEPT !.round = e.round, !.content = 0, !.roundReveal = 0]
      [] e.name = "QUESTION_SHOW" ->
            [s EXCEPT !.content = 0, !.roundReveal = 0, !.question = e.round,
                      !.reveal = 0]
      [] e.name = "ROUND_CONTENT_SHOW" ->
            [s EXCEPT !.content = e.round, !.roundReveal = 0]
      [] e.name = "QUESTION_REVEAL" -> [s EXCEPT !.reveal = e.round]
      [] e.name = "ROUND_REVEAL" -> [s EXCEPT !.roundReveal = e.round]
      [] e.name = "GAME_OVER" -> [s EXCEPT !.final = TRUE]
      [] OTHER -> s

\* A screen, the round it is of, and whether it shows that round's reveal.
HostShow(what, r, revealed) ==
    [what |-> what, round |-> r, revealed |-> revealed]

\* renderGameplay()
HostGameplay(s) ==
    LET inReveal == s.room.phase = "reveal"
    IN  CASE s.content # 0 ->
                HostShow("game", s.content,
                         inReveal /\ s.roundReveal = s.content)
          [] s.content = 0 /\ s.question # 0 ->
                HostShow("quiz", s.question, inReveal /\ s.reveal = s.question)
          [] OTHER -> HostShow("preparing", 0, FALSE)

\* renderPhase(), renderActivePhase()
HostScreen(s) ==
    IF s.fatal THEN HostShow("fatal", 0, FALSE)
    ELSE IF ~s.room.known \/ s.status # "open"
    THEN HostShow("connecting", 0, FALSE)
    ELSE CASE s.room.phase = "lobby" -> HostShow("lobby", 0, FALSE)
           [] s.room.phase = "round-intro" ->
                HostShow("intro", IF s.round # 0 THEN s.round
                                                 ELSE s.room.round, FALSE)
           [] s.room.phase \in {"playing", "reveal"} -> HostGameplay(s)
           [] s.room.phase = "game-over" -> HostShow("over", 0, FALSE)
           [] OTHER -> HostShow(IF s.final THEN "over" ELSE "board", 0, FALSE)

InLobby(s) == HostScreen(s).what = "lobby"

\* The lobby is rendered with what the app has heard, or is no longer shown.
LobbyAfter(s) ==
    editor' = IF InLobby(s) THEN Rerendered(editor, s.room.flow) ELSE NoEditor

HostInit ==
    /\ page = "room" /\ app = Connecting /\ link = "none"
    /\ inbox = <<>> /\ editor = NoEditor
    /\ saves = {} /\ sent = 0 /\ starts = 0 /\ edits = 0

-----------------------------------------------------------------------------
(* The hook                                                                *)

\* The connect timer fires.
HostConnects ==
    /\ link = "none" /\ page = "room" /\ link' = "opening"
    /\ UNCHANGED <<page, app, inbox, starts, tabVars>>

\* onopen: clearedGameState() leaves a content and its reveal.
HostOpened ==
    /\ link = "opening" /\ link' = "open"
    /\ app' = [app EXCEPT !.status = "open", !.round = 0, !.question = 0,
                          !.reveal = 0, !.final = FALSE]
    /\ UNCHANGED <<page, inbox, starts, tabVars>>

\* onclose: the page does not connect again by itself.
HostClosed(unauthorized) ==
    /\ link' = "closed" /\ inbox' = <<>> /\ editor' = NoEditor
    /\ app' = [app EXCEPT !.status = "closed", !.room = NoRoom,
                          !.fatal = @ \/ unauthorized]

\* onmessage
HostReceives ==
    /\ link = "open" /\ inbox # <<>>
    /\ app' = ReduceHost(app, Head(inbox))
    /\ LobbyAfter(app')
    /\ inbox' = Tail(inbox)
    /\ UNCHANGED <<page, link, saves, sent, starts, edits>>

-----------------------------------------------------------------------------
(* The host's hand, and the effects of the editor                          *)

OpenEditor ==
    /\ InLobby(app) /\ ~editor.open
    /\ editor' = Mounted(app.room.flow)
    /\ UNCHANGED <<page, app, link, inbox, saves, sent, starts, edits>>

\* The tab "Lobby": the autosave's timer is cleared.
CloseEditor ==
    /\ editor.open /\ editor' = NoEditor
    /\ UNCHANGED <<page, app, link, inbox, saves, sent, starts, edits>>

FetchCatalog ==
    /\ editor.fetch # "none"
    /\ editor' \in Fetched(editor)
    /\ UNCHANGED <<page, app, link, inbox, saves, sent, starts, edits>>

EditFlow ==
    /\ editor.open
    /\ edits < MaxEdits /\ edits' = edits + 1
    /\ editor' \in {Edited(editor, flow) : flow \in Edits(editor)}
    /\ UNCHANGED <<page, app, link, inbox, saves, sent, starts>>

\* The autosave's timer fires: storeRoomFlow().
Autosave ==
    /\ editor.unsaved
    /\ editor' = [editor EXCEPT !.unsaved = FALSE]
    /\ sent < MaxSends /\ sent' = sent + 1
    /\ saves' = saves \cup {[n |-> sent', flow |-> editor.flow]}
    /\ UNCHANGED <<page, app, link, inbox, starts, edits>>

\* startGame(): the request is sent after a second, whatever happens to the
\* page meanwhile.
ClickStart ==
    /\ InLobby(app)
    /\ starts < MaxStarts /\ starts' = starts + 1
    /\ UNCHANGED <<page, app, link, inbox, tabVars>>

\* performCloseLobby(), or the countdown of a fatal error: the page is left.
LeavePage ==
    /\ page = "room" /\ HostScreen(app).what \in {"lobby", "over", "fatal"}
    /\ page' = "home" /\ HostClosed(FALSE)
    /\ UNCHANGED <<saves, sent, starts, edits>>
=============================================================================
