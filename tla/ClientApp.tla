----------------------------- MODULE ClientApp ------------------------------
(***************************************************************************)
(* The phone of a player (client/App.tsx, hooks/useClientSocket.tsx,       *)
(* hooks/clientSocketReducer.ts, hooks/clientMessages.ts,                  *)
(* helpers/saved-player.ts) against the server's side of its socket: the   *)
(* socket opens, fails and drops, frames in flight are lost with it, the   *)
(* page is reloaded, and the game goes on meanwhile (GameScript).          *)
(*                                                                         *)
(* The state of the reducer is the record "app".  A question, a content    *)
(* and a reveal are the number of their round, 0 for null; credentials are *)
(* the reconnect token, whether the avatar is known with them, and whether *)
(* they are of the room the player is asked to.                            *)
(***************************************************************************)
EXTENDS GameScript

CONSTANTS
    Kinds,  \* of the rounds of the game
    MaxReconnectAttempts,  \* MAX_RECONNECT_ATTEMPTS
    MaxFaults              \* bound: lost or refused sockets, loads of the page

ASSUME KindsAssumption == Kinds \in Seq({"quiz", "game"})

Rounds == 1..Len(Kinds)
Script == ScriptOf(Kinds)
Cues == 0..Len(Script)
IsQuiz(r) == Kinds[r] = "quiz"
PhaseAt(n) == PhaseIn(Script, n)
RoundAt(n) == RoundIn(Script, n)
Shown(r, n) == ShownIn(Script, r, n)
Open(r, n) == Shown(r, n) /\ ~RevealedIn(Script, r, n)

VARIABLES
    app,    \* the reducer's state
    link,   \* the phone's socket: "none", "opening", "open", "closed"
    timer,  \* whether a connect timer is armed
    attempts,
    inbox,  \* frames on their way to the phone
    outbox, \* frames on their way to the server
    member, \* whether the server has the phone's socket registered
    row,    \* the player's row: "none", "on", "off"
    token,  \* the reconnect token the server expects, 0 for none
    live,   \* whether the player's room can be found by its code
    cue,    \* how much of the game's script the server has sent
    heard,  \* the rounds for which the server holds the player's answer
    faults, \* history: how often a socket was lost or the page loaded
    missed, \* history: the phone has missed an event of the current round
    lost    \* history: a frame of the phone, or the answer to one, was lost

netVars == <<link, timer, attempts, inbox, outbox>>
srvVars == <<member, row, token, live, cue, heard>>
vars == <<app, netVars, srvVars, faults, missed, lost>>

NoCreds == [token |-> 0, avatar |-> FALSE, here |-> FALSE]

\* Credentials of an earlier room, which is closed by now.
OldCreds == [token |-> 1, avatar |-> TRUE, here |-> FALSE]

\* createInitialClientState()
Initial(saved) ==
    [status |-> "connecting", joined |-> FALSE, joining |-> saved # NoCreds,
     phase |-> "none", question |-> 0, content |-> 0, reveal |-> 0,
     selected |-> FALSE, submitted |-> FALSE, final |-> FALSE,
     error |-> "none", exhausted |-> FALSE, kicked |-> FALSE,
     pending |-> FALSE, creds |-> saved]

\* loadSavedPlayer() of what saveSavedPlayer() has stored: credentials without
\* an avatar are not read back.
Stored(creds) == IF creds.avatar THEN creds ELSE NoCreds

\* The phone is new to the game; or its page finds the credentials of an
\* earlier room; or it comes from a game that was over when its socket closed,
\* of which the final scores are left.
Init ==
    /\ \/ app = Initial(NoCreds) /\ faults = 0
       \/ app = Initial(OldCreds) /\ faults = 1
       \/ app = [Initial(NoCreds) EXCEPT !.final = TRUE] /\ faults = 1
    /\ link = "none" /\ timer = TRUE /\ attempts = 0
    /\ inbox = <<>> /\ outbox = <<>>
    /\ member = FALSE /\ row = "none" /\ token = 0 /\ live = TRUE
    /\ cue = 0 /\ heard = {}
    /\ missed = FALSE /\ lost = FALSE

-----------------------------------------------------------------------------
(* The reducer                                                             *)

Forgotten(s) ==
    [s EXCEPT !.creds = NoCreds, !.joining = FALSE, !.joined = FALSE]

Evicted(s) ==
    [Forgotten(s) EXCEPT !.kicked = TRUE, !.phase = "none", !.final = FALSE,
                         !.exhausted = FALSE, !.error = "join"]

\* Slip: a phone that has credentials keeps them.
AdmittedKeepsCreds(s, creds) ==
    [s EXCEPT !.creds = IF @ = NoCreds THEN creds ELSE @, !.pending = FALSE,
              !.error = IF @ = "join" THEN "none" ELSE @,
              !.joining = FALSE, !.joined = TRUE]

Admitted(s, creds) ==
    [s EXCEPT !.creds = creds, !.pending = FALSE,
              !.error = IF @ = "join" THEN "none" ELSE @,
              !.joining = FALSE, !.joined = TRUE]

\* Slip: a refused answer leaves the screen locked.
RefusedStaysLocked(s) == s

Refused(s) == [s EXCEPT !.selected = FALSE, !.submitted = FALSE]

\* SERVER_EVENT_HANDLERS
Reduce(s, e) ==
    CASE e.name = "PLAYER_JOIN_ACK" -> Admitted(s, e.creds)
      [] e.name = "PLAYER_JOIN_REJECTED" ->
            [Forgotten(s) EXCEPT !.error = e.error]
      [] e.name \in {"PLAYER_KICKED", "ROOM_CLOSED"} -> Evicted(s)
      [] e.name = "ROOM_STATE_UPDATE" -> [s EXCEPT !.phase = e.phase]
      [] e.name = "GAME_PHASE_CHANGE" ->
            \* with the snapshot that follows it
            [s EXCEPT !.phase = e.phase]
      [] e.name = "ROUND_START" ->
            [s EXCEPT !.content = 0, !.submitted = FALSE]
      [] e.name = "QUESTION_SHOW" ->
            [s EXCEPT !.content = 0, !.question = e.round, !.reveal = 0,
                      !.selected = FALSE]
      [] e.name = "ROUND_CONTENT_SHOW" ->
            [s EXCEPT !.content = e.round, !.submitted = FALSE]
      [] e.name = "QUESTION_REVEAL" -> [s EXCEPT !.reveal = e.round]
      [] e.name = "GAME_OVER" -> [s EXCEPT !.final = TRUE]
      [] e.name = "ANSWER_ACK" /\ e.resets -> Refused(s)
      [] OTHER -> s

\* A screen, and the round it is of.
Show(what, r) == [what |-> what, round |-> r]

\* Slip: a question that is still there hides the minigame.
GameplayQuestionFirst ==
    CASE app.question # 0 -> Show("quiz", app.question)
      [] app.question = 0 /\ app.content # 0 -> Show("game", app.content)
      [] OTHER -> Show("preparing", 0)

\* renderGameplay()
Gameplay ==
    CASE app.content # 0 -> Show("game", app.content)
      [] app.content = 0 /\ app.question # 0 -> Show("quiz", app.question)
      [] OTHER -> Show("preparing", 0)

\* renderJoinedPhase()
JoinedScreen ==
    CASE app.phase \in {"none", "lobby"} -> Show("lobby", 0)
      [] app.phase = "round-intro" -> Show("intro", 0)
      [] app.phase \in {"playing", "reveal"} -> Gameplay
      [] app.phase = "game-over" -> Show("over", 0)
      [] OTHER -> Show(IF app.final THEN "over" ELSE "board", 0)

\* renderApp()
Screen ==
    CASE app.error = "fatal" -> Show("fatal", 0)
      [] app.error # "fatal" /\ ~app.joined ->
            Show(IF app.joining THEN "loading" ELSE "join", 0)
      [] OTHER -> JoinedScreen

\* Whether the answer screen or the minigame takes no more answers.
Locked == IF Screen.what = "quiz" THEN app.selected ELSE app.submitted

-----------------------------------------------------------------------------
(* The hook: connect(), its socket's callbacks, and the player             *)

JoinFrame(creds) == [name |-> "PLAYER_JOIN", creds |-> creds, round |-> 0]
AnswerFrame(r) == [name |-> "SUBMIT", creds |-> NoCreds, round |-> r]

\* The server sees the socket close: handleDisconnect() of a member.
Leaves == /\ member' = FALSE
          /\ row' = IF member /\ row = "on" THEN "off" ELSE row

AckUnderWay ==
    \E i \in DOMAIN inbox : inbox[i].name \in {"PLAYER_JOIN_ACK", "ANSWER_ACK"}

\* Frames on their way are lost with the socket.
LoseFrames ==
    /\ inbox' = <<>> /\ outbox' = <<>>
    /\ missed' = (missed \/ inbox # <<>>)
    /\ lost' = (lost \/ outbox # <<>>
                \/ AckUnderWay)

Connect ==
    /\ timer /\ timer' = FALSE
    /\ link' = "opening"
    /\ app' = [app EXCEPT !.status = "connecting"]
    /\ UNCHANGED <<attempts, inbox, outbox, srvVars, faults, missed, lost>>

Opened ==
    /\ link = "opening" /\ link' = "open"
    /\ app' = [app EXCEPT !.status = "open", !.exhausted = FALSE]
    /\ attempts' = 0
    /\ outbox' = IF app.creds # NoCreds \/ app.pending
                 THEN <<JoinFrame(app.creds)>> ELSE <<>>
    /\ UNCHANGED <<timer, inbox, srvVars, faults, missed, lost>>

\* onmessage.  The server closes the socket of an evicted player, and so does
\* the effect of "kicked".
Receive ==
    /\ link = "open" /\ inbox # <<>>
    /\ LET e == Head(inbox)
           evicts == e.name \in {"PLAYER_KICKED", "ROOM_CLOSED"}
       IN  /\ app' = [Reduce(app, e) EXCEPT !.status =
                          IF evicts THEN "closed" ELSE @]
           /\ link' = IF evicts THEN "closed" ELSE link
           /\ outbox' = IF evicts THEN <<>> ELSE outbox
           /\ inbox' = IF evicts THEN <<>> ELSE Tail(inbox)
           /\ missed' = (missed /\ e.name # "ROUND_START")
    /\ UNCHANGED <<timer, attempts, srvVars, faults, lost>>

\* Slip: the last attempt fails without a word.
ClosedSilently ==
    LET again == /\ app.creds # NoCreds
                 /\ attempts < MaxReconnectAttempts
    IN  /\ link' = "closed"
        /\ timer' = again
        /\ attempts' = IF again THEN attempts + 1 ELSE attempts
        /\ app' = [app EXCEPT !.status = "closed"]

\* onclose: with credentials the phone tries again a few times.
Closed ==
    LET again == /\ app.creds # NoCreds
                 /\ attempts < MaxReconnectAttempts
    IN  /\ link' = "closed"
        /\ timer' = again
        /\ attempts' = IF again THEN attempts + 1 ELSE attempts
        /\ app' = [app EXCEPT !.status = "closed",
                              !.exhausted = @ \/ (app.creds # NoCreds /\ ~again)]

\* The network drops the socket, or refuses it.
Drop ==
    /\ link \in {"opening", "open"}
    /\ faults < MaxFaults /\ faults' = faults + 1
    /\ Closed /\ Leaves /\ LoseFrames
    /\ UNCHANGED <<token, live, cue, heard>>

\* The page is loaded again: only what the storage holds survives.
LoadPage ==
    /\ faults < MaxFaults /\ faults' = faults + 1
    /\ app' = Initial(Stored(app.creds))
    /\ link' = "none" /\ timer' = TRUE /\ attempts' = 0
    /\ inbox' = <<>> /\ outbox' = <<>>
    /\ missed' = TRUE
    /\ lost' = (lost \/ outbox # <<>> \/ app.creds # Stored(app.creds)
                \/ AckUnderWay)
    /\ Leaves
    /\ UNCHANGED <<token, live, cue, heard>>

\* handleJoin() from the join screen; a connect timer (50 ms, or 1.5 s after a
\* lost socket) has fired before a name is typed.
Join ==
    /\ Screen.what = "join" /\ ~timer
    /\ LET started == [app EXCEPT !.error = "none", !.joining = TRUE]
       IN  \/ /\ link = "open"
              /\ app' = started
              /\ outbox' = Append(outbox, JoinFrame(NoCreds))
              /\ UNCHANGED link
           \/ /\ link # "open"
              /\ app' = [started EXCEPT !.pending = TRUE, !.status =
                             IF link = "opening" THEN @ ELSE "connecting"]
              /\ link' = "opening"
              /\ UNCHANGED outbox
    /\ UNCHANGED <<timer, attempts, inbox, srvVars, faults, missed, lost>>

\* handleAnswer() of an unlocked tile, handleRoundSubmit() of a minigame
Answer ==
    /\ link = "open" /\ app.phase = "playing" /\ ~Locked
    /\ \/ /\ Screen.what = "quiz"
          /\ app' = [app EXCEPT !.selected = TRUE]
       \/ /\ Screen.what = "game"
          /\ app' = [app EXCEPT !.submitted = TRUE]
    /\ outbox' = Append(outbox, AnswerFrame(Screen.round))
    /\ UNCHANGED <<link, timer, attempts, inbox, srvVars, faults, missed,
                   lost>>

\* handleLeaveRoom(): the server is told if the socket is open, and otherwise has
\* seen it close.  An armed timer connects all the same, to no room.
LeaveRoom ==
    /\ Screen.what \in {"lobby", "over"}
    /\ app' = [Initial(NoCreds) EXCEPT !.status = "closed"]
    /\ link' = "none" /\ inbox' = <<>> /\ outbox' = <<>>
    /\ \/ /\ link = "open" /\ member' = FALSE
          /\ row' = IF member THEN "none" ELSE row
       \/ link # "open" /\ Leaves
    /\ UNCHANGED <<timer, attempts, token, live, cue, heard, faults,
                   missed, lost>>

ClearFatal ==
    /\ Screen.what = "fatal"
    /\ app' = [app EXCEPT !.error = "none"]
    /\ UNCHANGED <<netVars, srvVars, faults, missed, lost>>
=============================================================================
