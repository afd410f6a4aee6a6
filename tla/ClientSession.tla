---------------------------- MODULE ClientSession ---------------------------
(***************************************************************************)
(* ClientApp with the server's side: joins, answers and the departures of  *)
(* its player (lobby.service.ts, answer.service.ts), and the broadcasts of *)
(* the game.  The handlers are atomic here: how they interleave is         *)
(* LobbyMembership's and AnswerService's subject; what matters to a phone  *)
(* is which frames reach it and which are lost.                            *)
(***************************************************************************)
EXTENDS ClientApp

CONSTANT MaxInbox  \* bound: the frames a phone may lag behind the server

Send(frames) == inbox' = inbox \o frames
Ack(creds) == [name |-> "PLAYER_JOIN_ACK", creds |-> creds]
Rejected(error) == [name |-> "PLAYER_JOIN_REJECTED", error |-> error]
RoomState == Event("ROOM_STATE_UPDATE", RoundAt(cue), PhaseAt(cue))
AnswerAck(resets) == [name |-> "ANSWER_ACK", resets |-> resets]

\* randomBytes(): a token nobody holds or is about to hold.  They are fewer than
\* the frames under way, the phone and the server, and so is 0 (no token).
FreshToken ==
    LET acks == {i \in DOMAIN inbox : inbox[i].name = "PLAYER_JOIN_ACK"}
        used == {app.creds.token, token} \cup {inbox[i].creds.token : i \in acks}
                \cup {outbox[i].creds.token : i \in DOMAIN outbox}
    IN  CHOOSE t \in 1..(Len(inbox) + Len(outbox) + 3) : t \notin used

\* joinClient(): a reconnect when the credentials name a row of the room.  Its
\* ACK carries a new token and no avatar.
HandleJoin ==
    /\ link = "open" /\ outbox # <<>> /\ Head(outbox).name = "PLAYER_JOIN"
    /\ outbox' = Tail(outbox)
    /\ LET creds == Head(outbox).creds
           found == live /\ (creds = NoCreds \/ creds.here)
           known == creds # NoCreds /\ row # "none"
           admits(avatar) ==
               LET new == [token |-> FreshToken, avatar |-> avatar,
                           here |-> TRUE]
               IN  /\ token' = new.token
                   /\ member' = TRUE /\ row' = "on"
                   /\ Send(<<Ack(new), RoomState>>)
           rejects(error) ==
               Send(<<Rejected(error)>>) /\ UNCHANGED <<member, row, token>>
       IN  \/ ~found /\ rejects("fatal")
           \/ found /\ known /\ creds.token = token /\ admits(FALSE)
           \/ found /\ known /\ creds.token # token /\ rejects("join")
           \/ /\ found /\ ~known
              /\ PhaseAt(cue) = "lobby" /\ row = "none" /\ admits(TRUE)
           \/ /\ found /\ ~known
              /\ (PhaseAt(cue) # "lobby" \/ row # "none") /\ rejects("join")
    /\ UNCHANGED <<app, link, timer, attempts, live, cue>>
    /\ UNCHANGED <<heard, faults, missed, lost>>

\* submit(), submitRound(): saved, refused, or the database fails.
HandleAnswer ==
    /\ link = "open" /\ outbox # <<>> /\ Head(outbox).name = "SUBMIT"
    /\ outbox' = Tail(outbox)
    /\ LET r == Head(outbox).round
           open == \E q \in Rounds : Open(q, cue)
           valid == Open(r, cue)
       IN  \/ ~member /\ UNCHANGED <<inbox, heard>>
           \/ /\ member /\ valid /\ r \notin heard
              /\ heard' = heard \cup {r} /\ Send(<<AnswerAck(FALSE)>>)
           \/ /\ member /\ valid /\ r \notin heard
              /\ Send(<<AnswerAck(TRUE)>>) /\ UNCHANGED heard
           \/ /\ member /\ (valid => r \in heard)
              /\ Send(<<AnswerAck(open /\ ~valid)>>) /\ UNCHANGED heard
    /\ UNCHANGED <<app, link, timer, attempts, member, row, token, live,
                   cue, faults, missed, lost>>

\* The engine, the presenter and the scoring service broadcast the next event.
Broadcast ==
    /\ cue < Len(Script) /\ Len(inbox) < MaxInbox
    /\ cue' = cue + 1
    /\ live' = (live /\ Script[cue'].name # "GAME_OVER")
    /\ IF member THEN Send(<<Script[cue']>>) /\ UNCHANGED missed
                 ELSE missed' = TRUE /\ UNCHANGED inbox
    /\ UNCHANGED <<app, link, timer, attempts, outbox, member, row, token,
                   heard, faults, lost>>

\* expireGrace()
ExpireRow ==
    /\ row = "off" /\ row' = "none"
    /\ UNCHANGED <<app, netVars, member, token, live, cue>>
    /\ UNCHANGED <<heard, faults, missed, lost>>

\* kickPlayerByRoom() in the lobby, closeRoom() at any time
Evict ==
    /\ live /\ row # "none"
    /\ \/ /\ PhaseAt(cue) = "lobby" /\ UNCHANGED live
          /\ IF member THEN Send(<<Event("PLAYER_KICKED", 0, "-")>>)
                       ELSE UNCHANGED inbox
          /\ row' = "none"
       \/ /\ live' = FALSE
          /\ IF member THEN Send(<<Event("ROOM_CLOSED", 0, "-")>>)
                       ELSE UNCHANGED inbox
          /\ UNCHANGED row
    /\ member' = FALSE
    /\ UNCHANGED <<app, link, timer, attempts, outbox, token, cue, heard,
                   faults, missed, lost>>

Phone == \/ Connect \/ Opened \/ Receive \/ Drop \/ LoadPage
         \/ Join \/ Answer \/ LeaveRoom \/ ClearFatal
Server == \/ HandleJoin \/ HandleAnswer \/ Broadcast \/ ExpireRow \/ Evict
Next == Phone \/ Server
Spec == Init /\ [][Next]_vars

\* Timers fire, sockets open unless the network refuses them, and frames on an
\* open socket arrive and are handled.
FairSpec == /\ Spec
            /\ WF_vars(Connect) /\ WF_vars(Opened) /\ WF_vars(Receive)
            /\ WF_vars(HandleJoin) /\ WF_vars(HandleAnswer)
-----------------------------------------------------------------------------
InStep == app.joined /\ member /\ link = "open" /\ inbox = <<>>

\* What the phone of a player should show after the first n events.
Expected(n) ==
    CASE PhaseAt(n) = "lobby" -> Show("lobby", 0)
      [] PhaseAt(n) = "round-intro" -> Show("intro", 0)
      [] PhaseAt(n) \in {"playing", "reveal"} ->
            Show(IF IsQuiz(RoundAt(n)) THEN "quiz" ELSE "game", RoundAt(n))
      [] PhaseAt(n) = "leaderboard" -> Show("board", 0)
      [] OTHER -> Show("over", 0)

\* A phone that has missed no event of the round, and has handled all that was
\* sent, shows what the room is at: the screens follow the phases, and a
\* question or a content is the current round's (clientSocketReducer, App).
\* Before the round's content arrives it may still show the last one, and the
\* final scores of an earlier game, once kept, hide a leaderboard.
ScreenFollowsGame ==
    InStep /\ ~missed =>
        \/ Screen = Expected(cue)
        \/ PhaseAt(cue) = "playing" /\ ~Shown(RoundAt(cue), cue)
        \/ PhaseAt(cue) = "leaderboard" /\ app.final

\* An answer locks a phone that has missed nothing of the round only when the
\* server has it or will hear of it, or when the socket it went through was lost
\* with it (handleAnswer, handleRoundSubmit, ANSWER_ACK).
LockedMeansHeard ==
    LET r == Screen.round
        underWay ==
            \/ \E i \in DOMAIN outbox : outbox[i] = AnswerFrame(r)
            \/ AckUnderWay
    IN  (InStep /\ ~missed /\ Locked /\ Screen.what \in {"quiz", "game"}
         /\ Open(r, cue))
            => r \in heard \/ underWay \/ lost

\* The credentials of a player who still has a row are good for it, unless the
\* frame that rotated them was lost (PLAYER_JOIN_ACK, attemptReconnect).
CredsAreGood ==
    (app.creds # NoCreds /\ app.creds.here /\ live /\ row # "none")
        => \/ app.creds.token = token
           \/ AckUnderWay
           \/ lost

\* A phone that shows the spinner with credentials gets in, is refused, or is
\* told that its attempts are used up (connect, onclose).
SpinnerEnds ==
    (app.joining /\ app.creds # NoCreds) ~> (~app.joining \/ app.exhausted)
=============================================================================
