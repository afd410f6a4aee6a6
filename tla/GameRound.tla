------------------------------- MODULE GameRound -------------------------------
(***************************************************************************)
(* One room's running game: GameEngineService drives the rounds and talks  *)
(* through the event bus to AnswerService and ScoringService, while the    *)
(* lobby handles the players' sockets and writes the same client rows.     *)
(*                                                                         *)
(* A bus event is delivered synchronously, and a promise continuation runs *)
(* before the next socket message, timer or query result: so a step here   *)
(* is one such macrotask with everything it resolves.                      *)
(***************************************************************************)
EXTENDS AnswerService, ScoringService

VARIABLES
  pc,       \* what the engine's loop awaits
  round,    \* the round the loop is in, or NoRound
  aborted,  \* RunningGame.aborted
  verdict,  \* the branch taken after the loop
  lobby,    \* player -> the lobby call in flight for that player
  grace,    \* players whose reconnect grace timer is armed
  calls,    \* lobby calls still allowed
  overdue   \* history: rounds whose FINALIZED or SCORED came, if at all, too late

engineVars == <<pc, round, aborted, verdict>>
lobbyVars == <<lobby, grace, calls>>
vars == <<dataVars, answerVars, scoringVars, engineVars, lobbyVars,
          overdue>>

\* The phases with a countdown, and the awaits of queries that may throw.
Timed == {"intro", "question", "reveal", "leaderboard"}
Querying ==
  {"building", "starting", "entering", "revealing", "closing", "finishing"}
EngineSteps == Timed \cup Querying \cup {"finalizing", "scoring", "done"}

LobbySteps == {"idle", "drop", "dropped", "back", "leave", "left"}
LobbyCalls == [at : LobbySteps, entity : Entity]
Idle == [at |-> "idle", entity |-> NoEntity]

EngineTypeOK ==
  /\ pc \in EngineSteps
  /\ round \in RoundNumbers \cup {NoRound}
  /\ aborted \in BOOLEAN
  /\ verdict \in {"none", "finished", "abandoned"}

LobbyTypeOK ==
  /\ lobby \in [Players -> LobbyCalls]
  /\ grace \subseteq Players
  /\ calls \in 0..MaxCalls

RoundUnderway ==
  pc \notin {"building", "finishing", "done"} => round \in RoundNumbers

(* Every variable holds what its comment says, and the loop body runs in a
   round. *)
TypeOK ==
  /\ DataTypeOK /\ AnswerTypeOK /\ ScoringTypeOK /\ EngineTypeOK /\ LobbyTypeOK
  /\ overdue \subseteq RoundNumbers
  /\ RoundUnderway

Init ==
  /\ DataInit
  /\ AnswerInit
  /\ ScoringInit
  /\ pc = "building"
  /\ round = NoRound
  /\ aborted = FALSE
  /\ verdict = "none"
  /\ lobby = [p \in Players |-> Idle]
  /\ grace = {}
  /\ calls = MaxCalls
  /\ overdue = {}

-------------------------------------------------------------------------------
(* The engine *)

\* Mutant of DropWindow: only the scoring context goes.
DropContextOnly ==
  /\ ctx' = NoRound
  /\ UNCHANGED answerVars
  /\ UNCHANGED <<job, credited, timedOut>>

\* ROUND_WINDOW_ABORTED
DropWindow ==
  /\ window' = NoRound
  /\ ctx' = NoRound
  /\ UNCHANGED <<submitted, progress, visited, saving, finalizing, accepted>>
  /\ UNCHANGED <<job, credited, timedOut>>

\* Mutants of NextRound: one round too many; the abort flag is not looked at
\* before the last round.
NextRoundOnePast(flag) ==
  \/ /\ ~flag /\ round <= NumRounds
     /\ round' = round + 1
     /\ pc' = "starting"
     /\ UNCHANGED verdict
  \/ /\ flag \/ round > NumRounds
     /\ verdict' = IF flag THEN "abandoned" ELSE "finished"
     /\ pc' = "finishing"
     /\ UNCHANGED round

NextRoundAnyway(flag) ==
  \/ /\ round < NumRounds
     /\ round' = round + 1
     /\ pc' = "starting"
     /\ UNCHANGED verdict
  \/ /\ round = NumRounds
     /\ verdict' = IF flag THEN "abandoned" ELSE "finished"
     /\ pc' = "finishing"
     /\ UNCHANGED round

\* The head of the loop, with the abort flag as it is by then.
NextRound(flag) ==
  \/ /\ ~flag /\ round < NumRounds
     /\ round' = round + 1
     /\ pc' = "starting"
     /\ UNCHANGED verdict
  \/ /\ flag \/ round = NumRounds
     /\ verdict' = IF flag THEN "abandoned" ELSE "finished"
     /\ pc' = "finishing"
     /\ UNCHANGED round

Goto(step) ==
  /\ pc' = step
  /\ UNCHANGED <<round, aborted, verdict>>

\* Queries and broadcasts of the loop that touch nothing another part reads.
EngineStep ==
  /\ \/ pc = "building" /\ NextRound(aborted) /\ UNCHANGED aborted
     \/ pc = "starting" /\ Goto("intro")
     \/ pc = "revealing" /\ Goto("reveal")
     \/ pc = "closing" /\ round < NumRounds /\ Goto("leaderboard")
     \/ pc = "closing" /\ round = NumRounds /\ NextRound(aborted) /\ UNCHANGED aborted
  /\ UNCHANGED <<dataVars, answerVars, scoringVars, lobbyVars, overdue>>

\* enterPhase(QUESTION), present(), and the question timer is started.
ShowQuestion ==
  /\ pc = "entering"
  /\ window' = round
  /\ ctx' = round
  /\ Goto("question")
  /\ UNCHANGED <<dataVars, lobbyVars, overdue, job, credited, timedOut>>
  /\ UNCHANGED <<submitted, progress, visited, saving, finalizing, accepted>>

\* The round has no content to present: the timer runs without a window.
SkipQuestion ==
  /\ pc = "entering"
  /\ Fail
  /\ Goto("question")
  /\ UNCHANGED <<tableVars, conn, answerVars, scoringVars, lobbyVars, overdue>>

\* A phase without a question runs out.
PhaseExpires ==
  /\ \/ pc = "intro" /\ Goto("entering")
     \/ pc = "reveal" /\ Goto("closing")
     \/ pc = "leaderboard" /\ NextRound(aborted) /\ UNCHANGED aborted
  /\ UNCHANGED <<dataVars, answerVars, scoringVars, lobbyVars, overdue>>

\* Mutant of CloseRound: ROUND_SCORED is not awaited.
CloseRoundOnly ==
  /\ StartJob(round)
  /\ Goto("revealing")

\* ROUND_WINDOW_CLOSED with no window left behind: the engine now awaits
\* ROUND_SCORED, which without a context has been published already.
CloseRound ==
  /\ StartJob(round)
  /\ IF ctx = NoRound THEN Goto("revealing") ELSE Goto("scoring")

\* The question timer settles while sav are the inserts in flight: finalize,
\* and when there is nothing to save go straight on to the close.
EndQuestion(sav) ==
  /\ pc = "question"
  /\ \/ /\ window = round
        /\ \E p \in Players :
             NextSnapshot(round, p, submitted[round], visited[round], sav)
        /\ Goto("finalizing")
        /\ UNCHANGED scoringVars
     \/ /\ window = round
        /\ LastSnapshot(round, submitted[round], visited[round], sav)
        /\ CloseRound
     \/ /\ window # round
        /\ saving' = sav
        /\ window' = NoRound
        /\ UNCHANGED <<submitted, visited, finalizing>>
        /\ CloseRound

\* The countdown reaches zero, or the host skips it.
QuestionExpires ==
  /\ EndQuestion(saving)
  /\ UNCHANGED <<dataVars, lobbyVars, overdue, progress, accepted>>

\* Mutant of FinalizeTimesOut: FINALIZED is awaited without a timeout.
FinalizeNeverTimesOut == FALSE

\* FINALIZED never came: close, whatever finalizeWindow() is still doing.
FinalizeTimesOut ==
  /\ Timeouts
  /\ pc = "finalizing"
  /\ window' = NoRound
  /\ overdue' = overdue \cup {round}
  /\ CloseRound
  /\ UNCHANGED <<dataVars, lobbyVars>>
  /\ UNCHANGED <<submitted, progress, visited, saving, finalizing, accepted>>

ScoreTimesOut ==
  /\ Timeouts
  /\ pc = "scoring"
  /\ Goto("revealing")
  /\ overdue' = overdue \cup {round}
  /\ UNCHANGED <<dataVars, answerVars, scoringVars, lobbyVars>>

\* A query of the loop throws: run() gives the room up.
EngineThrows ==
  /\ pc \in Querying
  /\ Fail
  /\ pc' = "done"
  /\ DropWindow
  /\ UNCHANGED <<tableVars, conn, lobbyVars, overdue, round, aborted, verdict>>

\* finishRoom() and, unless abandoned, GAME_OVER; then the `finally`.
FinishGame ==
  /\ pc = "finishing"
  /\ Goto("done")
  /\ DropWindow
  /\ UNCHANGED <<dataVars, lobbyVars, overdue>>

\* abort(): the flag, and the countdown in flight, if there is one.  The loop
\* then finds the flag at its head; a loop that awaits a query finds it later.
Abort ==
  /\ pc # "done"
  /\ aborted' = TRUE
  /\ \/ /\ pc \in Timed
        /\ NextRound(TRUE)
        /\ IF pc = "question" THEN DropWindow ELSE UNCHANGED <<answerVars, scoringVars>>
     \/ /\ pc \notin Timed
        /\ UNCHANGED <<pc, round, verdict, answerVars, scoringVars>>

Engine ==
  \/ EngineStep \/ ShowQuestion \/ SkipQuestion \/ EngineThrows \/ FinishGame

Countdown == PhaseExpires \/ QuestionExpires

-------------------------------------------------------------------------------
(* Answers *)

PlayerSubmits(p, r) ==
  /\ Submit(p, r)
  /\ UNCHANGED <<dataVars, scoringVars, engineVars, lobbyVars, overdue>>

PlayerProgresses(p, r) ==
  /\ Progress(p, r)
  /\ UNCHANGED <<dataVars, scoringVars, engineVars, lobbyVars, overdue>>

\* persistSubmission() resumes after its INSERT: acknowledge, count, and end
\* the question when the count says so.
SubmissionSaved(p, r) ==
  /\ saving[r][p] = "submit"
  /\ CanInsert(p, r)
  /\ InsertAnswer(p, r)
  /\ accepted' = [accepted EXCEPT ![r] = @ \cup ({p} \cap conn)]
  /\ \/ /\ pc = "question" /\ round = r /\ AllConnectedAnswered(submitted[r])
        /\ EndQuestion(Settled(p, r))
        /\ UNCHANGED <<progress, lobbyVars>>
     \/ /\ ~(pc = "question" /\ round = r /\ AllConnectedAnswered(submitted[r]))
        /\ saving' = Settled(p, r)
        /\ UNCHANGED <<window, submitted, progress, visited, finalizing>>
        /\ UNCHANGED <<scoringVars, engineVars, lobbyVars>>
  /\ UNCHANGED overdue

\* The row is there already: 'already-answered', and nothing else happens.
SubmissionDuplicate(p, r) ==
  /\ saving[r][p] = "submit"
  /\ p \in rows[r]
  /\ saving' = Settled(p, r)
  /\ UNCHANGED <<window, submitted, progress, visited, finalizing, accepted>>
  /\ UNCHANGED <<dataVars, scoringVars, engineVars, lobbyVars, overdue>>

SubmissionThrows(p, r) ==
  /\ saving[r][p] = "submit"
  /\ InsertThrows(p, r)
  /\ ForgetSubmission(p, r)
  /\ UNCHANGED <<scoringVars, engineVars, lobbyVars, overdue>>

\* What the loop over the snapshots does after p's INSERT: save another one, or
\* publish FINALIZED, on which the engine closes the round if it still waits.
ContinueFinalize(p, r, sub) ==
  \/ /\ \E q \in Players : NextSnapshot(r, q, sub, visited[r], Settled(p, r))
     /\ UNCHANGED <<scoringVars, engineVars>>
  \/ /\ LastSnapshot(r, sub, visited[r], Settled(p, r))
     /\ IF pc = "finalizing" /\ round = r
        THEN CloseRound
        ELSE UNCHANGED <<scoringVars, engineVars>>

SnapshotSaved(p, r) ==
  /\ saving[r][p] = "snapshot"
  /\ \/ CanInsert(p, r) /\ InsertAnswer(p, r)
     \/ p \in rows[r] /\ UNCHANGED dataVars
  /\ ContinueFinalize(p, r, submitted[r])
  /\ UNCHANGED <<progress, accepted, lobbyVars, overdue>>

SnapshotThrows(p, r) ==
  /\ saving[r][p] = "snapshot"
  /\ InsertThrows(p, r)
  /\ ContinueFinalize(p, r, submitted[r] \ {p})
  /\ UNCHANGED <<progress, accepted, lobbyVars, overdue>>

-------------------------------------------------------------------------------
(* Scoring *)

JobEnds(r) ==
  /\ FinishJob(r) \/ JobThrows(r)
  /\ IF pc = "scoring" /\ round = r
     THEN Goto("revealing")
     ELSE UNCHANGED engineVars
  /\ UNCHANGED <<answerVars, lobbyVars, overdue>>

JobStep(r) ==
  /\ \/ ReadRows(r) \/ ReadRoster(r)
     \/ \E p \in Players : ScoreRow(r, p) \/ Credit(r, p)
  /\ UNCHANGED <<answerVars, engineVars, lobbyVars, overdue>>

-------------------------------------------------------------------------------
(* The lobby, as far as it touches a running game.  The calls of one player *)
(* run one at a time here.                                                  *)

BeginCall(p, step) ==
  /\ lobby[p].at = "idle"
  /\ calls > 0
  /\ calls' = calls - 1
  /\ lobby' = [lobby EXCEPT ![p] = [at |-> step, entity |-> Loaded(p)]]
  /\ UNCHANGED <<tableVars, faults, answerVars, scoringVars, engineVars, overdue>>

ContinueCall(p, call) ==
  /\ lobby' = [lobby EXCEPT ![p] = call]
  /\ UNCHANGED <<faults, calls, answerVars, scoringVars, engineVars, overdue>>

\* handleDisconnect(): unregister and read the client, then save it offline.
SocketDrops(p) ==
  /\ p \in conn
  /\ conn' = conn \ {p}
  /\ BeginCall(p, "drop")
  /\ UNCHANGED grace

MarkOffline(p) ==
  /\ lobby[p].at = "drop"
  /\ SaveClient(p, [lobby[p].entity EXCEPT !.online = FALSE])
  /\ ContinueCall(p, [Idle EXCEPT !.at = "dropped"])
  /\ UNCHANGED <<conn, grace>>

\* attemptReconnect(): read the client, whose token is still known, and stop its
\* grace timer; then save it online and register the socket.
PlayerReturns(p) ==
  /\ p \notin conn
  /\ p \in roster \ removed
  /\ grace' = grace \ {p}
  /\ BeginCall(p, "back")
  /\ UNCHANGED conn

MarkOnline(p) ==
  /\ lobby[p].at = "back"
  /\ SaveClient(p, [lobby[p].entity EXCEPT !.online = TRUE])
  /\ conn' = conn \cup {p}
  /\ ContinueCall(p, Idle)
  /\ UNCHANGED grace

\* leaveClient(): unregister, then remove the client.
PlayerLeaves(p) ==
  /\ p \in conn
  /\ conn' = conn \ {p}
  /\ BeginCall(p, "leave")
  /\ UNCHANGED grace

RemoveLeaver(p) ==
  /\ lobby[p].at = "leave"
  /\ RemoveClient(p)
  /\ ContinueCall(p, [Idle EXCEPT !.at = "left"])
  /\ UNCHANGED <<conn, grace>>

\* maybeAbortGame() on the roster it reads; a disconnect then arms the timer.
CheckAbandoned(p) ==
  /\ lobby[p].at \in {"dropped", "left"}
  /\ lobby' = [lobby EXCEPT ![p] = Idle]
  /\ grace' = IF lobby[p].at = "dropped" THEN grace \cup {p} ELSE grace
  /\ \/ roster \cap online = {} /\ Abort
     \/ /\ roster \cap online # {} \/ pc = "done"
        /\ UNCHANGED <<answerVars, scoringVars, engineVars>>
  /\ UNCHANGED <<dataVars, calls, overdue>>

\* expireGrace(): a client still marked offline is removed.
ExpireGrace(p) ==
  /\ p \in grace
  /\ lobby[p].at = "idle"
  /\ grace' = grace \ {p}
  /\ IF p \in roster \ online
     THEN RemoveClient(p)
     ELSE UNCHANGED tableVars
  /\ ContinueCall(p, Idle)
  /\ UNCHANGED conn

Lobby(p) ==
  \/ SocketDrops(p) \/ MarkOffline(p) \/ PlayerReturns(p) \/ MarkOnline(p)
  \/ PlayerLeaves(p) \/ RemoveLeaver(p) \/ CheckAbandoned(p) \/ ExpireGrace(p)

-------------------------------------------------------------------------------
Next ==
  \/ Engine
  \/ Countdown
  \/ FinalizeTimesOut \/ ScoreTimesOut
  \/ \E r \in RoundNumbers, p \in Players :
       \/ PlayerSubmits(p, r) \/ PlayerProgresses(p, r)
       \/ SubmissionSaved(p, r) \/ SubmissionDuplicate(p, r)
       \/ SubmissionThrows(p, r)
       \/ SnapshotSaved(p, r) \/ SnapshotThrows(p, r)
  \/ \E r \in RoundNumbers : JobStep(r) \/ JobEnds(r)
  \/ \E p \in Players : Lobby(p)

Spec == Init /\ [][Next]_vars

\* The engine runs on: its own queries come back and its countdowns tick.  What
\* it awaits from the other services need not come: it has timeouts for that.
FairSpec ==
  /\ Spec
  /\ WF_vars(EngineStep \/ ShowQuestion \/ FinishGame)
  /\ WF_vars(Countdown)
  /\ WF_vars(FinalizeTimesOut)
  /\ WF_vars(ScoreTimesOut)

-------------------------------------------------------------------------------
(* Properties *)

(* Answers are taken only for the round the engine is in, and only between its
   question and the close of its window: an abort, a failure of the engine or a
   late finalization never leaves a window open behind them. *)
WindowOpenOnlyInQuestion ==
  window # NoRound => window = round /\ pc \in {"question", "finalizing"}

(* While a question runs, answers are taken exactly if they are going to be
   scored: the two services keep a map each, set and cleared by different
   events.  Only the late end of a round the engine has stopped waiting for comes
   between them: finalizeWindow() and scoreRound() then delete the entry of
   whichever round is open. *)
WindowMatchesContext ==
  pc = "question" /\ window # ctx => \E q \in overdue : q < round

(* A player's score never exceeds the rounds that credited it, whatever entity
   was read when and saved over whatever other. *)
NoOverCredit ==
  \A p \in Players :
    total[p] <= Cardinality({r \in RoundNumbers : p \in credited[r]})

(* closeAndAwaitScore(): a round is being scored only while the engine waits for
   it, so the reveal, the scores of ROUND_END, the leaderboard and GAME_OVER show
   no round half scored, unless the wait for that very round has timed out. *)
ScoresSettled ==
  \A r \in RoundNumbers :
    \/ job[r].at \in {"idle", "done"}
    \/ pc = "scoring" /\ r = round
    \/ r \in overdue

(* persistSubmission(): a player whose answer the window holds has a row, or an
   INSERT in flight, or has been removed since.  A failed INSERT never leaves a
   player unable to answer again and without an answer. *)
SubmittedIsStored ==
  \A r \in RoundNumbers : \A p \in submitted[r] :
    saving[r][p] = "none" => p \in rows[r] \cup removed

(* persistProgressSnapshots(): once a round is closed, every player that made
   progress in it has an answer to score, even one who left the connection or
   whose progress came while others were being saved.  Only a failed query, a
   removal or an await that timed out loses one. *)
ProgressKept ==
  \A r \in RoundNumbers : \A p \in progress[r] :
    job[r].at # "idle" /\ overdue = {} /\ faults = MaxFaults =>
      p \in rows[r] \cup removed \/ saving[r][p] = "submit"

(* A reveal never calls a player late whom the same round credits. *)
TimeoutsUncredited ==
  \A r \in RoundNumbers : timedOut[r] \cap credited[r] = {}

(* An aborted game enters no further round, wherever the abort found it. *)
NoRoundAfterAbort ==
  [][round' # round => ~aborted]_vars

(* The game ends, even if no INSERT and no scoring query ever comes back. *)
GameEnds == <>(pc = "done")

(* The services implement what GameShow promises: they agree on one order of
   the rounds, and no answer, point or new round gets out of it, although each
   keeps maps of its own and every query may end late. *)
Stage ==
  CASE pc = "building" -> "waiting"
    [] pc \in {"starting", "intro", "entering"} -> "intro"
    [] pc \in {"question", "finalizing"} -> "asking"
    [] pc = "scoring" -> "scoring"
    [] pc \in {"revealing", "reveal", "closing"} -> "reveal"
    [] pc = "leaderboard" -> "standings"
    [] pc = "finishing" -> "ending"
    [] pc = "done" -> "over"

Show == INSTANCE GameShow WITH
  stage <- Stage, open <- (window # NoRound), stopped <- aborted, Late <- Timeouts

ShowGoesOn == Show!Spec

(* scoring.service.ts:4-5: "roster members with no submission reported as
   timeouts", so not those whose submission was acknowledged as accepted. *)
AcceptedIsNotTimeout ==
  \A r \in RoundNumbers : accepted[r] \cap timedOut[r] = {}
===============================================================================
