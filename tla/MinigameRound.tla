---------------------------- MODULE MinigameRound ---------------------------
(***************************************************************************)
(* One minigame round, between the phone of a player and the server: the   *)
(* screens of src/minigames as client/App.tsx renders them, the socket     *)
(* handlers of client/hooks, AnswerService's progress and submissions, the *)
(* finalizing of the window, and the score by the adapter of the game.     *)
(*                                                                         *)
(* The game and its puzzle are chosen once, so a behaviour is of one game. *)
(* GameRound has the rounds of several players and the awaits of closing;  *)
(* here closing is one step, and the data of the games is real.            *)
(***************************************************************************)
EXTENDS SlidingPuzzle, LightSwitch, VaultRush, GuessTheWord, BalanceScale, BonkAir

CONSTANTS
    Games,           \* the games dealt
    ScrambleMoves,   \* lengths of a scramble, DEFAULT_SCRAMBLE_MOVES in the code
    IsPlayed(_, _),  \* whether a puzzle of a game is played, or only dealt
    Touched,         \* bound: the cells a finger touches in Bonk Air
    MaxTurns(_),     \* bound: what the player does on the screen of a game
    SolverTurns,     \* bound: turns of solveBoard()'s loop
    MaxFaults(_)     \* bound: sockets that drop and saves that fail, by game

ASSUME RoundAssumption ==
    /\ Games \subseteq {"sliding-puzzle", "light-switch", "vault-rush", "wordle",
                       "balance-scale", "bonk-air"}
    /\ Max(ScrambleMoves) \in Nat /\ ScrambleMoves \subseteq 1..Max(ScrambleMoves)
    /\ Touched \subseteq Grid

VARIABLES
    game,       \* the type of the round
    puzzle,     \* what createRound() made of it
    screen,     \* the component of the game, <<>> before it is rendered
    submitted,  \* roundSubmitted
    seen,       \* the phase the phone renders
    online,     \* the socket is open
    up, down,   \* the frames to the server and to the phone, in order
    now,        \* ticks since shownAt
    window,     \* the answer window
    progress,   \* the snapshot of the player: <<>> or <<[value, time]>>
    taken,      \* window.submitted has the player
    saving,     \* the row being saved, the same
    row,        \* the row in the database, the same
    acked,      \* the player counts as one who has answered
    result,     \* the score: <<>> or <<[isCorrect, pointsAwarded]>>
    lost,       \* history: a frame, an answer or a guess of the player was lost
    turns, faults

phone == <<screen, submitted, seen, online>>
server == <<window, progress, taken, saving, row, acked, result>>
vars == <<game, puzzle, phone, up, down, now, server, lost, turns, faults>>
-----------------------------------------------------------------------------
(* Dealing, rules and scoring, by game: MinigameRegistry and its adapters  *)

Scrambled == [moves \in 1..Max(ScrambleMoves) |-> ScrambledBoards(moves)]

Puzzles(g) ==
    CASE g = "sliding-puzzle" -> UNION {Scrambled[m] : m \in ScrambleMoves}
      [] g = "light-switch" -> LightPuzzles
      [] g = "vault-rush" -> Vaults
      [] g = "wordle" -> RandomWords
      [] g = "balance-scale" -> ScalePuzzles(1..3)
      [] g = "bonk-air" -> Worlds

Solution ==
    CASE game = "vault-rush" -> puzzle.code
      [] game = "wordle" -> puzzle
      [] game = "balance-scale" -> puzzle.correct

\* validateSubmission()
Valid(value) ==
    CASE game = "sliding-puzzle" -> ValidBoard(value)
      [] game = "light-switch" -> ValidPresses(value)
      [] game = "vault-rush" -> ValidCode(value)
      [] game = "wordle" -> ValidGuesses(value)
      [] game = "balance-scale" -> ValidOption(value)
      [] game = "bonk-air" -> value.isCurrent /\ ValidPlan(value.solution)

\* scoreSubmission()
Score(value, t) ==
    CASE game = "sliding-puzzle" -> ScoreBoard(value, t)
      [] game = "light-switch" -> ScorePresses(value, puzzle.wiring,
                                               puzzle.lights, t)
      [] game = "vault-rush" -> ScoreCode(value, Solution, t)
      [] game = "wordle" -> ScoreGuesses(value, Solution, t)
      [] game = "balance-scale" -> ScoreOption(value, Solution, t)
      [] game = "bonk-air" -> ScorePlan(puzzle, value.solution, t)

\* scoreRound(): a player without a row gets nothing.
Scored(rows) == IF rows = <<>> THEN Worthless ELSE Score(rows[1].value, rows[1].time)
-----------------------------------------------------------------------------
(* The phone                                                               *)

Fresh ==
    CASE game = "sliding-puzzle" -> [board |-> puzzle]
      [] game = "light-switch" -> [pressed |-> <<>>, lights |-> puzzle.lights,
                                   isSolved |-> FALSE]
      [] game = "vault-rush" -> [code |-> <<>>]
      [] game = "wordle" -> [words |-> <<>>, waiting |-> FALSE,
                             feedback |-> <<>>, sent |-> 0]
      [] game = "balance-scale" -> [selected |-> 0]
      [] game = "bonk-air" -> [phase |-> "plan", paths |-> <<>>, drawing |-> <<>>,
                               plan |-> <<>>, flight |-> <<>>,
                               left |-> down[1].left]

Progress(value) == [kind |-> "progress", value |-> value]
Submit(value) == [kind |-> "submit", value |-> value]
Frame(kind) == [kind |-> kind]

\* handleRoundProgress() and handleRoundSubmit(), one after the other: nothing
\* leaves a closed socket, and nothing is kept for when it is open again.
Send(frames) ==
    /\ up' = IF online THEN up \o frames ELSE up
    /\ submitted' = \/ submitted
                    \/ online /\ \E f \in DOMAIN frames : frames[f].kind = "submit"
    /\ lost' = (lost \/ ~online)

\* Slip: the feedback does not free the keyboard.
RefreshedStillWaits(s) == [s EXCEPT !.words = s.feedback[1].words]

\* WordleMock's effect on the feedback.  It also runs when onSubmit is a new
\* function, and that is so whenever the app is rendered.
Refreshed(s) == [s EXCEPT !.words = s.feedback[1].words, !.waiting = FALSE]
SubmitsItself(s, locked) ==
    /\ s.feedback[1].phase \in {"solved", "failed"}
    /\ ~locked /\ s.sent # Len(s.feedback[1].words)

\* bonkPlanRef, and what is sent of it
Plan(paths, isCurrent) == [isCurrent |-> isCurrent, solution |-> paths]
HandIn(plan, locked) ==
    /\ submitted' = (locked \/ online')
    /\ up' = IF online' /\ ~locked THEN Append(up, Submit(plan)) ELSE up

\* isBonkFlushWindow(), in an effect of what it reads.
FlushIsDue(s, phase, locked) ==
    /\ phase = "playing" /\ ~locked /\ s.left = 1
    /\ s.left # screen.left \/ locked # submitted \/ phase # seen

\* startReplay(): what is still being planned is handed in, in vain.
Replayed(s) ==
    [s EXCEPT !.phase = "sim", !.drawing = <<>>,
              !.plan = IF s.phase = "plan" THEN <<s.paths>> ELSE @,
              !.flight = <<TakenOff(puzzle, s.paths)>>]

RenderFlight(s, phase, locked) ==
    IF phase = "reveal" /\ s.phase \in {"plan", "locked"}
    THEN /\ screen' = Replayed(s)
         /\ IF s.phase = "plan" /\ ~locked
            THEN HandIn(Plan(s.paths, TRUE), locked) /\ lost' = TRUE
            ELSE submitted' = locked /\ UNCHANGED <<up, lost>>
    ELSE IF FlushIsDue(s, phase, locked)
    THEN /\ HandIn(Plan(IF s.plan = <<>> THEN <<>> ELSE s.plan[1], TRUE), locked)
         /\ lost' = (lost \/ ~online' \/ s.drawing # <<>>)
         /\ screen' = s
    ELSE screen' = s /\ submitted' = locked /\ UNCHANGED <<up, lost>>

RenderWord(s, phase, locked) ==
    IF s.feedback = <<>>
    THEN screen' = s /\ submitted' = locked /\ UNCHANGED <<up, lost>>
    ELSE IF SubmitsItself(s, locked \/ phase = "reveal")
    THEN /\ screen' = [Refreshed(s) EXCEPT !.sent = Len(s.feedback[1].words)]
         /\ HandIn(s.feedback[1].words, locked)
         /\ lost' = (lost \/ ~online')
    ELSE screen' = Refreshed(s) /\ submitted' = locked /\ UNCHANGED <<up, lost>>

\* The app is rendered, with the effects of the game.
Render(s, phase, locked) ==
    CASE s # <<>> /\ game = "wordle" -> RenderWord(s, phase, locked)
      [] s # <<>> /\ game = "bonk-air" -> RenderFlight(s, phase, locked)
      [] OTHER -> screen' = s /\ submitted' = locked /\ UNCHANGED <<up, lost>>

Plays(g) ==
    /\ game = g /\ screen # <<>> /\ turns < MaxTurns(g)
    /\ turns' = turns + 1
    /\ UNCHANGED <<game, puzzle, seen, online, down, now, server, faults>>

\* handleTileClick(), handleSlidingPuzzleBoardUpdate()
SlideTile(i) ==
    /\ Plays("sliding-puzzle")
    /\ ~submitted /\ seen = "playing"
    /\ i \in LegalTiles(screen.board)
    /\ LET board == MoveTile(screen.board, i)
       IN  /\ screen' = [board |-> board]
           /\ Send(<<Progress(board)>>
                   \o IF IsSolvedBoard(board) THEN <<Submit(board)>> ELSE <<>>)

\* handleSwitchClick(): the solution is submitted, and not sent as progress.  A
\* switch that is pressed again is taken out; it is there once.
PressSwitch(i) ==
    /\ Plays("light-switch")
    /\ ~screen.isSolved
    /\ LET pressed == IF Contains(screen.pressed, i) THEN RemoveFirst(screen.pressed, i)
                      ELSE Append(screen.pressed, i)
           lights == ApplySwitch(screen.lights, puzzle.wiring[i])
       IN  /\ screen' = [pressed |-> pressed, lights |-> lights,
                         isSolved |-> AllOn(lights)]
           /\ IF AllOn(lights) THEN Send(<<Submit(pressed)>>)
              ELSE IF submitted THEN UNCHANGED <<up, submitted, lost>>
              ELSE Send(<<Progress(pressed)>>)

\* VaultRush's form
EnterCode(code) ==
    /\ Plays("vault-rush")
    /\ ~submitted /\ seen = "playing"
    /\ screen' = [code |-> code]
    /\ Send(<<Submit(code)>>)

\* WordleMock's handleSubmit(): one feedback is waited for.
EnterGuess(word) ==
    /\ Plays("wordle")
    /\ ~submitted /\ seen = "playing" /\ ~screen.waiting
    /\ \A f \in DOMAIN screen.feedback : screen.feedback[f].phase = "playing"
    /\ Len(screen.words) < MaxTries
    /\ screen' = [screen EXCEPT !.words = Append(@, word), !.waiting = TRUE]
    /\ Send(<<Progress(Append(screen.words, word))>>)

\* MinigameChoiceGrid, selectOption()
PickOption(o) ==
    /\ Plays("balance-scale")
    /\ ~submitted /\ seen = "playing"
    /\ screen' = [selected |-> o]
    /\ Send(<<Submit(o)>>)

\* The canvas of Bonk Air takes touches until the plan is locked; but what is
\* drawn when one has been handed in is lost.
Draws(s) ==
    /\ Plays("bonk-air") /\ screen.phase = "plan"
    /\ screen' = s /\ lost' = (lost \/ submitted)
    /\ UNCHANGED <<up, submitted>>

\* The plan, with another path for plane i.
With(paths, i, path) ==
    [j \in DOMAIN paths \cup {i} |-> IF j = i THEN path ELSE paths[j]]

\* onPointerDown(): a plane is planned anew, or its route is drawn on.
PointerDown(c) ==
    LET paths == screen.paths
        starts == {i \in Planes : puzzle.planes[i].spawn = c}
        goesOn == {i \in DOMAIN paths : /\ ~paths[i].complete
                                        /\ Len(paths[i].cells) > 1
                                        /\ Last(paths[i].cells) = c}
        stroke(i, moved) ==
            <<[plane |-> i, prev |-> IF i \in DOMAIN paths THEN <<paths[i]>> ELSE <<>>,
               moved |-> moved]>>
        start == [cells |-> <<c>>, complete |-> FALSE]
    IN  \/ /\ starts # {}
           /\ Draws([screen EXCEPT !.drawing = stroke(Min(starts), FALSE),
                                   !.paths = With(paths, Min(starts), start)])
        \/ /\ starts = {} /\ goesOn # {}
           /\ Draws([screen EXCEPT !.drawing = stroke(Min(goesOn), TRUE)])

PointerMove(c) ==
    /\ screen.drawing # <<>>
    /\ LET i == screen.drawing[1].plane
           cells == Drawn(screen.paths[i].cells, c)
       IN  /\ cells # screen.paths[i].cells
           /\ Draws([screen EXCEPT !.paths[i].cells = cells,
                                   !.drawing[1].moved = TRUE])

\* The plan after a stroke; one that has not moved changes nothing.
Finish(paths, d) ==
    LET others == [i \in DOMAIN paths \ {d.plane} |-> paths[i]]
    IN  IF d.moved
        THEN With(paths, d.plane, Snapped(paths[d.plane], puzzle.planes[d.plane].goal))
        ELSE IF d.prev = <<>> THEN others ELSE With(paths, d.plane, d.prev[1])

\* finishStroke(), when the finger is lifted: the plan goes up to bonkPlanRef.
FinishStroke ==
    /\ screen.drawing # <<>>
    /\ LET paths == Finish(screen.paths, screen.drawing[1])
       IN  Draws([screen EXCEPT !.drawing = <<>>, !.paths = paths, !.plan = <<paths>>])

\* commitPlan(), by the button or when the countdown of the phone is over.
TakeOff ==
    /\ Plays("bonk-air") /\ screen.phase = "plan"
    /\ screen' = [screen EXCEPT !.phase = "locked", !.drawing = <<>>,
                                !.plan = <<screen.paths>>]
    /\ HandIn(Plan(screen.paths, TRUE), submitted)
    /\ lost' = (lost \/ ~online \/ submitted)

\* updateSimPhase(): the replay goes on by a step.
Fly ==
    /\ game = "bonk-air" /\ screen # <<>> /\ screen.phase = "sim"
    /\ LET flight == screen.flight[1]
       IN  IF Finished(flight) THEN screen' = [screen EXCEPT !.phase = "done"]
           ELSE \E next \in SimStep(puzzle, screen.paths, {flight}) :
                    screen' = [screen EXCEPT !.flight = <<next>>]
    /\ UNCHANGED <<game, puzzle, submitted, seen, online, up, down, now, server,
                   lost, turns, faults>>

\* The codes worth telling apart: the right one and one that is not.
Codes == {Solution, [Solution EXCEPT ![4] = (@ + 1) % (MaxDigit + 1)]}

Play ==
    \/ \E i \in Indexes : SlideTile(i)
    \/ \E i \in Switches : PressSwitch(i)
    \/ \E word \in Dictionary : EnterGuess(word)
    \/ game = "vault-rush" /\ \E code \in Codes : EnterCode(code)
    \/ /\ game = "balance-scale"
       /\ \E o \in Options(puzzle.difficulty) : PickOption(o)
    \/ /\ game = "bonk-air" /\ screen # <<>>
       /\ \/ \E c \in Touched : PointerDown(c) \/ PointerMove(c)
          \/ FinishStroke \/ TakeOff \/ Fly

\* A frame reaches the phone.
Arrives(kind) ==
    /\ down # <<>> /\ down[1].kind = kind
    /\ down' = Tail(down)
    /\ UNCHANGED <<game, puzzle, online, now, server, turns, faults>>

\* ROUND_CONTENT_SHOW renders the game.  A board is reported when it is set.  The
\* effect that flushes a plan also runs: with the seconds the last tick has left,
\* and before the hook has the new content, so for that of an earlier round.
ShowContent ==
    /\ Arrives("content")
    /\ screen' = Fresh
    /\ CASE game = "sliding-puzzle" ->
               up' = Append(up, Progress(puzzle)) /\ submitted' = FALSE
         [] game = "bonk-air" /\ down[1].isStale /\ down[1].left = 1 ->
               HandIn(Plan(<<>>, FALSE), FALSE)
         [] OTHER -> submitted' = FALSE /\ UNCHANGED up
    /\ UNCHANGED <<seen, lost>>

TickArrives ==
    /\ Arrives("tick")
    /\ Render(IF game # "bonk-air" \/ screen = <<>> THEN screen
              ELSE [screen EXCEPT !.left = down[1].left], seen, submitted)
    /\ UNCHANGED seen

FeedbackArrives ==
    /\ Arrives("feedback")
    /\ Render([screen EXCEPT !.feedback = <<down[1].value>>], seen, submitted)
    /\ UNCHANGED seen

\* ANSWER_ACK: only a server error and an invalid answer unlock the round.
AckArrives ==
    /\ Arrives("ack")
    /\ IF down[1].reason \in {"server-error", "invalid-answer"}
       THEN Render(screen, seen, FALSE)
       ELSE UNCHANGED <<screen, submitted, up, lost>>
    /\ UNCHANGED seen

RevealArrives ==
    Arrives("reveal") /\ Render(screen, "reveal", submitted) /\ seen' = "reveal"
-----------------------------------------------------------------------------
(* The server                                                              *)

Tell(frame) == down' = IF online THEN Append(down, frame) ELSE down
Ack(reason) == [kind |-> "ack", reason |-> reason]

Takes(kind) ==
    /\ up # <<>> /\ up[1].kind = kind
    /\ up' = Tail(up)
    /\ UNCHANGED <<game, puzzle, phone, now, window, row, acked, result, turns,
                   faults>>

\* Progress that drops a guess the server has judged.
Replaced(value) ==
    game = "wordle" /\ \E i \in DOMAIN progress : ~IsPrefix(progress[i].value, value)

\* updateRoundProgress(): what it does not want, it ignores.
UpdateProgress ==
    /\ Takes("progress")
    /\ IF window = "open" /\ ~taken /\ Valid(up[1].value)
       THEN /\ progress' = <<[value |-> up[1].value, time |-> now]>>
            /\ IF game = "wordle"
               THEN Tell([kind |-> "feedback",
                          value |-> Feedback(up[1].value, Solution)])
               ELSE UNCHANGED down
            /\ lost' = (lost \/ Replaced(up[1].value))
       ELSE UNCHANGED <<progress, down, lost>>
    /\ UNCHANGED <<taken, saving>>

\* submitRound() and validateRoundSubmission(), up to the await of the save
SubmitRound ==
    /\ Takes("submit")
    /\ LET refusal == CASE window # "open" -> "window-closed"
                        [] ~Valid(up[1].value) -> "invalid-answer"
                        [] taken -> "already-answered"
                        [] OTHER -> "none"
       IN  IF refusal # "none"
           THEN Tell(Ack(refusal)) /\ UNCHANGED <<taken, saving>>
           ELSE /\ taken' = TRUE
                /\ saving' = <<[value |-> up[1].value, time |-> now,
                                heard |-> TRUE]>>
                /\ UNCHANGED down
    /\ UNCHANGED <<progress, lost>>

Stored(saved) == <<[value |-> saved.value, time |-> saved.time]>>

\* The save of persistSubmission() returns, its answer goes to the socket that
\* asked.  A row that is there already is a unique violation.
Answered(reason) ==
    /\ saving # <<>> /\ saving' = <<>>
    /\ IF saving[1].heard THEN Tell(Ack(reason)) ELSE UNCHANGED down
    /\ lost' = (lost \/ ~saving[1].heard)
    /\ UNCHANGED <<game, puzzle, phone, up, now, window, progress, result, turns>>

SaveRow ==
    /\ row = <<>>
    /\ Answered("accepted")
    /\ row' = Stored(saving[1]) /\ acked' = TRUE
    /\ UNCHANGED <<taken, faults>>

SaveTwice ==
    /\ row # <<>>
    /\ Answered("already-answered")
    /\ UNCHANGED <<taken, row, acked, faults>>

\* Slip: a save that failed still counts as submitted.
SaveFailsKept ==
    /\ faults < MaxFaults(game) /\ faults' = faults + 1
    /\ Answered("server-error")
    /\ row' \in IF row = <<>> THEN {row, Stored(saving[1])} ELSE {row}
    /\ UNCHANGED <<taken, acked>>

\* A save that fails may have been committed all the same.
SaveFails ==
    /\ faults < MaxFaults(game) /\ faults' = faults + 1
    /\ Answered("server-error")
    /\ taken' = FALSE
    /\ row' \in IF row = <<>> THEN {row, Stored(saving[1])} ELSE {row}
    /\ UNCHANGED acked

\* A second passes.
Tick ==
    /\ window = "open" /\ now < TimeLimit
    /\ now' = now + 1
    /\ Tell([kind |-> "tick", left |-> TimeLimit - now'])
    /\ UNCHANGED <<game, puzzle, phone, up, server, lost, turns, faults>>

\* The time is up, or everyone has answered: finalizeWindow() keeps the progress
\* of a player who submitted nothing, the round is scored and revealed.
CloseWindow ==
    /\ window = "open" /\ (now = TimeLimit \/ acked)
    /\ window' = "closed"
    /\ row' = IF taken \/ row # <<>> THEN row ELSE progress
    /\ result' = <<Scored(row')>>
    /\ Tell(Frame("reveal"))
    /\ UNCHANGED <<game, puzzle, phone, up, now, progress, taken, saving, acked,
                   lost, turns, faults>>
-----------------------------------------------------------------------------
(* The network                                                             *)

\* The socket drops with every frame in it.
Drop ==
    /\ online /\ screen # <<>> /\ faults < MaxFaults(game)
    /\ online' = FALSE /\ faults' = faults + 1
    /\ down' = <<>>
    /\ saving' = [i \in DOMAIN saving |-> [saving[i] EXCEPT !.heard = FALSE]]
    /\ screen' = IF game = "wordle" /\ screen.feedback # <<>>
                 THEN Refreshed(screen) ELSE screen
    /\ up' = <<>> /\ lost' = (lost \/ up # <<>> \/ down # <<>>)
    /\ UNCHANGED <<game, puzzle, submitted, seen, now, window, progress, taken,
                   row, acked, result, turns>>

\* The phone is back: ROOM_STATE_UPDATE tells it the phase, no content.
Reopen ==
    /\ ~online /\ online' = TRUE
    /\ seen' = IF window = "open" THEN "playing" ELSE "reveal"
    /\ Render(screen, seen', submitted)
    /\ UNCHANGED <<game, puzzle, down, now, server, turns, faults>>

\* Nothing is left of the round.
Over ==
    /\ window = "closed" /\ up = <<>> /\ down = <<>> /\ saving = <<>>
    /\ online /\ UNCHANGED vars

\* The content, with what Bonk Air finds on the phone: the seconds that were left
\* in the last round, and the content of that if ROUND_START was lost.
Contents(g) ==
    {[kind |-> "content", left |-> left, isStale |-> isStale] :
        left \in IF g = "bonk-air" THEN {0, 1} ELSE {0},
        isStale \in IF g = "bonk-air" /\ MaxFaults(g) > 0 THEN BOOLEAN ELSE {FALSE}}

Deal(g) ==
    /\ game = g /\ puzzle \in Puzzles(g)
    /\ screen = <<>> /\ seen = "playing" /\ online = TRUE
    /\ down \in IF IsPlayed(g, puzzle) THEN {<<c>> : c \in Contents(g)} ELSE {<<>>}
    /\ faults = IF down # <<>> /\ down[1].isStale THEN 1 ELSE 0

Init ==
    /\ \E g \in Games : Deal(g)
    /\ submitted = FALSE /\ up = <<>>
    /\ now = 0 /\ window = "open"
    /\ progress = <<>> /\ taken = FALSE /\ saving = <<>>
    /\ row = <<>> /\ acked = FALSE /\ result = <<>>
    /\ lost = FALSE /\ turns = 0

Arrive ==
    ShowContent \/ TickArrives \/ FeedbackArrives \/ AckArrives \/ RevealArrives
Serve == UpdateProgress \/ SubmitRound \/ SaveRow \/ SaveTwice

Next ==
    \/ Play \/ Arrive \/ Serve \/ SaveFails
    \/ Tick \/ CloseWindow \/ Drop \/ Reopen \/ Over

Spec == Init /\ [][Next]_vars
-----------------------------------------------------------------------------
(* Properties                                                              *)

\* A plane on its reference route arrives.
FliesAlone(i) ==
    LET plane == puzzle.planes[i]
    IN  \A route \in {ReferenceRoute(puzzle.storm, plane.spawn, plane.goal)} :
            \A flight \in RunHeadless(puzzle, [j \in {i} |-> [cells |-> route,
                                                             complete |-> TRUE]]) :
                flight.planes[i].state = "done"

\* Every puzzle that is dealt can be won, and in one way where the game has one
\* answer: the board in the moves solveBoard() finds, which are the fewest that
\* could have scrambled it; the lights by some switches, unless the fallback was
\* dealt; the vault by the one code its clues allow; the scale by one option,
\* which the reveal then shows level, its cards side by side.
Fair ==
    CASE game = "sliding-puzzle" ->
            SolveBoard(puzzle, SolverTurns)
                = Min({m \in DOMAIN Scrambled : puzzle \in Scrambled[m]})
      [] game = "light-switch" ->
            \/ puzzle.lights = FallbackLights
            \/ \E on \in SUBSET Switches :
                  AllOn(ApplyAll(puzzle.lights, puzzle.wiring, SetToSeq(on)))
      [] game = "vault-rush" ->
            {code \in [1..DigitCount -> 0..MaxDigit] :
                Satisfies(code, puzzle.clues)} = {puzzle.code}
      [] game = "wordle" -> puzzle \in Dictionary
      [] game = "bonk-air" -> \A i \in Planes : FliesAlone(i)
      [] game = "balance-scale" ->
            /\ WellFormed(puzzle)
            /\ \A o \in Options(puzzle.difficulty) :
                  (Angle(Displayed(puzzle, o)) = 0) <=> (o = puzzle.correct)
            /\ \A j, k \in DOMAIN puzzle.placed :
                  (j # k /\ puzzle.placed[j].side = puzzle.placed[k].side)
                  => StackOffset(puzzle.placed, puzzle.addTo, j)
                     # StackOffset(puzzle.placed, puzzle.addTo, k)

DealtFairly == (now = 0 /\ screen = <<>>) => Fair

\* A guess is judged as the rules of the game have it: a letter is correct in its
\* place; of the others as many are present as the answer has left, the first
\* ones first (evaluate_guess() removes the letters one by one).
JudgedFairly ==
    (game = "wordle" /\ screen # <<>>) =>
        \A f \in DOMAIN screen.feedback :
            \A g \in DOMAIN screen.feedback[f].words :
                LET guess == screen.feedback[f].words[g]
                    state == screen.feedback[f].guesses[g]
                    Of(word, c) == {i \in DOMAIN word : word[i] = c}
                    correct(c) == Of(guess, c) \cap Of(Solution, c)
                    open(c) == Cardinality(Of(Solution, c) \ correct(c))
                IN  \A i \in DOMAIN guess :
                        LET before == {j \in Of(guess, guess[i]) \ correct(guess[i]) :
                                          j < i}
                        IN  state[i] = IF i \in correct(guess[i]) THEN "correct"
                                       ELSE IF Cardinality(before) < open(guess[i])
                                       THEN "present" ELSE "wrong"

\* What the phone shows as won or handed in.
ShownSolved ==
    CASE game = "sliding-puzzle" -> IsSolvedBoard(screen.board)
      [] game = "light-switch" -> screen.isSolved
      [] game = "vault-rush" -> submitted /\ screen.code = Solution
      [] game = "wordle" -> \E f \in DOMAIN screen.feedback :
                               screen.feedback[f].phase = "solved"
      [] game = "balance-scale" -> submitted /\ screen.selected = Solution
      [] game = "bonk-air" -> /\ screen.phase = "locked"
                              /\ \A flight \in RunHeadless(puzzle, screen.paths) :
                                    IsPerfect(flight)

\* When the round ends with the game won on the phone, with no frame lost or on
\* its way and no save in flight, the player is paid for it, whatever saves have
\* failed before: what was submitted in vain is still there as progress, or the
\* phone has unlocked the answer.  (Not so the light switches, which submit a
\* solution they never report as progress, and stay locked; nor Bonk Air, which
\* hands a plan in again only while one second is left; nor an answer given again
\* when the save that failed had been committed: the first one counts.)
Settled ==
    /\ up = <<>> /\ down = <<>> /\ saving = <<>> /\ ~lost
    /\ row # <<>> => acked
SolvedIsPaid ==
    [][(/\ CloseWindow /\ screen # <<>> /\ ShownSolved /\ Settled
        /\ game \in {"light-switch", "bonk-air"} => faults = 0) => result'[1].isCorrect]_vars

\* The keyboard is not locked for nothing: with no frame lost or on its way, a
\* guess has been judged, or given back by a tick, and another one can be made.
Waits == IF game = "wordle" /\ screen # <<>> THEN screen.waiting ELSE FALSE
KeyboardIsFreed ==
    (Waits /\ window = "open" /\ ~lost) => up # <<>> \/ down # <<>>

\* guess-the-word.md: the phone "sends raw guess strings to the server and waits
\* for WordleFeedback", so a guess the server has judged stays one of the player's
\* tries.  It does not wait longer than to the next tick: see Render.
GuessesAreSpent == [][UpdateProgress => ~(progress' # progress
                                          /\ Replaced(progress'[1].value))]_vars

\* A route starts at its plane, goes on from cell to cell, and ends at the target
\* if it is complete: what the server flies is what it makes of a plan.
RoutesAreFlyable ==
    (IF game = "bonk-air" THEN screen # <<>> ELSE FALSE) =>
        \A i \in DOMAIN screen.paths :
            LET path == screen.paths[i]
            IN  /\ path.cells[1] = puzzle.planes[i].spawn
                /\ \A n \in 2..Len(path.cells) :
                        path.cells[n] \in Around(path.cells[n - 1]) \ {path.cells[n - 1]}
                /\ path.complete => Last(path.cells) = puzzle.planes[i].goal

\* The stored answer is worth the flight that is replayed, when an answer was
\* accepted and nothing of it, or drawn after it, was lost.
ReplayIsScored ==
    (IF game = "bonk-air" /\ screen # <<>> THEN screen.phase = "done" ELSE FALSE) =>
        ((acked /\ ~lost) =>
            LET flight == screen.flight[1]
                score == FlightScore(flight) + EarlyBonus(screen.paths, row[1].time)
            IN  Scored(row) = Result(IsPerfect(flight), Max({0, score})))

\* App.tsx: the phone "flushes the plan one tick before the server closes the
\* answer window", so a plan that is not locked is not stored before.
FlushedAtTheEnd ==
    (IF game = "bonk-air" /\ screen # <<>> THEN screen.phase = "plan" ELSE FALSE) =>
        \A r \in DOMAIN row : row[r].time >= TimeLimit - 1
=============================================================================
