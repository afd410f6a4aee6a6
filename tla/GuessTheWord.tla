---------------------------- MODULE GuessTheWord ----------------------------
(***************************************************************************)
(* Guess the word (minigames/wordleGame/shared/wordleGame.ts and           *)
(* server/room/game/minigames/wordle.server.ts).  A word is a sequence of  *)
(* letters; a guess is judged with one state for each of its letters.      *)
(***************************************************************************)
EXTENDS MinigameScores, FiniteSets, SequencesExt

CONSTANTS
    Dictionary,  \* FIVE_LETTER_WORDS, with letters for model values
    MaxTries     \* MAX_TRIES

ASSUME DictionaryAssumption ==
    /\ \A w \in Dictionary : w \in Seq(Range(w))
    /\ \A v, w \in Dictionary : Len(v) = Len(w) /\ Len(v) > 0
    /\ MaxTries \in Nat \ {0}

\* createRound(), get_random_word(): the seed makes no difference.
RandomWords == Dictionary

\* Slip: a letter that is used up is found again.
EvaluateGuessKeepingAll(guess, answer) ==
    [i \in DOMAIN guess |->
        IF guess[i] = answer[i] THEN "correct"
        ELSE IF Contains(answer, guess[i]) THEN "present" ELSE "wrong"]

\* evaluate_guess(): the letters in their place are taken out of the answer
\* first, then each other letter takes one of those that remain.
EvaluateGuess(guess, answer) ==
    LET inPlace(i) == guess[i] = answer[i]
        Mark(marks, i) ==
            IF inPlace(i) THEN [marks EXCEPT !.states = Append(@, "correct")]
            ELSE IF Contains(marks.left, guess[i])
            THEN [states |-> Append(marks.states, "present"),
                  left |-> RemoveFirst(marks.left, guess[i])]
            ELSE [marks EXCEPT !.states = Append(@, "wrong")]
        unplaced == FoldLeft(LAMBDA left, i :
                                IF inPlace(i) THEN RemoveFirst(left, answer[i])
                                ELSE left,
                             answer, [i \in DOMAIN guess |-> i])
    IN  FoldLeft(Mark, [states |-> <<>>, left |-> unplaced],
                 [i \in DOMAIN guess |-> i]).states

\* get_game_state()
GameState(guesses, answer) ==
    CASE guesses = <<>> -> "waiting"
      [] Contains(guesses, answer) -> "solved"
      [] OTHER -> IF Len(guesses) >= MaxTries THEN "failed" ELSE "playing"

\* Every guess at every answer, judged.
Judged == [g \in Dictionary |-> [a \in Dictionary |-> EvaluateGuess(g, a)]]

\* getProgressFeedback()
Feedback(guesses, answer) ==
    [guesses |-> [i \in DOMAIN guesses |-> Judged[guesses[i]][answer]],
     words |-> guesses, phase |-> GameState(guesses, answer)]
-----------------------------------------------------------------------------
WordBasePoints == 1000
PointsPerExtraGuess == 100
WordSpeedBonus == 300

\* parseSubmission(), parseGuessWord()
ValidGuesses(guesses) ==
    /\ Len(guesses) \in 1..MaxTries
    /\ \A i \in DOMAIN guesses : guesses[i] \in Dictionary

ScoreGuesses(guesses, answer, t) ==
    LET points == WordBasePoints - (Len(guesses) - 1) * PointsPerExtraGuess
                  + SpeedBonus(WordSpeedBonus, t)
    IN  IF GameState(guesses, answer) = "solved"
        THEN Result(TRUE, IF points < 0 THEN 0 ELSE points)
        ELSE Worthless
=============================================================================
