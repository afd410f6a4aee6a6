-------------------------- MODULE MCMinigameRound --------------------------
EXTENDS MinigameRound

MCGames == {"sliding-puzzle", "light-switch", "vault-rush", "wordle",
            "balance-scale", "bonk-air"}

\* Three words, with a letter twice and a letter in another place.
MCDictionary == {<<"a", "b", "a">>, <<"b", "a", "a">>, <<"c", "a", "b">>}

\* Of every game the puzzles one or two turns from the end are played out.
MCScrambleMoves == {3, 7}

\* A runway, a storm and a star fit on these cells, in different places.
MCSites == {Cell(3, 2), Cell(4, 4), Cell(2, 5)}
MCShapes == {{Cell(0, 0), Cell(1, 0)}}

\* Where the planes come from and go to: straight routes are safe, others are not.
MCTouched == {Cell(0, 5), Cell(3, 2), Cell(8, 5), Cell(0, 2)}

\* Two strokes of three turns, and TAKE OFF.
MCMaxTurns(g) == IF g = "bonk-air" THEN 7 ELSE 3
MCMaxFaults(g) == IF g = "bonk-air" THEN 1 ELSE 2

\* Bound: nothing more is followed of a plan that was lost, or drawn on after it
\* was handed in; and a plan drawn among faults is of fewer turns.
PlanIsFollowed == game = "bonk-air" => ~lost /\ turns + 3 * faults <= 7

MCIsPlayed(g, p) ==
    CASE g = "sliding-puzzle" -> Manhattan(p) = 3
      [] g = "light-switch" -> p.wiring = <<{1}, {2, 3}>>
      [] g = "vault-rush" -> p.clues = <<<<5, -3>>, <<9, -4>>>>
      [] g = "wordle" -> p = <<"c", "a", "b">>
      [] g = "balance-scale" -> p.difficulty = "easy"
      [] g = "bonk-air" ->
            /\ p.planes[1].spawn = Cell(0, 5) /\ p.planes[1].goal = Cell(3, 2)
            /\ p.planes[1].dir = Cell(1, 0)
            /\ p.planes[2].spawn = Cell(8, 5) /\ p.planes[2].goal = Cell(0, 2)
            /\ p.storm = {Cell(4, 4), Cell(5, 4)} /\ p.stars = {Cell(2, 5)}
=============================================================================
