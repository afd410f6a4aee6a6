--------------------------- MODULE MinigameScores ---------------------------
(***************************************************************************)
(* What the scorers of the minigames have in common: a result, and points  *)
(* for the time that was left (speedBonus() of each adapter under          *)
(* server/room/game/minigames).  Time is counted in ticks of the round.    *)
(***************************************************************************)
EXTENDS Integers

CONSTANT TimeLimit  \* of a round, in ticks

ASSUME TimeLimitAssumption == TimeLimit \in Nat \ {0}

Result(correct, points) == [isCorrect |-> correct, pointsAwarded |-> points]
Worthless == Result(FALSE, 0)

\* The time left after t ticks; an answer may come late, or before the start.
Remaining(t) == IF t < 0 THEN TimeLimit ELSE IF t > TimeLimit THEN 0
                ELSE TimeLimit - t

\* Math.round(bonus * (remaining / timeLimit))
SpeedBonus(bonus, t) == (2 * bonus * Remaining(t) + TimeLimit) \div (2 * TimeLimit)
=============================================================================
