------------------------------ MODULE VaultRush -----------------------------
(***************************************************************************)
(* The vault (minigames/vault-rush/shared/vaultRushGame.ts and             *)
(* server/room/game/minigames/vault-rush.server.ts).  A code is a sequence *)
(* of digits; of a clue's text the numbers and the sign are kept.          *)
(***************************************************************************)
EXTENDS MinigameScores, Sequences

MaxDigit == 9
DigitCount == 4
CodeDigitSum == 10
Offsets == 1..4

\* createSimpleEquation(): the two numbers, the second one added or taken away.
Equation(answer, offset) ==
    IF answer + offset <= MaxDigit THEN <<answer + offset, -offset>>
                                   ELSE <<answer - offset, offset>>

Code(one, two) == <<one, two, one + two, CodeDigitSum - (one + two)>>

\* createVaultRushRound(): the first two clues; the others are fixed texts.
Vaults ==
    {[code |-> Code(c[1], c[2]),
      clues |-> <<Equation(c[1], o[1]), Equation(c[2], o[2])>>] :
        c \in {c \in (1..4) \X (2..8) : c[2] <= MaxDigit - c[1]},
        o \in Offsets \X Offsets}

\* What the clues say of a code.
Satisfies(code, clues) ==
    /\ code[1] = clues[1][1] + clues[1][2]
    /\ code[2] = clues[2][1] + clues[2][2]
    /\ code[3] = code[1] + code[2]
    /\ code[4] = CodeDigitSum - code[3]
-----------------------------------------------------------------------------
VaultBasePoints == 700
VaultSpeedBonus == 300

ValidCode(code) == Len(code) = DigitCount

ScoreCode(code, answer, t) ==
    IF code = answer THEN Result(TRUE, VaultBasePoints
                                       + SpeedBonus(VaultSpeedBonus, t))
                     ELSE Worthless
=============================================================================
