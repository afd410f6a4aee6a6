------------------------------ MODULE MCGameRound ------------------------------
(* TLC instances of GameRound.  The players are interchangeable; symmetry is *)
(* used by the runs that check no liveness.                                  *)
EXTENDS GameRound, TLC

Symmetry == Permutations(Players)

\* A first round with every call and failure there may be, and a second one
\* after, or with, one of them at most.
OneTroubleLater == round > 1 => (MaxCalls - calls) + (MaxFaults - faults) <= 1
===============================================================================
