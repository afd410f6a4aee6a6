----------------------------- MODULE GameScript -----------------------------
(***************************************************************************)
(* What the server shows a room: the events the engine, the presenter and  *)
(* the scoring service broadcast in a game, in their order                 *)
(* (game-engine.service.ts, round-presenter.impl.ts).  A snapshot of the   *)
(* room that follows GAME_PHASE_CHANGE carries the same phase and is one   *)
(* with it, and so is LEADERBOARD_SHOW; TIMER_TICK is left out.  Questions,*)
(* contents and reveals are named by their round.                          *)
(*                                                                         *)
(* "kinds" are those of the rounds of a game, a sequence of "quiz" and     *)
(* "game"; "script" is the script of a game.                               *)
(***************************************************************************)
EXTENDS Integers, Sequences

Event(name, round, phase) == [name |-> name, round |-> round, phase |-> phase]
PhaseChange(r, phase) == Event("GAME_PHASE_CHANGE", r, phase)

ShowEvent(kind) == IF kind = "quiz" THEN "QUESTION_SHOW" ELSE "ROUND_CONTENT_SHOW"
RevealEvent(kind) == IF kind = "quiz" THEN "QUESTION_REVEAL" ELSE "ROUND_REVEAL"

\* runRound() and advanceAfterReveal(); scoring reveals before the reveal phase.
RoundScript(kind, r, isLastRound) ==
    <<Event("ROUND_START", r, "-"), PhaseChange(r, "round-intro"),
      PhaseChange(r, "playing"), Event(ShowEvent(kind), r, "-"),
      Event(RevealEvent(kind), r, "-"), PhaseChange(r, "reveal")>>
    \o IF isLastRound
       THEN <<PhaseChange(r, "game-over"), Event("GAME_OVER", r, "-")>>
       ELSE <<PhaseChange(r, "leaderboard")>>

\* run(): the rounds one after another, of seven events each; the last ends the
\* game with one more.
ScriptOf(kinds) ==
    LET last == Len(kinds)
        length == IF last = 0 THEN 0 ELSE 7 * last + 1
    IN  [i \in 1..length |->
            LET r == IF i = length THEN last ELSE (i - 1) \div 7 + 1
            IN  RoundScript(kinds[r], r, r = last)[i - 7 * (r - 1)]]

\* getLivePhase(), after the first n events of the script; "lobby" before.
PhaseIn(script, n) ==
    LET changes == {i \in 1..n : script[i].name = "GAME_PHASE_CHANGE"}
    IN  IF changes = {} THEN "lobby"
        ELSE script[CHOOSE i \in changes : \A j \in changes : j <= i].phase

RoundIn(script, n) == IF n = 0 THEN 0 ELSE script[n].round

\* Whether round r has been shown, and whether it has been revealed.
ShownIn(script, r, n) ==
    \E i \in 1..n : /\ script[i].round = r
                    /\ script[i].name \in {"QUESTION_SHOW", "ROUND_CONTENT_SHOW"}
RevealedIn(script, r, n) ==
    \E i \in 1..n : /\ script[i].round = r
                    /\ script[i].name \in {"QUESTION_REVEAL", "ROUND_REVEAL"}
=============================================================================
