-------------------------------- MODULE GameShow --------------------------------
(***************************************************************************)
(* What the players of a room may rely on, as docs/ and the comments of    *)
(* game-engine.service.ts have it, without saying how the services get     *)
(* there: the rounds come one by one, each asks, closes, scores and        *)
(* reveals; answers are taken only while it asks, points are given only    *)
(* while it scores; and a game that is stopped starts no other round.      *)
(*                                                                         *)
(* GameRound implements it, see ShowGoesOn there.                          *)
(***************************************************************************)
EXTENDS Naturals

CONSTANTS
  Players, NumRounds,
  Late  \* may a round be closed or scored when nobody waits for it any more?

VARIABLES
  stage,     \* what the room is shown
  round,     \* the round that is played, 0 before the first
  open,      \* whether answers are taken
  stopped,   \* the game has been asked to stop
  verdict,   \* "none" until the rounds are over
  credited   \* round -> the players it has given points

vars == <<stage, round, open, stopped, verdict, credited>>

Init ==
  /\ stage = "waiting"
  /\ round = 0
  /\ open = FALSE
  /\ stopped = FALSE
  /\ verdict = "none"
  /\ credited = [r \in 1..NumRounds |-> {}]

MovesTo(next) ==
  /\ stage' = next
  /\ UNCHANGED <<round, stopped, verdict, credited>>

StartRound ==
  /\ stage \in {"waiting", "standings"}
  /\ ~stopped /\ round < NumRounds
  /\ round' = round + 1
  /\ stage' = "intro"
  /\ UNCHANGED <<open, stopped, verdict, credited>>

\* A question that cannot be shown takes no answers.
Ask == stage = "intro" /\ open' \in BOOLEAN /\ MovesTo("asking")

Close ==
  /\ stage = "asking" /\ open' = FALSE
  /\ MovesTo("scoring") \/ MovesTo("reveal")

Credit(r, p) ==
  /\ Late \/ (stage = "scoring" /\ r = round)
  /\ credited' = [credited EXCEPT ![r] = @ \cup {p}]
  /\ UNCHANGED <<stage, round, open, stopped, verdict>>

Reveal == stage = "scoring" /\ MovesTo("reveal") /\ UNCHANGED open

ShowStandings ==
  /\ stage = "reveal" /\ round < NumRounds
  /\ MovesTo("standings") /\ UNCHANGED open

\* A late answer to an earlier round closes the one that is asked.
CloseLate ==
  /\ Late /\ open' = FALSE
  /\ UNCHANGED <<stage, round, stopped, verdict, credited>>

EndsAs(outcome) ==
  /\ stage' = "ending"
  /\ verdict' = outcome
  /\ UNCHANGED <<round, credited>>

\* After the last round, or as soon as a game that was stopped gets there.
Finish ==
  /\ stage = "reveal" /\ round = NumRounds /\ ~stopped
  /\ EndsAs("finished") /\ UNCHANGED <<open, stopped>>
Abandon ==
  /\ stage \in {"waiting", "standings", "reveal"} /\ stopped
  /\ stage = "reveal" => round = NumRounds
  /\ EndsAs("abandoned") /\ UNCHANGED <<open, stopped>>

\* It is cut short, or goes on to the end of what it is doing.
Stop ==
  /\ stage # "over" /\ stopped' = TRUE
  /\ \/ EndsAs("abandoned") /\ open' = FALSE
     \/ UNCHANGED <<stage, round, open, verdict, credited>>

\* The room is closed: at the end, or by a failure before it.
Leave ==
  /\ stage \notin {"over", "asking", "scoring", "standings"}
  /\ open' = FALSE
  /\ MovesTo("over")

Next ==
  \/ StartRound \/ Ask \/ Close \/ Reveal \/ ShowStandings \/ CloseLate
  \/ Finish \/ Abandon \/ Stop \/ Leave
  \/ \E r \in 1..NumRounds, p \in Players : Credit(r, p)

Spec == Init /\ [][Next]_vars
===============================================================================
