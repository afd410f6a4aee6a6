---------------------------- MODULE ScoringService ----------------------------
(***************************************************************************)
(* scoring.service.ts: the scoring of a round once its window is closed.   *)
(* A job reads the round's answers, then the room's clients, then saves    *)
(* each answer and credits its author, one query after the other.          *)
(***************************************************************************)
EXTENDS GameData

VARIABLES
  ctx,       \* contexts.get(roomId).roundId, or NoRound
  job,       \* round -> the state of its scoreRound()
  credited,  \* history: round -> players addScore() was called for
  timedOut   \* history: round -> players its reveal called timeouts

scoringVars == <<ctx, job, credited, timedOut>>

JobSteps == {"idle", "rows", "roster", "row", "credit", "done"}

\* at: the query the job awaits; todo: rows still to score; late: roster
\* members without a row; known, seen: the players in the roster that was read
\* and their entities; cur: the player being credited, if one is.
Jobs == [at : JobSteps, todo : SUBSET Players, late : SUBSET Players,
         known : SUBSET Players, seen : [Players -> Entity], cur : SUBSET Players]

JobAt(step) ==
  [at |-> step, todo |-> {}, late |-> {}, known |-> {},
   seen |-> [p \in Players |-> NoEntity], cur |-> {}]

ScoringTypeOK ==
  /\ ctx \in RoundNumbers \cup {NoRound}
  /\ job \in [RoundNumbers -> Jobs]
  /\ credited \in [RoundNumbers -> SUBSET Players]
  /\ timedOut \in [RoundNumbers -> SUBSET Players]

ScoringInit ==
  /\ ctx = NoRound
  /\ job = [r \in RoundNumbers |-> JobAt("idle")]
  /\ credited = [r \in RoundNumbers |-> {}]
  /\ timedOut = [r \in RoundNumbers |-> {}]

\* ROUND_WINDOW_CLOSED: without a context there is nothing to score and
\* ROUND_SCORED is published at once.
StartJob(r) ==
  /\ job' = [job EXCEPT ![r] = JobAt(IF ctx = NoRound THEN "done" ELSE "rows")]
  /\ UNCHANGED <<ctx, credited, timedOut>>

ReadRows(r) ==
  /\ job[r].at = "rows"
  /\ job' = [job EXCEPT ![r].at = "roster", ![r].todo = rows[r]]
  /\ UNCHANGED <<dataVars, ctx, credited, timedOut>>

\* Mutant of ReadRoster: the players that answered are not taken out of the
\* late ones.
ReadRosterAllLate(r) ==
  /\ job[r].at = "roster"
  /\ job' = [job EXCEPT ![r].at = "row",
                        ![r].late = roster,
                        ![r].known = roster \cap job[r].todo,
                        ![r].seen = [p \in Players |->
                                       IF p \in roster \cap job[r].todo
                                       THEN Loaded(p) ELSE NoEntity]]
  /\ UNCHANGED <<dataVars, ctx, credited, timedOut>>

ReadRoster(r) ==
  /\ job[r].at = "roster"
  /\ job' = [job EXCEPT ![r].at = "row",
                        ![r].late = roster \ job[r].todo,
                        ![r].known = roster \cap job[r].todo,
                        ![r].seen = [p \in Players |->
                                       IF p \in roster \cap job[r].todo
                                       THEN Loaded(p) ELSE NoEntity]]
  /\ UNCHANGED <<dataVars, ctx, credited, timedOut>>

\* One answer is saved with its points.  The answers of a player that was
\* removed are gone, and saving one would insert it without its client.
ScoreRow(r, p) ==
  /\ job[r].at = "row"
  /\ p \in job[r].todo
  /\ p \in roster
  /\ rows' = [rows EXCEPT ![r] = @ \cup {p}]
  /\ \/ /\ p \in job[r].known
        /\ job' = [job EXCEPT ![r].at = "credit", ![r].todo = @ \ {p},
                              ![r].cur = {p}]
     \/ job' = [job EXCEPT ![r].todo = @ \ {p}]
  /\ UNCHANGED <<roster, online, total, removed, conn, faults>>
  /\ UNCHANGED <<ctx, credited, timedOut>>

\* Mutant of Credit: the points are added by the caller and by addScore().
CreditTwice(r, p) ==
  /\ job[r].at = "credit"
  /\ p \in job[r].cur
  /\ SaveClient(p, [job[r].seen[p] EXCEPT !.score = @ + 2])
  /\ credited' = [credited EXCEPT ![r] = @ \cup {p}]
  /\ job' = [job EXCEPT ![r].at = "row", ![r].cur = {}]
  /\ UNCHANGED <<conn, faults, ctx, timedOut>>

\* addScore() saves the entity read with the roster, with the points added.
Credit(r, p) ==
  /\ job[r].at = "credit"
  /\ p \in job[r].cur
  /\ SaveClient(p, [job[r].seen[p] EXCEPT !.score = @ + 1])
  /\ credited' = [credited EXCEPT ![r] = @ \cup {p}]
  /\ job' = [job EXCEPT ![r].at = "row", ![r].cur = {}]
  /\ UNCHANGED <<conn, faults, ctx, timedOut>>

\* The reveal goes out, then the `finally` drops whatever context the room has
\* by now and publishes ROUND_SCORED.
FinishJob(r) ==
  /\ job[r].at = "row"
  /\ job[r].todo = {}
  /\ timedOut' = [timedOut EXCEPT ![r] = job[r].late]
  /\ job' = [job EXCEPT ![r] = JobAt("done")]
  /\ ctx' = NoRound
  /\ UNCHANGED <<dataVars, credited>>

\* A query throws: no reveal is sent, the rows left are never scored.
JobThrows(r) ==
  /\ \/ job[r].at \in {"rows", "roster", "row", "credit"} /\ Fail
     \/ /\ job[r].at = "row"
        /\ \E p \in job[r].todo : p \notin roster
        /\ UNCHANGED faults
  /\ job' = [job EXCEPT ![r] = JobAt("done")]
  /\ ctx' = NoRound
  /\ UNCHANGED <<tableVars, conn, credited, timedOut>>
===============================================================================
