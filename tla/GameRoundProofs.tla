--------------------------- MODULE GameRoundProofs ---------------------------
(***************************************************************************)
(* Proofs about GameRound for every set of players, number of rounds and   *)
(* bound.  The first part shows, block of variables by block, that every   *)
(* step keeps their types; the second the safety properties, each of which *)
(* is inductive, or follows from a strengthening stated here, given the    *)
(* type invariant.                                                         *)
(*                                                                         *)
(* The third part is the refinement: the initial states are those of       *)
(* GameShow, and every step is a step of it or leaves what it shows alone. *)
(* It needs two facts of where the engine's loop is: RoundInStep, without  *)
(* which a game could finish before its first round or out of the          *)
(* standings, and OneSnapshot, without which a snapshot of an earlier      *)
(* round could close this one.                                             *)
(*                                                                         *)
(* The last part is about the players' answers and points: the window of a *)
(* question and the context of its scoring go together, progress is kept,  *)
(* no reveal contradicts a credit and no score exceeds the credits.  Each  *)
(* is a consequence of invariants stated there, of which the first says    *)
(* that a round is scored only after the engine has closed it.             *)
(***************************************************************************)
EXTENDS GameRound, FiniteSetTheorems, TLAPS

-------------------------------------------------------------------------------
(* Blocks of variables a step leaves alone. *)

\* The types of the model's own variables, without the history variable.
CoreTypeOK ==
  /\ DataTypeOK /\ AnswerTypeOK /\ ScoringTypeOK /\ EngineTypeOK /\ LobbyTypeOK
  /\ RoundUnderway

LEMMA TablesUnchanged ==
  ASSUME TableTypeOK, UNCHANGED tableVars
  PROVE  TableTypeOK'
BY DEF TableTypeOK, tableVars

LEMMA DataUnchanged ==
  ASSUME DataTypeOK, UNCHANGED dataVars
  PROVE  DataTypeOK'
BY DEF DataTypeOK, TableTypeOK, dataVars, tableVars

LEMMA AnswersUnchanged ==
  ASSUME AnswerTypeOK, UNCHANGED answerVars
  PROVE  AnswerTypeOK'
BY DEF AnswerTypeOK, answerVars

LEMMA ScoringUnchanged ==
  ASSUME ScoringTypeOK, UNCHANGED scoringVars
  PROVE  ScoringTypeOK'
BY DEF ScoringTypeOK, scoringVars

LEMMA EngineUnchanged ==
  ASSUME EngineTypeOK, UNCHANGED engineVars
  PROVE  EngineTypeOK'
BY DEF EngineTypeOK, engineVars

LEMMA LobbyUnchanged ==
  ASSUME LobbyTypeOK, UNCHANGED lobbyVars
  PROVE  LobbyTypeOK'
BY DEF LobbyTypeOK, lobbyVars

-------------------------------------------------------------------------------
(* The database. *)

LEMMA LoadedType ==
  ASSUME TableTypeOK, NEW p \in Players
  PROVE  Loaded(p) \in Entity
BY DEF TableTypeOK, Loaded, Entity

LEMMA NoEntityType == NoEntity \in Entity
BY DEF NoEntity, Entity

LEMMA SaveClientType ==
  ASSUME TableTypeOK, NEW p \in Players, NEW e \in Entity, SaveClient(p, e)
  PROVE  TableTypeOK'
BY DEF TableTypeOK, SaveClient, Entity

LEMMA RemoveClientType ==
  ASSUME TableTypeOK, NEW p \in Players, RemoveClient(p)
  PROVE  TableTypeOK'
BY DEF TableTypeOK, RemoveClient

LEMMA FailType ==
  ASSUME faults \in 0..MaxFaults, Fail
  PROVE  faults' \in 0..MaxFaults
BY GameAssumption DEF Fail

LEMMA AddToType ==
  ASSUME NEW f \in [RoundNumbers -> SUBSET Players], NEW r \in RoundNumbers,
         NEW p \in Players
  PROVE  /\ AddTo(f, r, p) \in [RoundNumbers -> SUBSET Players]
         /\ RemoveFrom(f, r, p) \in [RoundNumbers -> SUBSET Players]
BY DEF AddTo, RemoveFrom

LEMMA InsertAnswerType ==
  ASSUME DataTypeOK, NEW r \in RoundNumbers, NEW p \in Players,
         InsertAnswer(p, r)
  PROVE  DataTypeOK'
BY AddToType DEF DataTypeOK, TableTypeOK, InsertAnswer

LEMMA InsertThrowsType ==
  ASSUME DataTypeOK, NEW r \in RoundNumbers, NEW p \in Players,
         InsertThrows(p, r)
  PROVE  DataTypeOK'
<1>1. CASE UNCHANGED dataVars
  BY <1>1, DataUnchanged
<1>2. CASE /\ Fail
           /\ rows' = rows \/ rows' = AddTo(rows, r, p)
           /\ UNCHANGED <<roster, online, total, removed, conn>>
  BY <1>2, AddToType, FailType DEF DataTypeOK, TableTypeOK
<1>3. QED
  BY <1>1, <1>2 DEF InsertThrows

-------------------------------------------------------------------------------
(* Answers. *)

Savings == [RoundNumbers -> [Players -> SaveKinds]]

LEMMA SettledType ==
  ASSUME AnswerTypeOK, NEW r \in RoundNumbers, NEW p \in Players
  PROVE  Settled(p, r) \in Savings
BY DEF AnswerTypeOK, Settled, Savings, SaveKinds

LEMMA NextSnapshotType ==
  ASSUME AnswerTypeOK, NEW r \in RoundNumbers, NEW p \in Players,
         NEW sub \in SUBSET Players, NEW vis \in SUBSET Players,
         NEW sav \in Savings, NextSnapshot(r, p, sub, vis, sav),
         UNCHANGED progress, accepted' \in [RoundNumbers -> SUBSET Players]
  PROVE  AnswerTypeOK'
BY DEF AnswerTypeOK, NextSnapshot, Savings, SaveKinds

LEMMA LastSnapshotType ==
  ASSUME AnswerTypeOK, NEW r \in RoundNumbers,
         NEW sub \in SUBSET Players, NEW vis \in SUBSET Players,
         NEW sav \in Savings, LastSnapshot(r, sub, vis, sav),
         UNCHANGED progress, accepted' \in [RoundNumbers -> SUBSET Players]
  PROVE  AnswerTypeOK'
BY DEF AnswerTypeOK, LastSnapshot, Savings

LEMMA ForgetSubmissionType ==
  ASSUME AnswerTypeOK, NEW r \in RoundNumbers, NEW p \in Players,
         ForgetSubmission(p, r)
  PROVE  AnswerTypeOK'
<1>1. submitted' \in [RoundNumbers -> SUBSET Players]
  BY AddToType DEF ForgetSubmission, AnswerTypeOK
<1>2. saving' \in Savings
  BY SettledType DEF ForgetSubmission
<1>3. visited' \in [RoundNumbers -> SUBSET Players]
  <2>1. visited' \in {visited, AddTo(visited, r, p)}
    BY DEF ForgetSubmission
  <2>2. QED
    BY <2>1, AddToType DEF AnswerTypeOK
<1>4. UNCHANGED <<window, progress, finalizing, accepted>>
  BY DEF ForgetSubmission
<1>5. QED
  BY <1>1, <1>2, <1>3, <1>4 DEF AnswerTypeOK, Savings

-------------------------------------------------------------------------------
(* Scoring. *)

LEMMA JobAtType ==
  ASSUME NEW step \in JobSteps
  PROVE  JobAt(step) \in Jobs
BY NoEntityType DEF JobAt, Jobs

LEMMA StartJobType ==
  ASSUME ScoringTypeOK, NEW r \in RoundNumbers, StartJob(r)
  PROVE  ScoringTypeOK'
<1>1. (IF ctx = NoRound THEN "done" ELSE "rows") \in JobSteps
  BY DEF JobSteps
<1>2. QED
  BY <1>1, JobAtType DEF StartJob, ScoringTypeOK

LEMMA JobType ==
  ASSUME ScoringTypeOK, NEW r \in RoundNumbers
  PROVE  /\ job[r] \in Jobs
         /\ \A p \in Players : job[r].seen[p] \in Entity
         /\ job[r].todo \subseteq Players
BY DEF ScoringTypeOK, Jobs

LEMMA JobUpdated ==
  ASSUME ScoringTypeOK, NEW r \in RoundNumbers, NEW j \in Jobs,
         job' = [job EXCEPT ![r] = j], UNCHANGED <<ctx, credited, timedOut>>
  PROVE  ScoringTypeOK'
BY DEF ScoringTypeOK

LEMMA ReadRowsType ==
  ASSUME TableTypeOK, ScoringTypeOK, NEW r \in RoundNumbers, ReadRows(r)
  PROVE  ScoringTypeOK'
<1> DEFINE j == [job[r] EXCEPT !.at = "roster", !.todo = rows[r]]
<1>1. j \in Jobs
  BY JobType DEF Jobs, JobSteps, TableTypeOK
<1>2. job' = [job EXCEPT ![r] = j] /\ UNCHANGED <<ctx, credited, timedOut>>
  BY DEF ReadRows
<1> HIDE DEF j
<1>3. QED
  BY <1>1, <1>2, JobUpdated

LEMMA ReadRosterType ==
  ASSUME TableTypeOK, ScoringTypeOK, NEW r \in RoundNumbers, ReadRoster(r)
  PROVE  ScoringTypeOK'
<1> DEFINE S == [p \in Players |-> IF p \in roster \cap job[r].todo
                                   THEN Loaded(p) ELSE NoEntity]
<1>1. S \in [Players -> Entity]
  BY LoadedType, NoEntityType
<1>2. job[r] \in Jobs
  BY JobType
<1> DEFINE j == [job[r] EXCEPT !.at = "row", !.late = roster \ job[r].todo,
                               !.known = roster \cap job[r].todo, !.seen = S]
<1>3. job' = [job EXCEPT ![r] = j] /\ UNCHANGED <<ctx, credited, timedOut>>
  BY DEF ReadRoster
<1> HIDE DEF S
<1>4. j \in Jobs
  BY <1>1, <1>2 DEF Jobs, JobSteps, TableTypeOK
<1> HIDE DEF j
<1>5. QED
  BY <1>3, <1>4, JobUpdated

LEMMA ScoreRowType ==
  ASSUME DataTypeOK, ScoringTypeOK, NEW r \in RoundNumbers, NEW p \in Players,
         ScoreRow(r, p)
  PROVE  DataTypeOK' /\ ScoringTypeOK'
<1>1. DataTypeOK'
  BY DEF ScoreRow, DataTypeOK, TableTypeOK
<1>2. ScoringTypeOK'
  <2> DEFINE j == [job[r] EXCEPT !.at = "credit", !.todo = @ \ {p}, !.cur = {p}]
             k == [job[r] EXCEPT !.todo = @ \ {p}]
  <2>1. j \in Jobs /\ k \in Jobs
    BY JobType DEF Jobs, JobSteps
  <2>2. /\ job' = [job EXCEPT ![r] = j] \/ job' = [job EXCEPT ![r] = k]
        /\ UNCHANGED <<ctx, credited, timedOut>>
    BY DEF ScoreRow
  <2> HIDE DEF j, k
  <2>3. QED
    BY <2>1, <2>2, JobUpdated
<1>3. QED
  BY <1>1, <1>2

LEMMA CreditType ==
  ASSUME DataTypeOK, ScoringTypeOK, NEW r \in RoundNumbers, NEW p \in Players,
         Credit(r, p)
  PROVE  DataTypeOK' /\ ScoringTypeOK'
<1> DEFINE e == [job[r].seen[p] EXCEPT !.score = @ + 1]
<1>1. e \in Entity
  BY JobType DEF Entity
<1>2. SaveClient(p, e) /\ UNCHANGED <<conn, faults>>
  BY DEF Credit
<1> HIDE DEF e
<1>3. DataTypeOK'
  BY <1>1, <1>2, SaveClientType DEF DataTypeOK
<1>4. ScoringTypeOK'
  BY DEF Credit, ScoringTypeOK, Jobs, JobSteps
<1>5. QED
  BY <1>3, <1>4

LEMMA JobEndType ==
  ASSUME DataTypeOK, ScoringTypeOK, NEW r \in RoundNumbers,
         FinishJob(r) \/ JobThrows(r)
  PROVE  DataTypeOK' /\ ScoringTypeOK'
<1>1. JobAt("done") \in Jobs
  BY JobAtType DEF JobSteps
<1>2. CASE FinishJob(r)
  <2>1. DataTypeOK'
    BY <1>2, DataUnchanged DEF FinishJob
  <2>2. job[r].late \subseteq Players
    BY JobType DEF Jobs
  <2>3. ScoringTypeOK'
    BY <1>1, <1>2, <2>2 DEF FinishJob, ScoringTypeOK
  <2>4. QED
    BY <2>1, <2>3
<1>3. CASE JobThrows(r)
  <2>1. faults' \in 0..MaxFaults
    BY <1>3, FailType DEF JobThrows, DataTypeOK
  <2>2. DataTypeOK'
    BY <1>3, <2>1, TablesUnchanged DEF JobThrows, DataTypeOK
  <2>3. ScoringTypeOK'
    BY <1>1, <1>3 DEF JobThrows, ScoringTypeOK
  <2>4. QED
    BY <2>2, <2>3
<1>4. QED
  BY <1>2, <1>3

LEMMA JobStepType ==
  ASSUME TypeOK, NEW r \in RoundNumbers, JobStep(r)
  PROVE  CoreTypeOK'
<1>1. AnswerTypeOK' /\ EngineTypeOK' /\ LobbyTypeOK'
  BY AnswersUnchanged, EngineUnchanged, LobbyUnchanged DEF JobStep, TypeOK
<1>2. DataTypeOK' /\ ScoringTypeOK'
  <2>1. CASE ReadRows(r)
    BY <2>1, ReadRowsType, DataUnchanged DEF ReadRows, TypeOK, DataTypeOK
  <2>2. CASE ReadRoster(r)
    BY <2>2, ReadRosterType, DataUnchanged DEF ReadRoster, TypeOK, DataTypeOK
  <2>3. CASE \E p \in Players : ScoreRow(r, p) \/ Credit(r, p)
    BY <2>3, ScoreRowType, CreditType DEF TypeOK
  <2>4. QED
    BY <2>1, <2>2, <2>3 DEF JobStep
<1>3. RoundUnderway'
  BY DEF JobStep, TypeOK, RoundUnderway, engineVars
<1>4. QED
  BY <1>1, <1>2, <1>3 DEF CoreTypeOK

-------------------------------------------------------------------------------
(* The engine. *)

LEMMA NextRoundType ==
  ASSUME EngineTypeOK, NEW flag \in BOOLEAN, NextRound(flag),
         aborted' \in BOOLEAN
  PROVE  EngineTypeOK'
BY GameAssumption
   DEF EngineTypeOK, NextRound, EngineSteps, Querying, RoundNumbers, NoRound

LEMMA GotoType ==
  ASSUME EngineTypeOK, NEW step \in EngineSteps, Goto(step)
  PROVE  EngineTypeOK'
BY DEF EngineTypeOK, Goto

LEMMA DropWindowType ==
  ASSUME AnswerTypeOK, ScoringTypeOK, DropWindow
  PROVE  AnswerTypeOK' /\ ScoringTypeOK'
BY DEF AnswerTypeOK, ScoringTypeOK, DropWindow

LEMMA GotoUnderway ==
  ASSUME RoundUnderway, NEW step, Goto(step),
         pc \notin {"building", "finishing"}, pc # "done" \/ step = "done"
  PROVE  RoundUnderway'
BY DEF RoundUnderway, Goto

LEMMA GotoDoneUnderway ==
  ASSUME Goto("done")
  PROVE  RoundUnderway'
BY DEF RoundUnderway, Goto

LEMMA NextRoundUnderway ==
  ASSUME EngineTypeOK, NEW flag \in BOOLEAN, NextRound(flag)
  PROVE  RoundUnderway'
BY GameAssumption
   DEF EngineTypeOK, NextRound, RoundUnderway, RoundNumbers, NoRound

LEMMA UnderwayUnchanged ==
  ASSUME RoundUnderway, UNCHANGED engineVars
  PROVE  RoundUnderway'
BY DEF RoundUnderway, engineVars

LEMMA CloseRoundType ==
  ASSUME ScoringTypeOK, EngineTypeOK, round \in RoundNumbers, CloseRound
  PROVE  ScoringTypeOK' /\ EngineTypeOK' /\ RoundUnderway'
<1>1. ScoringTypeOK'
  BY StartJobType DEF CloseRound
<1>2. EngineTypeOK'
  BY GotoType DEF CloseRound, EngineSteps, Querying
<1>3. RoundUnderway'
  BY DEF CloseRound, Goto, RoundUnderway
<1>4. QED
  BY <1>1, <1>2, <1>3

LEMMA EndQuestionType ==
  ASSUME AnswerTypeOK, ScoringTypeOK, EngineTypeOK, round \in RoundNumbers,
         NEW sav \in Savings, EndQuestion(sav),
         UNCHANGED progress, accepted' \in [RoundNumbers -> SUBSET Players]
  PROVE  AnswerTypeOK' /\ ScoringTypeOK' /\ EngineTypeOK' /\ RoundUnderway'
<1>1. submitted[round] \subseteq Players /\ visited[round] \subseteq Players
  BY DEF AnswerTypeOK
<1>2. CASE \E p \in Players : /\ NextSnapshot(round, p, submitted[round], visited[round], sav)
                             /\ Goto("finalizing") /\ UNCHANGED scoringVars
  <2>1. AnswerTypeOK'
    BY <1>1, <1>2, NextSnapshotType
  <2>2. ScoringTypeOK' /\ EngineTypeOK'
    BY <1>2, GotoType, ScoringUnchanged DEF EngineSteps
  <2>3. RoundUnderway'
    BY <1>2 DEF Goto, RoundUnderway
  <2>4. QED
    BY <2>1, <2>2, <2>3
<1>3. CASE /\ LastSnapshot(round, submitted[round], visited[round], sav)
           /\ CloseRound
  <2>1. AnswerTypeOK'
    BY <1>1, <1>3, LastSnapshotType
  <2>2. QED
    BY <1>3, <2>1, CloseRoundType
<1>4. CASE /\ saving' = sav
           /\ window' = NoRound
           /\ UNCHANGED <<submitted, visited, finalizing>>
           /\ CloseRound
  <2>1. AnswerTypeOK'
    BY <1>4 DEF AnswerTypeOK, Savings
  <2>2. QED
    BY <1>4, <2>1, CloseRoundType
<1>5. QED
  BY <1>2, <1>3, <1>4 DEF EndQuestion

(* The steps of the engine's loop. *)
LEMMA EngineStepType ==
  ASSUME TypeOK, EngineStep
  PROVE  CoreTypeOK'
<1>1. DataTypeOK' /\ AnswerTypeOK' /\ ScoringTypeOK' /\ LobbyTypeOK'
  BY DataUnchanged, AnswersUnchanged, ScoringUnchanged, LobbyUnchanged
     DEF EngineStep, TypeOK
<1>2. EngineTypeOK' /\ RoundUnderway'
  <2>1. CASE NextRound(aborted) /\ UNCHANGED aborted
    BY <2>1, NextRoundType, NextRoundUnderway DEF TypeOK, EngineTypeOK
  <2>2. CASE pc = "starting" /\ Goto("intro")
    BY <2>2, GotoType, GotoUnderway DEF TypeOK, EngineSteps, Timed
  <2>3. CASE pc = "revealing" /\ Goto("reveal")
    BY <2>3, GotoType, GotoUnderway DEF TypeOK, EngineSteps, Timed
  <2>4. CASE pc = "closing" /\ Goto("leaderboard")
    BY <2>4, GotoType, GotoUnderway DEF TypeOK, EngineSteps, Timed
  <2>5. QED
    BY <2>1, <2>2, <2>3, <2>4 DEF EngineStep
<1>3. QED
  BY <1>1, <1>2 DEF CoreTypeOK

LEMMA QuestionType ==
  ASSUME TypeOK, ShowQuestion \/ SkipQuestion
  PROVE  CoreTypeOK'
<1>1. pc = "entering" /\ Goto("question")
  BY DEF ShowQuestion, SkipQuestion
<1>2. EngineTypeOK' /\ RoundUnderway' /\ round \in RoundNumbers
  BY <1>1, GotoType, GotoUnderway DEF TypeOK, EngineSteps, Timed, RoundUnderway
<1>3. LobbyTypeOK'
  BY LobbyUnchanged DEF ShowQuestion, SkipQuestion, TypeOK
<1>4. CASE ShowQuestion
  <2>1. AnswerTypeOK' /\ ScoringTypeOK'
    BY <1>2, <1>4 DEF ShowQuestion, TypeOK, AnswerTypeOK, ScoringTypeOK
  <2>2. DataTypeOK'
    BY <1>4, DataUnchanged DEF ShowQuestion, TypeOK
  <2>3. QED
    BY <1>2, <1>3, <2>1, <2>2 DEF CoreTypeOK
<1>5. CASE SkipQuestion
  <2>1. AnswerTypeOK' /\ ScoringTypeOK'
    BY <1>5, AnswersUnchanged, ScoringUnchanged DEF SkipQuestion, TypeOK
  <2>2. DataTypeOK'
    BY <1>5, TablesUnchanged, FailType DEF SkipQuestion, TypeOK, DataTypeOK
  <2>3. QED
    BY <1>2, <1>3, <2>1, <2>2 DEF CoreTypeOK
<1>6. QED
  BY <1>4, <1>5

LEMMA PhaseExpiresType ==
  ASSUME TypeOK, PhaseExpires
  PROVE  CoreTypeOK'
<1>1. DataTypeOK' /\ AnswerTypeOK' /\ ScoringTypeOK' /\ LobbyTypeOK'
  BY DataUnchanged, AnswersUnchanged, ScoringUnchanged, LobbyUnchanged
     DEF PhaseExpires, TypeOK
<1>2. EngineTypeOK' /\ RoundUnderway'
  <2>1. CASE NextRound(aborted) /\ UNCHANGED aborted
    BY <2>1, NextRoundType, NextRoundUnderway DEF TypeOK, EngineTypeOK
  <2>2. CASE pc = "intro" /\ Goto("entering")
    BY <2>2, GotoType, GotoUnderway DEF TypeOK, EngineSteps, Querying
  <2>3. CASE pc = "reveal" /\ Goto("closing")
    BY <2>3, GotoType, GotoUnderway DEF TypeOK, EngineSteps, Querying
  <2>4. QED
    BY <2>1, <2>2, <2>3 DEF PhaseExpires
<1>3. QED
  BY <1>1, <1>2 DEF CoreTypeOK

LEMMA QuestionExpiresType ==
  ASSUME TypeOK, QuestionExpires
  PROVE  CoreTypeOK'
<1>1. DataTypeOK' /\ LobbyTypeOK'
  BY DataUnchanged, LobbyUnchanged DEF QuestionExpires, TypeOK
<1>2. saving \in Savings
  BY DEF TypeOK, AnswerTypeOK, Savings
<1>3. round \in RoundNumbers
  BY DEF QuestionExpires, EndQuestion, TypeOK, RoundUnderway
<1>4. AnswerTypeOK' /\ ScoringTypeOK' /\ EngineTypeOK' /\ RoundUnderway'
  BY <1>2, <1>3, EndQuestionType DEF QuestionExpires, TypeOK, AnswerTypeOK
<1>5. QED
  BY <1>1, <1>4 DEF CoreTypeOK

LEMMA TimeoutType ==
  ASSUME TypeOK, FinalizeTimesOut \/ ScoreTimesOut
  PROVE  CoreTypeOK'
<1>1. DataTypeOK' /\ LobbyTypeOK'
  BY DataUnchanged, LobbyUnchanged DEF FinalizeTimesOut, ScoreTimesOut, TypeOK
<1>2. CASE FinalizeTimesOut
  <2>1. AnswerTypeOK'
    BY <1>2 DEF FinalizeTimesOut, TypeOK, AnswerTypeOK
  <2>2. round \in RoundNumbers
    BY <1>2 DEF FinalizeTimesOut, TypeOK, RoundUnderway
  <2>3. ScoringTypeOK' /\ EngineTypeOK' /\ RoundUnderway'
    BY <1>2, <2>2, CloseRoundType DEF FinalizeTimesOut, TypeOK
  <2>4. QED
    BY <1>1, <2>1, <2>3 DEF CoreTypeOK
<1>3. CASE ScoreTimesOut
  <2>1. AnswerTypeOK' /\ ScoringTypeOK'
    BY <1>3, AnswersUnchanged, ScoringUnchanged DEF ScoreTimesOut, TypeOK
  <2>2. EngineTypeOK' /\ RoundUnderway'
    BY <1>3, GotoType, GotoUnderway
       DEF ScoreTimesOut, TypeOK, EngineSteps, Querying
  <2>3. QED
    BY <1>1, <2>1, <2>2 DEF CoreTypeOK
<1>4. QED
  BY <1>2, <1>3

LEMMA EngineEndType ==
  ASSUME TypeOK, EngineThrows \/ FinishGame
  PROVE  CoreTypeOK'
<1>1. AnswerTypeOK' /\ ScoringTypeOK'
  BY DropWindowType DEF EngineThrows, FinishGame, TypeOK
<1>2. EngineTypeOK' /\ RoundUnderway'
  BY DEF EngineThrows, FinishGame, Goto, TypeOK, EngineTypeOK, EngineSteps,
         RoundUnderway
<1>3. LobbyTypeOK'
  BY LobbyUnchanged DEF EngineThrows, FinishGame, TypeOK
<1>4. DataTypeOK'
  <2>1. CASE EngineThrows
    BY <2>1, TablesUnchanged, FailType DEF EngineThrows, TypeOK, DataTypeOK
  <2>2. CASE FinishGame
    BY <2>2, DataUnchanged DEF FinishGame, TypeOK
  <2>3. QED
    BY <2>1, <2>2
<1>5. QED
  BY <1>1, <1>2, <1>3, <1>4 DEF CoreTypeOK

LEMMA AbortType ==
  ASSUME AnswerTypeOK, ScoringTypeOK, EngineTypeOK, RoundUnderway, Abort
  PROVE  AnswerTypeOK' /\ ScoringTypeOK' /\ EngineTypeOK' /\ RoundUnderway'
<1>1. AnswerTypeOK' /\ ScoringTypeOK'
  BY DropWindowType, AnswersUnchanged, ScoringUnchanged DEF Abort
<1>2. EngineTypeOK' /\ RoundUnderway'
  <2>1. CASE NextRound(TRUE)
    BY <2>1, NextRoundType, NextRoundUnderway DEF Abort
  <2>2. CASE UNCHANGED <<pc, round, verdict>>
    BY <2>2 DEF Abort, EngineTypeOK, RoundUnderway
  <2>3. QED
    BY <2>1, <2>2 DEF Abort
<1>3. QED
  BY <1>1, <1>2

-------------------------------------------------------------------------------
(* The players' answers. *)

LEMMA PlayerAnswersType ==
  ASSUME TypeOK, NEW r \in RoundNumbers, NEW p \in Players,
         PlayerSubmits(p, r) \/ PlayerProgresses(p, r) \/ SubmissionDuplicate(p, r)
  PROVE  CoreTypeOK'
<1>1. /\ DataTypeOK' /\ ScoringTypeOK' /\ EngineTypeOK' /\ LobbyTypeOK'
      /\ RoundUnderway'
  BY DataUnchanged, ScoringUnchanged, EngineUnchanged, LobbyUnchanged,
     UnderwayUnchanged
     DEF PlayerSubmits, PlayerProgresses, SubmissionDuplicate, TypeOK
<1>2. AnswerTypeOK'
  <2>1. CASE PlayerSubmits(p, r)
    BY <2>1, AddToType DEF PlayerSubmits, Submit, TypeOK, AnswerTypeOK, SaveKinds
  <2>2. CASE PlayerProgresses(p, r)
    BY <2>2, AddToType DEF PlayerProgresses, Progress, TypeOK, AnswerTypeOK
  <2>3. CASE SubmissionDuplicate(p, r)
    BY <2>3, SettledType DEF SubmissionDuplicate, TypeOK, AnswerTypeOK, Savings
  <2>4. QED
    BY <2>1, <2>2, <2>3
<1>3. QED
  BY <1>1, <1>2 DEF CoreTypeOK

LEMMA SubmissionThrowsType ==
  ASSUME TypeOK, NEW r \in RoundNumbers, NEW p \in Players,
         SubmissionThrows(p, r)
  PROVE  CoreTypeOK'
<1>1. ScoringTypeOK' /\ EngineTypeOK' /\ LobbyTypeOK' /\ RoundUnderway'
  BY ScoringUnchanged, EngineUnchanged, LobbyUnchanged, UnderwayUnchanged
     DEF SubmissionThrows, TypeOK
<1>2. DataTypeOK' /\ AnswerTypeOK'
  BY InsertThrowsType, ForgetSubmissionType DEF SubmissionThrows, TypeOK
<1>3. QED
  BY <1>1, <1>2 DEF CoreTypeOK

LEMMA SubmissionSavedType ==
  ASSUME TypeOK, NEW r \in RoundNumbers, NEW p \in Players,
         SubmissionSaved(p, r)
  PROVE  CoreTypeOK'
<1>1. DataTypeOK'
  BY InsertAnswerType DEF SubmissionSaved, TypeOK
<1>2. accepted' \in [RoundNumbers -> SUBSET Players]
  BY DEF SubmissionSaved, TypeOK, AnswerTypeOK
<1>3. Settled(p, r) \in Savings
  BY SettledType DEF TypeOK
<1>4. CASE /\ pc = "question"
           /\ EndQuestion(Settled(p, r))
           /\ UNCHANGED <<progress, lobbyVars>>
  <2>1. round \in RoundNumbers
    BY <1>4 DEF TypeOK, RoundUnderway
  <2>2. LobbyTypeOK'
    BY <1>4, LobbyUnchanged DEF TypeOK
  <2>3. ScoringTypeOK' /\ EngineTypeOK' /\ RoundUnderway' /\ AnswerTypeOK'
    BY <1>2, <1>3, <1>4, <2>1, EndQuestionType DEF TypeOK
  <2>4. QED
    BY <1>1, <2>2, <2>3 DEF CoreTypeOK
<1>5. CASE /\ saving' = Settled(p, r)
           /\ UNCHANGED <<window, submitted, progress, visited, finalizing>>
           /\ UNCHANGED <<scoringVars, engineVars, lobbyVars>>
  <2>1. AnswerTypeOK'
    BY <1>2, <1>3, <1>5 DEF TypeOK, AnswerTypeOK, Savings
  <2>2. ScoringTypeOK' /\ EngineTypeOK' /\ LobbyTypeOK' /\ RoundUnderway'
    BY <1>5, ScoringUnchanged, EngineUnchanged, LobbyUnchanged, UnderwayUnchanged
       DEF TypeOK
  <2>3. QED
    BY <1>1, <2>1, <2>2 DEF CoreTypeOK
<1>6. QED
  BY <1>4, <1>5 DEF SubmissionSaved

LEMMA ContinueFinalizeType ==
  ASSUME AnswerTypeOK, ScoringTypeOK, EngineTypeOK, RoundUnderway,
         NEW r \in RoundNumbers, NEW p \in Players, NEW sub \in SUBSET Players,
         ContinueFinalize(p, r, sub),
         UNCHANGED progress, accepted' \in [RoundNumbers -> SUBSET Players]
  PROVE  AnswerTypeOK' /\ ScoringTypeOK' /\ EngineTypeOK' /\ RoundUnderway'
<1>1. Settled(p, r) \in Savings /\ visited[r] \in SUBSET Players
  BY SettledType DEF AnswerTypeOK
<1>2. CASE /\ \E q \in Players : NextSnapshot(r, q, sub, visited[r], Settled(p, r))
           /\ UNCHANGED <<scoringVars, engineVars>>
  BY <1>1, <1>2, NextSnapshotType, ScoringUnchanged, EngineUnchanged,
     UnderwayUnchanged
<1>3. CASE /\ LastSnapshot(r, sub, visited[r], Settled(p, r))
           /\ IF pc = "finalizing" /\ round = r
              THEN CloseRound
              ELSE UNCHANGED <<scoringVars, engineVars>>
  <2>1. AnswerTypeOK'
    BY <1>1, <1>3, LastSnapshotType
  <2>2. CASE pc = "finalizing" /\ round = r
    BY <1>3, <2>1, <2>2, CloseRoundType
  <2>3. CASE ~(pc = "finalizing" /\ round = r)
    BY <1>3, <2>1, <2>3, ScoringUnchanged, EngineUnchanged, UnderwayUnchanged
  <2>4. QED
    BY <2>2, <2>3
<1>4. QED
  BY <1>2, <1>3 DEF ContinueFinalize

LEMMA SnapshotType ==
  ASSUME TypeOK, NEW r \in RoundNumbers, NEW p \in Players,
         SnapshotSaved(p, r) \/ SnapshotThrows(p, r)
  PROVE  CoreTypeOK'
<1>1. LobbyTypeOK'
  BY LobbyUnchanged DEF SnapshotSaved, SnapshotThrows, TypeOK
<1>2. DataTypeOK'
  BY InsertAnswerType, InsertThrowsType, DataUnchanged
     DEF SnapshotSaved, SnapshotThrows, TypeOK
<1>3. submitted[r] \in SUBSET Players /\ submitted[r] \ {p} \in SUBSET Players
  BY DEF TypeOK, AnswerTypeOK
<1>4. AnswerTypeOK' /\ ScoringTypeOK' /\ EngineTypeOK' /\ RoundUnderway'
  BY <1>3, ContinueFinalizeType
     DEF SnapshotSaved, SnapshotThrows, TypeOK, AnswerTypeOK
<1>5. QED
  BY <1>1, <1>2, <1>4 DEF CoreTypeOK

LEMMA JobEndsType ==
  ASSUME TypeOK, NEW r \in RoundNumbers, JobEnds(r)
  PROVE  CoreTypeOK'
<1>1. AnswerTypeOK' /\ LobbyTypeOK'
  BY AnswersUnchanged, LobbyUnchanged DEF JobEnds, TypeOK
<1>2. DataTypeOK' /\ ScoringTypeOK'
  BY JobEndType DEF JobEnds, TypeOK
<1>3. EngineTypeOK' /\ RoundUnderway'
  <2>1. CASE pc = "scoring" /\ Goto("revealing")
    BY <2>1, GotoType, GotoUnderway DEF TypeOK, EngineSteps, Querying
  <2>2. CASE UNCHANGED engineVars
    BY <2>2, EngineUnchanged, UnderwayUnchanged DEF TypeOK
  <2>3. QED
    BY <2>1, <2>2 DEF JobEnds
<1>4. QED
  BY <1>1, <1>2, <1>3 DEF CoreTypeOK

-------------------------------------------------------------------------------
(* The lobby. *)

LEMMA BeginCallType ==
  ASSUME TypeOK, NEW p \in Players, NEW step \in LobbySteps, BeginCall(p, step),
         conn' \subseteq Players, grace' \subseteq Players
  PROVE  CoreTypeOK'
<1>1. AnswerTypeOK' /\ ScoringTypeOK' /\ EngineTypeOK' /\ RoundUnderway'
  BY AnswersUnchanged, ScoringUnchanged, EngineUnchanged, UnderwayUnchanged
     DEF BeginCall, TypeOK
<1>2. DataTypeOK'
  BY TablesUnchanged DEF BeginCall, TypeOK, DataTypeOK
<1>3. LobbyTypeOK'
  <2>1. Loaded(p) \in Entity
    BY LoadedType DEF TypeOK, DataTypeOK
  <2>2. [at |-> step, entity |-> Loaded(p)] \in LobbyCalls
    BY <2>1 DEF LobbyCalls
  <2>3. lobby' \in [Players -> LobbyCalls]
    BY <2>2 DEF BeginCall, TypeOK, LobbyTypeOK
  <2>4. calls' \in 0..MaxCalls
    BY GameAssumption DEF BeginCall, TypeOK, LobbyTypeOK
  <2>5. QED
    BY <2>3, <2>4 DEF LobbyTypeOK
<1>4. QED
  BY <1>1, <1>2, <1>3 DEF CoreTypeOK

LEMMA ContinueCallType ==
  ASSUME TypeOK, NEW p \in Players, NEW call \in LobbyCalls,
         ContinueCall(p, call), TableTypeOK',
         conn' \subseteq Players, grace' \subseteq Players
  PROVE  CoreTypeOK'
<1>1. AnswerTypeOK' /\ ScoringTypeOK' /\ EngineTypeOK' /\ RoundUnderway'
  BY AnswersUnchanged, ScoringUnchanged, EngineUnchanged, UnderwayUnchanged
     DEF ContinueCall, TypeOK
<1>2. DataTypeOK' /\ LobbyTypeOK'
  BY DEF ContinueCall, TypeOK, DataTypeOK, LobbyTypeOK
<1>3. QED
  BY <1>1, <1>2 DEF CoreTypeOK

LEMMA IdleType ==
  ASSUME NEW step \in LobbySteps
  PROVE  [Idle EXCEPT !.at = step] \in LobbyCalls /\ Idle \in LobbyCalls
BY NoEntityType DEF Idle, LobbyCalls, LobbySteps

LEMMA CheckAbandonedType ==
  ASSUME TypeOK, NEW p \in Players, CheckAbandoned(p)
  PROVE  CoreTypeOK'
<1>1. DataTypeOK'
  BY DataUnchanged DEF CheckAbandoned, TypeOK
<1>2. LobbyTypeOK'
  <2>1. Idle \in LobbyCalls
    BY IdleType DEF LobbySteps
  <2>2. QED
    BY <2>1 DEF CheckAbandoned, TypeOK, LobbyTypeOK
<1>3. AnswerTypeOK' /\ ScoringTypeOK' /\ EngineTypeOK' /\ RoundUnderway'
  <2>1. CASE Abort
    BY <2>1, AbortType DEF TypeOK
  <2>2. CASE UNCHANGED <<answerVars, scoringVars, engineVars>>
    BY <2>2, AnswersUnchanged, ScoringUnchanged, EngineUnchanged,
       UnderwayUnchanged DEF TypeOK
  <2>3. QED
    BY <2>1, <2>2 DEF CheckAbandoned
<1>4. QED
  BY <1>1, <1>2, <1>3 DEF CoreTypeOK

LEMMA LobbyType ==
  ASSUME TypeOK, NEW p \in Players, Lobby(p)
  PROVE  CoreTypeOK'
<1> USE DEF LobbySteps
<1>1. TableTypeOK /\ conn \subseteq Players /\ grace \subseteq Players
      /\ conn \ {p} \subseteq Players /\ conn \cup {p} \subseteq Players
      /\ grace \ {p} \subseteq Players
  BY DEF TypeOK, DataTypeOK, LobbyTypeOK
<1>2. [lobby[p].entity EXCEPT !.online = FALSE] \in Entity
      /\ [lobby[p].entity EXCEPT !.online = TRUE] \in Entity
  BY DEF TypeOK, LobbyTypeOK, LobbyCalls, Entity
<1>3. CASE SocketDrops(p)
  BY <1>1, <1>3, BeginCallType DEF SocketDrops
<1>4. CASE MarkOffline(p)
  <2>1. TableTypeOK'
    BY <1>1, <1>2, <1>4, SaveClientType DEF MarkOffline
  <2>2. QED
    BY <1>1, <1>4, <2>1, IdleType, ContinueCallType DEF MarkOffline
<1>5. CASE PlayerReturns(p)
  BY <1>1, <1>5, BeginCallType DEF PlayerReturns
<1>6. CASE MarkOnline(p)
  <2>1. TableTypeOK'
    BY <1>1, <1>2, <1>6, SaveClientType DEF MarkOnline
  <2>2. QED
    BY <1>1, <1>6, <2>1, IdleType, ContinueCallType DEF MarkOnline
<1>7. CASE PlayerLeaves(p)
  BY <1>1, <1>7, BeginCallType DEF PlayerLeaves
<1>8. CASE RemoveLeaver(p)
  <2>1. TableTypeOK'
    BY <1>1, <1>8, RemoveClientType DEF RemoveLeaver
  <2>2. QED
    BY <1>1, <1>8, <2>1, IdleType, ContinueCallType DEF RemoveLeaver
<1>9. CASE CheckAbandoned(p)
  BY <1>9, CheckAbandonedType
<1>10. CASE ExpireGrace(p)
  <2>1. TableTypeOK'
    BY <1>1, <1>10, RemoveClientType, TablesUnchanged DEF ExpireGrace
  <2>2. QED
    BY <1>1, <1>10, <2>1, IdleType, ContinueCallType DEF ExpireGrace
<1>11. QED
  BY <1>3, <1>4, <1>5, <1>6, <1>7, <1>8, <1>9, <1>10 DEF Lobby

-------------------------------------------------------------------------------

LEMMA InitType == Init => TypeOK
<1> SUFFICES ASSUME Init PROVE TypeOK
  OBVIOUS
<1>1. DataTypeOK
  BY GameAssumption DEF Init, DataInit, DataTypeOK, TableTypeOK
<1>2. AnswerTypeOK
  BY DEF Init, AnswerInit, AnswerTypeOK, SaveKinds
<1>3. ScoringTypeOK
  BY JobAtType DEF Init, ScoringInit, ScoringTypeOK, JobSteps
<1>4. EngineTypeOK /\ RoundUnderway
  BY DEF Init, EngineTypeOK, RoundUnderway, EngineSteps, Querying
<1>5. LobbyTypeOK
  BY IdleType, GameAssumption DEF Init, LobbyTypeOK, LobbySteps
<1>6. QED
  BY <1>1, <1>2, <1>3, <1>4, <1>5 DEF Init, TypeOK

(* The history variable: an await that is given up is noted with its round, and
   nothing else changes what is noted. *)
LEMMA OverdueSteps ==
  ASSUME [Next]_vars
  PROVE  \/ UNCHANGED overdue /\ ~FinalizeTimesOut /\ ~ScoreTimesOut
         \/ /\ FinalizeTimesOut \/ ScoreTimesOut
            /\ overdue' = overdue \cup {round}
            /\ pc \in {"finalizing", "scoring"} /\ round' = round /\ Timeouts
<1>1. CASE FinalizeTimesOut \/ ScoreTimesOut
  BY <1>1 DEF FinalizeTimesOut, ScoreTimesOut, CloseRound, Goto
<1>2. CASE Engine \/ Countdown
  BY <1>1, <1>2
     DEF Engine, EngineStep, ShowQuestion, SkipQuestion, EngineThrows, FinishGame,
         Countdown, PhaseExpires, QuestionExpires
<1>3. ASSUME NEW r \in RoundNumbers, NEW p \in Players,
             \/ PlayerSubmits(p, r) \/ PlayerProgresses(p, r)
             \/ SubmissionSaved(p, r) \/ SubmissionDuplicate(p, r)
             \/ SubmissionThrows(p, r)
             \/ SnapshotSaved(p, r) \/ SnapshotThrows(p, r)
      PROVE  UNCHANGED overdue
  BY <1>3 DEF PlayerSubmits, PlayerProgresses, SubmissionSaved,
              SubmissionDuplicate, SubmissionThrows, SnapshotSaved, SnapshotThrows
<1>4. ASSUME NEW r \in RoundNumbers, JobStep(r) \/ JobEnds(r)
      PROVE  UNCHANGED overdue
  BY <1>4 DEF JobStep, JobEnds
<1>5. ASSUME NEW p \in Players, Lobby(p)
      PROVE  UNCHANGED overdue
  BY <1>5
     DEF Lobby, SocketDrops, MarkOffline, PlayerReturns, MarkOnline, PlayerLeaves,
         RemoveLeaver, CheckAbandoned, ExpireGrace, BeginCall, ContinueCall
<1>6. CASE UNCHANGED vars
  BY <1>1, <1>6 DEF vars
<1>7. QED
  BY <1>1, <1>2, <1>3, <1>4, <1>5, <1>6 DEF Next

LEMMA OverdueType ==
  ASSUME TypeOK, [Next]_vars
  PROVE  overdue' \subseteq RoundNumbers
BY OverdueSteps DEF TypeOK, RoundUnderway

\* Once nothing has been given up, nothing was and nothing is.
LEMMA NotOverdue ==
  ASSUME [Next]_vars, overdue' = {}
  PROVE  overdue = {} /\ ~FinalizeTimesOut /\ ~ScoreTimesOut
BY OverdueSteps

LEMMA CoreNextType == TypeOK /\ [Next]_vars => CoreTypeOK'
<1> SUFFICES ASSUME TypeOK, [Next]_vars PROVE CoreTypeOK'
  OBVIOUS
<1>1. CASE Engine
  BY <1>1, EngineStepType, QuestionType, EngineEndType DEF Engine
<1>2. CASE Countdown
  BY <1>2, PhaseExpiresType, QuestionExpiresType DEF Countdown
<1>3. CASE FinalizeTimesOut \/ ScoreTimesOut
  BY <1>3, TimeoutType
<1>4. ASSUME NEW r \in RoundNumbers, NEW p \in Players,
             \/ PlayerSubmits(p, r) \/ PlayerProgresses(p, r)
             \/ SubmissionSaved(p, r) \/ SubmissionDuplicate(p, r)
             \/ SubmissionThrows(p, r)
             \/ SnapshotSaved(p, r) \/ SnapshotThrows(p, r)
      PROVE  CoreTypeOK'
  BY <1>4, PlayerAnswersType, SubmissionSavedType, SubmissionThrowsType,
     SnapshotType
<1>5. ASSUME NEW r \in RoundNumbers, JobStep(r) \/ JobEnds(r)
      PROVE  CoreTypeOK'
  BY <1>5, JobStepType, JobEndsType
<1>6. ASSUME NEW p \in Players, Lobby(p)
      PROVE  CoreTypeOK'
  BY <1>6, LobbyType
<1>7. CASE UNCHANGED vars
  BY <1>7, DataUnchanged, AnswersUnchanged, ScoringUnchanged, EngineUnchanged,
     LobbyUnchanged, UnderwayUnchanged DEF vars, TypeOK, CoreTypeOK
<1>8. QED
  BY <1>1, <1>2, <1>3, <1>4, <1>5, <1>6, <1>7 DEF Next

LEMMA NextType == TypeOK /\ [Next]_vars => TypeOK'
BY CoreNextType, OverdueType DEF CoreTypeOK, TypeOK

(* Every variable keeps its type, for any number of players and rounds, any
   number of failing queries and of lobby calls, with and without timeouts. *)
THEOREM TypeCorrect == Spec => []TypeOK
<1>1. Init => TypeOK
  BY InitType
<1>2. TypeOK /\ [Next]_vars => TypeOK'
  BY NextType
<1>3. QED
  BY <1>1, <1>2, PTL DEF Spec

-------------------------------------------------------------------------------
(* The answer window. *)

LEMMA EndQuestionWindow ==
  ASSUME NEW sav, WindowOpenOnlyInQuestion, EndQuestion(sav)
  PROVE  WindowOpenOnlyInQuestion'
BY DEF EndQuestion, NextSnapshot, LastSnapshot, Goto, WindowOpenOnlyInQuestion

LEMMA WindowStep ==
  TypeOK /\ WindowOpenOnlyInQuestion /\ [Next]_vars => WindowOpenOnlyInQuestion'
<1> SUFFICES ASSUME TypeOK, WindowOpenOnlyInQuestion, [Next]_vars
             PROVE  WindowOpenOnlyInQuestion'
  OBVIOUS
<1> USE DEF WindowOpenOnlyInQuestion
<1>1. CASE UNCHANGED <<window, engineVars>>
  BY <1>1 DEF engineVars
<1>2. CASE window' = NoRound
  BY <1>2
<1>3. CASE Engine
  <2>1. CASE EngineStep
    BY <2>1 DEF EngineStep, NextRound, Goto, answerVars
  <2>2. CASE ShowQuestion
    BY <2>2 DEF ShowQuestion, Goto
  <2>3. CASE SkipQuestion
    BY <2>3 DEF SkipQuestion, Goto, answerVars
  <2>4. CASE EngineThrows \/ FinishGame
    BY <2>4, <1>2 DEF EngineThrows, FinishGame, DropWindow
  <2>5. QED
    BY <1>3, <2>1, <2>2, <2>3, <2>4 DEF Engine
<1>4. CASE Countdown
  <2>1. CASE PhaseExpires
    BY <2>1 DEF PhaseExpires, NextRound, Goto, answerVars
  <2>2. CASE QuestionExpires
    BY <2>2, EndQuestionWindow DEF QuestionExpires
  <2>3. QED
    BY <1>4, <2>1, <2>2 DEF Countdown
<1>5. CASE FinalizeTimesOut \/ ScoreTimesOut
  BY <1>2, <1>5 DEF FinalizeTimesOut, ScoreTimesOut, Goto, answerVars
<1>6. ASSUME NEW r \in RoundNumbers, NEW p \in Players,
             \/ PlayerSubmits(p, r) \/ PlayerProgresses(p, r)
             \/ SubmissionDuplicate(p, r) \/ SubmissionThrows(p, r)
      PROVE  WindowOpenOnlyInQuestion'
  BY <1>1, <1>6 DEF PlayerSubmits, Submit, PlayerProgresses, Progress,
                    SubmissionDuplicate, SubmissionThrows, ForgetSubmission
<1>7. ASSUME NEW r \in RoundNumbers, NEW p \in Players, SubmissionSaved(p, r)
      PROVE  WindowOpenOnlyInQuestion'
  BY <1>1, <1>7, EndQuestionWindow DEF SubmissionSaved
<1>8. ASSUME NEW r \in RoundNumbers, NEW p \in Players,
             SnapshotSaved(p, r) \/ SnapshotThrows(p, r)
      PROVE  WindowOpenOnlyInQuestion'
  BY <1>1, <1>2, <1>8 DEF SnapshotSaved, SnapshotThrows, ContinueFinalize,
                          NextSnapshot, LastSnapshot
<1>9. ASSUME NEW r \in RoundNumbers, JobStep(r)
      PROVE  WindowOpenOnlyInQuestion'
  BY <1>1, <1>9 DEF JobStep, answerVars
<1>10. ASSUME NEW r \in RoundNumbers, JobEnds(r)
       PROVE  WindowOpenOnlyInQuestion'
  BY <1>1, <1>10 DEF JobEnds, answerVars, Goto
<1>11. ASSUME NEW p \in Players, Lobby(p)
       PROVE  WindowOpenOnlyInQuestion'
  <2>1. CASE CheckAbandoned(p)
    <3>1. CASE Abort
      BY <1>1, <1>2, <3>1
         DEF Abort, NextRound, DropWindow, answerVars, Timed, engineVars
    <3>2. QED
      BY <1>1, <2>1, <3>1 DEF CheckAbandoned, answerVars
  <2>2. CASE ~CheckAbandoned(p)
    BY <1>1, <1>11, <2>2
       DEF Lobby, SocketDrops, MarkOffline, PlayerReturns, MarkOnline,
           PlayerLeaves, RemoveLeaver, ExpireGrace, BeginCall, ContinueCall,
           answerVars
  <2>3. QED
    BY <2>1, <2>2
<1>12. CASE UNCHANGED vars
  BY <1>1, <1>12 DEF vars, answerVars
<1>13. QED
  BY <1>3, <1>4, <1>5, <1>6, <1>7, <1>8, <1>9, <1>10, <1>11, <1>12 DEF Next

(* Answers are taken only for the round the engine is in, and only between its
   question and the close of its window, whatever fails or times out. *)
THEOREM WindowClosedOutsideQuestion == Spec => []WindowOpenOnlyInQuestion
<1>1. Init => WindowOpenOnlyInQuestion
  BY DEF Init, AnswerInit, WindowOpenOnlyInQuestion
<1>2. QED
  BY <1>1, TypeCorrect, WindowStep, PTL DEF Spec

-------------------------------------------------------------------------------
(* An aborted game. *)

LEMMA RoundStep ==
  TypeOK /\ [Next]_vars => (round' # round => ~aborted)
<1> SUFFICES ASSUME TypeOK, [Next]_vars, round' # round PROVE ~aborted
  OBVIOUS
<1>1. ~UNCHANGED engineVars
  BY DEF engineVars
<1>2. ASSUME NEW sav, EndQuestion(sav) PROVE FALSE
  BY <1>2 DEF EndQuestion, CloseRound, Goto
<1>3. CASE Engine
  BY <1>1, <1>3 DEF Engine, EngineStep, ShowQuestion, SkipQuestion, EngineThrows,
                    FinishGame, NextRound, Goto
<1>4. CASE Countdown
  BY <1>2, <1>4 DEF Countdown, PhaseExpires, QuestionExpires, NextRound, Goto
<1>5. CASE FinalizeTimesOut \/ ScoreTimesOut
  BY <1>5 DEF FinalizeTimesOut, ScoreTimesOut, CloseRound, Goto
<1>6. ASSUME NEW r \in RoundNumbers, NEW p \in Players,
             \/ PlayerSubmits(p, r) \/ PlayerProgresses(p, r)
             \/ SubmissionSaved(p, r) \/ SubmissionDuplicate(p, r)
             \/ SubmissionThrows(p, r)
             \/ SnapshotSaved(p, r) \/ SnapshotThrows(p, r)
      PROVE  FALSE
  BY <1>1, <1>2, <1>6
     DEF PlayerSubmits, PlayerProgresses, SubmissionSaved, SubmissionDuplicate,
         SubmissionThrows, SnapshotSaved, SnapshotThrows, ContinueFinalize,
         CloseRound, Goto
<1>7. ASSUME NEW r \in RoundNumbers, JobStep(r) \/ JobEnds(r) PROVE FALSE
  BY <1>1, <1>7 DEF JobStep, JobEnds, Goto
<1>8. ASSUME NEW p \in Players, Lobby(p) PROVE FALSE
  <2>1. CASE CheckAbandoned(p)
    BY <1>1, <2>1 DEF CheckAbandoned, Abort, NextRound
  <2>2. CASE ~CheckAbandoned(p)
    BY <1>1, <1>8, <2>2
       DEF Lobby, SocketDrops, MarkOffline, PlayerReturns, MarkOnline,
           PlayerLeaves, RemoveLeaver, ExpireGrace, BeginCall, ContinueCall
  <2>3. QED
    BY <2>1, <2>2
<1>9. QED
  BY <1>1, <1>3, <1>4, <1>5, <1>6, <1>7, <1>8 DEF Next, vars

(* An aborted game enters no further round, wherever the abort found it. *)
THEOREM AbortedGameStops == Spec => NoRoundAfterAbort
<1>1. TypeOK /\ [Next]_vars => [round' # round => ~aborted]_vars
  BY RoundStep
<1>2. QED
  BY <1>1, TypeCorrect, PTL DEF Spec, NoRoundAfterAbort

-------------------------------------------------------------------------------
(* Scoring. *)

(* ScoresSettled is inductive as it stands: a job under way is that of the engine's
   round, which awaits it, or of a round given up. *)

LEMMA CloseRoundSettled ==
  ASSUME TypeOK, ScoresSettled, CloseRound, pc # "scoring", round \in RoundNumbers,
         overdue \subseteq overdue'
  PROVE  ScoresSettled'
<1>1. job \in [RoundNumbers -> Jobs]
  BY DEF TypeOK, ScoringTypeOK
<1>2. \A r \in RoundNumbers : r # round => job'[r] = job[r]
  BY <1>1 DEF CloseRound, StartJob
<1>3. ctx = NoRound => job'[round].at = "done"
  BY <1>1 DEF CloseRound, StartJob, JobAt
<1>4. round' = round /\ (ctx # NoRound => pc' = "scoring")
  BY DEF CloseRound, Goto
<1>5. QED
  BY <1>2, <1>3, <1>4 DEF ScoresSettled

LEMMA EndQuestionSettled ==
  ASSUME TypeOK, ScoresSettled, NEW sav, EndQuestion(sav), UNCHANGED overdue
  PROVE  ScoresSettled'
<1>1. pc = "question" /\ round \in RoundNumbers
  BY DEF EndQuestion, TypeOK, RoundUnderway
<1>2. CASE CloseRound
  BY <1>1, <1>2, CloseRoundSettled
<1>3. CASE UNCHANGED scoringVars
  BY <1>1, <1>3 DEF ScoresSettled, scoringVars
<1>4. QED
  BY <1>2, <1>3 DEF EndQuestion

LEMMA SettledStep ==
  TypeOK /\ ScoresSettled /\ [Next]_vars => ScoresSettled'
<1> SUFFICES ASSUME TypeOK, ScoresSettled, [Next]_vars PROVE ScoresSettled'
  OBVIOUS
<1>0. overdue \subseteq overdue'
  BY OverdueSteps
<1>1. CASE UNCHANGED <<job, engineVars>>
  BY <1>0, <1>1 DEF ScoresSettled, engineVars
<1>2. CASE UNCHANGED job /\ pc # "scoring"
  BY <1>0, <1>2 DEF ScoresSettled
<1>3. CASE Engine
  BY <1>2, <1>3 DEF Engine, EngineStep, ShowQuestion, SkipQuestion,
                    EngineThrows, FinishGame, DropWindow, scoringVars, Querying
<1>4. CASE Countdown
  BY <1>2, <1>4, EndQuestionSettled
     DEF Countdown, PhaseExpires, QuestionExpires, scoringVars
<1>5. CASE FinalizeTimesOut \/ ScoreTimesOut
  <2>1. CASE FinalizeTimesOut
    BY <1>0, <2>1, CloseRoundSettled DEF FinalizeTimesOut, TypeOK, RoundUnderway
  <2>2. CASE ScoreTimesOut
    BY <2>2 DEF ScoreTimesOut, ScoresSettled, Goto, scoringVars
  <2>3. QED
    BY <1>5, <2>1, <2>2
<1>6. ASSUME NEW r \in RoundNumbers, NEW p \in Players,
             \/ PlayerSubmits(p, r) \/ PlayerProgresses(p, r)
             \/ SubmissionSaved(p, r) \/ SubmissionDuplicate(p, r)
             \/ SubmissionThrows(p, r)
      PROVE  ScoresSettled'
  BY <1>1, <1>6, EndQuestionSettled
     DEF PlayerSubmits, PlayerProgresses, SubmissionSaved, SubmissionDuplicate,
         SubmissionThrows, scoringVars
<1>7. ASSUME NEW r \in RoundNumbers, NEW p \in Players,
             SnapshotSaved(p, r) \/ SnapshotThrows(p, r)
      PROVE  ScoresSettled'
  <2>1. CASE UNCHANGED <<scoringVars, engineVars>>
    BY <1>1, <2>1 DEF scoringVars
  <2>2. CASE pc = "finalizing" /\ CloseRound
    BY <1>0, <2>2, CloseRoundSettled DEF TypeOK, RoundUnderway
  <2>3. QED
    BY <1>7, <2>1, <2>2 DEF SnapshotSaved, SnapshotThrows, ContinueFinalize
<1>8. ASSUME NEW r \in RoundNumbers, JobStep(r)
      PROVE  ScoresSettled'
  <2>1. UNCHANGED engineVars
    BY <1>8 DEF JobStep
  <2>2. job[r].at \notin {"idle", "done"}
    BY <1>8 DEF JobStep, ReadRows, ReadRoster, ScoreRow, Credit
  <2>3. \A q \in RoundNumbers : q # r => job'[q] = job[q]
    BY <1>8 DEF JobStep, ReadRows, ReadRoster, ScoreRow, Credit,
                TypeOK, ScoringTypeOK
  <2>4. QED
    BY <1>0, <2>1, <2>2, <2>3 DEF ScoresSettled, engineVars
<1>9. ASSUME NEW r \in RoundNumbers, JobEnds(r)
      PROVE  ScoresSettled'
  <2>1. job' = [job EXCEPT ![r] = JobAt("done")]
    BY <1>9 DEF JobEnds, FinishJob, JobThrows
  <2>2. job'[r].at = "done" /\ \A q \in RoundNumbers : q # r => job'[q] = job[q]
    BY <2>1 DEF JobAt, TypeOK, ScoringTypeOK
  <2>3. \/ pc = "scoring" /\ round = r
        \/ UNCHANGED engineVars
    BY <1>9 DEF JobEnds
  <2>4. QED
    BY <1>0, <2>2, <2>3 DEF ScoresSettled, engineVars
<1>10. ASSUME NEW p \in Players, Lobby(p)
       PROVE  ScoresSettled'
  <2>1. CASE CheckAbandoned(p)
    BY <1>0, <1>1, <1>2, <2>1 DEF CheckAbandoned, Abort, DropWindow, scoringVars,
                            Timed, engineVars, ScoresSettled
  <2>2. CASE ~CheckAbandoned(p)
    BY <1>1, <1>10, <2>2
       DEF Lobby, SocketDrops, MarkOffline, PlayerReturns, MarkOnline,
           PlayerLeaves, RemoveLeaver, ExpireGrace, BeginCall, ContinueCall,
           scoringVars
  <2>3. QED
    BY <2>1, <2>2
<1>11. CASE UNCHANGED vars
  BY <1>1, <1>11 DEF vars, scoringVars
<1>12. QED
  BY <1>3, <1>4, <1>5, <1>6, <1>7, <1>8, <1>9, <1>10, <1>11 DEF Next

(* No round is being scored outside the engine's await of it, unless that await,
   or the one before it for the answers of the same round, was given up: whatever
   happened to other rounds. *)
THEOREM RoundsScoredInTime == Spec => []ScoresSettled
<1>1. Init => ScoresSettled
  BY DEF Init, ScoringInit, JobAt, ScoresSettled
<1>2. QED
  BY <1>1, TypeCorrect, SettledStep, PTL DEF Spec

-------------------------------------------------------------------------------
(* Stored answers. *)

LEMMA SubmissionSavedStored ==
  ASSUME TypeOK, NEW r \in RoundNumbers, NEW p \in Players,
         SubmissionSaved(p, r), SubmittedIsStored
  PROVE  SubmittedIsStored'
<1>1. /\ Settled(p, r) = [saving EXCEPT ![r][p] = "none"]
      /\ saving \in [RoundNumbers -> [Players -> SaveKinds]]
      /\ submitted \in [RoundNumbers -> SUBSET Players]
      /\ rows \in [RoundNumbers -> SUBSET Players]
  BY DEF Settled, TypeOK, AnswerTypeOK, DataTypeOK, TableTypeOK
<1>2. rows' = [rows EXCEPT ![r] = @ \cup {p}] /\ removed' = removed
  BY DEF SubmissionSaved, InsertAnswer, AddTo
<1>3. \A s \in RoundNumbers : \A q \in submitted[s] :
        Settled(p, r)[s][q] = "none" => q \in rows'[s] \cup removed'
  BY <1>1, <1>2 DEF SubmittedIsStored
<1>4. CASE submitted' = submitted /\ saving' = Settled(p, r)
  BY <1>3, <1>4 DEF SubmittedIsStored
<1>5. CASE pc = "question" /\ \E q \in Players :
             NextSnapshot(round, q, submitted[round], visited[round], Settled(p, r))
  <2>1. round \in RoundNumbers
    BY <1>5 DEF TypeOK, RoundUnderway
  <2>2. PICK q \in Players :
          NextSnapshot(round, q, submitted[round], visited[round], Settled(p, r))
    BY <1>5
  <2>3. /\ submitted' = [submitted EXCEPT ![round] = @ \cup {q}]
        /\ saving' = [Settled(p, r) EXCEPT ![round][q] = "snapshot"]
    BY <2>2 DEF NextSnapshot
  <2>4. QED
    BY <1>1, <1>3, <2>1, <2>3 DEF SubmittedIsStored
<1>6. QED
  BY <1>1, <1>4, <1>5 DEF SubmissionSaved, EndQuestion, LastSnapshot

LEMMA QuestionExpiresStored ==
  ASSUME TypeOK, QuestionExpires, SubmittedIsStored
  PROVE  SubmittedIsStored'
<1>1. /\ saving \in [RoundNumbers -> [Players -> SaveKinds]]
      /\ submitted \in [RoundNumbers -> SUBSET Players]
      /\ round \in RoundNumbers
  BY DEF QuestionExpires, EndQuestion, TypeOK, AnswerTypeOK, RoundUnderway
<1>2. rows' = rows /\ removed' = removed
  BY DEF QuestionExpires, dataVars, tableVars
<1>3. CASE submitted' = submitted /\ saving' = saving
  BY <1>2, <1>3 DEF SubmittedIsStored
<1>4. CASE \E q \in Players :
             NextSnapshot(round, q, submitted[round], visited[round], saving)
  <2>1. PICK q \in Players :
          /\ submitted' = [submitted EXCEPT ![round] = @ \cup {q}]
          /\ saving' = [saving EXCEPT ![round][q] = "snapshot"]
    BY <1>4 DEF NextSnapshot
  <2>2. QED
    BY <1>1, <1>2, <2>1 DEF SubmittedIsStored
<1>5. QED
  BY <1>1, <1>3, <1>4 DEF QuestionExpires, EndQuestion, LastSnapshot

LEMMA SnapshotStored ==
  ASSUME TypeOK, NEW r \in RoundNumbers, NEW p \in Players,
         SnapshotSaved(p, r) \/ SnapshotThrows(p, r), SubmittedIsStored
  PROVE  SubmittedIsStored'
<1>1. /\ Settled(p, r) = [saving EXCEPT ![r][p] = "none"]
      /\ saving \in [RoundNumbers -> [Players -> SaveKinds]]
      /\ submitted \in [RoundNumbers -> SUBSET Players]
      /\ rows \in [RoundNumbers -> SUBSET Players]
  BY DEF Settled, TypeOK, AnswerTypeOK, DataTypeOK, TableTypeOK
<1>2. PICK sub \in SUBSET Players :
        /\ ContinueFinalize(p, r, sub)
        /\ sub \subseteq submitted[r]
        /\ \A s \in RoundNumbers : rows[s] \subseteq rows'[s]
        /\ removed' = removed
        /\ p \in sub => p \in rows'[r]
  <2>1. CASE SnapshotSaved(p, r)
    <3>1. /\ \A s \in RoundNumbers : rows[s] \subseteq rows'[s]
          /\ removed' = removed
          /\ p \in rows'[r]
      BY <1>1, <2>1 DEF SnapshotSaved, InsertAnswer, AddTo, dataVars, tableVars
    <3>2. submitted[r] \in SUBSET Players /\ ContinueFinalize(p, r, submitted[r])
      BY <1>1, <2>1 DEF SnapshotSaved
    <3>3. QED
      BY <3>1, <3>2
  <2>2. CASE SnapshotThrows(p, r)
    <3>1. /\ \A s \in RoundNumbers : rows[s] \subseteq rows'[s]
          /\ removed' = removed
      BY <1>1, <2>2 DEF SnapshotThrows, InsertThrows, AddTo, dataVars, tableVars
    <3>2. /\ submitted[r] \ {p} \in SUBSET Players
          /\ ContinueFinalize(p, r, submitted[r] \ {p})
      BY <1>1, <2>2 DEF SnapshotThrows
    <3>3. QED
      BY <3>1, <3>2
  <2>3. QED
    BY <2>1, <2>2
<1>3. \A s \in RoundNumbers : \A q \in [submitted EXCEPT ![r] = sub][s] :
        Settled(p, r)[s][q] = "none" => q \in rows'[s] \cup removed'
  <2> SUFFICES ASSUME NEW s \in RoundNumbers,
                      NEW q \in [submitted EXCEPT ![r] = sub][s],
                      Settled(p, r)[s][q] = "none"
               PROVE  q \in rows'[s] \cup removed'
    OBVIOUS
  <2>1. q \in submitted[s] /\ q \in Players
    BY <1>1, <1>2
  <2>2. CASE s = r /\ q = p
    BY <1>1, <1>2, <2>2
  <2>3. CASE ~(s = r /\ q = p)
    <3>1. saving[s][q] = "none"
      BY <1>1, <2>1, <2>3
    <3>2. QED
      BY <1>2, <2>1, <3>1 DEF SubmittedIsStored
  <2>4. QED
    BY <2>2, <2>3
<1>4. CASE /\ submitted' = [submitted EXCEPT ![r] = sub]
           /\ saving' = Settled(p, r)
  BY <1>3, <1>4 DEF SubmittedIsStored
<1>5. CASE \E q \in Players : NextSnapshot(r, q, sub, visited[r], Settled(p, r))
  <2>1. PICK q \in Players :
          /\ submitted' = [submitted EXCEPT ![r] = sub \cup {q}]
          /\ saving' = [Settled(p, r) EXCEPT ![r][q] = "snapshot"]
    BY <1>5 DEF NextSnapshot
  <2>2. QED
    BY <1>1, <1>3, <2>1 DEF SubmittedIsStored
<1>6. QED
  BY <1>2, <1>4, <1>5 DEF ContinueFinalize, LastSnapshot

LEMMA SubmissionStored ==
  ASSUME TypeOK, NEW r \in RoundNumbers, NEW p \in Players, SubmittedIsStored,
         PlayerSubmits(p, r) \/ SubmissionDuplicate(p, r) \/ SubmissionThrows(p, r)
  PROVE  SubmittedIsStored'
<1>1. /\ saving \in [RoundNumbers -> [Players -> SaveKinds]]
      /\ submitted \in [RoundNumbers -> SUBSET Players]
      /\ rows \in [RoundNumbers -> SUBSET Players]
  BY DEF TypeOK, AnswerTypeOK, DataTypeOK, TableTypeOK
<1>2. CASE PlayerSubmits(p, r)
  BY <1>1, <1>2 DEF PlayerSubmits, Submit, AddTo, SubmittedIsStored, dataVars,
                    tableVars
<1>3. CASE SubmissionDuplicate(p, r)
  BY <1>1, <1>3 DEF SubmissionDuplicate, Settled, SubmittedIsStored, dataVars,
                    tableVars
<1>4. CASE SubmissionThrows(p, r)
  <2>1. /\ \A s \in RoundNumbers : rows[s] \subseteq rows'[s]
        /\ removed' = removed
    BY <1>1, <1>4 DEF SubmissionThrows, InsertThrows, AddTo, dataVars, tableVars
  <2>2. /\ submitted' = [submitted EXCEPT ![r] = @ \ {p}]
        /\ saving' = [saving EXCEPT ![r][p] = "none"]
    BY <1>4 DEF SubmissionThrows, ForgetSubmission, RemoveFrom, Settled
  <2>3. QED
    BY <1>1, <2>1, <2>2 DEF SubmittedIsStored
<1>5. QED
  BY <1>2, <1>3, <1>4

LEMMA StoredStep ==
  TypeOK /\ SubmittedIsStored /\ [Next]_vars => SubmittedIsStored'
<1> SUFFICES ASSUME TypeOK, SubmittedIsStored, [Next]_vars
             PROVE  SubmittedIsStored'
  OBVIOUS
<1>1. CASE /\ UNCHANGED <<submitted, saving>>
           /\ \A r \in RoundNumbers :
                rows[r] \cup removed \subseteq rows'[r] \cup removed'
  BY <1>1 DEF SubmittedIsStored
<1>2. CASE UNCHANGED <<submitted, saving, rows, removed>>
  BY <1>2 DEF SubmittedIsStored
<1>3. CASE Engine
  BY <1>2, <1>3 DEF Engine, EngineStep, ShowQuestion, SkipQuestion, EngineThrows,
                    FinishGame, DropWindow, answerVars, dataVars, tableVars
<1>4. CASE Countdown
  BY <1>2, <1>4, QuestionExpiresStored
     DEF Countdown, PhaseExpires, answerVars, dataVars, tableVars
<1>5. CASE FinalizeTimesOut \/ ScoreTimesOut
  BY <1>2, <1>5
     DEF FinalizeTimesOut, ScoreTimesOut, answerVars, dataVars, tableVars
<1>6. ASSUME NEW r \in RoundNumbers, NEW p \in Players,
             \/ PlayerSubmits(p, r) \/ PlayerProgresses(p, r)
             \/ SubmissionSaved(p, r) \/ SubmissionDuplicate(p, r)
             \/ SubmissionThrows(p, r)
             \/ SnapshotSaved(p, r) \/ SnapshotThrows(p, r)
      PROVE  SubmittedIsStored'
  <2>1. CASE PlayerProgresses(p, r)
    BY <1>2, <2>1 DEF PlayerProgresses, Progress, dataVars, tableVars
  <2>2. QED
    BY <1>6, <2>1, SubmissionStored, SubmissionSavedStored, SnapshotStored
<1>7. ASSUME NEW r \in RoundNumbers, JobStep(r) \/ JobEnds(r)
      PROVE  SubmittedIsStored'
  <2>1. UNCHANGED <<submitted, saving, removed>>
    BY <1>7 DEF JobStep, JobEnds, ReadRows, ReadRoster, ScoreRow, Credit,
                SaveClient, FinishJob, JobThrows, answerVars, dataVars, tableVars
  <2>2. \A q \in RoundNumbers : rows[q] \subseteq rows'[q]
    BY <1>7 DEF JobStep, JobEnds, ReadRows, ReadRoster, ScoreRow, Credit,
                SaveClient, FinishJob, JobThrows, dataVars, tableVars,
                TypeOK, DataTypeOK, TableTypeOK
  <2>3. QED
    BY <1>1, <2>1, <2>2
<1>8. ASSUME NEW p \in Players, Lobby(p)
      PROVE  SubmittedIsStored'
  <2>1. ASSUME RemoveClient(p), UNCHANGED <<submitted, saving>>
        PROVE  SubmittedIsStored'
    BY <1>1, <2>1 DEF RemoveClient, TypeOK, DataTypeOK, TableTypeOK
  <2>2. CASE CheckAbandoned(p)
    BY <1>2, <2>2 DEF CheckAbandoned, Abort, DropWindow, answerVars, dataVars,
                      tableVars
  <2>3. CASE RemoveLeaver(p) \/ ExpireGrace(p)
    BY <1>2, <2>1, <2>3
       DEF RemoveLeaver, ExpireGrace, ContinueCall, answerVars, tableVars
  <2>4. CASE SocketDrops(p) \/ PlayerReturns(p) \/ PlayerLeaves(p)
    BY <1>2, <2>4 DEF SocketDrops, PlayerReturns, PlayerLeaves, BeginCall,
                      answerVars, tableVars
  <2>5. CASE MarkOffline(p) \/ MarkOnline(p)
    BY <1>2, <2>5 DEF MarkOffline, MarkOnline, SaveClient, ContinueCall,
                      answerVars
  <2>6. QED
    BY <1>8, <2>2, <2>3, <2>4, <2>5 DEF Lobby
<1>9. CASE UNCHANGED vars
  BY <1>2, <1>9 DEF vars, answerVars, dataVars, tableVars
<1>10. QED
  BY <1>3, <1>4, <1>5, <1>6, <1>7, <1>8, <1>9 DEF Next

(* A player whose answer a window holds has a stored answer, an INSERT in
   flight, or has been removed: whatever the interleaving of submissions,
   retries, snapshots, removals and failures. *)
THEOREM SubmissionsStored == Spec => []SubmittedIsStored
<1>1. Init => SubmittedIsStored
  BY DEF Init, AnswerInit, SubmittedIsStored
<1>2. QED
  BY <1>1, TypeCorrect, StoredStep, PTL DEF Spec

-------------------------------------------------------------------------------
(* The show. *)

(* No round before the loop, and a leaderboard only if another one follows. *)
RoundInStep ==
  /\ pc = "building" => round = NoRound
  /\ pc = "leaderboard" => round < NumRounds

(* While no await has been given up, a snapshot is saved only for the round that
   is being finalized, and only one at a time. *)
OneSnapshot ==
  overdue = {} => \A r \in RoundNumbers : \A p \in Players :
    saving[r][p] = "snapshot" =>
      /\ pc = "finalizing" /\ r = round
      /\ \A q \in Players : saving[r][q] = "snapshot" => q = p

(* Awaits are given up only where they may be. *)
OverdueTimeouts == overdue # {} => Timeouts

LEMMA OverdueTimeoutsKept == OverdueTimeouts /\ [Next]_vars => OverdueTimeouts'
BY OverdueSteps DEF OverdueTimeouts

-------------------------------------------------------------------------------
(* Where the loop is. *)

LEMMA RoundInStepKept ==
  TypeOK /\ RoundInStep /\ [Next]_vars => RoundInStep'
<1> SUFFICES ASSUME TypeOK, RoundInStep, [Next]_vars PROVE RoundInStep'
  OBVIOUS
<1> USE DEF RoundInStep
<1>1. CASE UNCHANGED engineVars
  BY <1>1 DEF engineVars
<1>2. CASE pc' \notin {"building", "leaderboard"}
  BY <1>2
<1>3. ASSUME NEW sav, EndQuestion(sav) PROVE RoundInStep'
  BY <1>2, <1>3 DEF EndQuestion, CloseRound, Goto
<1>4. CASE Engine
  BY <1>2, <1>4 DEF Engine, EngineStep, ShowQuestion, SkipQuestion, EngineThrows,
                    FinishGame, NextRound, Goto
<1>5. CASE Countdown
  BY <1>2, <1>3, <1>5 DEF Countdown, PhaseExpires, QuestionExpires, NextRound, Goto
<1>6. CASE FinalizeTimesOut \/ ScoreTimesOut
  BY <1>2, <1>6 DEF FinalizeTimesOut, ScoreTimesOut, CloseRound, Goto
<1>7. ASSUME NEW r \in RoundNumbers, NEW p \in Players,
             \/ PlayerSubmits(p, r) \/ PlayerProgresses(p, r)
             \/ SubmissionSaved(p, r) \/ SubmissionDuplicate(p, r)
             \/ SubmissionThrows(p, r)
             \/ SnapshotSaved(p, r) \/ SnapshotThrows(p, r)
      PROVE  RoundInStep'
  BY <1>1, <1>2, <1>3, <1>7
     DEF PlayerSubmits, PlayerProgresses, SubmissionSaved, SubmissionDuplicate,
         SubmissionThrows, SnapshotSaved, SnapshotThrows, ContinueFinalize,
         CloseRound, Goto
<1>8. ASSUME NEW r \in RoundNumbers, JobStep(r) \/ JobEnds(r) PROVE RoundInStep'
  BY <1>1, <1>2, <1>8 DEF JobStep, JobEnds, Goto
<1>9. ASSUME NEW p \in Players, Lobby(p) PROVE RoundInStep'
  <2>1. CASE CheckAbandoned(p)
    BY <1>1, <1>2, <2>1 DEF CheckAbandoned, Abort, NextRound
  <2>2. CASE ~CheckAbandoned(p)
    BY <1>1, <1>9, <2>2
       DEF Lobby, SocketDrops, MarkOffline, PlayerReturns, MarkOnline,
           PlayerLeaves, RemoveLeaver, ExpireGrace, BeginCall, ContinueCall
  <2>3. QED
    BY <2>1, <2>2
<1>10. QED
  BY <1>1, <1>4, <1>5, <1>6, <1>7, <1>8, <1>9 DEF Next, vars

-------------------------------------------------------------------------------
(* Snapshots. *)

\* No snapshot of any round is being saved by the INSERTs sav.
NoSnapshotIn(sav) ==
  \A r \in RoundNumbers : \A p \in Players : sav[r][p] # "snapshot"

LEMMA OneSnapshotSaved ==
  ASSUME NEW sav \in Savings, NoSnapshotIn(sav), NEW r \in RoundNumbers,
         NEW p \in Players, saving' = [sav EXCEPT ![r][p] = "snapshot"],
         pc' = "finalizing", round' = r
  PROVE  OneSnapshot'
BY DEF OneSnapshot, NoSnapshotIn, Savings

LEMMA EndQuestionSnapshot ==
  ASSUME TypeOK, NEW sav \in Savings, NoSnapshotIn(sav), EndQuestion(sav)
  PROVE  OneSnapshot'
<1>1. round \in RoundNumbers
  BY DEF EndQuestion, TypeOK, RoundUnderway
<1>2. CASE /\ pc' = "finalizing" /\ round' = round
           /\ \E p \in Players :
                NextSnapshot(round, p, submitted[round], visited[round], sav)
  BY <1>1, <1>2, OneSnapshotSaved DEF NextSnapshot
<1>3. CASE saving' = sav
  BY <1>3 DEF OneSnapshot, NoSnapshotIn
<1>4. QED
  BY <1>2, <1>3 DEF EndQuestion, LastSnapshot, Goto

\* Before a question has ended there is no snapshot to be saved.
LEMMA NoSnapshotBefore ==
  ASSUME OneSnapshot, overdue = {}, pc # "finalizing"
  PROVE  NoSnapshotIn(saving)
BY DEF OneSnapshot, NoSnapshotIn

LEMMA SettledSnapshot ==
  ASSUME TypeOK, OneSnapshot, overdue = {}, NEW r \in RoundNumbers, NEW p \in Players,
         saving[r][p] = "snapshot" \/ pc # "finalizing"
  PROVE  Settled(p, r) \in Savings /\ NoSnapshotIn(Settled(p, r))
BY SettledType DEF OneSnapshot, NoSnapshotIn, Settled, TypeOK, AnswerTypeOK

LEMMA ContinueSnapshot ==
  ASSUME TypeOK, OneSnapshot, overdue = {}, NEW r \in RoundNumbers, NEW p \in Players,
         saving[r][p] = "snapshot", NEW sub, ContinueFinalize(p, r, sub)
  PROVE  OneSnapshot'
<1>1. Settled(p, r) \in Savings /\ NoSnapshotIn(Settled(p, r))
  BY SettledSnapshot
<1>2. pc = "finalizing" /\ round = r
  BY DEF OneSnapshot
<1>3. CASE /\ \E q \in Players : NextSnapshot(r, q, sub, visited[r], Settled(p, r))
           /\ UNCHANGED engineVars
  BY <1>1, <1>2, <1>3, OneSnapshotSaved DEF NextSnapshot, engineVars
<1>4. CASE saving' = Settled(p, r)
  BY <1>1, <1>4 DEF OneSnapshot, NoSnapshotIn
<1>5. QED
  BY <1>3, <1>4 DEF ContinueFinalize, LastSnapshot

LEMMA OneSnapshotStep ==
  TypeOK /\ OneSnapshot /\ [Next]_vars => OneSnapshot'
<1> SUFFICES ASSUME TypeOK, OneSnapshot, overdue' = {}, [Next]_vars
             PROVE  OneSnapshot'
  BY DEF OneSnapshot
<1>0. overdue = {} /\ ~FinalizeTimesOut /\ ~ScoreTimesOut
  BY NotOverdue
<1>1. /\ saving \in Savings
      /\ pc # "finalizing" => NoSnapshotIn(saving)
  BY <1>0, NoSnapshotBefore DEF TypeOK, AnswerTypeOK, Savings
<1>2. CASE UNCHANGED <<saving, engineVars>>
  BY <1>0, <1>2 DEF OneSnapshot, engineVars
<1>3. CASE UNCHANGED saving /\ pc # "finalizing"
  BY <1>1, <1>3 DEF OneSnapshot, NoSnapshotIn
<1>4. CASE Engine
  BY <1>3, <1>4 DEF Engine, EngineStep, ShowQuestion, SkipQuestion, EngineThrows,
                    FinishGame, DropWindow, answerVars, Querying
<1>5. CASE Countdown
  <2>1. CASE PhaseExpires
    BY <1>3, <2>1 DEF PhaseExpires, answerVars
  <2>2. CASE QuestionExpires
    BY <1>1, <2>2, EndQuestionSnapshot DEF QuestionExpires, EndQuestion
  <2>3. QED
    BY <1>5, <2>1, <2>2 DEF Countdown
<1>6. CASE FinalizeTimesOut \/ ScoreTimesOut
  BY <1>0, <1>6
<1>7. ASSUME NEW r \in RoundNumbers, NEW p \in Players,
             \/ PlayerSubmits(p, r) \/ PlayerProgresses(p, r)
             \/ SubmissionDuplicate(p, r) \/ SubmissionThrows(p, r)
      PROVE  OneSnapshot'
  <2>1. UNCHANGED engineVars
    BY <1>7 DEF PlayerSubmits, PlayerProgresses, SubmissionDuplicate,
                SubmissionThrows
  <2>2. \/ saving' = saving
        \/ saving' = [saving EXCEPT ![r][p] = "submit"]
        \/ saving' = [saving EXCEPT ![r][p] = "none"]
    BY <1>7 DEF PlayerSubmits, Submit, PlayerProgresses, Progress,
                SubmissionDuplicate, SubmissionThrows, ForgetSubmission, Settled
  <2>3. \A s \in RoundNumbers : \A q \in Players :
          saving'[s][q] = "snapshot" => saving[s][q] = "snapshot"
    BY <1>1, <2>2 DEF Savings
  <2>4. QED
    BY <1>0, <2>1, <2>3 DEF OneSnapshot, engineVars
<1>8. ASSUME NEW r \in RoundNumbers, NEW p \in Players, SubmissionSaved(p, r)
      PROVE  OneSnapshot'
  <2>1. CASE pc = "question" /\ EndQuestion(Settled(p, r))
    BY <1>0, <2>1, SettledSnapshot, EndQuestionSnapshot
  <2>2. CASE saving' = Settled(p, r) /\ UNCHANGED engineVars
    <3>1. \A s \in RoundNumbers : \A q \in Players :
            saving'[s][q] = "snapshot" => saving[s][q] = "snapshot"
      BY <1>1, <2>2 DEF Savings, Settled
    <3>2. QED
      BY <1>0, <2>2, <3>1 DEF OneSnapshot, engineVars
  <2>3. QED
    BY <1>8, <2>1, <2>2 DEF SubmissionSaved
<1>9. ASSUME NEW r \in RoundNumbers, NEW p \in Players,
             SnapshotSaved(p, r) \/ SnapshotThrows(p, r)
      PROVE  OneSnapshot'
  BY <1>0, <1>9, ContinueSnapshot DEF SnapshotSaved, SnapshotThrows
<1>10. ASSUME NEW r \in RoundNumbers, JobStep(r) \/ JobEnds(r)
       PROVE  OneSnapshot'
  <2>1. UNCHANGED saving
    BY <1>10 DEF JobStep, JobEnds, answerVars
  <2>2. UNCHANGED engineVars \/ pc = "scoring"
    BY <1>10 DEF JobStep, JobEnds
  <2>3. QED
    BY <1>2, <1>3, <2>1, <2>2
<1>11. ASSUME NEW p \in Players, Lobby(p)
       PROVE  OneSnapshot'
  <2>1. CASE CheckAbandoned(p)
    BY <1>0, <1>2, <1>3, <2>1 DEF CheckAbandoned, Abort, DropWindow, answerVars,
                            Timed, engineVars, OneSnapshot
  <2>2. CASE ~CheckAbandoned(p)
    BY <1>2, <1>11, <2>2
       DEF Lobby, SocketDrops, MarkOffline, PlayerReturns, MarkOnline,
           PlayerLeaves, RemoveLeaver, ExpireGrace, BeginCall, ContinueCall,
           answerVars
  <2>3. QED
    BY <2>1, <2>2
<1>12. CASE UNCHANGED vars
  BY <1>2, <1>12 DEF vars, answerVars
<1>13. QED
  BY <1>4, <1>5, <1>6, <1>7, <1>8, <1>9, <1>10, <1>11, <1>12 DEF Next
-------------------------------------------------------------------------------
(* The show.  A step that moves none of this is a stutter of it. *)

ShowBlock == <<pc, round, aborted, verdict, window, credited>>

LEMMA ShowStutters ==
  ASSUME UNCHANGED <<Stage, round, aborted, verdict, window, credited>>
  PROVE  UNCHANGED Show!vars
BY DEF Show!vars

LEMMA BlockStutters ==
  ASSUME UNCHANGED ShowBlock
  PROVE  UNCHANGED Show!vars
BY ShowStutters DEF ShowBlock, Stage

\* What the invariants say of the window, in the words of the show.
LEMMA ClosedUnlessAsking ==
  ASSUME WindowOpenOnlyInQuestion, Stage # "asking"
  PROVE  window = NoRound
BY DEF WindowOpenOnlyInQuestion, Stage

LEMMA ShowCloses ==
  ASSUME Stage = "asking", CloseRound, window' = NoRound
  PROVE  Show!Close
BY DEF CloseRound, StartJob, Goto, Stage, Show!Close, Show!MovesTo

LEMMA EndQuestionShows ==
  ASSUME NEW sav, EndQuestion(sav)
  PROVE  Show!Close \/ UNCHANGED Show!vars
<1>1. CASE /\ \E p \in Players :
                NextSnapshot(round, p, submitted[round], visited[round], sav)
           /\ Goto("finalizing")
           /\ UNCHANGED scoringVars
  BY <1>1, ShowStutters DEF EndQuestion, NextSnapshot, Goto, scoringVars, Stage
<1>2. CASE CloseRound /\ window' = NoRound
  BY <1>2, ShowCloses DEF EndQuestion, Stage
<1>3. QED
  BY <1>1, <1>2 DEF EndQuestion, LastSnapshot

LEMMA NextRoundShows ==
  ASSUME RoundInStep, TypeOK, NextRound(aborted), UNCHANGED <<aborted, window, credited>>,
         \/ pc \in {"building", "leaderboard"}
         \/ pc = "closing" /\ round = NumRounds
  PROVE  Show!StartRound \/ Show!Finish \/ Show!Abandon
<1>1. CASE ~aborted /\ round < NumRounds /\ round' = round + 1 /\ pc' = "starting"
  BY <1>1, GameAssumption
     DEF NextRound, Stage, Show!StartRound, RoundInStep, RoundNumbers
<1>2. CASE /\ aborted \/ round = NumRounds
           /\ verdict' = IF aborted THEN "abandoned" ELSE "finished"
           /\ pc' = "finishing" /\ round' = round
  BY <1>2, GameAssumption
     DEF Stage, Show!Finish, Show!Abandon, Show!EndsAs, RoundInStep, NoRound
<1>3. QED
  BY <1>1, <1>2 DEF NextRound

LEMMA AbortShows ==
  ASSUME TypeOK, WindowOpenOnlyInQuestion, Abort
  PROVE  Show!Stop
<1>1. CASE pc \in Timed
  <2>1. window' = NoRound /\ credited' = credited
    BY <1>1 DEF Abort, DropWindow, answerVars, scoringVars,
                WindowOpenOnlyInQuestion, Timed
  <2>2. pc' = "finishing" /\ round' = round /\ verdict' = "abandoned"
    BY <1>1 DEF Abort, NextRound
  <2>3. QED
    BY <1>1, <2>1, <2>2
       DEF Abort, Show!Stop, Show!EndsAs, Stage, Timed
<1>2. CASE pc \notin Timed
  <2>1. /\ UNCHANGED <<pc, round, verdict, window, credited>>
        /\ aborted' = TRUE /\ pc # "done"
    BY <1>2 DEF Abort, answerVars, scoringVars
  <2>2. Stage' = Stage /\ Stage # "over"
    BY <2>1 DEF Stage, TypeOK, EngineTypeOK, EngineSteps, Timed, Querying
  <2>3. QED
    BY <2>1, <2>2 DEF Show!Stop
<1>3. QED
  BY <1>1, <1>2

LEMMA EngineShows ==
  ASSUME TypeOK, WindowOpenOnlyInQuestion, RoundInStep, Engine
  PROVE  [Show!Next]_Show!vars
<1>1. CASE EngineStep
  <2>1. CASE /\ pc = "building" \/ (pc = "closing" /\ round = NumRounds)
             /\ NextRound(aborted) /\ UNCHANGED aborted
    BY <1>1, <2>1, NextRoundShows
       DEF EngineStep, answerVars, scoringVars, Show!Next
  <2>2. CASE \/ pc = "starting" /\ Goto("intro")
             \/ pc = "revealing" /\ Goto("reveal")
    BY <1>1, <2>2, ShowStutters
       DEF EngineStep, Goto, Stage, answerVars, scoringVars
  <2>3. CASE pc = "closing" /\ round < NumRounds /\ Goto("leaderboard")
    BY <1>1, <2>3 DEF EngineStep, Goto, Stage, answerVars, scoringVars,
                      Show!ShowStandings, Show!MovesTo, Show!Next
  <2>4. QED
    BY <1>1, <2>1, <2>2, <2>3 DEF EngineStep
<1>2. CASE ShowQuestion \/ SkipQuestion
  <2>1. (window' # NoRound) \in BOOLEAN
    OBVIOUS
  <2>2. Show!Ask
    BY <1>2, <2>1 DEF ShowQuestion, SkipQuestion, Goto, scoringVars, Stage,
                      Show!Ask, Show!MovesTo
  <2>3. QED
    BY <2>2 DEF Show!Next
<1>3. CASE EngineThrows \/ FinishGame
  BY <1>3 DEF EngineThrows, FinishGame, DropWindow, Goto, Querying, Stage,
              Show!Leave, Show!MovesTo, Show!Next
<1>4. QED
  BY <1>1, <1>2, <1>3 DEF Engine

LEMMA CountdownShows ==
  ASSUME TypeOK, RoundInStep, Countdown
  PROVE  [Show!Next]_Show!vars
<1>1. CASE QuestionExpires
  BY <1>1, EndQuestionShows DEF QuestionExpires, Show!Next
<1>2. CASE PhaseExpires /\ pc = "leaderboard"
  BY <1>2, NextRoundShows DEF PhaseExpires, answerVars, scoringVars, Show!Next
<1>3. CASE PhaseExpires /\ pc # "leaderboard"
  BY <1>3, ShowStutters DEF PhaseExpires, Goto, Stage, answerVars, scoringVars
<1>4. QED
  BY <1>1, <1>2, <1>3 DEF Countdown

LEMMA SnapshotShows ==
  ASSUME TypeOK, OneSnapshot, OverdueTimeouts,
         NEW r \in RoundNumbers, NEW p \in Players,
         SnapshotSaved(p, r) \/ SnapshotThrows(p, r)
  PROVE  [Show!Next]_Show!vars
<1>1. PICK sub : ContinueFinalize(p, r, sub)
  BY DEF SnapshotSaved, SnapshotThrows
<1>2. saving[r][p] = "snapshot"
  BY DEF SnapshotSaved, SnapshotThrows
<1>3. CASE /\ \E q \in Players : NextSnapshot(r, q, sub, visited[r], Settled(p, r))
           /\ UNCHANGED <<scoringVars, engineVars>>
  BY <1>3, BlockStutters DEF NextSnapshot, scoringVars, engineVars, ShowBlock
<1>4. CASE pc = "finalizing" /\ CloseRound /\ window' = NoRound
  BY <1>4, ShowCloses DEF Stage, Show!Next
<1>5. CASE /\ ~(pc = "finalizing" /\ round = r)
           /\ window' = NoRound
           /\ UNCHANGED <<scoringVars, engineVars>>
  <2>1. Timeouts
    BY <1>2, <1>5 DEF OneSnapshot, OverdueTimeouts
  <2>2. Stage' = Stage
    BY <1>5 DEF Stage, engineVars
  <2>3. QED
    BY <1>5, <2>1, <2>2
       DEF scoringVars, engineVars, Show!CloseLate, Show!Next
<1>6. QED
  BY <1>1, <1>3, <1>4, <1>5 DEF ContinueFinalize, LastSnapshot

LEMMA JobShows ==
  ASSUME TypeOK, ScoresSettled, OverdueTimeouts,
         NEW r \in RoundNumbers, JobStep(r) \/ JobEnds(r)
  PROVE  [Show!Next]_Show!vars
<1>1. CASE \E p \in Players : Credit(r, p) /\ JobStep(r)
  <2>1. PICK p \in Players : Credit(r, p) /\ JobStep(r)
    BY <1>1
  <2>2. Timeouts \/ (pc = "scoring" /\ r = round)
    BY <2>1 DEF Credit, ScoresSettled, OverdueTimeouts
  <2>3. /\ credited' = [credited EXCEPT ![r] = @ \cup {p}]
        /\ UNCHANGED <<pc, window, round, aborted, verdict>>
    BY <2>1 DEF Credit, JobStep, answerVars, engineVars
  <2>4. Show!Credit(r, p)
    BY <2>2, <2>3 DEF Show!Credit, Stage
  <2>5. QED
    BY <2>4 DEF Show!Next, RoundNumbers
<1>2. CASE JobStep(r) /\ UNCHANGED credited
  BY <1>2, BlockStutters DEF JobStep, answerVars, engineVars, ShowBlock
<1>3. CASE JobEnds(r)
  <2>1. UNCHANGED <<credited, window>>
    BY <1>3 DEF JobEnds, FinishJob, JobThrows, answerVars
  <2>2. CASE pc = "scoring" /\ Goto("revealing")
    BY <2>1, <2>2 DEF Goto, Stage, Show!Reveal, Show!MovesTo, Show!Next
  <2>3. CASE UNCHANGED engineVars
    BY <2>1, <2>3, BlockStutters DEF engineVars, ShowBlock
  <2>4. QED
    BY <1>3, <2>2, <2>3 DEF JobEnds
<1>4. QED
  BY <1>1, <1>2, <1>3 DEF JobStep, ReadRows, ReadRoster, ScoreRow

LEMMA ShowStep ==
  /\ TypeOK /\ WindowOpenOnlyInQuestion
  /\ ScoresSettled /\ RoundInStep /\ OneSnapshot /\ OverdueTimeouts
  /\ [Next]_vars
  => [Show!Next]_Show!vars
<1> SUFFICES ASSUME TypeOK, WindowOpenOnlyInQuestion, ScoresSettled, RoundInStep,
                    OneSnapshot, OverdueTimeouts, [Next]_vars
             PROVE  [Show!Next]_Show!vars
  OBVIOUS
<1>1. CASE UNCHANGED ShowBlock
  BY <1>1, BlockStutters
<1>2. CASE Engine \/ Countdown
  BY <1>2, EngineShows, CountdownShows
<1>3. CASE FinalizeTimesOut
  BY <1>3, ShowCloses DEF FinalizeTimesOut, Stage, Show!Next
<1>4. CASE ScoreTimesOut
  BY <1>4 DEF ScoreTimesOut, Goto, Stage, answerVars, scoringVars,
              Show!Reveal, Show!MovesTo, Show!Next
<1>5. ASSUME NEW r \in RoundNumbers, NEW p \in Players,
             \/ PlayerSubmits(p, r) \/ PlayerProgresses(p, r)
             \/ SubmissionDuplicate(p, r) \/ SubmissionThrows(p, r)
      PROVE  [Show!Next]_Show!vars
  BY <1>1, <1>5 DEF PlayerSubmits, Submit, PlayerProgresses, Progress,
                    SubmissionDuplicate, SubmissionThrows, ForgetSubmission,
                    scoringVars, engineVars, ShowBlock
<1>6. ASSUME NEW r \in RoundNumbers, NEW p \in Players, SubmissionSaved(p, r)
      PROVE  [Show!Next]_Show!vars
  <2>1. CASE EndQuestion(Settled(p, r))
    BY <2>1, EndQuestionShows DEF Show!Next
  <2>2. CASE UNCHANGED <<window, scoringVars, engineVars>>
    BY <1>1, <2>2 DEF scoringVars, engineVars, ShowBlock
  <2>3. QED
    BY <1>6, <2>1, <2>2 DEF SubmissionSaved
<1>7. ASSUME NEW r \in RoundNumbers, NEW p \in Players,
             SnapshotSaved(p, r) \/ SnapshotThrows(p, r)
      PROVE  [Show!Next]_Show!vars
  BY <1>7, SnapshotShows
<1>8. ASSUME NEW r \in RoundNumbers, JobStep(r) \/ JobEnds(r)
      PROVE  [Show!Next]_Show!vars
  BY <1>8, JobShows
<1>9. ASSUME NEW p \in Players, Lobby(p)
      PROVE  [Show!Next]_Show!vars
  <2>1. CASE CheckAbandoned(p) /\ Abort
    BY <2>1, AbortShows DEF Show!Next
  <2>2. CASE CheckAbandoned(p) /\ ~Abort
    BY <1>1, <2>2 DEF CheckAbandoned, answerVars, scoringVars, engineVars,
                      ShowBlock
  <2>3. CASE ~CheckAbandoned(p)
    BY <1>1, <1>9, <2>3
       DEF Lobby, SocketDrops, MarkOffline, PlayerReturns, MarkOnline,
           PlayerLeaves, RemoveLeaver, ExpireGrace, BeginCall, ContinueCall,
           answerVars, scoringVars, engineVars, ShowBlock
  <2>4. QED
    BY <2>1, <2>2, <2>3
<1>10. CASE UNCHANGED vars
  BY <1>1, <1>10 DEF vars, answerVars, scoringVars, engineVars, ShowBlock
<1>11. QED
  BY <1>2, <1>3, <1>4, <1>5, <1>6, <1>7, <1>8, <1>9, <1>10 DEF Next

(* The engine, the answers, the scoring and the lobby together keep what
   GameShow promises the audience, whatever fails, and whatever is late when
   awaits may time out. *)
THEOREM ShowIsKept == Spec => ShowGoesOn
<1>1. Init => ScoresSettled /\ RoundInStep /\ OneSnapshot /\ OverdueTimeouts
  BY DEF Init, ScoringInit, JobAt, ScoresSettled, RoundInStep, AnswerInit, OneSnapshot,
         OverdueTimeouts
<1>2. Init => Show!Init
  BY DEF Init, ScoringInit, AnswerInit, Stage, NoRound, RoundNumbers, Show!Init
<1>3. QED
  BY <1>1, <1>2, TypeCorrect, WindowClosedOutsideQuestion, SettledStep,
     RoundInStepKept, OneSnapshotStep, OverdueTimeoutsKept, ShowStep, PTL
     DEF Spec, ShowGoesOn, Show!Spec

-------------------------------------------------------------------------------
(* Rounds are closed in order. *)

\* Before and while the engine's round is open.
Ahead == {"building", "starting", "intro", "entering", "question", "finalizing"}

(* A round whose scoring was begun is the engine's or an earlier one, and the
   engine's only once its window has been closed. *)
JobsInStep ==
  \A r \in RoundNumbers :
    job[r].at # "idle" => r <= round /\ (pc \in Ahead => r # round)

LEMMA CloseRoundInStep ==
  ASSUME TypeOK, JobsInStep, CloseRound, round \in RoundNumbers
  PROVE  JobsInStep'
<1>1. round' = round /\ pc' \notin Ahead
  BY DEF CloseRound, Goto, Ahead
<1>2. \A r \in RoundNumbers : r # round => job'[r] = job[r]
  BY DEF CloseRound, StartJob, TypeOK, ScoringTypeOK
<1>3. QED
  BY <1>1, <1>2 DEF JobsInStep, RoundNumbers

LEMMA EndQuestionInStep ==
  ASSUME TypeOK, JobsInStep, NEW sav, EndQuestion(sav)
  PROVE  JobsInStep'
<1>1. pc = "question" /\ round \in RoundNumbers
  BY DEF EndQuestion, TypeOK, RoundUnderway
<1>2. CASE CloseRound
  BY <1>1, <1>2, CloseRoundInStep
<1>3. CASE Goto("finalizing") /\ UNCHANGED scoringVars
  BY <1>1, <1>3 DEF JobsInStep, Goto, scoringVars, Ahead
<1>4. QED
  BY <1>2, <1>3 DEF EndQuestion

LEMMA NextRoundInStep ==
  ASSUME TypeOK, JobsInStep, NEW flag, NextRound(flag), UNCHANGED job
  PROVE  JobsInStep'
<1>1. CASE round' = round + 1
  BY <1>1, GameAssumption DEF JobsInStep, TypeOK, EngineTypeOK, RoundNumbers, NoRound
<1>2. CASE round' = round /\ pc' = "finishing"
  BY <1>2 DEF JobsInStep, Ahead
<1>3. QED
  BY <1>1, <1>2 DEF NextRound

LEMMA JobsInStepKept ==
  TypeOK /\ JobsInStep /\ [Next]_vars => JobsInStep'
<1> SUFFICES ASSUME TypeOK, JobsInStep, [Next]_vars PROVE JobsInStep'
  OBVIOUS
<1>1. CASE UNCHANGED <<job, engineVars>>
  BY <1>1 DEF JobsInStep, engineVars
<1>2. CASE UNCHANGED <<job, round>> /\ (pc' \in Ahead => pc \in Ahead)
  BY <1>2 DEF JobsInStep
<1>3. CASE Engine
  BY <1>2, <1>3, NextRoundInStep
     DEF Engine, EngineStep, ShowQuestion, SkipQuestion, EngineThrows, FinishGame,
         DropWindow, Goto, Ahead, scoringVars
<1>4. CASE Countdown
  BY <1>2, <1>4, NextRoundInStep, EndQuestionInStep
     DEF Countdown, PhaseExpires, QuestionExpires, Goto, Ahead, scoringVars
<1>5. CASE FinalizeTimesOut \/ ScoreTimesOut
  <2>1. round \in RoundNumbers
    BY <1>5 DEF FinalizeTimesOut, ScoreTimesOut, TypeOK, RoundUnderway
  <2>2. QED
    BY <1>2, <1>5, <2>1, CloseRoundInStep
       DEF FinalizeTimesOut, ScoreTimesOut, Goto, Ahead, scoringVars
<1>6. ASSUME NEW r \in RoundNumbers, NEW p \in Players,
             \/ PlayerSubmits(p, r) \/ PlayerProgresses(p, r)
             \/ SubmissionSaved(p, r) \/ SubmissionDuplicate(p, r)
             \/ SubmissionThrows(p, r)
             \/ SnapshotSaved(p, r) \/ SnapshotThrows(p, r)
      PROVE  JobsInStep'
  BY <1>1, <1>6, EndQuestionInStep, CloseRoundInStep
     DEF PlayerSubmits, PlayerProgresses, SubmissionSaved, SubmissionDuplicate,
         SubmissionThrows, SnapshotSaved, SnapshotThrows, ContinueFinalize,
         scoringVars
<1>7. ASSUME NEW r \in RoundNumbers, JobStep(r) \/ JobEnds(r) PROVE JobsInStep'
  <2>1. \A s \in RoundNumbers : job'[s].at # "idle" => job[s].at # "idle"
    BY <1>7 DEF JobStep, JobEnds, ReadRows, ReadRoster, ScoreRow, Credit,
                FinishJob, JobThrows, TypeOK, ScoringTypeOK, Jobs
  <2>2. round' = round /\ (pc' \in Ahead => pc \in Ahead)
    BY <1>7 DEF JobStep, JobEnds, Goto, engineVars, Ahead
  <2>3. QED
    BY <2>1, <2>2 DEF JobsInStep
<1>8. ASSUME NEW p \in Players, Lobby(p) PROVE JobsInStep'
  <2>1. CASE CheckAbandoned(p)
    BY <1>1, <1>2, <2>1, NextRoundInStep
       DEF CheckAbandoned, Abort, DropWindow, scoringVars, engineVars
  <2>2. CASE ~CheckAbandoned(p)
    BY <1>1, <1>8, <2>2
       DEF Lobby, SocketDrops, MarkOffline, PlayerReturns, MarkOnline,
           PlayerLeaves, RemoveLeaver, ExpireGrace, BeginCall, ContinueCall,
           scoringVars
  <2>3. QED
    BY <2>1, <2>2
<1>9. CASE UNCHANGED vars
  BY <1>1, <1>9 DEF vars, scoringVars
<1>10. QED
  BY <1>3, <1>4, <1>5, <1>6, <1>7, <1>8, <1>9 DEF Next

-------------------------------------------------------------------------------
(* The window and the context. *)

(* The strengthening: apart from a question and its close there is no context,
   so the one that a question finds or leaves is its own. *)
ContextInStep ==
  overdue = {} =>
    /\ pc = "question" => window = ctx
    /\ pc \notin {"question", "finalizing", "scoring"} => ctx = NoRound

LEMMA CloseRoundContext ==
  ASSUME CloseRound
  PROVE  ContextInStep'
BY DEF ContextInStep, CloseRound, StartJob, Goto

LEMMA EndQuestionContext ==
  ASSUME NEW sav, EndQuestion(sav)
  PROVE  ContextInStep'
BY CloseRoundContext DEF EndQuestion, ContextInStep, Goto

LEMMA ContextInStepKept ==
  /\ TypeOK /\ WindowOpenOnlyInQuestion /\ ScoresSettled /\ OneSnapshot
  /\ ContextInStep /\ [Next]_vars
  => ContextInStep'
<1> SUFFICES ASSUME TypeOK, WindowOpenOnlyInQuestion, ScoresSettled, OneSnapshot,
                    ContextInStep, overdue' = {}, [Next]_vars
             PROVE  ContextInStep'
  BY DEF ContextInStep
<1>0. overdue = {} /\ ~FinalizeTimesOut /\ ~ScoreTimesOut
  BY NotOverdue
<1>1. CASE UNCHANGED <<window, ctx, engineVars>>
  BY <1>0, <1>1 DEF ContextInStep, engineVars
<1>2. CASE /\ pc \notin {"question", "finalizing", "scoring"}
           /\ UNCHANGED <<window, ctx>>
  BY <1>0, <1>2 DEF ContextInStep, WindowOpenOnlyInQuestion
<1>3. CASE pc' # "question" /\ ctx' = NoRound
  BY <1>3 DEF ContextInStep
<1>4. CASE Engine
  <2>1. CASE ShowQuestion
    BY <2>1 DEF ShowQuestion, Goto, ContextInStep
  <2>2. CASE EngineStep \/ SkipQuestion
    BY <1>2, <2>2 DEF EngineStep, SkipQuestion, answerVars, scoringVars
  <2>3. CASE EngineThrows \/ FinishGame
    BY <1>3, <2>3 DEF EngineThrows, FinishGame, DropWindow, Goto
  <2>4. QED
    BY <1>4, <2>1, <2>2, <2>3 DEF Engine
<1>5. CASE Countdown
  BY <1>2, <1>5, EndQuestionContext
     DEF Countdown, PhaseExpires, QuestionExpires, answerVars, scoringVars
<1>6. CASE FinalizeTimesOut \/ ScoreTimesOut
  BY <1>0, <1>6
<1>7. ASSUME NEW r \in RoundNumbers, NEW p \in Players,
             \/ PlayerSubmits(p, r) \/ PlayerProgresses(p, r)
             \/ SubmissionSaved(p, r) \/ SubmissionDuplicate(p, r)
             \/ SubmissionThrows(p, r)
      PROVE  ContextInStep'
  BY <1>1, <1>7, EndQuestionContext
     DEF PlayerSubmits, Submit, PlayerProgresses, Progress, SubmissionSaved,
         SubmissionDuplicate, SubmissionThrows, ForgetSubmission, scoringVars
<1>8. ASSUME NEW r \in RoundNumbers, NEW p \in Players,
             SnapshotSaved(p, r) \/ SnapshotThrows(p, r)
      PROVE  ContextInStep'
  <2>1. pc = "finalizing" /\ round = r
    BY <1>0, <1>8 DEF SnapshotSaved, SnapshotThrows, OneSnapshot
  <2>2. CloseRound \/ UNCHANGED <<scoringVars, engineVars>>
    BY <1>8 DEF SnapshotSaved, SnapshotThrows, ContinueFinalize
  <2>3. QED
    BY <1>0, <2>1, <2>2, CloseRoundContext DEF ContextInStep, scoringVars, engineVars
<1>9. ASSUME NEW r \in RoundNumbers, JobStep(r) PROVE ContextInStep'
  BY <1>1, <1>9 DEF JobStep, ReadRows, ReadRoster, ScoreRow, Credit, answerVars
<1>10. ASSUME NEW r \in RoundNumbers, JobEnds(r) PROVE ContextInStep'
  <2>1. pc = "scoring" /\ r = round /\ ctx' = NoRound
    BY <1>0, <1>10 DEF JobEnds, FinishJob, JobThrows, ScoresSettled
  <2>2. QED
    BY <1>3, <1>10, <2>1 DEF JobEnds, Goto
<1>11. ASSUME NEW p \in Players, Lobby(p) PROVE ContextInStep'
  <2>1. CASE CheckAbandoned(p)
    <3>1. CASE Abort
      BY <1>1, <1>2, <1>3, <3>1
         DEF Abort, NextRound, DropWindow, Timed, answerVars, scoringVars,
             ContextInStep
    <3>2. QED
      BY <1>1, <2>1, <3>1 DEF CheckAbandoned, answerVars, scoringVars
  <2>2. CASE ~CheckAbandoned(p)
    BY <1>1, <1>11, <2>2
       DEF Lobby, SocketDrops, MarkOffline, PlayerReturns, MarkOnline,
           PlayerLeaves, RemoveLeaver, ExpireGrace, BeginCall, ContinueCall,
           answerVars, scoringVars
  <2>3. QED
    BY <2>1, <2>2
<1>12. CASE UNCHANGED vars
  BY <1>1, <1>12 DEF vars, answerVars, scoringVars
<1>13. QED
  BY <1>4, <1>5, <1>6, <1>7, <1>8, <1>9, <1>10, <1>11, <1>12 DEF Next

\* The loop goes back ahead of a round's close only by going on to the next one.
LEMMA LoopGoesOn ==
  ASSUME TypeOK, [Next]_vars
  PROVE  \/ round' = round /\ (pc' \in Ahead => pc \in Ahead)
         \/ round' = round + 1 /\ round < NumRounds
<1> DEFINE Goes == \/ round' = round /\ (pc' \in Ahead => pc \in Ahead)
                   \/ round' = round + 1 /\ round < NumRounds
<1>1. CASE UNCHANGED engineVars
  BY <1>1 DEF engineVars
<1>2. ASSUME NEW sav, EndQuestion(sav) PROVE Goes
  BY <1>2 DEF EndQuestion, CloseRound, Goto, Ahead
<1>3. ASSUME NEW flag, NextRound(flag) PROVE Goes
  BY <1>3 DEF NextRound, Ahead
<1>4. CASE Engine
  BY <1>3, <1>4 DEF Engine, EngineStep, ShowQuestion, SkipQuestion, EngineThrows,
                    FinishGame, Goto, Ahead
<1>5. CASE Countdown
  BY <1>2, <1>3, <1>5 DEF Countdown, PhaseExpires, QuestionExpires, Goto, Ahead
<1>6. CASE FinalizeTimesOut \/ ScoreTimesOut
  BY <1>6 DEF FinalizeTimesOut, ScoreTimesOut, CloseRound, Goto, Ahead
<1>7. ASSUME NEW r \in RoundNumbers, NEW p \in Players,
             \/ PlayerSubmits(p, r) \/ PlayerProgresses(p, r)
             \/ SubmissionSaved(p, r) \/ SubmissionDuplicate(p, r)
             \/ SubmissionThrows(p, r)
             \/ SnapshotSaved(p, r) \/ SnapshotThrows(p, r)
      PROVE  Goes
  BY <1>1, <1>2, <1>7
     DEF PlayerSubmits, PlayerProgresses, SubmissionSaved, SubmissionDuplicate,
         SubmissionThrows, SnapshotSaved, SnapshotThrows, ContinueFinalize,
         CloseRound, Goto, Ahead
<1>8. ASSUME NEW r \in RoundNumbers, JobStep(r) \/ JobEnds(r) PROVE Goes
  BY <1>1, <1>8 DEF JobStep, JobEnds, Goto, Ahead
<1>9. ASSUME NEW p \in Players, Lobby(p) PROVE Goes
  <2>1. CASE CheckAbandoned(p)
    BY <1>1, <1>3, <2>1 DEF CheckAbandoned, Abort, Ahead
  <2>2. CASE ~CheckAbandoned(p)
    BY <1>1, <1>9, <2>2
       DEF Lobby, SocketDrops, MarkOffline, PlayerReturns, MarkOnline,
           PlayerLeaves, RemoveLeaver, ExpireGrace, BeginCall, ContinueCall
  <2>3. QED
    BY <2>1, <2>2
<1>10. QED
  BY <1>1, <1>4, <1>5, <1>6, <1>7, <1>8, <1>9 DEF Next, vars

(* A round that was given up lies behind the engine, which has closed it. *)
OverdueBehind ==
  \A q \in overdue :
    round \in RoundNumbers /\ (q < round \/ (q = round /\ pc \notin Ahead))

LEMMA OverdueBehindKept ==
  TypeOK /\ OverdueBehind /\ [Next]_vars => OverdueBehind'
<1> SUFFICES ASSUME TypeOK, OverdueBehind, [Next]_vars, NEW q \in overdue'
             PROVE  round' \in RoundNumbers
                    /\ (q < round' \/ (q = round' /\ pc' \notin Ahead))
  BY DEF OverdueBehind
<1>1. CASE q \in overdue
  <2>1. round \in RoundNumbers /\ (q < round \/ (q = round /\ pc \notin Ahead))
    BY <1>1 DEF OverdueBehind
  <2>2. q \in RoundNumbers
    BY <1>1 DEF TypeOK
  <2>3. CASE round' = round /\ (pc' \in Ahead => pc \in Ahead)
    BY <2>1, <2>3
  <2>4. CASE round' = round + 1 /\ round < NumRounds
    <3>1. /\ q \in Nat /\ round \in Nat /\ NumRounds \in Nat /\ q <= round
          /\ 1 <= round
      BY <2>1, <2>2, GameAssumption DEF RoundNumbers
    <3>2. q < round + 1 /\ round + 1 \in 1..NumRounds
      BY <2>4, <3>1
    <3>3. QED
      BY <2>4, <3>1, <3>2 DEF RoundNumbers
  <2>5. QED
    BY <2>3, <2>4, LoopGoesOn
<1>2. CASE q \notin overdue
  <2>1. q = round /\ (FinalizeTimesOut \/ ScoreTimesOut) /\ round' = round
    BY <1>2, OverdueSteps
  <2>2. pc' \notin Ahead
    BY <2>1 DEF FinalizeTimesOut, ScoreTimesOut, CloseRound, Goto, Ahead
  <2>3. round \in RoundNumbers
    BY <2>1 DEF FinalizeTimesOut, ScoreTimesOut, TypeOK, RoundUnderway
  <2>4. QED
    BY <2>1, <2>2, <2>3
<1>3. QED
  BY <1>1, <1>2

(* While a question runs, answers are taken exactly if they are going to be
   scored, although two services keep a map each: unless an earlier round was
   given up, whose late end takes one of the two away. *)
THEOREM WindowsAreScored == Spec => []WindowMatchesContext
<1>1. Init => /\ WindowOpenOnlyInQuestion /\ ScoresSettled /\ OneSnapshot
              /\ ContextInStep /\ OverdueBehind
  BY DEF Init, AnswerInit, ScoringInit, WindowOpenOnlyInQuestion, ScoresSettled, JobAt,
         OneSnapshot, ContextInStep, OverdueBehind
<1>2. ContextInStep /\ OverdueBehind => WindowMatchesContext
  BY DEF ContextInStep, OverdueBehind, Ahead, WindowMatchesContext
<1>3. QED
  BY <1>1, <1>2, TypeCorrect, WindowStep, SettledStep, OneSnapshotStep,
     ContextInStepKept, OverdueBehindKept, PTL DEF Spec

-------------------------------------------------------------------------------
(* Credits and timeouts. *)

(* The strengthening: a round's credits go to the players its scoring has found
   in the roster with an answer, and who is late is settled at the same read;
   until then there are no credits, and no reveal until the scoring is over. *)
CreditsFollowRoster ==
  \A r \in RoundNumbers :
    /\ job[r].at \in {"idle", "rows", "roster"} =>
         job[r].cur = {} /\ credited[r] = {}
    /\ job[r].at # "done" => timedOut[r] = {}
    /\ job[r].at \in {"row", "credit"} =>
         /\ job[r].known \cap job[r].late = {}
         /\ job[r].cur \cup credited[r] \subseteq job[r].known
    /\ timedOut[r] \cap credited[r] = {}

LEMMA CloseRoundCredits ==
  ASSUME TypeOK, JobsInStep, CreditsFollowRoster, CloseRound,
         round \in RoundNumbers, pc \in Ahead
  PROVE  CreditsFollowRoster'
<1>1. job[round].at = "idle"
  BY DEF JobsInStep
<1>2. /\ job' = [job EXCEPT ![round] = JobAt(IF ctx = NoRound THEN "done" ELSE "rows")]
      /\ UNCHANGED <<credited, timedOut>>
  BY DEF CloseRound, StartJob
<1>3. CASE job' = [job EXCEPT ![round] = JobAt("done")]
  BY <1>1, <1>2, <1>3 DEF CreditsFollowRoster, TypeOK, ScoringTypeOK, JobAt
<1>4. CASE job' = [job EXCEPT ![round] = JobAt("rows")]
  BY <1>1, <1>2, <1>4 DEF CreditsFollowRoster, TypeOK, ScoringTypeOK, JobAt
<1>5. QED
  BY <1>2, <1>3, <1>4

LEMMA EndQuestionCredits ==
  ASSUME TypeOK, JobsInStep, CreditsFollowRoster, NEW sav, EndQuestion(sav)
  PROVE  CreditsFollowRoster'
<1>1. pc \in Ahead /\ round \in RoundNumbers
  BY DEF EndQuestion, TypeOK, RoundUnderway, Ahead
<1>2. CASE UNCHANGED scoringVars
  BY <1>2 DEF CreditsFollowRoster, scoringVars
<1>3. QED
  BY <1>1, <1>2, CloseRoundCredits DEF EndQuestion

\* One job moves, and nothing is credited or revealed in another round.
LEMMA OneJobCredits ==
  ASSUME TypeOK, CreditsFollowRoster, NEW r \in RoundNumbers,
         job' = [job EXCEPT ![r] = job'[r]],
         \A s \in RoundNumbers \ {r} :
           credited'[s] = credited[s] /\ timedOut'[s] = timedOut[s],
         /\ job'[r].at \in {"idle", "rows", "roster"} =>
              job'[r].cur = {} /\ credited'[r] = {}
         /\ job'[r].at # "done" => timedOut'[r] = {}
         /\ job'[r].at \in {"row", "credit"} =>
              /\ job'[r].known \cap job'[r].late = {}
              /\ job'[r].cur \cup credited'[r] \subseteq job'[r].known
         /\ timedOut'[r] \cap credited'[r] = {}
  PROVE  CreditsFollowRoster'
<1>1. \A s \in RoundNumbers \ {r} : job'[s] = job[s]
  BY DEF TypeOK, ScoringTypeOK
<1>2. QED
  BY <1>1 DEF CreditsFollowRoster

LEMMA JobStepCredits ==
  ASSUME TypeOK, CreditsFollowRoster, NEW r \in RoundNumbers, JobStep(r)
  PROVE  CreditsFollowRoster'
<1> USE DEF CreditsFollowRoster
<1>1. /\ job \in [RoundNumbers -> Jobs] /\ job[r] \in Jobs
      /\ credited \in [RoundNumbers -> SUBSET Players]
      /\ timedOut \in [RoundNumbers -> SUBSET Players]
  BY DEF TypeOK, ScoringTypeOK
<1>2. CASE ReadRows(r)
  <2>1. /\ job' = [job EXCEPT ![r] = job'[r]]
        /\ job'[r] = [job[r] EXCEPT !.at = "roster", !.todo = rows[r]]
        /\ UNCHANGED <<credited, timedOut>>
    BY <1>1, <1>2 DEF ReadRows
  <2>2. job'[r].at = "roster" /\ job'[r].cur = job[r].cur
    BY <1>1, <2>1 DEF Jobs
  <2>3. QED
    BY <1>2, <2>1, <2>2, OneJobCredits DEF ReadRows
<1>3. CASE ReadRoster(r)
  <2>1. /\ job' = [job EXCEPT ![r] = job'[r]]
        /\ job'[r].at = "row" /\ job'[r].cur = job[r].cur
        /\ job'[r].known = roster \cap job[r].todo
        /\ job'[r].late = roster \ job[r].todo
        /\ UNCHANGED <<credited, timedOut>>
    BY <1>1, <1>3 DEF ReadRoster, Jobs
  <2>2. QED
    BY <1>3, <2>1, OneJobCredits DEF ReadRoster
<1>4. ASSUME NEW p \in Players, ScoreRow(r, p) PROVE CreditsFollowRoster'
  <2>1. /\ job' = [job EXCEPT ![r] = job'[r]]
        /\ \/ job'[r].at = "credit" /\ job'[r].cur = {p} /\ p \in job[r].known
           \/ job'[r].at = "row" /\ job'[r].cur = job[r].cur
        /\ job'[r].known = job[r].known /\ job'[r].late = job[r].late
        /\ UNCHANGED <<credited, timedOut>>
    BY <1>1, <1>4 DEF ScoreRow, Jobs
  <2>2. QED
    BY <1>4, <2>1, OneJobCredits DEF ScoreRow
<1>5. ASSUME NEW p \in Players, Credit(r, p) PROVE CreditsFollowRoster'
  <2>1. /\ job' = [job EXCEPT ![r] = job'[r]]
        /\ job'[r].at = "row" /\ job'[r].cur = {}
        /\ job'[r].known = job[r].known /\ job'[r].late = job[r].late
        /\ timedOut' = timedOut
        /\ credited' = [credited EXCEPT ![r] = @ \cup {p}]
    BY <1>1, <1>5 DEF Credit, Jobs
  <2>2. p \in job[r].known
    BY <1>5 DEF Credit
  <2>3. /\ \A s \in RoundNumbers \ {r} : credited'[s] = credited[s]
        /\ credited'[r] = credited[r] \cup {p}
    BY <1>1, <2>1
  <2>4. job[r].at = "credit"
    BY <1>5 DEF Credit
  <2>5. /\ job'[r].known \cap job'[r].late = {}
        /\ job'[r].cur \cup credited'[r] \subseteq job'[r].known
        /\ timedOut'[r] = {}
    BY <2>1, <2>2, <2>3, <2>4
  <2> HIDE DEF CreditsFollowRoster
  <2>6. QED
    BY <2>1, <2>3, <2>5, OneJobCredits
<1>6. QED
  BY <1>2, <1>3, <1>4, <1>5 DEF JobStep

LEMMA JobEndsCredits ==
  ASSUME TypeOK, CreditsFollowRoster, NEW r \in RoundNumbers, JobEnds(r)
  PROVE  CreditsFollowRoster'
<1>1. /\ job \in [RoundNumbers -> Jobs]
      /\ timedOut \in [RoundNumbers -> SUBSET Players]
  BY DEF TypeOK, ScoringTypeOK
<1>2. /\ job' = [job EXCEPT ![r] = JobAt("done")] /\ credited' = credited
      /\ job[r].at # "done"
      /\ \/ timedOut' = timedOut
         \/ job[r].at = "row" /\ timedOut' = [timedOut EXCEPT ![r] = job[r].late]
  BY DEF JobEnds, FinishJob, JobThrows
<1>3. job' = [job EXCEPT ![r] = job'[r]] /\ job'[r].at = "done"
  BY <1>1, <1>2 DEF JobAt
<1>4. /\ \A s \in RoundNumbers \ {r} : timedOut'[s] = timedOut[s]
      /\ timedOut'[r] \cap credited[r] = {}
  BY <1>1, <1>2 DEF CreditsFollowRoster
<1>5. QED
  BY <1>2, <1>3, <1>4, OneJobCredits

LEMMA CreditsFollowRosterKept ==
  /\ TypeOK /\ JobsInStep /\ CreditsFollowRoster /\ [Next]_vars
  => CreditsFollowRoster'
<1> SUFFICES ASSUME TypeOK, JobsInStep, CreditsFollowRoster, [Next]_vars
             PROVE  CreditsFollowRoster'
  OBVIOUS
<1>1. CASE UNCHANGED <<job, credited, timedOut>>
  BY <1>1 DEF CreditsFollowRoster
<1>2. CASE Engine
  BY <1>1, <1>2 DEF Engine, EngineStep, ShowQuestion, SkipQuestion, EngineThrows,
                    FinishGame, DropWindow, scoringVars
<1>3. CASE Countdown
  BY <1>1, <1>3, EndQuestionCredits
     DEF Countdown, PhaseExpires, QuestionExpires, scoringVars
<1>4. CASE FinalizeTimesOut \/ ScoreTimesOut
  <2>1. pc = "finalizing" => pc \in Ahead /\ round \in RoundNumbers
    BY DEF TypeOK, RoundUnderway, Ahead
  <2>2. QED
    BY <1>1, <1>4, <2>1, CloseRoundCredits
       DEF FinalizeTimesOut, ScoreTimesOut, scoringVars
<1>5. ASSUME NEW r \in RoundNumbers, NEW p \in Players,
             \/ PlayerSubmits(p, r) \/ PlayerProgresses(p, r)
             \/ SubmissionSaved(p, r) \/ SubmissionDuplicate(p, r)
             \/ SubmissionThrows(p, r)
             \/ SnapshotSaved(p, r) \/ SnapshotThrows(p, r)
      PROVE  CreditsFollowRoster'
  <2>1. pc = "finalizing" => pc \in Ahead /\ round \in RoundNumbers
    BY DEF TypeOK, RoundUnderway, Ahead
  <2>2. QED
    BY <1>1, <1>5, <2>1, EndQuestionCredits, CloseRoundCredits
       DEF PlayerSubmits, PlayerProgresses, SubmissionSaved, SubmissionDuplicate,
           SubmissionThrows, SnapshotSaved, SnapshotThrows, ContinueFinalize,
           scoringVars
<1>6. ASSUME NEW r \in RoundNumbers, JobStep(r) \/ JobEnds(r)
      PROVE  CreditsFollowRoster'
  BY <1>6, JobStepCredits, JobEndsCredits
<1>7. ASSUME NEW p \in Players, Lobby(p) PROVE CreditsFollowRoster'
  BY <1>1, <1>7
     DEF Lobby, SocketDrops, MarkOffline, PlayerReturns, MarkOnline, PlayerLeaves,
         RemoveLeaver, CheckAbandoned, ExpireGrace, BeginCall, ContinueCall, Abort,
         DropWindow, scoringVars
<1>8. CASE UNCHANGED vars
  BY <1>1, <1>8 DEF vars, scoringVars
<1>9. QED
  BY <1>2, <1>3, <1>4, <1>5, <1>6, <1>7, <1>8 DEF Next

(* A reveal never calls a player late whom the same round credits, whoever
   leaves, comes back or answers while the round is being scored. *)
THEOREM RevealsAreConsistent == Spec => []TimeoutsUncredited
<1>1. Init => JobsInStep /\ CreditsFollowRoster
  BY DEF Init, ScoringInit, JobAt, JobsInStep, CreditsFollowRoster
<1>2. CreditsFollowRoster => TimeoutsUncredited
  BY DEF CreditsFollowRoster, TimeoutsUncredited
<1>3. QED
  BY <1>1, <1>2, TypeCorrect, JobsInStepKept, CreditsFollowRosterKept, PTL
     DEF Spec

-------------------------------------------------------------------------------
(* Scores and credits. *)

Credits(p) == {r \in RoundNumbers : p \in credited[r]}
Covered(p, n) == n <= Cardinality(Credits(p))

(* The strengthening: not only the stored score, also every score an entity
   holds that a call of the lobby or a scoring will save later, is one the
   credits of that time covered. *)
ScoresCovered ==
  \A p \in Players :
    /\ Covered(p, total[p])
    /\ Covered(p, lobby[p].entity.score)
    /\ \A r \in RoundNumbers : Covered(p, job[r].seen[p].score)

(* Whom a scoring has still to credit it has not credited before. *)
CreditedOnce ==
  \A r \in RoundNumbers :
    /\ job[r].todo \cap credited[r] = {}
    /\ job[r].cur \cap (job[r].todo \cup credited[r]) = {}

LEMMA CreditsFinite ==
  ASSUME NEW p
  PROVE  /\ IsFiniteSet(Credits(p)) /\ Cardinality(Credits(p)) \in Nat
         /\ Covered(p, 0)
<1>1. IsFiniteSet(RoundNumbers)
  BY FS_Interval, GameAssumption DEF RoundNumbers
<1>2. Credits(p) \subseteq RoundNumbers
  BY DEF Credits
<1>3. IsFiniteSet(Credits(p)) /\ Cardinality(Credits(p)) \in Nat
  BY <1>1, <1>2, FS_Subset, FS_CardinalityType
<1>4. QED
  BY <1>3 DEF Covered

LEMMA CreditAdded ==
  ASSUME TypeOK, NEW r \in RoundNumbers, NEW p \in Players, p \notin credited[r],
         credited' = [credited EXCEPT ![r] = @ \cup {p}]
  PROVE  /\ Cardinality(Credits(p)') = Cardinality(Credits(p)) + 1
         /\ \A q \in Players \ {p} : Credits(q)' = Credits(q)
<1>1. credited \in [RoundNumbers -> SUBSET Players]
  BY DEF TypeOK, ScoringTypeOK
<1>2. Credits(p)' = Credits(p) \cup {r} /\ r \notin Credits(p)
  BY <1>1 DEF Credits
<1>3. \A q \in Players \ {p} : Credits(q)' = Credits(q)
  BY <1>1 DEF Credits
<1>4. QED
  BY <1>2, <1>3, CreditsFinite, FS_AddElement

LEMMA CreditedOnceKept ==
  /\ TypeOK /\ JobsInStep /\ CreditsFollowRoster /\ CreditedOnce /\ [Next]_vars
  => CreditedOnce'
<1> SUFFICES ASSUME TypeOK, JobsInStep, CreditsFollowRoster, CreditedOnce,
                    [Next]_vars
             PROVE  CreditedOnce'
  OBVIOUS
<1>1. /\ job \in [RoundNumbers -> Jobs]
      /\ credited \in [RoundNumbers -> SUBSET Players]
  BY DEF TypeOK, ScoringTypeOK
<1>2. CASE UNCHANGED <<job, credited>>
  BY <1>2 DEF CreditedOnce
<1>3. ASSUME NEW r \in RoundNumbers, NEW step,
             job' = [job EXCEPT ![r] = JobAt(step)], UNCHANGED credited
      PROVE  CreditedOnce'
  BY <1>1, <1>3 DEF CreditedOnce, JobAt
<1>4. CASE CloseRound /\ round \in RoundNumbers
  BY <1>3, <1>4 DEF CloseRound, StartJob
<1>5. ASSUME NEW sav, EndQuestion(sav) PROVE CreditedOnce'
  <2>1. round \in RoundNumbers
    BY <1>5 DEF EndQuestion, TypeOK, RoundUnderway
  <2>2. QED
    BY <1>2, <1>4, <1>5, <2>1 DEF EndQuestion, scoringVars
<1>6. CASE Engine \/ Countdown
  BY <1>2, <1>5, <1>6
     DEF Engine, EngineStep, ShowQuestion, SkipQuestion, EngineThrows, FinishGame,
         Countdown, PhaseExpires, QuestionExpires, DropWindow, scoringVars
<1>7. CASE FinalizeTimesOut \/ ScoreTimesOut
  BY <1>2, <1>4, <1>7
     DEF FinalizeTimesOut, ScoreTimesOut, TypeOK, RoundUnderway, scoringVars
<1>8. ASSUME NEW r \in RoundNumbers, NEW p \in Players,
             \/ PlayerSubmits(p, r) \/ PlayerProgresses(p, r)
             \/ SubmissionSaved(p, r) \/ SubmissionDuplicate(p, r)
             \/ SubmissionThrows(p, r)
             \/ SnapshotSaved(p, r) \/ SnapshotThrows(p, r)
      PROVE  CreditedOnce'
  BY <1>2, <1>4, <1>5, <1>8
     DEF PlayerSubmits, PlayerProgresses, SubmissionSaved, SubmissionDuplicate,
         SubmissionThrows, SnapshotSaved, SnapshotThrows, ContinueFinalize,
         scoringVars
<1>9. ASSUME NEW r \in RoundNumbers, JobEnds(r) PROVE CreditedOnce'
  BY <1>3, <1>9 DEF JobEnds, FinishJob, JobThrows
<1>10. ASSUME NEW r \in RoundNumbers, JobStep(r) PROVE CreditedOnce'
  <2>1. ASSUME /\ job' = [job EXCEPT ![r] = job'[r]]
               /\ \A s \in RoundNumbers \ {r} : credited'[s] = credited[s]
               /\ job'[r].todo \cap credited'[r] = {}
               /\ job'[r].cur \cap (job'[r].todo \cup credited'[r]) = {}
        PROVE  CreditedOnce'
    <3>1. \A s \in RoundNumbers \ {r} : job'[s] = job[s]
      BY <1>1, <2>1
    <3>2. QED
      BY <2>1, <3>1 DEF CreditedOnce
  <2>2. CASE ReadRows(r)
    <3>1. credited[r] = {} /\ job[r].cur = {}
      BY <2>2 DEF ReadRows, CreditsFollowRoster
    <3>2. /\ job' = [job EXCEPT ![r] = job'[r]] /\ job'[r].cur = job[r].cur
          /\ credited' = credited
      BY <1>1, <2>2 DEF ReadRows, Jobs
    <3>3. QED
      BY <2>1, <3>1, <3>2
  <2>3. CASE ReadRoster(r)
    <3>1. /\ job' = [job EXCEPT ![r] = job'[r]] /\ job'[r].cur = job[r].cur
          /\ job'[r].todo = job[r].todo /\ credited' = credited
      BY <1>1, <2>3 DEF ReadRoster, Jobs
    <3>2. QED
      BY <2>1, <3>1 DEF CreditedOnce
  <2>4. ASSUME NEW p \in Players, ScoreRow(r, p) PROVE CreditedOnce'
    <3>1. /\ job' = [job EXCEPT ![r] = job'[r]] /\ credited' = credited
          /\ p \in job[r].todo /\ job'[r].todo = job[r].todo \ {p}
          /\ job'[r].cur \in {job[r].cur, {p}}
      BY <1>1, <2>4 DEF ScoreRow, Jobs
    <3>2. QED
      BY <2>1, <3>1 DEF CreditedOnce
  <2>5. ASSUME NEW p \in Players, Credit(r, p) PROVE CreditedOnce'
    <3>1. /\ job' = [job EXCEPT ![r] = job'[r]]
          /\ p \in job[r].cur /\ job'[r].cur = {} /\ job'[r].todo = job[r].todo
          /\ credited' = [credited EXCEPT ![r] = @ \cup {p}]
      BY <1>1, <2>5 DEF Credit, Jobs
    <3>2. /\ \A s \in RoundNumbers \ {r} : credited'[s] = credited[s]
          /\ credited'[r] = credited[r] \cup {p}
      BY <1>1, <3>1
    <3>3. QED
      BY <2>1, <3>1, <3>2 DEF CreditedOnce
  <2>6. QED
    BY <1>10, <2>2, <2>3, <2>4, <2>5 DEF JobStep
<1>11. ASSUME NEW p \in Players, Lobby(p) PROVE CreditedOnce'
  BY <1>2, <1>11
     DEF Lobby, SocketDrops, MarkOffline, PlayerReturns, MarkOnline, PlayerLeaves,
         RemoveLeaver, CheckAbandoned, ExpireGrace, BeginCall, ContinueCall, Abort,
         DropWindow, scoringVars
<1>12. CASE UNCHANGED vars
  BY <1>2, <1>12 DEF vars, scoringVars
<1>13. QED
  BY <1>6, <1>7, <1>8, <1>9, <1>10, <1>11, <1>12 DEF Next

\* A step that credits nobody and gives no entity or column a score of its own.
LEMMA NoScoreGrows ==
  ASSUME ScoresCovered, UNCHANGED credited,
         \A p \in Players :
           /\ total'[p] \in {total[p], lobby[p].entity.score}
           /\ lobby'[p].entity.score \in {0, total[p], lobby[p].entity.score}
           /\ \A r \in RoundNumbers :
                job'[r].seen[p].score \in {0, total[p], job[r].seen[p].score}
  PROVE  ScoresCovered'
<1>1. \A p \in Players : Credits(p)' = Credits(p)
  BY DEF Credits
<1>2. \A p \in Players : \A n \in {0, total[p], lobby[p].entity.score} : Covered(p, n)
  BY CreditsFinite DEF ScoresCovered
<1>3. \A p \in Players : \A r \in RoundNumbers : Covered(p, job[r].seen[p].score)
  BY DEF ScoresCovered
<1>4. QED
  BY <1>1, <1>2, <1>3 DEF ScoresCovered, Covered

LEMMA LobbyScores ==
  ASSUME TypeOK, NEW p \in Players, Lobby(p)
  PROVE  \A q \in Players :
           /\ total'[q] \in {total[q], lobby[q].entity.score}
           /\ lobby'[q].entity.score \in {0, total[q], lobby[q].entity.score}
<1>1. lobby \in [Players -> LobbyCalls] /\ total \in [Players -> Nat]
  BY DEF TypeOK, LobbyTypeOK, DataTypeOK, TableTypeOK
<1>2. lobby' = [lobby EXCEPT ![p] = lobby'[p]]
  BY <1>1 DEF Lobby, SocketDrops, MarkOffline, PlayerReturns, MarkOnline,
              PlayerLeaves, RemoveLeaver, CheckAbandoned, ExpireGrace, BeginCall,
              ContinueCall
<1>3. lobby'[p].entity \in {NoEntity, Loaded(p)}
  BY <1>1 DEF Lobby, SocketDrops, MarkOffline, PlayerReturns, MarkOnline,
              PlayerLeaves, RemoveLeaver, CheckAbandoned, ExpireGrace, BeginCall,
              ContinueCall, Idle
<1>4. \A q \in Players : lobby'[q].entity.score \in {0, total[q], lobby[q].entity.score}
  BY <1>1, <1>2, <1>3 DEF NoEntity, Loaded
<1>5. CASE MarkOffline(p) \/ MarkOnline(p)
  <2>1. [lobby[p].entity EXCEPT !.online = FALSE].score = lobby[p].entity.score
    BY <1>1 DEF LobbyCalls, Entity
  <2>2. [lobby[p].entity EXCEPT !.online = TRUE].score = lobby[p].entity.score
    BY <1>1 DEF LobbyCalls, Entity
  <2>3. total' = [total EXCEPT ![p] = lobby[p].entity.score]
    BY <1>5, <2>1, <2>2 DEF MarkOffline, MarkOnline, SaveClient
  <2>4. QED
    BY <1>1, <1>4, <2>3
<1>6. CASE ~(MarkOffline(p) \/ MarkOnline(p))
  <2>1. total' = total
    BY <1>6 DEF Lobby, SocketDrops, PlayerReturns, PlayerLeaves, RemoveLeaver,
                CheckAbandoned, ExpireGrace, BeginCall, RemoveClient, dataVars,
                tableVars
  <2>2. QED
    BY <1>4, <2>1
<1>7. QED
  BY <1>5, <1>6

\* Only a credit changes a stored score, and a scoring reads them with the
\* roster.
LEMMA JobScores ==
  ASSUME TypeOK, NEW r \in RoundNumbers,
         \/ JobEnds(r) \/ ReadRows(r) \/ ReadRoster(r)
         \/ \E p \in Players : ScoreRow(r, p)
  PROVE  /\ UNCHANGED <<total, credited>>
         /\ \A s \in RoundNumbers : \A q \in Players :
              job'[s].seen[q].score \in {0, total[q], job[s].seen[q].score}
<1>1. job \in [RoundNumbers -> Jobs]
  BY DEF TypeOK, ScoringTypeOK
<1>2. UNCHANGED <<total, credited>>
  BY DEF JobEnds, FinishJob, JobThrows, ReadRows, ReadRoster, ScoreRow, dataVars,
         tableVars
<1>3. job' = [job EXCEPT ![r] = job'[r]]
  BY <1>1 DEF JobEnds, FinishJob, JobThrows, ReadRows, ReadRoster, ScoreRow
<1>4. \A q \in Players :
        job'[r].seen[q] \in {NoEntity, Loaded(q), job[r].seen[q]}
  <2>1. CASE JobEnds(r)
    BY <1>1, <2>1 DEF JobEnds, FinishJob, JobThrows, JobAt
  <2>2. CASE ReadRows(r) \/ \E p \in Players : ScoreRow(r, p)
    <3>1. job'[r].seen = job[r].seen
      <4>1. job[r] \in Jobs
        BY <1>1
      <4>2. CASE job' = [job EXCEPT ![r].at = "roster", ![r].todo = rows[r]]
        BY <1>1, <4>1, <4>2 DEF Jobs
      <4>3. ASSUME NEW p \in Players, ScoreRow(r, p)
            PROVE  job'[r].seen = job[r].seen
        <5>1. CASE job' = [job EXCEPT ![r].at = "credit", ![r].todo = @ \ {p},
                                      ![r].cur = {p}]
          BY <1>1, <4>1, <5>1 DEF Jobs
        <5>2. CASE job' = [job EXCEPT ![r].todo = @ \ {p}]
          BY <1>1, <4>1, <5>2 DEF Jobs
        <5>3. QED
          BY <4>3, <5>1, <5>2 DEF ScoreRow
      <4>4. QED
        BY <2>2, <4>2, <4>3 DEF ReadRows
    <3>2. QED
      BY <3>1
  <2>3. CASE ReadRoster(r)
    <3>1. job'[r].seen = [q \in Players |-> IF q \in roster \cap job[r].todo
                                            THEN Loaded(q) ELSE NoEntity]
      BY <1>1, <2>3 DEF ReadRoster, Jobs
    <3>2. QED
      BY <3>1
  <2>4. QED
    BY <2>1, <2>2, <2>3
<1>5. QED
  BY <1>1, <1>2, <1>3, <1>4 DEF NoEntity, Loaded

LEMMA CreditScores ==
  ASSUME TypeOK, CreditedOnce, ScoresCovered,
         NEW r \in RoundNumbers, NEW p \in Players, Credit(r, p), UNCHANGED lobby
  PROVE  ScoresCovered'
<1>1. /\ job \in [RoundNumbers -> Jobs] /\ total \in [Players -> Nat]
      /\ lobby \in [Players -> LobbyCalls] /\ job[r].seen[p] \in Entity
  BY DEF TypeOK, ScoringTypeOK, LobbyTypeOK, DataTypeOK, TableTypeOK, Jobs
<1>2. credited' = [credited EXCEPT ![r] = @ \cup {p}] /\ p \notin credited[r]
  BY DEF Credit, CreditedOnce
<1>3. total' = [total EXCEPT ![p] = job[r].seen[p].score + 1]
  BY <1>1 DEF Credit, SaveClient, Entity
<1>4. \A s \in RoundNumbers : job'[s].seen = job[s].seen
  BY <1>1 DEF Credit, Jobs
<1>5. /\ Cardinality(Credits(p)') = Cardinality(Credits(p)) + 1
      /\ \A q \in Players \ {p} : Credits(q)' = Credits(q)
  BY <1>2, CreditAdded
<1>6. Cardinality(Credits(p)) \in Nat
  BY CreditsFinite
<1>7. ASSUME NEW q \in Players \ {p}
      PROVE  /\ Covered(q, total[q])'
             /\ Covered(q, lobby[q].entity.score)'
             /\ \A s \in RoundNumbers : Covered(q, job[s].seen[q].score)'
  <2>1. total'[q] = total[q] /\ Credits(q)' = Credits(q)
    BY <1>1, <1>3, <1>5
  <2>2. QED
    BY <1>4, <2>1 DEF ScoresCovered, Covered
<1>8. /\ Covered(p, total[p])'
      /\ Covered(p, lobby[p].entity.score)'
      /\ \A s \in RoundNumbers : Covered(p, job[s].seen[p].score)'
  <2>1. /\ job[r].seen[p].score \in Nat /\ lobby[p].entity.score \in Nat
        /\ \A s \in RoundNumbers : job[s].seen[p].score \in Nat
    BY <1>1 DEF Jobs, LobbyCalls, Entity
  <2>2. total'[p] = job[r].seen[p].score + 1
    BY <1>1, <1>3
  <2>3. QED
    BY <1>4, <1>5, <1>6, <2>1, <2>2 DEF ScoresCovered, Covered
<1>9. QED
  BY <1>7, <1>8 DEF ScoresCovered

LEMMA ScoresCoveredKept ==
  TypeOK /\ CreditedOnce /\ ScoresCovered /\ [Next]_vars => ScoresCovered'
<1> SUFFICES ASSUME TypeOK, CreditedOnce, ScoresCovered, [Next]_vars
             PROVE  ScoresCovered'
  OBVIOUS
<1>1. /\ job \in [RoundNumbers -> Jobs]
  BY DEF TypeOK, ScoringTypeOK
<1>2. CASE UNCHANGED <<total, lobby, job, credited>>
  BY <1>2, NoScoreGrows
<1>3. CASE CloseRound /\ round \in RoundNumbers /\ UNCHANGED <<total, lobby>>
  <2>1. /\ UNCHANGED credited
        /\ \A r \in RoundNumbers : \A p \in Players :
             job'[r].seen[p] \in {NoEntity, job[r].seen[p]}
    BY <1>1, <1>3 DEF CloseRound, StartJob, JobAt
  <2>2. QED
    BY <1>3, <2>1, NoScoreGrows DEF NoEntity
<1>4. ASSUME NEW sav, EndQuestion(sav), UNCHANGED <<total, lobby>>
      PROVE  ScoresCovered'
  <2>1. round \in RoundNumbers
    BY <1>4 DEF EndQuestion, TypeOK, RoundUnderway
  <2>2. QED
    BY <1>2, <1>3, <1>4, <2>1 DEF EndQuestion, scoringVars
<1>5. CASE Engine \/ Countdown
  BY <1>2, <1>4, <1>5
     DEF Engine, EngineStep, ShowQuestion, SkipQuestion, EngineThrows, FinishGame,
         Countdown, PhaseExpires, QuestionExpires, DropWindow, scoringVars,
         lobbyVars, dataVars, tableVars
<1>6. CASE FinalizeTimesOut \/ ScoreTimesOut
  BY <1>2, <1>3, <1>6
     DEF FinalizeTimesOut, ScoreTimesOut, TypeOK, RoundUnderway, scoringVars,
         lobbyVars, dataVars, tableVars
<1>7. ASSUME NEW r \in RoundNumbers, NEW p \in Players,
             \/ PlayerSubmits(p, r) \/ PlayerProgresses(p, r)
             \/ SubmissionSaved(p, r) \/ SubmissionDuplicate(p, r)
             \/ SubmissionThrows(p, r)
             \/ SnapshotSaved(p, r) \/ SnapshotThrows(p, r)
      PROVE  ScoresCovered'
  <2>1. UNCHANGED <<total, lobby>>
    BY <1>7
       DEF PlayerSubmits, PlayerProgresses, SubmissionSaved, SubmissionDuplicate,
           SubmissionThrows, SnapshotSaved, SnapshotThrows, InsertAnswer,
           InsertThrows, lobbyVars, dataVars, tableVars
  <2>2. QED
    BY <1>2, <1>3, <1>4, <1>7, <2>1
       DEF PlayerSubmits, PlayerProgresses, SubmissionSaved, SubmissionDuplicate,
           SubmissionThrows, SnapshotSaved, SnapshotThrows, ContinueFinalize,
           scoringVars, TypeOK, RoundUnderway
<1>8. ASSUME NEW r \in RoundNumbers, JobStep(r) \/ JobEnds(r)
      PROVE  ScoresCovered'
  <2>1. UNCHANGED lobby
    BY <1>8 DEF JobStep, JobEnds, lobbyVars
  <2>2. CASE \E p \in Players : Credit(r, p)
    BY <2>1, <2>2, CreditScores
  <2>3. CASE ~\E p \in Players : Credit(r, p)
    BY <1>8, <2>1, <2>3, JobScores, NoScoreGrows DEF JobStep
  <2>4. QED
    BY <2>2, <2>3
<1>9. ASSUME NEW p \in Players, Lobby(p) PROVE ScoresCovered'
  <2>1. UNCHANGED <<job, credited>>
    BY <1>9
       DEF Lobby, SocketDrops, MarkOffline, PlayerReturns, MarkOnline, PlayerLeaves,
           RemoveLeaver, CheckAbandoned, ExpireGrace, BeginCall, ContinueCall,
           Abort, DropWindow, scoringVars
  <2>2. QED
    BY <1>9, <2>1, LobbyScores, NoScoreGrows
<1>10. CASE UNCHANGED vars
  BY <1>2, <1>10 DEF vars, scoringVars, lobbyVars, dataVars, tableVars
<1>11. QED
  BY <1>5, <1>6, <1>7, <1>8, <1>9, <1>10 DEF Next

(* A player's score never exceeds the rounds that credited it, although both the
   lobby and the scoring save whole entities they read a while ago. *)
THEOREM ScoresAreEarned == Spec => []NoOverCredit
<1>1. Init => JobsInStep /\ CreditsFollowRoster /\ CreditedOnce /\ ScoresCovered
  <2> SUFFICES ASSUME Init
               PROVE  /\ JobsInStep /\ CreditsFollowRoster /\ CreditedOnce
                      /\ ScoresCovered
    OBVIOUS
  <2>1. JobsInStep /\ CreditsFollowRoster /\ CreditedOnce
    BY DEF Init, ScoringInit, JobAt, JobsInStep, CreditsFollowRoster, CreditedOnce
  <2>2. \A p \in Players :
          /\ total[p] = 0 /\ lobby[p].entity.score = 0
          /\ \A r \in RoundNumbers : job[r].seen[p].score = 0
    BY DEF Init, ScoringInit, DataInit, JobAt, Idle, NoEntity
  <2>3. QED
    BY <2>1, <2>2, CreditsFinite DEF ScoresCovered
<1>2. ScoresCovered => NoOverCredit
  BY DEF ScoresCovered, Covered, Credits, NoOverCredit
<1>3. QED
  BY <1>1, <1>2, TypeCorrect, JobsInStepKept, CreditsFollowRosterKept,
     CreditedOnceKept, ScoresCoveredKept, PTL DEF Spec

-------------------------------------------------------------------------------
(* Progress. *)

\* No query has failed, and no await has been given up.
Untroubled == overdue = {} /\ faults = MaxFaults

(* A player without a row has been removed. *)
GoneAreNoted == Players \subseteq roster \cup removed

(* The strengthening: a snapshot the loop has passed is among the submissions,
   unless its player is gone; and while a question runs there is a window. *)
VisitedKept ==
  Untroubled =>
    /\ \A r \in RoundNumbers : visited[r] \subseteq submitted[r] \cup removed
    /\ pc = "question" => window = round

LEMMA GoneAreNotedKept ==
  TypeOK /\ GoneAreNoted /\ [Next]_vars => GoneAreNoted'
<1> SUFFICES ASSUME TypeOK, GoneAreNoted, [Next]_vars PROVE GoneAreNoted'
  OBVIOUS
<1>1. CASE roster \cup removed \subseteq roster' \cup removed'
  BY <1>1 DEF GoneAreNoted
<1>2. CASE UNCHANGED dataVars
  BY <1>1, <1>2 DEF dataVars, tableVars
<1>3. CASE Engine \/ Countdown \/ FinalizeTimesOut \/ ScoreTimesOut
  BY <1>1, <1>3
     DEF Engine, EngineStep, ShowQuestion, SkipQuestion, EngineThrows, FinishGame,
         Countdown, PhaseExpires, QuestionExpires, FinalizeTimesOut, ScoreTimesOut,
         dataVars, tableVars
<1>4. ASSUME NEW r \in RoundNumbers, NEW p \in Players,
             \/ PlayerSubmits(p, r) \/ PlayerProgresses(p, r)
             \/ SubmissionSaved(p, r) \/ SubmissionDuplicate(p, r)
             \/ SubmissionThrows(p, r)
             \/ SnapshotSaved(p, r) \/ SnapshotThrows(p, r)
      PROVE  GoneAreNoted'
  BY <1>1, <1>2, <1>4
     DEF PlayerSubmits, PlayerProgresses, SubmissionSaved, SubmissionDuplicate,
         SubmissionThrows, SnapshotSaved, SnapshotThrows, InsertAnswer, InsertThrows
<1>5. ASSUME NEW r \in RoundNumbers, JobStep(r) \/ JobEnds(r) PROVE GoneAreNoted'
  BY <1>1, <1>2, <1>5
     DEF JobStep, JobEnds, ReadRows, ReadRoster, ScoreRow, Credit, SaveClient,
         FinishJob, JobThrows, tableVars
<1>6. ASSUME NEW p \in Players, Lobby(p) PROVE GoneAreNoted'
  BY <1>1, <1>2, <1>6
     DEF Lobby, SocketDrops, MarkOffline, PlayerReturns, MarkOnline, PlayerLeaves,
         RemoveLeaver, CheckAbandoned, ExpireGrace, BeginCall, SaveClient,
         RemoveClient, tableVars
<1>7. CASE UNCHANGED vars
  BY <1>2, <1>7 DEF vars
<1>8. QED
  BY <1>3, <1>4, <1>5, <1>6, <1>7 DEF Next

\* Failures are never taken back.
LEMMA NoFault ==
  ASSUME TypeOK, [Next]_vars, Untroubled'
  PROVE  Untroubled /\ ~Fail
<1>0. overdue = {}
  BY NotOverdue DEF Untroubled
<1>1. faults \in 0..MaxFaults /\ MaxFaults \in Nat
  BY GameAssumption DEF TypeOK, DataTypeOK
<1>2. CASE faults' = faults
  BY <1>0, <1>1, <1>2 DEF Untroubled, Fail
<1>3. CASE Fail
  BY <1>0, <1>1, <1>3 DEF Untroubled, Fail
<1>4. CASE Engine \/ Countdown \/ FinalizeTimesOut \/ ScoreTimesOut
  BY <1>2, <1>3, <1>4
     DEF Engine, EngineStep, ShowQuestion, SkipQuestion, EngineThrows, FinishGame,
         Countdown, PhaseExpires, QuestionExpires, FinalizeTimesOut, ScoreTimesOut,
         dataVars
<1>5. ASSUME NEW r \in RoundNumbers, NEW p \in Players,
             \/ PlayerSubmits(p, r) \/ PlayerProgresses(p, r)
             \/ SubmissionSaved(p, r) \/ SubmissionDuplicate(p, r)
             \/ SubmissionThrows(p, r)
             \/ SnapshotSaved(p, r) \/ SnapshotThrows(p, r)
      PROVE  Untroubled /\ ~Fail
  BY <1>2, <1>3, <1>5
     DEF PlayerSubmits, PlayerProgresses, SubmissionSaved, SubmissionDuplicate,
         SubmissionThrows, SnapshotSaved, SnapshotThrows, InsertAnswer, InsertThrows,
         dataVars
<1>6. ASSUME NEW r \in RoundNumbers, JobStep(r) \/ JobEnds(r)
      PROVE  Untroubled /\ ~Fail
  BY <1>2, <1>3, <1>6
     DEF JobStep, JobEnds, ReadRows, ReadRoster, ScoreRow, Credit, FinishJob,
         JobThrows, dataVars
<1>7. ASSUME NEW p \in Players, Lobby(p) PROVE Untroubled /\ ~Fail
  BY <1>2, <1>7
     DEF Lobby, SocketDrops, MarkOffline, PlayerReturns, MarkOnline, PlayerLeaves,
         RemoveLeaver, CheckAbandoned, ExpireGrace, BeginCall, ContinueCall, dataVars
<1>8. CASE UNCHANGED vars
  BY <1>2, <1>8 DEF vars, dataVars
<1>9. QED
  BY <1>4, <1>5, <1>6, <1>7, <1>8 DEF Next

\* What the question's end and the loop over the snapshots leave behind.
LEMMA SnapshotsVisited ==
  ASSUME TypeOK, NEW r \in RoundNumbers, NEW sub \in SUBSET Players, NEW sav,
         NEW gone,
         \A s \in RoundNumbers : visited[s] \subseteq submitted[s] \cup gone,
         visited[r] \subseteq sub \cup gone,
         \/ \E p \in Players : NextSnapshot(r, p, sub, visited[r], sav)
         \/ LastSnapshot(r, sub, visited[r], sav)
  PROVE  \A s \in RoundNumbers : visited'[s] \subseteq submitted'[s] \cup gone
<1>1. /\ visited \in [RoundNumbers -> SUBSET Players]
      /\ submitted \in [RoundNumbers -> SUBSET Players]
  BY DEF TypeOK, AnswerTypeOK
<1>2. PICK new :
        /\ submitted' = [submitted EXCEPT ![r] = sub \cup new]
        /\ visited' = [visited EXCEPT ![r] = visited[r] \cup new]
  <2>1. CASE LastSnapshot(r, sub, visited[r], sav)
    <3>1. /\ submitted' = [submitted EXCEPT ![r] = sub \cup {}]
          /\ visited' = [visited EXCEPT ![r] = visited[r] \cup {}]
      BY <2>1 DEF LastSnapshot
    <3>2. QED
      BY <3>1
  <2>2. ASSUME NEW p \in Players, NextSnapshot(r, p, sub, visited[r], sav)
        PROVE  /\ submitted' = [submitted EXCEPT ![r] = sub \cup {p}]
               /\ visited' = [visited EXCEPT ![r] = visited[r] \cup {p}]
    BY <2>2 DEF NextSnapshot
  <2>3. QED
    BY <2>1, <2>2
<1>3. QED
  BY <1>1, <1>2

LEMMA EndQuestionVisited ==
  ASSUME TypeOK, VisitedKept, Untroubled, NEW sav, EndQuestion(sav),
         UNCHANGED removed
  PROVE  VisitedKept'
<1>1. /\ pc = "question" /\ round \in RoundNumbers
      /\ submitted[round] \in SUBSET Players
      /\ \A s \in RoundNumbers : visited[s] \subseteq submitted[s] \cup removed
  BY DEF EndQuestion, TypeOK, RoundUnderway, AnswerTypeOK, VisitedKept
<1>2. pc' # "question"
  BY DEF EndQuestion, CloseRound, Goto
<1>3. CASE UNCHANGED <<submitted, visited>>
  BY <1>1, <1>2, <1>3 DEF VisitedKept
<1>4. \A s \in RoundNumbers : visited'[s] \subseteq submitted'[s] \cup removed
  BY <1>1, <1>3, SnapshotsVisited DEF EndQuestion
<1>5. QED
  BY <1>2, <1>4 DEF VisitedKept

LEMMA SnapshotVisited ==
  ASSUME TypeOK, GoneAreNoted, OneSnapshot, VisitedKept, Untroubled, ~Fail,
         NEW r \in RoundNumbers, NEW p \in Players,
         SnapshotSaved(p, r) \/ SnapshotThrows(p, r)
  PROVE  VisitedKept'
<1>1. /\ submitted \in [RoundNumbers -> SUBSET Players]
      /\ \A s \in RoundNumbers : visited[s] \subseteq submitted[s] \cup removed
  BY DEF TypeOK, AnswerTypeOK, VisitedKept
<1>2. removed' = removed
  BY DEF SnapshotSaved, SnapshotThrows, InsertAnswer, InsertThrows, dataVars, tableVars
<1>3. pc' # "question"
  BY DEF SnapshotSaved, SnapshotThrows, OneSnapshot, ContinueFinalize, CloseRound,
         Goto, engineVars, Untroubled
<1>4. PICK sub \in SUBSET Players :
        ContinueFinalize(p, r, sub) /\ visited[r] \subseteq sub \cup removed
  <2>1. CASE SnapshotSaved(p, r)
    BY <1>1, <2>1 DEF SnapshotSaved
  <2>2. CASE SnapshotThrows(p, r)
    <3>1. p \in removed
      BY <2>2 DEF SnapshotThrows, InsertThrows, GoneAreNoted
    <3>2. /\ ContinueFinalize(p, r, submitted[r] \ {p})
          /\ submitted[r] \ {p} \in SUBSET Players
      BY <1>1, <2>2 DEF SnapshotThrows
    <3>3. visited[r] \subseteq (submitted[r] \ {p}) \cup removed
      BY <1>1, <3>1
    <3>4. QED
      BY <3>2, <3>3
  <2>3. QED
    BY <2>1, <2>2
<1>5. \A s \in RoundNumbers : visited'[s] \subseteq submitted'[s] \cup removed
  BY <1>1, <1>4, SnapshotsVisited DEF ContinueFinalize
<1>6. QED
  BY <1>2, <1>3, <1>5 DEF VisitedKept

LEMMA SubmissionVisited ==
  ASSUME TypeOK, GoneAreNoted, VisitedKept, Untroubled, ~Fail,
         NEW r \in RoundNumbers, NEW p \in Players,
         \/ PlayerSubmits(p, r) \/ PlayerProgresses(p, r)
         \/ SubmissionSaved(p, r) \/ SubmissionDuplicate(p, r)
         \/ SubmissionThrows(p, r)
  PROVE  VisitedKept'
<1>1. /\ visited \in [RoundNumbers -> SUBSET Players]
      /\ submitted \in [RoundNumbers -> SUBSET Players]
      /\ \A s \in RoundNumbers : visited[s] \subseteq submitted[s] \cup removed
      /\ pc = "question" => window = round
  BY DEF TypeOK, AnswerTypeOK, VisitedKept
<1>2. removed' = removed
  BY DEF PlayerSubmits, PlayerProgresses, SubmissionSaved, SubmissionDuplicate,
         SubmissionThrows, InsertAnswer, InsertThrows, dataVars, tableVars
<1>3. CASE UNCHANGED <<submitted, visited, window, engineVars>>
  BY <1>1, <1>2, <1>3 DEF VisitedKept, engineVars
<1>4. CASE PlayerSubmits(p, r)
  <2>1. submitted' = [submitted EXCEPT ![r] = @ \cup {p}]
    BY <1>4 DEF PlayerSubmits, Submit, AddTo
  <2>2. UNCHANGED <<visited, window, engineVars>>
    BY <1>4 DEF PlayerSubmits, Submit
  <2>3. \A s \in RoundNumbers : visited'[s] \subseteq submitted'[s] \cup removed
    BY <1>1, <2>1, <2>2
  <2>4. QED
    BY <1>1, <1>2, <2>2, <2>3 DEF VisitedKept, engineVars
<1>5. CASE SubmissionThrows(p, r)
  <2>1. p \in removed
    BY <1>5 DEF SubmissionThrows, InsertThrows, GoneAreNoted
  <2>2. /\ submitted' = [submitted EXCEPT ![r] = @ \ {p}]
        /\ \/ visited' = visited
           \/ visited' = [visited EXCEPT ![r] = @ \cup {p}]
        /\ UNCHANGED <<window, engineVars>>
    BY <1>5 DEF SubmissionThrows, ForgetSubmission, RemoveFrom, AddTo
  <2>3. \A s \in RoundNumbers : visited'[s] \subseteq submitted'[s] \cup removed
    BY <1>1, <2>1, <2>2
  <2>4. QED
    BY <1>1, <1>2, <2>2, <2>3 DEF VisitedKept, engineVars
<1>6. QED
  BY <1>2, <1>3, <1>4, <1>5, EndQuestionVisited
     DEF PlayerProgresses, Progress, SubmissionSaved, SubmissionDuplicate

LEMMA VisitedKeptStep ==
  /\ TypeOK /\ OneSnapshot /\ WindowOpenOnlyInQuestion /\ GoneAreNoted
  /\ VisitedKept /\ [Next]_vars
  => VisitedKept'
<1> SUFFICES ASSUME TypeOK, OneSnapshot, WindowOpenOnlyInQuestion, GoneAreNoted,
                    VisitedKept, [Next]_vars, Untroubled'
             PROVE  VisitedKept'
  BY DEF VisitedKept
<1>1. Untroubled /\ ~Fail
  BY NoFault
<1>2. /\ \A s \in RoundNumbers : visited[s] \subseteq submitted[s] \cup removed
      /\ pc = "question" => window = round
  BY <1>1 DEF VisitedKept
<1>3. CASE /\ UNCHANGED <<submitted, visited>> /\ removed \subseteq removed'
           /\ pc' = "question" => window' = round'
  <2>1. \A s \in RoundNumbers : visited'[s] \subseteq submitted'[s] \cup removed'
    BY <1>2, <1>3
  <2>2. QED
    BY <1>3, <2>1 DEF VisitedKept
<1>4. CASE UNCHANGED <<submitted, visited, removed>> /\ pc' # "question"
  BY <1>3, <1>4
<1>5. CASE UNCHANGED <<submitted, visited, removed, window, engineVars>>
  BY <1>2, <1>3, <1>5 DEF engineVars
<1>6. CASE Engine
  <2>1. CASE ShowQuestion
    BY <1>3, <2>1 DEF ShowQuestion, Goto, dataVars, tableVars
  <2>2. CASE EngineStep \/ EngineThrows \/ FinishGame
    BY <1>4, <2>2
       DEF EngineStep, EngineThrows, FinishGame, NextRound, DropWindow, Goto,
           answerVars, dataVars, tableVars
  <2>3. QED
    BY <1>1, <1>6, <2>1, <2>2 DEF Engine, SkipQuestion
<1>7. CASE Countdown
  <2>1. CASE PhaseExpires
    BY <1>4, <2>1
       DEF PhaseExpires, NextRound, Goto, answerVars, dataVars, tableVars
  <2>2. CASE QuestionExpires
    BY <1>1, <2>2, EndQuestionVisited DEF QuestionExpires, dataVars, tableVars
  <2>3. QED
    BY <1>7, <2>1, <2>2 DEF Countdown
<1>8. CASE FinalizeTimesOut \/ ScoreTimesOut
  BY <1>1, <1>8 DEF FinalizeTimesOut, ScoreTimesOut, Untroubled
<1>9. ASSUME NEW r \in RoundNumbers, NEW p \in Players,
             \/ PlayerSubmits(p, r) \/ PlayerProgresses(p, r)
             \/ SubmissionSaved(p, r) \/ SubmissionDuplicate(p, r)
             \/ SubmissionThrows(p, r)
             \/ SnapshotSaved(p, r) \/ SnapshotThrows(p, r)
      PROVE  VisitedKept'
  BY <1>1, <1>9, SubmissionVisited, SnapshotVisited
<1>10. ASSUME NEW r \in RoundNumbers, JobStep(r) \/ JobEnds(r) PROVE VisitedKept'
  <2>1. UNCHANGED <<submitted, visited, window, removed>>
    BY <1>10 DEF JobStep, JobEnds, ReadRows, ReadRoster, ScoreRow, Credit,
                 SaveClient, FinishJob, JobThrows, answerVars, dataVars, tableVars
  <2>2. UNCHANGED engineVars \/ pc' # "question"
    BY <1>10 DEF JobStep, JobEnds, Goto
  <2>3. QED
    BY <1>4, <1>5, <2>1, <2>2
<1>11. ASSUME NEW p \in Players, Lobby(p) PROVE VisitedKept'
  <2>1. CASE CheckAbandoned(p)
    BY <1>4, <1>5, <2>1
       DEF CheckAbandoned, Abort, NextRound, DropWindow, Timed, answerVars,
           engineVars, dataVars, tableVars
  <2>2. CASE ~CheckAbandoned(p)
    <3>1. UNCHANGED <<answerVars, engineVars>> /\ removed \subseteq removed'
      BY <1>11, <2>2
         DEF Lobby, SocketDrops, MarkOffline, PlayerReturns, MarkOnline,
             PlayerLeaves, RemoveLeaver, ExpireGrace, BeginCall, ContinueCall,
             SaveClient, RemoveClient, tableVars
    <3>2. QED
      BY <1>2, <1>3, <3>1 DEF answerVars, engineVars
  <2>3. QED
    BY <2>1, <2>2
<1>12. CASE UNCHANGED vars
  BY <1>5, <1>12 DEF vars, answerVars, dataVars, tableVars
<1>13. QED
  BY <1>6, <1>7, <1>8, <1>9, <1>10, <1>11, <1>12 DEF Next

\* An answer that is there to be scored, on its way there, or gone for good.
Kept(p, r) == p \in rows[r] \cup removed \/ saving[r][p] = "submit"

\* The round is closed once nothing of its progress is left to be saved: then
\* all of it is among the submissions, and none of it is only being saved.
LEMMA ClosingKeeps ==
  ASSUME TypeOK', OneSnapshot', SubmittedIsStored', VisitedKept', Untroubled',
         NEW r \in RoundNumbers, NEW sub, NEW vis, NEW sav,
         LastSnapshot(r, sub, vis, sav), UNCHANGED progress, pc' # "finalizing"
  PROVE  \A p \in progress'[r] : Kept(p, r)'
<1> SUFFICES ASSUME NEW p \in progress'[r] PROVE Kept(p, r)'
  OBVIOUS
<1>1. /\ submitted' \in [RoundNumbers -> SUBSET Players]
      /\ visited' \in [RoundNumbers -> SUBSET Players]
      /\ progress' \in [RoundNumbers -> SUBSET Players]
      /\ saving' \in [RoundNumbers -> [Players -> SaveKinds]]
  BY DEF TypeOK, AnswerTypeOK
<1>2. p \in sub \cup vis
  BY DEF LastSnapshot, Unsaved
<1>3. sub \subseteq submitted'[r] /\ vis \subseteq visited'[r]
  <2>1. submitted' = [submitted EXCEPT ![r] = sub]
    BY DEF LastSnapshot
  <2>2. visited' = [visited EXCEPT ![r] = vis]
    BY DEF LastSnapshot
  <2>3. DOMAIN submitted = RoundNumbers /\ DOMAIN visited = RoundNumbers
    BY <1>1, <2>1, <2>2
  <2>4. submitted'[r] = sub
    BY <2>1, <2>3
  <2>5. visited'[r] = vis
    BY <2>2, <2>3
  <2>6. QED
    BY <2>4, <2>5
<1>4. p \in submitted'[r] \cup removed'
  BY <1>2, <1>3 DEF VisitedKept
<1>5. p \in Players /\ saving'[r][p] # "snapshot"
  BY <1>1 DEF OneSnapshot, Untroubled
<1>6. saving'[r][p] \in {"none", "submit"}
  BY <1>1, <1>5 DEF SaveKinds
<1>7. QED
  BY <1>4, <1>6 DEF Kept, SubmittedIsStored

\* A round whose scoring was begun keeps its progress as it is, and what was
\* kept of it is kept.
LEMMA ClosedRoundKeeps ==
  ASSUME TypeOK, JobsInStep, WindowOpenOnlyInQuestion, OneSnapshot, GoneAreNoted,
         Untroubled, Untroubled', ~Fail, [Next]_vars,
         NEW r \in RoundNumbers, job[r].at # "idle", NEW p \in progress'[r]
  PROVE  p \in progress[r] /\ (Kept(p, r) => Kept(p, r)')
<1> DEFINE Same == p \in progress[r] /\ (Kept(p, r) => Kept(p, r)')
<1>1. /\ progress \in [RoundNumbers -> SUBSET Players]
      /\ saving \in [RoundNumbers -> [Players -> SaveKinds]]
      /\ rows \in [RoundNumbers -> SUBSET Players]
  BY DEF TypeOK, AnswerTypeOK, DataTypeOK, TableTypeOK
<1>2. /\ window # r
      /\ pc \in {"question", "finalizing"} => round # r
  BY DEF JobsInStep, WindowOpenOnlyInQuestion, Ahead, RoundNumbers, NoRound
<1>3. CASE UNCHANGED <<progress, saving, rows, removed>>
  BY <1>3 DEF Kept
<1>4. CASE Engine
  BY <1>3, <1>4
     DEF Engine, EngineStep, ShowQuestion, SkipQuestion, EngineThrows, FinishGame,
         DropWindow, answerVars, dataVars, tableVars
<1>5. ASSUME NEW sav \in Savings, EndQuestion(sav), sav[r] = saving[r]
      PROVE  saving'[r] = saving[r]
  <2>1. round # r
    BY <1>2, <1>5 DEF EndQuestion
  <2>2. \/ saving' = sav
        \/ \E q \in Players : saving' = [sav EXCEPT ![round][q] = "snapshot"]
    BY <1>5 DEF EndQuestion, NextSnapshot, LastSnapshot
  <2>3. QED
    BY <1>5, <2>1, <2>2 DEF Savings
<1>6. CASE Countdown
  <2>1. CASE QuestionExpires
    BY <1>1, <1>5, <2>1 DEF QuestionExpires, Kept, Savings, dataVars, tableVars
  <2>2. QED
    BY <1>3, <1>6, <2>1
       DEF Countdown, PhaseExpires, answerVars, dataVars, tableVars
<1>7. CASE FinalizeTimesOut \/ ScoreTimesOut
  BY <1>7 DEF FinalizeTimesOut, ScoreTimesOut, Untroubled
<1>8. ASSUME NEW s \in RoundNumbers, NEW q \in Players,
             \/ PlayerSubmits(q, s) \/ PlayerProgresses(q, s)
      PROVE  Same
  <2>1. s # r
    BY <1>2, <1>8 DEF PlayerSubmits, Submit, PlayerProgresses, Progress
  <2>2. progress'[r] = progress[r] /\ saving'[r] = saving[r]
    BY <1>1, <1>8, <2>1
       DEF PlayerSubmits, Submit, PlayerProgresses, Progress, AddTo
  <2>3. UNCHANGED <<rows, removed>>
    BY <1>8 DEF PlayerSubmits, PlayerProgresses, dataVars, tableVars
  <2>4. QED
    BY <2>2, <2>3 DEF Kept
<1>9. ASSUME NEW s \in RoundNumbers, NEW q \in Players,
             SubmissionSaved(q, s) \/ SubmissionDuplicate(q, s)
             \/ SubmissionThrows(q, s)
      PROVE  Same
  <2>1. /\ progress' = progress /\ removed' = removed
        /\ rows[r] \subseteq rows'[r]
        /\ r = s => q \in rows'[r] \cup removed
    BY <1>1, <1>9
       DEF SubmissionSaved, SubmissionDuplicate, SubmissionThrows, InsertAnswer,
           InsertThrows, ForgetSubmission, AddTo, dataVars, tableVars, GoneAreNoted
  <2>2. p \in Players
    BY <1>1, <2>1
  <2>3. \A t \in Players : r # s \/ t # q => Settled(q, s)[r][t] = saving[r][t]
    BY <1>1 DEF Settled
  <2>4. saving'[r] = Settled(q, s)[r]
    <3>1. CASE saving' = Settled(q, s)
      BY <3>1
    <3>2. CASE EndQuestion(Settled(q, s))
      <4>1. round # r /\ Settled(q, s) \in Savings
        BY <1>2, <1>1, <3>2 DEF EndQuestion, Settled, Savings, SaveKinds
      <4>2. \/ saving' = Settled(q, s)
            \/ \E t \in Players :
                 saving' = [Settled(q, s) EXCEPT ![round][t] = "snapshot"]
        BY <3>2 DEF EndQuestion, NextSnapshot, LastSnapshot
      <4>3. QED
        BY <4>1, <4>2 DEF Savings
    <3>3. QED
      BY <1>9, <3>1, <3>2
         DEF SubmissionSaved, SubmissionDuplicate, SubmissionThrows, ForgetSubmission
  <2>5. QED
    BY <2>1, <2>2, <2>3, <2>4 DEF Kept
<1>10. ASSUME NEW s \in RoundNumbers, NEW q \in Players,
              SnapshotSaved(q, s) \/ SnapshotThrows(q, s)
       PROVE  Same
  <2>1. s # r
    BY <1>2, <1>10 DEF SnapshotSaved, SnapshotThrows, OneSnapshot, Untroubled
  <2>2. progress' = progress /\ removed' = removed /\ rows'[r] = rows[r]
    BY <1>1, <1>10, <2>1
       DEF SnapshotSaved, SnapshotThrows, InsertAnswer, InsertThrows, AddTo,
           dataVars, tableVars
  <2>3. \/ saving' = Settled(q, s)
        \/ \E t \in Players : saving' = [Settled(q, s) EXCEPT ![s][t] = "snapshot"]
    BY <1>10 DEF SnapshotSaved, SnapshotThrows, ContinueFinalize, NextSnapshot,
                 LastSnapshot
  <2>4. saving'[r] = saving[r]
    BY <1>1, <2>1, <2>3 DEF Settled
  <2>5. QED
    BY <2>2, <2>4 DEF Kept
<1>11. ASSUME NEW s \in RoundNumbers, JobStep(s) \/ JobEnds(s) PROVE Same
  <2>1. UNCHANGED <<progress, saving, removed>>
    BY <1>11 DEF JobStep, JobEnds, ReadRows, ReadRoster, ScoreRow, Credit,
                 SaveClient, FinishJob, JobThrows, answerVars, dataVars, tableVars
  <2>2. rows[r] \subseteq rows'[r]
    BY <1>1, <1>11
       DEF JobStep, JobEnds, ReadRows, ReadRoster, ScoreRow, Credit, SaveClient,
           FinishJob, JobThrows, dataVars, tableVars
  <2>3. QED
    BY <2>1, <2>2 DEF Kept
<1>12. ASSUME NEW q \in Players, Lobby(q) PROVE Same
  <2>1. UNCHANGED <<progress, saving>>
    BY <1>12
       DEF Lobby, SocketDrops, MarkOffline, PlayerReturns, MarkOnline, PlayerLeaves,
           RemoveLeaver, CheckAbandoned, ExpireGrace, BeginCall, ContinueCall,
           Abort, DropWindow, answerVars
  <2>2. rows[r] \cup removed \subseteq rows'[r] \cup removed'
    BY <1>1, <1>12
       DEF Lobby, SocketDrops, MarkOffline, PlayerReturns, MarkOnline, PlayerLeaves,
           RemoveLeaver, CheckAbandoned, ExpireGrace, BeginCall, SaveClient,
           RemoveClient, dataVars, tableVars
  <2>3. QED
    BY <2>1, <2>2 DEF Kept
<1>13. CASE UNCHANGED vars
  BY <1>3, <1>13 DEF vars, answerVars, dataVars, tableVars
<1>14. QED
  BY <1>4, <1>6, <1>7, <1>8, <1>9, <1>10, <1>11, <1>12, <1>13 DEF Next

\* The scoring of a round is begun by the end of the loop over its snapshots.
LEMMA ClosedByLoop ==
  ASSUME TypeOK, OneSnapshot, VisitedKept, Untroubled, Untroubled', [Next]_vars,
         NEW r \in RoundNumbers, job[r].at = "idle", job'[r].at # "idle"
  PROVE  /\ \E sub, vis, sav : LastSnapshot(r, sub, vis, sav)
         /\ UNCHANGED progress /\ pc' # "finalizing"
<1>1. /\ job \in [RoundNumbers -> Jobs]
      /\ pc = "question" => window = round
  BY DEF TypeOK, ScoringTypeOK, VisitedKept
<1>2. ASSUME CloseRound PROVE r = round /\ pc' # "finalizing"
  BY <1>1, <1>2 DEF CloseRound, StartJob, Goto
<1>3. ASSUME NEW sav, EndQuestion(sav)
      PROVE  /\ \E sub, vis : LastSnapshot(r, sub, vis, sav)
             /\ pc' # "finalizing"
  BY <1>1, <1>2, <1>3 DEF EndQuestion, scoringVars
<1>4. CASE Engine \/ UNCHANGED vars
  BY <1>1, <1>4 DEF Engine, EngineStep, ShowQuestion, SkipQuestion, EngineThrows,
                    FinishGame, DropWindow, scoringVars, vars
<1>5. CASE Countdown
  BY <1>1, <1>3, <1>5 DEF Countdown, PhaseExpires, QuestionExpires, scoringVars
<1>6. CASE FinalizeTimesOut \/ ScoreTimesOut
  BY <1>6 DEF FinalizeTimesOut, ScoreTimesOut, Untroubled
<1>7. ASSUME NEW s \in RoundNumbers, NEW p \in Players,
             \/ PlayerSubmits(p, s) \/ PlayerProgresses(p, s)
             \/ SubmissionSaved(p, s) \/ SubmissionDuplicate(p, s)
             \/ SubmissionThrows(p, s)
      PROVE  /\ \E sub, vis, sav : LastSnapshot(r, sub, vis, sav)
             /\ UNCHANGED progress /\ pc' # "finalizing"
  BY <1>1, <1>3, <1>7
     DEF PlayerSubmits, PlayerProgresses, SubmissionSaved, SubmissionDuplicate,
         SubmissionThrows, scoringVars
<1>8. ASSUME NEW s \in RoundNumbers, NEW p \in Players,
             SnapshotSaved(p, s) \/ SnapshotThrows(p, s)
      PROVE  /\ \E sub, vis, sav : LastSnapshot(r, sub, vis, sav)
             /\ UNCHANGED progress /\ pc' # "finalizing"
  <2>1. progress' = progress
    BY <1>8 DEF SnapshotSaved, SnapshotThrows
  <2>2. PICK sub : ContinueFinalize(p, s, sub)
    BY <1>8 DEF SnapshotSaved, SnapshotThrows
  <2>3. /\ LastSnapshot(s, sub, visited[s], Settled(p, s))
        /\ CloseRound /\ s = round
    BY <1>1, <2>2 DEF ContinueFinalize, scoringVars
  <2>4. QED
    BY <1>2, <2>1, <2>3
<1>9. ASSUME NEW s \in RoundNumbers, JobStep(s) \/ JobEnds(s) PROVE FALSE
  <2>1. job'[s].at # "idle" => job[s].at # "idle"
    BY <1>1, <1>9 DEF JobStep, JobEnds, ReadRows, ReadRoster, ScoreRow, Credit,
                      FinishJob, JobThrows
  <2>2. \A t \in RoundNumbers \ {s} : job'[t] = job[t]
    BY <1>1, <1>9 DEF JobStep, JobEnds, ReadRows, ReadRoster, ScoreRow, Credit,
                      FinishJob, JobThrows
  <2>3. QED
    BY <2>1, <2>2
<1>10. ASSUME NEW p \in Players, Lobby(p) PROVE FALSE
  BY <1>1, <1>10
     DEF Lobby, SocketDrops, MarkOffline, PlayerReturns, MarkOnline, PlayerLeaves,
         RemoveLeaver, CheckAbandoned, ExpireGrace, BeginCall, ContinueCall,
         Abort, DropWindow, scoringVars
<1>11. QED
  BY <1>4, <1>5, <1>6, <1>7, <1>8, <1>9, <1>10 DEF Next

LEMMA ProgressKeptStep ==
  /\ TypeOK /\ JobsInStep /\ WindowOpenOnlyInQuestion /\ OneSnapshot /\ GoneAreNoted
  /\ VisitedKept /\ ProgressKept /\ [Next]_vars
  /\ TypeOK' /\ OneSnapshot' /\ SubmittedIsStored' /\ VisitedKept'
  => ProgressKept'
<1> SUFFICES ASSUME TypeOK, JobsInStep, WindowOpenOnlyInQuestion, OneSnapshot,
                    GoneAreNoted, VisitedKept, ProgressKept, [Next]_vars,
                    TypeOK', OneSnapshot', SubmittedIsStored', VisitedKept',
                    Untroubled',
                    NEW r \in RoundNumbers, job'[r].at # "idle",
                    NEW p \in progress'[r]
             PROVE  Kept(p, r)'
  BY DEF ProgressKept, Untroubled, Kept
<1>1. Untroubled /\ ~Fail
  BY NoFault
<1>2. CASE job[r].at # "idle"
  <2>1. p \in progress[r] /\ (Kept(p, r) => Kept(p, r)')
    BY <1>1, <1>2, ClosedRoundKeeps
  <2>2. Kept(p, r)
    BY <1>1, <1>2, <2>1 DEF ProgressKept, Untroubled, Kept
  <2>3. QED
    BY <2>1, <2>2
<1>3. CASE job[r].at = "idle"
  BY <1>1, <1>3, ClosedByLoop, ClosingKeeps
<1>4. QED
  BY <1>2, <1>3

(* Once a round is closed, every player that made progress in it has an answer
   to score, or one on its way, or has been removed: unless a query fails or an
   await is given up. *)
THEOREM ProgressIsScored == Spec => []ProgressKept
<1>1. Init => /\ JobsInStep /\ WindowOpenOnlyInQuestion /\ OneSnapshot
              /\ SubmittedIsStored /\ GoneAreNoted /\ VisitedKept /\ ProgressKept
  BY DEF Init, DataInit, AnswerInit, ScoringInit, JobAt, JobsInStep,
         WindowOpenOnlyInQuestion, OneSnapshot, SubmittedIsStored, GoneAreNoted,
         VisitedKept, ProgressKept
<1>2. Spec => []VisitedKept
  BY <1>1, TypeCorrect, OneSnapshotStep, WindowStep, GoneAreNotedKept,
     VisitedKeptStep, PTL DEF Spec
<1>3. QED
  BY <1>1, <1>2, TypeCorrect, SubmissionsStored, JobsInStepKept, WindowStep,
     OneSnapshotStep, GoneAreNotedKept, ProgressKeptStep, PTL DEF Spec
===============================================================================
