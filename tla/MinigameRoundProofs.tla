------------------------ MODULE MinigameRoundProofs -------------------------
(***************************************************************************)
(* Proofs about one minigame round for every airspace, dictionary, set of  *)
(* lights and time limit.                                                  *)
(*                                                                         *)
(* The invariant Inv has four parts.  Base is what the frames, the screen, *)
(* the rows and the puzzle are, and in what order the content and the      *)
(* ticks reach a phone.  LockOK: a phone has one answer under way, and is  *)
(* locked from handing it in until a refusal comes back.  HandedOK: the    *)
(* answer handed in is the one the phone shows.  More: what each game      *)
(* keeps besides, such as the guesses judged so far being a prefix of the  *)
(* next ones, or a plan in the air being the plan that was drawn.  A step  *)
(* of the phone and a step of the server each keep it by a lemma of their  *)
(* own (PhoneKeeps; BaseStays and its neighbours), and every action has a  *)
(* lemma that shows it is such a step.                                     *)
(***************************************************************************)
EXTENDS MinigameRound, SequenceTheorems, FiniteSetTheorems, TLAPS

-----------------------------------------------------------------------------
(* The types.  What a player may answer is of the game; a plan has routes.  *)

Maybe(S) == {s \in Seq(S) : Len(s) <= 1}

Boards == {b \in [Indexes -> Indexes] : ValidBoard(b)}
Guesses == {w \in Seq(Dictionary) : Len(w) \in 1..MaxTries}
Paths == [cells : Seq(Grid), complete : BOOLEAN]

\* A route of plane i: see RoutesAreFlyable.
IsRoute(i, path) ==
    /\ path.cells # <<>> /\ path.cells[1] = puzzle.planes[i].spawn
    /\ \A n \in 2..Len(path.cells) :
            path.cells[n] \in Around(path.cells[n - 1]) \ {path.cells[n - 1]}
    /\ path.complete => Last(path.cells) = puzzle.planes[i].goal

Plans ==
    {paths \in UNION {[P -> Paths] : P \in SUBSET Planes} :
        \A i \in DOMAIN paths : IsRoute(i, paths[i])}

Answers ==
    CASE game = "sliding-puzzle" -> Boards
      [] game = "light-switch" -> Seq(Switches)
      [] game = "vault-rush" -> Seq(Int)
      [] game = "wordle" -> Guesses
      [] game = "balance-scale" -> Nat
      [] game = "bonk-air" -> [isCurrent : BOOLEAN, solution : Plans]

Feedbacks == {Feedback(w, puzzle) : w \in Guesses}

UpFrames == [kind : {"progress", "submit"}, value : Answers]
Reasons == {"accepted", "already-answered", "window-closed", "server-error",
            "invalid-answer"}
DownFrames ==
    [kind : {"content"}, left : Nat, isStale : BOOLEAN]
    \cup [kind : {"tick"}, left : Nat]
    \cup [kind : {"ack"}, reason : Reasons]
    \cup [kind : {"reveal"}]
    \cup [kind : {"feedback"}, value : IF game = "wordle" THEN Feedbacks ELSE {}]

Times == 0..TimeLimit
Snapshots == [value : Answers, time : Times]
Saves == [value : Answers, time : Times, heard : BOOLEAN]

\* What is known of the puzzles, for playing them
PuzzleOK ==
    CASE game = "sliding-puzzle" -> puzzle \in Boards
      [] game = "light-switch" -> /\ puzzle.wiring \in [Switches -> SUBSET Lights]
                                  /\ puzzle.lights \in SUBSET Lights
                                  /\ puzzle.lights # Lights
      [] game = "vault-rush" -> puzzle.code \in Seq(Int) /\ Len(puzzle.code) = DigitCount
      [] game = "wordle" -> puzzle \in Dictionary
      [] game = "balance-scale" -> TRUE
      [] game = "bonk-air" -> \A i \in Planes : /\ puzzle.planes[i].spawn \in Grid
                                                /\ puzzle.planes[i].goal \in Grid

Strokes(paths) ==
    {d \in [plane : DOMAIN paths, prev : Maybe(Paths), moved : BOOLEAN] :
        /\ ~paths[d.plane].complete
        /\ d.prev # <<>> => IsRoute(d.plane, d.prev[1])}

FlightScreen(s) ==
    /\ DOMAIN s = {"phase", "paths", "drawing", "plan", "flight", "left"}
    /\ s.phase \in {"plan", "locked", "sim", "done"}
    /\ s.paths \in Plans
    /\ s.drawing \in Maybe(Strokes(s.paths))
    /\ s.plan \in Maybe(Plans)
    /\ s.left \in Nat

WordScreens ==
    [words : {<<>>} \cup Guesses, waiting : BOOLEAN, feedback : Maybe(Feedbacks), sent : Nat]

ScreenOK(s) ==
    CASE game = "sliding-puzzle" -> s \in [board : Boards]
      [] game = "light-switch" -> s \in [pressed : Seq(Switches),
                                         lights : SUBSET Lights, isSolved : BOOLEAN]
      [] game = "vault-rush" -> s \in [code : Seq(Int)]
      [] game = "wordle" -> s \in WordScreens
      [] game = "balance-scale" -> s \in [selected : Nat]
      [] game = "bonk-air" -> FlightScreen(s)

PhoneTypeOK ==
    /\ screen # <<>> => ScreenOK(screen)
    /\ submitted \in BOOLEAN /\ online \in BOOLEAN
    /\ seen \in {"playing", "reveal"}
    /\ up \in Seq(UpFrames)

ServerTypeOK ==
    /\ now \in Times /\ window \in {"open", "closed"}
    /\ progress \in Maybe(Snapshots) /\ row \in Maybe(Snapshots)
    /\ saving \in Maybe(Saves)
    /\ taken \in BOOLEAN /\ acked \in BOOLEAN

TypeOK ==
    /\ game \in Games /\ PuzzleOK
    /\ PhoneTypeOK /\ ServerTypeOK
    /\ down \in Seq(DownFrames)
    /\ lost \in BOOLEAN /\ faults \in Nat

\* Before the game is rendered, nothing has happened but seconds that passed.
Untouched ==
    /\ up = <<>> /\ ~submitted /\ online /\ ~lost
    /\ progress = <<>> /\ ~taken /\ saving = <<>> /\ row = <<>> /\ ~acked
    /\ \A n \in DOMAIN down : down[n].kind \in {"content", "tick", "reveal"}

\* The content comes first.
ContentIsFirst ==
    /\ screen = <<>> => Untouched
    /\ \A n \in DOMAIN down : down[n].kind = "content" => n = 1 /\ screen = <<>>

OfflineIsSilent ==
    ~online => up = <<>> /\ down = <<>> /\ \A i \in DOMAIN saving : ~saving[i].heard

Base == TypeOK /\ ContentIsFirst /\ OfflineIsSilent

-----------------------------------------------------------------------------
(* One answer at a time *)

IsUnlock(frame) ==
    frame.kind = "ack" /\ frame.reason \in {"server-error", "invalid-answer"}
SubmitIsUp == \E n \in DOMAIN up : up[n].kind = "submit"
UnlockIsDown == \E n \in DOMAIN down : IsUnlock(down[n])

SavesFollow ==
    /\ saving # <<>> => taken
    /\ taken => saving # <<>> \/ row # <<>>
    /\ acked => taken /\ row # <<>> /\ saving = <<>>

OneAnswer ==
    /\ \A n \in DOMAIN up : up[n].kind = "submit" =>
          n = Len(up) /\ submitted /\ ~taken /\ ~UnlockIsDown
    /\ taken => submitted /\ up = <<>> /\ ~UnlockIsDown
    /\ \A n, m \in DOMAIN down : IsUnlock(down[n]) =>
          submitted /\ (IsUnlock(down[m]) => n = m)
    /\ submitted /\ window = "open" => SubmitIsUp \/ taken \/ UnlockIsDown

LightsLock == (game = "light-switch" /\ screen # <<>> /\ submitted) => screen.isSolved
LockOK == SavesFollow /\ LightsLock /\ (~lost => OneAnswer)

\* What is handed in is what the phone shows, or in Guess the word, what the
\* server has judged.
Finishes(v) == GameState(v, puzzle) \in {"solved", "failed"}
WasJudged(w) == \E i \in DOMAIN progress : IsPrefix(w, progress[i].value)

Handed(v) ==
    CASE game = "sliding-puzzle" -> v = SolvedBoard
      [] game = "light-switch" -> screen.isSolved /\ v = screen.pressed
      [] game = "vault-rush" -> v = screen.code
      [] game = "wordle" -> Finishes(v) /\ WasJudged(v)
      [] game = "balance-scale" -> v = screen.selected
      [] game = "bonk-air" -> v.isCurrent => /\ v.solution = screen.paths
                                             /\ screen.drawing = <<>>

AnswersAreShown ==
    /\ \A n \in DOMAIN up : up[n].kind = "submit" =>
          Handed(up[n].value) /\ (faults = 0 => Valid(up[n].value))
    /\ \A i \in DOMAIN saving : Valid(saving[i].value) /\ Handed(saving[i].value)
    /\ acked => Valid(row[1].value) /\ Handed(row[1].value)
HandedOK == (screen # <<>> /\ ~lost) => AnswersAreShown

\* Without faults nothing is refused.
NoRefusal == (~lost /\ faults = 0) => ~UnlockIsDown

SlideOK ==
    (game = "sliding-puzzle" /\ screen # <<>> /\ ~lost /\ window = "open") =>
        LET board == screen.board
            kept == progress # <<>> /\ progress[1].value = board
        IN  IF up = <<>> THEN kept
            ELSE /\ Last(up).value = board
                 /\ Last(up).kind = "submit" =>
                      IF Len(up) = 1 THEN kept ELSE up[Len(up) - 1].value = board

LightOK ==
    (game = "light-switch" /\ screen # <<>>) =>
        /\ screen.lights = ApplyAll(puzzle.lights, puzzle.wiring, screen.pressed)
        /\ screen.isSolved = AllOn(screen.lights)
        /\ \A i, j \in DOMAIN screen.pressed : screen.pressed[i] = screen.pressed[j] => i = j
        /\ (~lost /\ faults = 0 /\ screen.isSolved) => submitted

\* The flight of a plan, step by step: see RunHeadless.
NextOf(world, paths, sims) ==
    UNION {IF Finished(sim) THEN {sim} ELSE SimStep(world, paths, {sim}) : sim \in sims}
IsRun(run, count, world, paths) ==
    run = [n \in 0..count |-> IF n = 0 THEN {TakenOff(world, paths)}
                              ELSE NextOf(world, paths, run[n - 1])]
RunOf(count, world, paths) == CHOOSE run : IsRun(run, count, world, paths)

Run(world, paths) == RunOf(MaxSimSteps + 1, world, paths)

\* What is known of a flight
Flight(sim) == {"t", "violations", "armed", "taken", "planes"} \subseteq DOMAIN sim

\* A flight that is n steps old
IsFlown(world, paths, n, sim) ==
    Run(world, paths)[n] = {sim} /\ Flight(sim) /\ (sim.t = n \/ Finished(sim))

\* What is known of the feedback on the screen, and of the plan.
IsJudged(s) == \A f \in DOMAIN s.feedback : WasJudged(s.feedback[f].words)
PlanIsKnown(s) ==
    s.drawing = <<>> => s.plan = <<s.paths>> \/ (s.plan = <<>> /\ s.paths = <<>>)

Flying(s) ==
    /\ s.phase \in {"sim", "done"} =>
          \E n \in 0..(MaxSimSteps + 1) : IsFlown(puzzle, s.paths, n, s.flight[1])
    /\ s.phase = "done" => Finished(s.flight[1])
Planned(s) == PlanIsKnown(s) /\ (s.phase # "plan" => s.drawing = <<>>) /\ Flying(s)

WordOK ==
    (game = "wordle" /\ screen # <<>> /\ ~lost) =>
        /\ \A n \in DOMAIN down : down[n].kind = "feedback" => WasJudged(down[n].value.words)
        /\ IsJudged(screen)
        /\ (screen.waiting /\ window = "open") =>
              \/ \E n \in DOMAIN up : up[n].kind = "progress"
              \/ \E n \in DOMAIN down : down[n].kind = "feedback"

FlightOK ==
    (game = "bonk-air" /\ screen # <<>>) =>
        /\ Planned(screen)
        /\ (~lost /\ faults = 0 /\ screen.phase = "locked") => submitted

\* The content of the last round is there only after a fault: see Deal.
ContentOK ==
    (/\ game = "bonk-air" /\ screen = <<>> /\ down # <<>>
     /\ down[1].kind = "content" /\ down[1].isStale) => faults > 0

More == NoRefusal /\ SlideOK /\ LightOK /\ WordOK /\ FlightOK /\ ContentOK

-----------------------------------------------------------------------------
(* Counting up, and folds *)

\* What holds of 0 and passes from n to n + 1 holds of every natural number.
LEMMA CountUp ==
  ASSUME NEW S, 0 \in S, \A n \in Nat : n \in S => n + 1 \in S
  PROVE  Nat \subseteq S
<1> SUFFICES ASSUME NEW n \in Nat, n \notin S PROVE FALSE
  OBVIOUS
<1> DEFINE A == S \cap (0..n)
           f == [k \in A |-> k + 1]
<1>1. IsFiniteSet(A)
  <2>1. IsFiniteSet(0..n)
    BY FS_Interval
  <2>2. QED
    BY <2>1, FS_Subset
<1>2. \A k \in A : k + 1 \in A
  BY DEF A
<1>3. f \in Injection(A, A)
  BY <1>2 DEF Injection, IsInjective
<1>4. f \in Surjection(A, A)
  <2> HIDE DEF A, f
  <2>1. QED
    BY <1>1, <1>3, FS_Injection
<1>5. \A k \in A : f[k] # 0
  OBVIOUS
<1>6. 0 \in A
  OBVIOUS
<1>7. QED
  BY <1>4, <1>5, <1>6 DEF Surjection

\* What MapThenFoldSet computes of the places 1..n, where step[i] is what the
\* item at place i makes of a value.
IsFold(g, n, base, step) ==
  g = [s \in SUBSET (1..n) |->
         IF s = {} THEN base ELSE step[Max(s)][g[s \ {Max(s)}]]]

\* The maxima and intervals that folds over sequences recurse on
LEMMA MaxIsLast ==
  ASSUME NEW n \in Nat, NEW s \in SUBSET (1..(n + 1)), n + 1 \in s
  PROVE  Max(s) = n + 1
<1>1. \A y \in s : n + 1 >= y
  OBVIOUS
<1>2. \A x \in s : (\A y \in s : x >= y) => x = n + 1
  OBVIOUS
<1>3. QED
  BY <1>1, <1>2 DEF Max

LEMMA MaxIsIn ==
  ASSUME NEW n \in Nat
  PROVE  \A s \in SUBSET (1..n) : s # {} => Max(s) \in s
<1> DEFINE S == {k \in Nat : \A s \in SUBSET (1..k) : s # {} => Max(s) \in s}
<1>1. 0 \in S
  <2>1. \A s \in SUBSET (1..0) : s = {}
    OBVIOUS
  <2>2. QED
    BY <2>1
<1>2. ASSUME NEW k \in Nat, k \in S PROVE k + 1 \in S
  <2> SUFFICES ASSUME NEW s \in SUBSET (1..(k + 1)), s # {} PROVE Max(s) \in s
    OBVIOUS
  <2>1. CASE k + 1 \in s
    BY <2>1, MaxIsLast
  <2>2. CASE k + 1 \notin s
    <3>1. s \in SUBSET (1..k)
      BY <2>2
    <3>2. QED
      BY <1>2, <3>1
  <2>3. QED
    BY <2>1, <2>2
<1> HIDE DEF S
<1>3. n \in S
  BY <1>1, <1>2, CountUp
<1>4. QED
  BY <1>3 DEF S

\* The function a fold of n turns chooses exists.
LEMMA FoldExists ==
  ASSUME NEW n \in Nat, NEW base, NEW step
  PROVE  \E g : IsFold(g, n, base, step)
<1> DEFINE S == {k \in Nat : \E g : IsFold(g, k, base, step)}
<1>1. 0 \in S
  <2> DEFINE g == [s \in SUBSET (1..0) |-> base]
  <2>1. SUBSET (1..0) = {{}}
    OBVIOUS
  <2>2. IsFold(g, 0, base, step)
    BY <2>1 DEF IsFold
  <2>3. QED
    BY <2>2
<1>2. ASSUME NEW k \in Nat, k \in S PROVE k + 1 \in S
  <2>1. PICK g : IsFold(g, k, base, step)
    BY <1>2
  <2> DEFINE h == [s \in SUBSET (1..(k + 1)) |->
                     IF k + 1 \in s THEN step[k + 1][g[s \ {k + 1}]] ELSE g[s]]
  <2>2. ASSUME NEW s \in SUBSET (1..(k + 1))
        PROVE  h[s] = IF s = {} THEN base ELSE step[Max(s)][h[s \ {Max(s)}]]
    <3>1. CASE k + 1 \in s
      <4>1. Max(s) = k + 1
        BY <3>1, MaxIsLast
      <4>2. s \ {k + 1} \in SUBSET (1..(k + 1)) /\ k + 1 \notin s \ {k + 1}
        OBVIOUS
      <4>3. h[s \ {k + 1}] = g[s \ {k + 1}]
        BY <4>2
      <4>4. QED
        BY <3>1, <4>1, <4>3
    <3>2. CASE k + 1 \notin s
      <4>1. s \in SUBSET (1..k)
        BY <3>2
      <4>2. g[s] = IF s = {} THEN base ELSE step[Max(s)][g[s \ {Max(s)}]]
        BY <2>1, <4>1 DEF IsFold
      <4>3. h[s \ {Max(s)}] = g[s \ {Max(s)}]
        BY <3>2
      <4>4. h[s] = g[s]
        BY <3>2
      <4>5. QED
        BY <4>2, <4>3, <4>4
    <3>3. QED
      BY <3>1, <3>2
  <2>3. h = [s \in SUBSET (1..(k + 1)) |-> h[s]]
    OBVIOUS
  <2> HIDE DEF h
  <2>4. IsFold(h, k + 1, base, step)
    BY <2>2, <2>3 DEF IsFold
  <2>5. QED
    BY <2>4
<1> HIDE DEF S
<1>3. n \in S
  BY <1>1, <1>2, CountUp
<1>4. QED
  BY <1>3 DEF S

LEMMA MaxOfInterval ==
  ASSUME NEW n \in Nat, NEW i \in 1..n
  PROVE  /\ 1..i \in SUBSET (1..n) /\ 1..i # {} /\ (1..i) \ {i} = 1..(i - 1)
         /\ Max(1..i) = i
<1>1. 1..i \in SUBSET (1..n) /\ i \in 1..i /\ (1..i) \ {i} = 1..(i - 1)
  OBVIOUS
<1>2. i - 1 \in Nat /\ (i - 1) + 1 = i /\ 1..i \in SUBSET (1..i)
  OBVIOUS
<1>3. QED
  BY <1>1, <1>2, MaxIsLast

\* A fold stays in the set that its steps stay in.
LEMMA FoldTyped ==
  ASSUME NEW n \in Nat, NEW S, NEW base \in S, NEW step,
         \A i \in 1..n : step[i] \in [S -> S],
         NEW g, IsFold(g, n, base, step)
  PROVE  \A s \in SUBSET (1..n) : g[s] \in S
<1> DEFINE K == {k \in Nat : k <= n => \A s \in SUBSET (1..k) : g[s] \in S}
<1>1. \A s \in SUBSET (1..n) :
        g[s] = IF s = {} THEN base ELSE step[Max(s)][g[s \ {Max(s)}]]
  BY DEF IsFold
<1>2. 0 \in K
  <2>1. \A s \in SUBSET (1..0) : s = {} /\ s \in SUBSET (1..n)
    OBVIOUS
  <2>2. QED
    BY <1>1, <2>1
<1>3. ASSUME NEW k \in Nat, k \in K PROVE k + 1 \in K
  <2>0. k + 1 \in Nat
    OBVIOUS
  <2> SUFFICES ASSUME k + 1 <= n, NEW s \in SUBSET (1..(k + 1)) PROVE g[s] \in S
    BY <2>0, Zenon
  <2>1. s \in SUBSET (1..n) /\ k <= n
    <3>1. k <= n /\ \A i \in 1..(k + 1) : i \in 1..n
      OBVIOUS
    <3>2. QED
      BY <3>1
  <2>2. CASE k + 1 \in s
    <3>1. Max(s) = k + 1 /\ s # {} /\ k + 1 \in 1..n
      BY <2>2, MaxIsLast
    <3>2. s \ {k + 1} \in SUBSET (1..k)
      <4>1. \A x \in 1..(k + 1) : x # k + 1 => x \in 1..k
        BY ONLY k \in Nat
      <4>2. QED
        BY <4>1
    <3>3. g[s \ {k + 1}] \in S
      BY <1>3, <2>1, <3>2
    <3>4. g[s] = step[k + 1][g[s \ {k + 1}]]
      BY <1>1, <2>1, <3>1
    <3>5. QED
      BY <3>1, <3>3, <3>4
  <2>3. CASE k + 1 \notin s
    <3>1. s \in SUBSET (1..k)
      BY <2>3
    <3>2. QED
      BY <1>3, <2>1, <3>1
  <2>4. QED
    BY <2>2, <2>3
<1> HIDE DEF K
<1>4. n \in K
  BY <1>2, <1>3, CountUp
<1>5. QED
  BY <1>4 DEF K

-----------------------------------------------------------------------------
(* Sequences of one element at most, and the frames *)

LEMMA MaybeIs ==
  ASSUME NEW S, NEW s
  PROVE  s \in Maybe(S) <=> s = <<>> \/ \E x \in S : s = <<x>>
<1>1. ASSUME s \in Seq(S), Len(s) <= 1, s # <<>> PROVE \E x \in S : s = <<x>>
  <2>1. Len(s) \in Nat \ {0}
    BY <1>1, EmptySeq
  <2>2. Len(s) = 1 /\ s[1] \in S
    BY <1>1, <2>1, LenProperties
  <2>3. s = <<s[1]>>
    BY <1>1, <2>2
  <2>4. QED
    BY <2>2, <2>3
<1>2. ASSUME NEW x \in S PROVE <<x>> \in Seq(S) /\ Len(<<x>>) <= 1
  OBVIOUS
<1>3. <<>> \in Seq(S) /\ Len(<<>>) <= 1
  OBVIOUS
<1>4. QED
  BY <1>1, <1>2, <1>3 DEF Maybe

\* A sequence without its head, and with one more element
LEMMA Popped ==
  ASSUME NEW S, NEW s \in Seq(S), s # <<>>
  PROVE  /\ s[1] \in S /\ Tail(s) \in Seq(S) /\ Len(Tail(s)) = Len(s) - 1
         /\ 1 \in DOMAIN s /\ Len(s) \in Nat \ {0}
         /\ \A n \in DOMAIN Tail(s) : n + 1 \in DOMAIN s /\ Tail(s)[n] = s[n + 1]
OBVIOUS

LEMMA Pushed ==
  ASSUME NEW S, NEW s \in Seq(S), NEW x \in S
  PROVE  /\ Append(s, x) \in Seq(S) /\ Len(Append(s, x)) = Len(s) + 1
         /\ DOMAIN Append(s, x) = 1..(Len(s) + 1) /\ DOMAIN s = 1..Len(s)
         /\ Len(s) \in Nat
         /\ Append(s, x)[Len(s) + 1] = x
         /\ \A n \in DOMAIN s : Append(s, x)[n] = s[n]
         /\ Append(s, x) # <<>>
OBVIOUS

-----------------------------------------------------------------------------
(* The sliding puzzle: every board has each tile once.                     *)

LEMMA IndexesAre == Indexes = 0..8 /\ BoardSize = 3
BY DEF Indexes, BoardSize

\* Every board has an open square.
LEMMA ZeroIs ==
  ASSUME NEW b \in Boards
  PROVE  Zero(b) \in Indexes /\ b[Zero(b)] = 0
<1>1. \E i \in Indexes : b[i] = 0
  BY IndexesAre DEF Boards, ValidBoard
<1>2. QED
  BY <1>1 DEF Zero

\* Sliding a tile permutes the board.
LEMMA MovedBoard ==
  ASSUME NEW b \in Boards, NEW i \in Indexes
  PROVE  MoveTile(b, i) \in Boards
<1> DEFINE z == Zero(b)
           m == [b EXCEPT ![z] = b[i], ![i] = 0]
<1>1. z \in Indexes /\ b[z] = 0 /\ 0 \in Indexes
  BY ZeroIs, IndexesAre
<1>2. b \in [Indexes -> Indexes] /\ {b[j] : j \in Indexes} = Indexes
  BY DEF Boards, ValidBoard
<1> HIDE DEF z
<1>3. m \in [Indexes -> Indexes]
  BY <1>1, <1>2
<1>4. m[i] = 0 /\ (i # z => m[z] = b[i]) /\ \A j \in Indexes \ {i, z} : m[j] = b[j]
  BY <1>1, <1>2
<1> HIDE DEF m
<1>5. \A k \in Indexes : \E j \in Indexes : m[j] = k
  <2> TAKE k \in Indexes
  <2>1. PICK j \in Indexes : b[j] = k
    BY <1>2
  <2>2. CASE j = i /\ i # z
    BY <1>1, <1>4, <2>1, <2>2
  <2>3. CASE j = z
    BY <1>1, <1>4, <2>1, <2>3
  <2>4. CASE j \notin {i, z}
    BY <1>4, <2>1, <2>4
  <2>5. QED
    BY <2>2, <2>3, <2>4
<1>6. {m[j] : j \in DOMAIN m} = Indexes
  BY <1>3, <1>5
<1>7. m \in Boards
  BY <1>3, <1>6 DEF Boards, ValidBoard
<1>8. QED
  BY <1>7 DEF MoveTile, m, z

LEMMA SolvedTyped == SolvedBoard \in Boards
<1>1. SolvedBoard \in [Indexes -> Indexes]
  BY IndexesAre DEF SolvedBoard
<1>2. \A k \in Indexes : \E j \in Indexes : SolvedBoard[j] = k
  <2> TAKE k \in Indexes
  <2>1. CASE k = 0
    BY <2>1, IndexesAre DEF SolvedBoard
  <2>2. CASE k # 0
    <3>1. k - 1 \in Indexes /\ SolvedBoard[k - 1] = k
      BY <2>2, IndexesAre DEF SolvedBoard
    <3>2. QED
      BY <3>1
  <2>3. QED
    BY <2>1, <2>2
<1>3. QED
  BY <1>1, <1>2 DEF Boards, ValidBoard

LEMMA ScrambleTyped ==
  ASSUME NEW boards, \A b \in boards : b[1] \in Boards
  PROVE  \A b \in ScrambleStep(boards) : b[1] \in Boards
<1> SUFFICES ASSUME NEW b \in boards, NEW i \in LegalTiles(b[1]) \ {b[2]}
             PROVE  <<MoveTile(b[1], i), Zero(b[1])>>[1] \in Boards
  BY DEF ScrambleStep
<1>1. i \in Indexes
  BY DEF LegalTiles
<1>2. QED
  BY <1>1, MovedBoard

Scrambling(after, moves) ==
  after = [n \in 0..moves |-> IF n = 0 THEN {<<SolvedBoard, -1>>}
                              ELSE ScrambleStep(after[n - 1])]

LEMMA ScramblingExists ==
  ASSUME NEW moves \in Nat
  PROVE  \E after : Scrambling(after, moves)
<1> DEFINE S == {k \in Nat : \E after : Scrambling(after, k)}
<1>1. 0 \in S
  <2> DEFINE f == [n \in 0..0 |-> {<<SolvedBoard, -1>>}]
  <2>1. Scrambling(f, 0)
    BY DEF Scrambling
  <2>2. QED
    BY <2>1
<1>2. ASSUME NEW k \in Nat, k \in S PROVE k + 1 \in S
  <2>1. PICK f : Scrambling(f, k)
    BY <1>2
  <2> DEFINE h == [n \in 0..(k + 1) |-> IF n = k + 1 THEN ScrambleStep(f[k]) ELSE f[n]]
  <2>2. ASSUME NEW n \in 0..(k + 1)
        PROVE  h[n] = IF n = 0 THEN {<<SolvedBoard, -1>>} ELSE ScrambleStep(h[n - 1])
    <3>1. CASE n = k + 1
      BY <3>1
    <3>2. CASE n # k + 1
      <4>1. n \in 0..k
        BY <3>2
      <4>2. f[n] = IF n = 0 THEN {<<SolvedBoard, -1>>} ELSE ScrambleStep(f[n - 1])
        BY <2>1, <4>1 DEF Scrambling
      <4>3. h[n] = f[n] /\ (n # 0 => h[n - 1] = f[n - 1])
        BY <3>2
      <4>4. QED
        BY <4>2, <4>3
    <3>3. QED
      BY <3>1, <3>2
  <2>3. h = [n \in 0..(k + 1) |-> h[n]]
    OBVIOUS
  <2> HIDE DEF h
  <2>4. Scrambling(h, k + 1)
    BY <2>2, <2>3 DEF Scrambling
  <2>5. QED
    BY <2>4
<1> HIDE DEF S
<1>3. moves \in S
  BY <1>1, <1>2, CountUp
<1>4. QED
  BY <1>3 DEF S

\* Every scrambled board is a board.
LEMMA ScrambledTyped ==
  ASSUME NEW moves \in Nat
  PROVE  ScrambledBoards(moves) \subseteq Boards
<1> DEFINE after == CHOOSE after : Scrambling(after, moves)
<1>1. Scrambling(after, moves)
  BY ScramblingExists
<1>2. ScrambledBoards(moves) = {b[1] : b \in after[moves]} \ {SolvedBoard}
  BY DEF ScrambledBoards, Scrambling
<1> HIDE DEF after
<1> DEFINE K == {k \in Nat : k <= moves => \A b \in after[k] : b[1] \in Boards}
<1>3. after[0] = {<<SolvedBoard, -1>>}
  BY <1>1 DEF Scrambling
<1>4. 0 \in K
  BY <1>3, SolvedTyped
<1>5. ASSUME NEW k \in Nat, k \in K PROVE k + 1 \in K
  <2> SUFFICES ASSUME k + 1 <= moves PROVE \A b \in after[k + 1] : b[1] \in Boards
    OBVIOUS
  <2>1. after[k + 1] = ScrambleStep(after[k])
    <3>1. k + 1 \in 0..moves /\ k + 1 # 0 /\ (k + 1) - 1 = k
      OBVIOUS
    <3>2. QED
      BY <1>1, <3>1 DEF Scrambling
  <2>2. \A b \in after[k] : b[1] \in Boards
    BY <1>5
  <2>3. QED
    BY <2>1, <2>2, ScrambleTyped
<1> HIDE DEF K
<1>6. moves \in K
  BY <1>4, <1>5, CountUp
<1>7. \A b \in after[moves] : b[1] \in Boards
  BY <1>6 DEF K
<1>8. QED
  BY <1>2, <1>7

-----------------------------------------------------------------------------
(* The light switches: what a number of them comes to, one by one.         *)

LEMMA LeastIsIn ==
  ASSUME NEW n \in Nat, NEW S \in SUBSET (1..n), S # {}
  PROVE  Min(S) \in S /\ \A y \in S : Min(S) <= y
<1> DEFINE K == {k \in Nat : \A j \in S : j <= k => \E x \in S : \A y \in S : x <= y}
<1>1. 0 \in K
  OBVIOUS
<1>2. ASSUME NEW k \in Nat, k \in K PROVE k + 1 \in K
  <2> SUFFICES ASSUME NEW j \in S, j <= k + 1
               PROVE  \E x \in S : \A y \in S : x <= y
    OBVIOUS
  <2>1. CASE \E i \in S : i <= k
    BY <1>2, <2>1
  <2>2. CASE \A i \in S : i > k
    <3>1. j = k + 1 /\ \A y \in S : j <= y
      BY <2>2
    <3>2. QED
      BY <3>1
  <2>3. QED
    BY <2>1, <2>2
<1> HIDE DEF K
<1>3. n \in K
  BY <1>1, <1>2, CountUp
<1>4. \A j \in S : j <= n
  OBVIOUS
<1>5. \E x \in S : \A y \in S : x <= y
  BY <1>3, <1>4 DEF K
<1>6. QED
  BY <1>5 DEF Min

\* RemoveFirst(s, e) takes out what is at k, the first of its kind.
TakesOut(k, s, e, S) ==
  /\ s[k] = e /\ (\A j \in DOMAIN s : s[j] = e => k <= j)
  /\ RemoveFirst(s, e) \in Seq(S)
  /\ Len(s) \in Nat \ {0} /\ Len(RemoveFirst(s, e)) = Len(s) - 1
  /\ \A j \in 1..(Len(s) - 1) :
       RemoveFirst(s, e)[j] = IF j < k THEN s[j] ELSE s[j + 1]

\* Removing the first occurrence takes one element out.
LEMMA RemovedFirst ==
  ASSUME NEW S, NEW s \in Seq(S), NEW e, NEW m \in DOMAIN s, s[m] = e
  PROVE  \E k \in DOMAIN s : TakesOut(k, s, e, S)
<1> DEFINE n == Len(s)
           I == {i \in 1..n : s[i] = e}
           k == Min(I)
           r == SubSeq(s, 1, k - 1) \o SubSeq(s, k + 1, n)
<1>1. n \in Nat \ {0} /\ DOMAIN s = 1..n /\ m \in I /\ I \in SUBSET (1..n)
  BY LenProperties, EmptySeq
<1>2. k \in I /\ \A y \in I : k <= y
  BY <1>1, LeastIsIn
<1>3. RemoveFirst(s, e) = r
  BY <1>1 DEF RemoveFirst, RemoveAt, SelectInSeq
<1> HIDE DEF k
<1>4. k \in 1..n /\ s[k] = e /\ \A j \in DOMAIN s : s[j] = e => k <= j
  BY <1>1, <1>2
<1> HIDE DEF I
<1>5. /\ SubSeq(s, 1, k - 1) \in Seq(S) /\ SubSeq(s, k + 1, n) \in Seq(S)
      /\ Len(SubSeq(s, 1, k - 1)) = k - 1 /\ Len(SubSeq(s, k + 1, n)) = n - k
      /\ \A j \in 1..(k - 1) : SubSeq(s, 1, k - 1)[j] = s[j]
      /\ \A j \in 1..(n - k) : SubSeq(s, k + 1, n)[j] = s[k + j]
  <2>1. /\ 1 \in Int /\ k - 1 \in Int /\ k + 1 \in Int /\ n \in Int
        /\ \A i \in 1..(k - 1) : s[i] \in S
        /\ \A i \in (k + 1)..n : s[i] \in S
    BY <1>1, <1>4, ElementOfSeq
  <2>2. /\ SubSeq(s, 1, k - 1) \in Seq(S)
        /\ Len(SubSeq(s, 1, k - 1)) = IF 1 <= k - 1 THEN (k - 1) - 1 + 1 ELSE 0
        /\ \A i \in 1..((k - 1) - 1 + 1) : SubSeq(s, 1, k - 1)[i] = s[1 + i - 1]
    BY <2>1, SubSeqProperties
  <2>3. /\ SubSeq(s, k + 1, n) \in Seq(S)
        /\ Len(SubSeq(s, k + 1, n)) = IF k + 1 <= n THEN n - (k + 1) + 1 ELSE 0
        /\ \A i \in 1..(n - (k + 1) + 1) : SubSeq(s, k + 1, n)[i] = s[(k + 1) + i - 1]
    BY <2>1, SubSeqProperties
  <2>4. /\ k \in Int /\ n \in Int /\ 1 <= k /\ k <= n /\ (k - 1) - 1 + 1 = k - 1
        /\ n - (k + 1) + 1 = n - k
        /\ \A i \in 1..(k - 1) : 1 + i - 1 = i
        /\ \A i \in 1..(n - k) : (k + 1) + i - 1 = k + i
    BY <1>1, <1>4
  <2>5. Len(SubSeq(s, 1, k - 1)) = k - 1
    <3> HIDE DEF n
    <3>1. QED
      BY <2>2, <2>4
  <2>6. Len(SubSeq(s, k + 1, n)) = n - k
    <3> HIDE DEF n
    <3>1. QED
      BY <2>3, <2>4
  <2>7. \A j \in 1..(k - 1) : SubSeq(s, 1, k - 1)[j] = s[j]
    <3> HIDE DEF n
    <3>1. QED
      BY <2>2, <2>4
  <2>8. \A j \in 1..(n - k) : SubSeq(s, k + 1, n)[j] = s[k + j]
    <3> HIDE DEF n
    <3>1. QED
      BY <2>3, <2>4
  <2>9. QED
    BY <2>2, <2>3, <2>5, <2>6, <2>7, <2>8
<1>6. /\ r \in Seq(S) /\ Len(r) = n - 1
      /\ \A j \in 1..(n - 1) : r[j] = IF j < k THEN s[j] ELSE s[j + 1]
  <2> DEFINE a == SubSeq(s, 1, k - 1)
             b == SubSeq(s, k + 1, n)
  <2> HIDE DEF a, b
  <2>1. /\ a \in Seq(S) /\ b \in Seq(S) /\ Len(a) = k - 1 /\ Len(b) = n - k
        /\ \A j \in 1..(k - 1) : a[j] = s[j]
        /\ \A j \in 1..(n - k) : b[j] = s[k + j]
    BY <1>5 DEF a, b
  <2>2. /\ a \o b \in Seq(S) /\ Len(a \o b) = n - 1
        /\ \A j \in 1..(n - 1) : (a \o b)[j] = IF j <= k - 1 THEN a[j] ELSE b[j - (k - 1)]
    <3>1. /\ a \o b \in Seq(S) /\ Len(a \o b) = Len(a) + Len(b)
          /\ \A i \in 1..(Len(a) + Len(b)) :
               (a \o b)[i] = IF i <= Len(a) THEN a[i] ELSE b[i - Len(a)]
      BY <2>1, ConcatProperties
    <3>2. (k - 1) + (n - k) = n - 1
      BY <1>1, <1>4
    <3>3. QED
      BY <2>1, <3>1, <3>2
  <2>3. ASSUME NEW j \in 1..(n - 1)
        PROVE  (a \o b)[j] = IF j < k THEN s[j] ELSE s[j + 1]
    <3>1. CASE j < k
      <4>1. j \in 1..(k - 1) /\ j <= k - 1
        BY <1>4, <3>1
      <4>2. QED
        BY <2>1, <2>2, <3>1, <4>1
    <3>2. CASE j >= k
      <4>1. ~(j <= k - 1) /\ j - (k - 1) \in 1..(n - k) /\ k + (j - (k - 1)) = j + 1
        BY <1>1, <1>4, <3>2
      <4>2. b[j - (k - 1)] = s[j + 1]
        BY <2>1, <4>1
      <4>3. QED
        BY <2>2, <3>2, <4>1, <4>2, <1>4
    <3>3. j \in Int /\ k \in Int
      BY <1>1, <1>4
    <3>4. j < k \/ j >= k
      BY <3>3
    <3>5. QED
      BY <3>1, <3>2, <3>4
  <2>4. QED
    BY <2>2, <2>3 DEF a, b
<1>7. TakesOut(k, s, e, S)
  BY <1>1, <1>3, <1>4, <1>6 DEF TakesOut
<1>8. QED
  BY <1>1, <1>4, <1>7

Applying(state, wiring, pressed, g) ==
  g = [s \in SUBSET DOMAIN pressed |->
         IF s = {} THEN state
         ELSE ApplySwitch(g[s \ {Max(s)}], wiring[pressed[Max(s)]])]

LEMMA AppliedIsFold ==
  ASSUME NEW state, NEW wiring, NEW pressed
  PROVE  ApplyAll(state, wiring, pressed)
           = (CHOOSE g : Applying(state, wiring, pressed, g))[DOMAIN pressed]
BY DEF ApplyAll, FoldLeft, MapThenFoldSet, Applying

\* What the switches come to, one after the other.
IsApplied(turn, state, wiring, pressed) ==
  /\ turn \in [0..Len(pressed) -> SUBSET Lights]
  /\ turn[0] = state
  /\ \A i \in 1..Len(pressed) : turn[i] = ApplySwitch(turn[i - 1], wiring[pressed[i]])
  /\ ApplyAll(state, wiring, pressed) = turn[Len(pressed)]

\* applySwitch() is applied switch by switch.
LEMMA AppliedByOne ==
  ASSUME NEW state \in SUBSET Lights, NEW wiring \in [Switches -> SUBSET Lights],
         NEW pressed \in Seq(Switches)
  PROVE  \E turn : IsApplied(turn, state, wiring, pressed)
<1> DEFINE n == Len(pressed)
           S == SUBSET Lights
           step == [i \in 1..n |-> [v \in S |-> ApplySwitch(v, wiring[pressed[i]])]]
<1>1. n \in Nat /\ DOMAIN pressed = 1..n /\ \A i \in 1..n : pressed[i] \in Switches
  BY LenProperties, ElementOfSeq
<1>2. \A i \in 1..n, v \in S : ApplySwitch(v, wiring[pressed[i]]) \in S
  BY <1>1 DEF ApplySwitch, SymDiff
<1>3. \A i \in 1..n : step[i] \in [S -> S]
  BY <1>2
<1>4. \A i \in 1..n, v \in S : step[i][v] = ApplySwitch(v, wiring[pressed[i]])
  OBVIOUS
<1>5. state \in S
  OBVIOUS
<1> HIDE DEF n, step, S
<1>6. PICK f : IsFold(f, n, state, step)
  BY <1>1, FoldExists
<1>7. \A s \in SUBSET (1..n) : f[s] \in S
  BY <1>1, <1>3, <1>5, <1>6, FoldTyped
<1>8. Applying(state, wiring, pressed, f)
  <2>1. ASSUME NEW s \in SUBSET (1..n), s # {}
        PROVE  step[Max(s)][f[s \ {Max(s)}]]
                 = ApplySwitch(f[s \ {Max(s)}], wiring[pressed[Max(s)]])
    <3>1. Max(s) \in 1..n /\ s \ {Max(s)} \in SUBSET (1..n)
      BY <1>1, <2>1, MaxIsIn
    <3>2. QED
      BY <1>4, <1>7, <3>1
  <2>2. QED
    BY <1>1, <1>6, <2>1 DEF IsFold, Applying
<1> DEFINE g == CHOOSE h : Applying(state, wiring, pressed, h)
<1>9. Applying(state, wiring, pressed, g)
  BY <1>8
<1> HIDE DEF g
<1>10. g[1..0] = state
  <2>1. 1..0 = {} /\ 1..0 \in SUBSET (1..n)
    OBVIOUS
  <2>2. QED
    BY <1>1, <1>9, <2>1 DEF Applying
<1>11. ASSUME NEW i \in 1..n
       PROVE  g[1..i] = ApplySwitch(g[1..(i - 1)], wiring[pressed[i]])
  <2>1. /\ 1..i \in SUBSET (1..n) /\ 1..i # {} /\ (1..i) \ {i} = 1..(i - 1)
        /\ Max(1..i) = i
    BY <1>1, MaxOfInterval
  <2>2. QED
    BY <1>1, <1>9, <2>1 DEF Applying
<1> DEFINE K == {k \in Nat : k <= n => g[1..k] \in S}
<1>12. 0 \in K
  BY <1>5, <1>10
<1>13. ASSUME NEW k \in Nat, k \in K PROVE k + 1 \in K
  <2> SUFFICES ASSUME k + 1 <= n PROVE g[1..(k + 1)] \in S
    OBVIOUS
  <2>1. k + 1 \in 1..n /\ (k + 1) - 1 = k /\ g[1..k] \in S
    BY <1>1, <1>13
  <2>2. QED
    BY <1>2, <1>11, <2>1
<1> HIDE DEF K
<1>14. \A k \in 0..n : g[1..k] \in S
  <2>1. Nat \subseteq K
    BY <1>12, <1>13, CountUp
  <2>2. QED
    BY <1>1, <2>1 DEF K
<1> DEFINE turn == [i \in 0..n |-> g[1..i]]
<1>15. /\ turn \in [0..n -> S] /\ turn[0] = state
       /\ \A i \in 1..n : turn[i] = ApplySwitch(turn[i - 1], wiring[pressed[i]])
       /\ turn[n] = g[DOMAIN pressed]
  BY <1>1, <1>10, <1>11, <1>14
<1>16. ApplyAll(state, wiring, pressed) = turn[n]
  BY <1>15, AppliedIsFold DEF g
<1> HIDE DEF turn
<1>17. IsApplied(turn, state, wiring, pressed)
  BY <1>15, <1>16 DEF n, S, IsApplied
<1>18. QED
  BY <1>17

LEMMA AppliedTyped ==
  ASSUME NEW state \in SUBSET Lights, NEW wiring \in [Switches -> SUBSET Lights],
         NEW pressed \in Seq(Switches)
  PROVE  ApplyAll(state, wiring, pressed) \in SUBSET Lights
<1>1. Len(pressed) \in Nat
  OBVIOUS
<1>2. PICK turn : IsApplied(turn, state, wiring, pressed)
  BY AppliedByOne
<1>3. QED
  BY <1>1, <1>2 DEF IsApplied

LEMMA NonePressed ==
  ASSUME NEW state \in SUBSET Lights, NEW wiring \in [Switches -> SUBSET Lights]
  PROVE  ApplyAll(state, wiring, <<>>) = state
<1>1. <<>> \in Seq(Switches) /\ Len(<<>>) = 0
  OBVIOUS
<1>2. PICK turn : IsApplied(turn, state, wiring, <<>>)
  BY <1>1, AppliedByOne
<1>3. QED
  BY <1>1, <1>2 DEF IsApplied

(* One more switch changes the lights by its own. *)

\* Pressing a switch once more, and taking it back, flips its lights.
LEMMA OnePressedMore ==
  ASSUME NEW state \in SUBSET Lights, NEW wiring \in [Switches -> SUBSET Lights],
         NEW pressed \in Seq(Switches), NEW i \in Switches
  PROVE  ApplyAll(state, wiring, Append(pressed, i))
           = ApplySwitch(ApplyAll(state, wiring, pressed), wiring[i])
<1> DEFINE n == Len(pressed)
           more == Append(pressed, i)
<1>1. /\ n \in Nat /\ more \in Seq(Switches) /\ Len(more) = n + 1 /\ more[n + 1] = i
      /\ \A j \in 1..n : more[j] = pressed[j]
  BY LenProperties, AppendProperties
<1> HIDE DEF n, more
<1>2. PICK t : IsApplied(t, state, wiring, pressed)
  BY AppliedByOne
<1>3. PICK u : IsApplied(u, state, wiring, more)
  BY <1>1, AppliedByOne
<1> DEFINE K == {k \in Nat : k <= n => t[k] = u[k]}
<1>4. 0 \in K
  BY <1>2, <1>3 DEF IsApplied
<1>5. ASSUME NEW k \in Nat, k \in K PROVE k + 1 \in K
  <2> SUFFICES ASSUME k + 1 <= n PROVE t[k + 1] = u[k + 1]
    OBVIOUS
  <2>1. k + 1 \in 1..n /\ k + 1 \in 1..(n + 1) /\ (k + 1) - 1 = k /\ t[k] = u[k]
    BY <1>1, <1>5
  <2>2. t[k + 1] = ApplySwitch(t[k], wiring[pressed[k + 1]])
    BY <1>2, <2>1 DEF IsApplied, n
  <2>3. u[k + 1] = ApplySwitch(u[k], wiring[more[k + 1]])
    BY <1>1, <1>3, <2>1 DEF IsApplied
  <2>4. QED
    BY <1>1, <2>1, <2>2, <2>3
<1> HIDE DEF K
<1>6. t[n] = u[n]
  <2>1. n \in K
    BY <1>1, <1>4, <1>5, CountUp
  <2>2. QED
    BY <1>1, <2>1 DEF K
<1>7. n + 1 \in 1..(n + 1) /\ (n + 1) - 1 = n
  BY <1>1
<1>8. u[n + 1] = ApplySwitch(u[n], wiring[i])
  BY <1>1, <1>3, <1>7 DEF IsApplied
<1>9. ApplyAll(state, wiring, more) = u[n + 1] /\ ApplyAll(state, wiring, pressed) = t[n]
  BY <1>1, <1>2, <1>3 DEF IsApplied, n
<1>10. QED
  BY <1>6, <1>8, <1>9 DEF more

(* ... and one less does so too: a switch pressed twice counts for nothing. *)

LEMMA OnePressedLess ==
  ASSUME NEW state \in SUBSET Lights, NEW wiring \in [Switches -> SUBSET Lights],
         NEW pressed \in Seq(Switches), NEW i \in Switches, Contains(pressed, i)
  PROVE  ApplyAll(state, wiring, RemoveFirst(pressed, i))
           = ApplySwitch(ApplyAll(state, wiring, pressed), wiring[i])
<1> DEFINE n == Len(pressed)
           less == RemoveFirst(pressed, i)
           W == wiring[i]
<1>0. PICK m \in DOMAIN pressed : pressed[m] = i
  BY LenProperties DEF Contains
<1>a. PICK k \in DOMAIN pressed : TakesOut(k, pressed, i, Switches)
  BY <1>0, RemovedFirst
<1>1. /\ pressed[k] = i /\ less \in Seq(Switches)
      /\ n \in Nat \ {0} /\ Len(less) = n - 1
      /\ \A j \in 1..(n - 1) : less[j] = IF j < k THEN pressed[j] ELSE pressed[j + 1]
  BY <1>a DEF TakesOut
<1>2. k \in 1..n /\ W \in SUBSET Lights /\ \A j \in 1..n : pressed[j] \in Switches
  BY <1>1, LenProperties, ElementOfSeq
<1> HIDE DEF n, less, W
<1>3. PICK t : IsApplied(t, state, wiring, pressed)
  BY AppliedByOne
<1>4. PICK u : IsApplied(u, state, wiring, less)
  BY <1>1, AppliedByOne
<1>5. /\ \A j \in 0..n : t[j] \in SUBSET Lights
      /\ \A j \in 1..n : t[j] = ApplySwitch(t[j - 1], wiring[pressed[j]])
  BY <1>3 DEF IsApplied, n
<1>6. \A j \in 1..(n - 1) : u[j] = ApplySwitch(u[j - 1], wiring[less[j]])
  BY <1>1, <1>4 DEF IsApplied
<1> DEFINE Same(j) == u[j] = IF j < k THEN t[j] ELSE ApplySwitch(t[j + 1], W)
           K == {j \in Nat : j <= n - 1 => Same(j)}
<1>7. \A A \in SUBSET Lights : ApplySwitch(ApplySwitch(A, W), W) = A
  BY <1>2 DEF ApplySwitch, SymDiff
<1>8. \A A \in SUBSET Lights, B \in SUBSET Lights :
         ApplySwitch(ApplySwitch(A, W), B) = ApplySwitch(ApplySwitch(A, B), W)
  BY <1>2 DEF ApplySwitch, SymDiff
<1>9. 0 \in K
  <2>1. u[0] = t[0] /\ 0 < k
    BY <1>2, <1>3, <1>4 DEF IsApplied
  <2>2. QED
    BY <2>1
<1>10. ASSUME NEW j \in Nat, j \in K PROVE j + 1 \in K
  <2> SUFFICES ASSUME j + 1 <= n - 1 PROVE Same(j + 1)
    OBVIOUS
  <2>1. /\ j \in 0..n /\ j + 1 \in 1..(n - 1) /\ (j + 1) - 1 = j /\ Same(j)
        /\ j + 1 \in 1..n /\ j + 2 \in 1..n /\ (j + 2) - 1 = j + 1 /\ (j + 1) + 1 = j + 2
        /\ j <= n - 1 /\ k \in Int /\ j + 1 \in 0..n
    BY <1>1, <1>2, <1>10
  <2>2. u[j + 1] = ApplySwitch(u[j], wiring[less[j + 1]])
    BY <1>6, <2>1
  <2>3. CASE j + 1 < k
    <3>1. u[j] = t[j] /\ less[j + 1] = pressed[j + 1]
      <4>1. j < k
        BY <2>1, <2>3
      <4>2. less[j + 1] = pressed[j + 1]
        BY <1>1, <2>1, <2>3
      <4>3. QED
        BY <2>1, <4>1, <4>2
    <3>2. t[j + 1] = ApplySwitch(t[j], wiring[pressed[j + 1]])
      BY <1>5, <2>1
    <3>3. QED
      BY <2>2, <2>3, <3>1, <3>2
  <2>4. CASE j + 1 = k
    <3>1. u[j] = t[j] /\ less[j + 1] = pressed[j + 2]
      <4>1. ~(j + 1 < k) /\ j < k
        BY <2>1, <2>4
      <4>2. less[j + 1] = pressed[(j + 1) + 1]
        BY <1>1, <2>1, <4>1
      <4>3. QED
        BY <2>1, <4>1, <4>2
    <3>2. t[j + 1] = ApplySwitch(t[j], W) /\ t[j] \in SUBSET Lights
      BY <1>1, <1>5, <2>1, <2>4 DEF W
    <3>3. t[j + 2] = ApplySwitch(t[j + 1], wiring[pressed[j + 2]])
      BY <1>5, <2>1
    <3>4. wiring[pressed[j + 2]] \in SUBSET Lights
      BY <1>2, <2>1
    <3> DEFINE A == t[j]
               B == wiring[pressed[j + 2]]
    <3> HIDE DEF A, B
    <3>5. ApplySwitch(ApplySwitch(ApplySwitch(A, W), B), W) = ApplySwitch(A, B)
      <4>1. A \in SUBSET Lights /\ B \in SUBSET Lights
        BY <3>2, <3>4 DEF A, B
      <4>2. ApplySwitch(A, B) \in SUBSET Lights
        BY <4>1 DEF ApplySwitch, SymDiff
      <4>3. QED
        BY <1>7, <1>8, <4>1, <4>2
    <3>6. ApplySwitch(t[j + 2], W) = ApplySwitch(t[j], wiring[pressed[j + 2]])
      BY <3>2, <3>3, <3>5 DEF A, B
    <3>7. u[j + 1] = ApplySwitch(t[j + 2], W)
      BY <2>2, <3>1, <3>6
    <3>8. QED
      BY <2>1, <2>4, <3>7
  <2>5. CASE j + 1 > k
    <3>1. u[j] = ApplySwitch(t[j + 1], W) /\ less[j + 1] = pressed[j + 2]
      <4>1. ~(j + 1 < k) /\ ~(j < k)
        BY <2>1, <2>5
      <4>2. less[j + 1] = pressed[(j + 1) + 1]
        BY <1>1, <2>1, <4>1
      <4>3. QED
        BY <2>1, <4>1, <4>2
    <3>2. t[j + 2] = ApplySwitch(t[j + 1], wiring[pressed[j + 2]])
      BY <1>5, <2>1
    <3>3. wiring[pressed[j + 2]] \in SUBSET Lights /\ t[j + 1] \in SUBSET Lights
      BY <1>2, <1>5, <2>1
    <3>4. u[j + 1] = ApplySwitch(t[j + 2], W)
      BY <1>8, <2>2, <3>1, <3>2, <3>3
    <3>5. QED
      BY <2>1, <2>5, <3>4
  <2>6. QED
    BY <2>1, <2>3, <2>4, <2>5
<1> HIDE DEF K
<1>11. u[n - 1] = ApplySwitch(t[n], W)
  <2>1. n - 1 \in Nat /\ (n - 1) + 1 = n
    BY <1>1
  <2>2. n - 1 \in K
    <3>1. Nat \subseteq K
      BY <1>9, <1>10, CountUp
    <3>2. QED
      BY <2>1, <3>1
  <2>3. Same(n - 1)
    BY <1>1, <2>2 DEF K
  <2>4. CASE n - 1 < k
    <3>1. k = n /\ u[n - 1] = t[n - 1] /\ n \in 1..n /\ n - 1 \in 0..n
      BY <1>1, <1>2, <2>3, <2>4
    <3>2. t[n] = ApplySwitch(t[n - 1], W) /\ t[n - 1] \in SUBSET Lights
      BY <1>1, <1>5, <3>1 DEF W
    <3>3. QED
      BY <1>7, <3>1, <3>2
  <2>5. CASE ~(n - 1 < k)
    BY <2>1, <2>3, <2>5
  <2>6. QED
    BY <2>4, <2>5
<1>12. ApplyAll(state, wiring, less) = u[n - 1] /\ ApplyAll(state, wiring, pressed) = t[n]
  BY <1>1, <1>3, <1>4 DEF IsApplied, n
<1>13. QED
  BY <1>11, <1>12 DEF less, W

-----------------------------------------------------------------------------
(* The puzzles *)

\* A finite set can be put in a sequence.
LEMMA SequenceOfSet ==
  ASSUME NEW S, IsFiniteSet(S)
  PROVE  SetToSeq(S) \in Seq(S)
<1>1. Cardinality(S) \in Nat /\ ExistsBijection(1..Cardinality(S), S)
  BY FS_CardinalityType
<1>2. \E f \in [1..Cardinality(S) -> S] : IsInjective(f)
  BY <1>1 DEF ExistsBijection, Bijection, Injection
<1>3. SetToSeq(S) \in [1..Cardinality(S) -> S]
  BY <1>2 DEF SetToSeq
<1>4. QED
  BY <1>1, <1>3

\* What is dealt has the shape its game expects.
LEMMA LightsDealt ==
  ASSUME NEW p \in LightPuzzles
  PROVE  /\ p.wiring \in [Switches -> SUBSET Lights]
         /\ p.lights \in SUBSET Lights /\ p.lights # Lights
<1>1. PICK w \in Wirings : p \in [wiring : {w}, lights : Scrambles(w) \cup {FallbackLights}]
  BY DEF LightPuzzles
<1>2. p.wiring = w /\ w \in [Switches -> SUBSET Lights]
  BY <1>1 DEF Wirings
<1>3. p.lights \in Scrambles(w) \cup {FallbackLights}
  BY <1>1
<1>4. FallbackLights \in SUBSET Lights /\ FallbackLights # Lights
  <2>1. 1 \in Lights
    BY LightAssumption DEF Lights
  <2>2. QED
    BY <2>1 DEF FallbackLights
<1>5. ASSUME NEW thrown \in SUBSET Switches
      PROVE  ApplyAll(Lights, w, SetToSeq(thrown)) \in SUBSET Lights
  <2>1. IsFiniteSet(thrown)
    <3>1. IsFiniteSet(Switches)
      BY LightAssumption, FS_Interval DEF Switches
    <3>2. QED
      BY <3>1, FS_Subset
  <2>2. SetToSeq(thrown) \in Seq(thrown)
    BY <2>1, SequenceOfSet
  <2>3. SetToSeq(thrown) \in Seq(Switches)
    BY <2>2, SeqMonotonic
  <2>4. QED
    BY <1>2, <2>3, AppliedTyped
<1>6. \A l \in Scrambles(w) : l \in SUBSET Lights /\ l # Lights
  BY <1>5 DEF Scrambles
<1>7. QED
  BY <1>2, <1>3, <1>4, <1>6

LEMMA VaultDealt ==
  ASSUME NEW p \in Vaults
  PROVE  p.code \in Seq(Int) /\ Len(p.code) = DigitCount
<1>1. PICK c \in (1..4) \X (2..8) : p.code = Code(c[1], c[2])
  BY DEF Vaults
<1>2. c[1] \in Int /\ c[2] \in Int
  BY <1>1
<1>3. QED
  BY <1>1, <1>2 DEF Code, CodeDigitSum, DigitCount

LEMMA AlongIn ==
  ASSUME NEW t \in 0..100, NEW count \in Nat \ {0}
  PROVE  Along(t, count) \in 0..(count - 1)
<1> DEFINE m == count - 1
           p == t * m
<1>1. m \in Nat
  OBVIOUS
<1>2. p \in Nat /\ p <= 100 * m
  <2> HIDE DEF m
  <2>1. \A a, b, c \in Nat : a <= c => a * b <= c * b /\ a * b \in Nat
    OBVIOUS
  <2>2. QED
    BY <1>1, <2>1
<1>3. 2 * t * (count - 1) = 2 * p
  <2> HIDE DEF m
  <2>1. 2 * t * m = 2 * (t * m)
    BY <1>1
  <2>2. QED
    BY <2>1 DEF m
<1> HIDE DEF p
<1>4. (2 * p + 100) \div 200 \in 0..m
  <2> HIDE DEF m
  <2>1. QED
    BY <1>1, <1>2
<1>5. QED
  BY <1>3, <1>4 DEF Along

\* A place on an edge is a cell of the grid.
LEMMA BorderIn ==
  ASSUME NEW edge \in 0..3, NEW t \in Spots
  PROVE  BorderCell(edge, t) \in Grid
<1>1. t \in 0..100 /\ Cols \in Nat \ {0} /\ Rows \in Nat \ {0}
  BY BonkAssumption
<1>2. Along(t, Cols) \in 0..(Cols - 1) /\ Along(t, Rows) \in 0..(Rows - 1)
  BY <1>1, AlongIn
<1>3. 0 \in 0..(Cols - 1) /\ Cols - 1 \in 0..(Cols - 1) /\ 0 \in 0..(Rows - 1) /\ Rows - 1 \in 0..(Rows - 1)
  BY <1>1
<1>4. edge = 0 \/ edge = 1 \/ edge = 2 \/ edge = 3
  OBVIOUS
<1>5. QED
  BY <1>2, <1>3, <1>4 DEF BorderCell, Cell, Grid

LEMMA RunwayIn ==
  ASSUME NEW length \in Nat \ {0}, NEW taken_, NEW r \in RunwaysOf(length, taken_)
  PROVE  r.thr \in Grid
<1>1. PICK dir \in Directions, s \in Sites :
        /\ s.x \in 2..(Cols - 3) /\ s.y \in 1..(Rows - 2)
        /\ r = LET isHoriz == dir.y = 0
                   back == IF dir.x + dir.y < 0 THEN length - 1 ELSE 0
               IN  RunwayAt(IF isHoriz THEN Cell(s.x + back, s.y)
                                       ELSE Cell(s.x, s.y + back), dir, length)
  BY DEF RunwaysOf
<1> DEFINE back == IF dir.x + dir.y < 0 THEN length - 1 ELSE 0
           thr == IF dir.y = 0 THEN Cell(s.x + back, s.y) ELSE Cell(s.x, s.y + back)
<1>2. r = RunwayAt(thr, dir, length)
  BY <1>1
<1>3. dir.x \in Int /\ dir.y \in Int
  BY DEF Directions, Cell
<1>4. back \in Nat /\ s.x \in Int /\ s.y \in Int /\ Cols \in Nat /\ Rows \in Nat
  BY <1>1, <1>3, BonkAssumption
<1> HIDE DEF back
<1>5. thr.x \in Int /\ thr.y \in Int /\ thr = Cell(thr.x, thr.y)
  BY <1>4 DEF Cell
<1>6. r.thr = thr /\ r.dir = dir /\ thr \in r.cells
  <2>1. Cell(thr.x + 0 * dir.x, thr.y + 0 * dir.y) = thr
    <3> HIDE DEF thr
    <3>1. thr.x + 0 * dir.x = thr.x /\ thr.y + 0 * dir.y = thr.y
      BY <1>3, <1>5
    <3>2. QED
      BY <1>5, <3>1
  <2>2. 0 \in 0..(length - 1)
    OBVIOUS
  <2> HIDE DEF thr
  <2>3. QED
    BY <1>2, <2>1, <2>2 DEF RunwayAt
<1>7. IF r.dir.y = 0 THEN \A c \in r.cells : c.x <= Cols - 4
                     ELSE \A c \in r.cells : c.y <= Rows - 3
  BY DEF RunwaysOf
<1>8. CASE dir.y = 0
  <2>1. thr.x <= Cols - 4 /\ thr.x = s.x + back /\ thr.y = s.y
    BY <1>6, <1>7, <1>8 DEF Cell
  <2>2. QED
    BY <1>1, <1>4, <1>5, <1>6, <2>1 DEF Cell, Grid
<1>9. CASE dir.y # 0
  <2>1. thr.y <= Rows - 3 /\ thr.x = s.x /\ thr.y = s.y + back
    BY <1>6, <1>7, <1>9 DEF Cell
  <2>2. QED
    BY <1>1, <1>4, <1>5, <1>6, <2>1 DEF Cell, Grid
<1>10. QED
  BY <1>8, <1>9

-----------------------------------------------------------------------------
(* The roster of an airspace, plane by plane *)

IsApart(f, g) == \A c \in EndsOf(f) : FarFrom(c, EndsOf(g), 3)
Candidates(runways, missions) ==
  [i \in Planes |->
      {f \in Flights(missions[i], runways) :
          /\ f.edge # f.exit
          /\ \A c \in EndsOf(f) : FarFrom(c, RunwayCells(runways), 3)}]
Place(rosters, flights) ==
  UNION {{Append(roster, f) :
            f \in {f \in flights : \A i \in DOMAIN roster : IsApart(f, roster[i])}} :
         roster \in rosters}
Placing(placed, count, flights) ==
  placed = [n \in 0..count |-> IF n = 0 THEN {<<>>} ELSE Place(placed[n - 1], flights[n])]

LEMMA PlacingExists ==
  ASSUME NEW count \in Nat, NEW flights
  PROVE  \E placed : Placing(placed, count, flights)
<1> DEFINE S == {k \in Nat : \E placed : Placing(placed, k, flights)}
<1>1. 0 \in S
  <2> DEFINE f == [n \in 0..0 |-> {<<>>}]
  <2>1. Placing(f, 0, flights)
    BY DEF Placing
  <2>2. QED
    BY <2>1
<1>2. ASSUME NEW k \in Nat, k \in S PROVE k + 1 \in S
  <2>1. PICK f : Placing(f, k, flights)
    BY <1>2
  <2> DEFINE h == [n \in 0..(k + 1) |-> IF n = k + 1 THEN Place(f[k], flights[k + 1]) ELSE f[n]]
  <2>2. ASSUME NEW n \in 0..(k + 1)
        PROVE  h[n] = IF n = 0 THEN {<<>>} ELSE Place(h[n - 1], flights[n])
    <3>1. CASE n = k + 1
      BY <3>1
    <3>2. CASE n # k + 1
      <4>1. n \in 0..k
        BY <3>2
      <4>2. f[n] = IF n = 0 THEN {<<>>} ELSE Place(f[n - 1], flights[n])
        BY <2>1, <4>1 DEF Placing
      <4>3. h[n] = f[n] /\ (n # 0 => h[n - 1] = f[n - 1])
        BY <3>2
      <4>4. QED
        BY <4>2, <4>3
    <3>3. QED
      BY <3>1, <3>2
  <2>3. h = [n \in 0..(k + 1) |-> h[n]]
    OBVIOUS
  <2> HIDE DEF h
  <2>4. Placing(h, k + 1, flights)
    BY <2>2, <2>3 DEF Placing
  <2>5. QED
    BY <2>4
<1> HIDE DEF S
<1>3. count \in S
  BY <1>1, <1>2, CountUp
<1>4. QED
  BY <1>3 DEF S

LEMMA RosterPlaced ==
  ASSUME NEW runways, NEW missions, NEW roster \in Rosters(runways, missions)
  PROVE  roster \in (CHOOSE placed : Placing(placed, PlaneCount, Candidates(runways, missions)))[PlaneCount]
BY DEF Rosters, Placing, Place, Candidates, IsApart

\* Every plane of a roster has a flight of its own mission.
LEMMA RosterOf ==
  ASSUME NEW runways, NEW missions, NEW roster \in Rosters(runways, missions)
  PROVE  \A i \in Planes : roster[i] \in Flights(missions[i], runways)
<1> DEFINE flights == Candidates(runways, missions)
           placed == CHOOSE placed : Placing(placed, PlaneCount, flights)
           F == UNION {flights[i] : i \in Planes}
<1>1. PlaneCount \in Nat \ {0}
  BY BonkAssumption
<1>2. Placing(placed, PlaneCount, flights)
  BY <1>1, PlacingExists
<1>3. roster \in placed[PlaneCount]
  BY RosterPlaced
<1>4. \A i \in Planes : flights[i] \subseteq Flights(missions[i], runways) /\ flights[i] \subseteq F
  BY DEF Candidates
<1> HIDE DEF placed, flights, F
<1> DEFINE K == {k \in Nat : k <= PlaneCount =>
                   \A r \in placed[k] : /\ r \in Seq(F) /\ Len(r) = k
                                        /\ \A i \in 1..k : r[i] \in flights[i]}
<1>5. 0 \in K
  <2>1. placed[0] = {<<>>}
    BY <1>1, <1>2 DEF Placing
  <2>2. <<>> \in Seq(F) /\ Len(<<>>) = 0 /\ 1..0 = {}
    OBVIOUS
  <2>3. \A r \in placed[0] :
          r \in Seq(F) /\ Len(r) = 0 /\ \A i \in 1..0 : r[i] \in flights[i]
    BY <2>1, <2>2
  <2>4. QED
    BY <2>3
<1>6. ASSUME NEW k \in Nat, k \in K PROVE k + 1 \in K
  <2> SUFFICES ASSUME k + 1 <= PlaneCount
               PROVE  \A r \in placed[k + 1] :
                        /\ r \in Seq(F) /\ Len(r) = k + 1
                        /\ \A i \in 1..(k + 1) : r[i] \in flights[i]
    OBVIOUS
  <2>1. k + 1 \in 0..PlaneCount /\ k + 1 # 0 /\ (k + 1) - 1 = k /\ k + 1 \in Planes /\ k <= PlaneCount
    BY <1>1 DEF Planes
  <2>2. placed[k + 1] = Place(placed[k], flights[k + 1])
    BY <1>2, <2>1 DEF Placing
  <2> TAKE r \in placed[k + 1]
  <2>3. PICK q \in placed[k], f \in flights[k + 1] : r = Append(q, f)
    BY <2>2 DEF Place
  <2>4. q \in Seq(F) /\ Len(q) = k /\ \A i \in 1..k : q[i] \in flights[i]
    BY <1>6, <2>1, <2>3
  <2>5. f \in F
    BY <1>4, <2>1, <2>3
  <2>6. /\ r \in Seq(F) /\ Len(r) = k + 1 /\ r[k + 1] = f
        /\ \A i \in 1..k : r[i] = q[i]
    BY <2>3, <2>4, <2>5, AppendProperties
  <2>7. ASSUME NEW i \in 1..(k + 1) PROVE r[i] \in flights[i]
    <3>1. CASE i = k + 1
      BY <2>3, <2>6, <3>1
    <3>2. CASE i \in 1..k
      BY <2>4, <2>6, <3>2
    <3>3. QED
      BY <3>1, <3>2
  <2>8. QED
    BY <2>6, <2>7
<1> HIDE DEF K
<1>7. PlaneCount \in K
  <2>1. Nat \subseteq K
    BY <1>5, <1>6, CountUp
  <2>2. QED
    BY <1>1, <2>1
<1>8. \A i \in 1..PlaneCount : roster[i] \in flights[i]
  BY <1>1, <1>3, <1>7 DEF K
<1>9. QED
  BY <1>4, <1>8 DEF Planes

LEMMA FlightEnds ==
  ASSUME NEW runways, runways \in Airports, NEW mission, NEW f \in Flights(mission, runways)
  PROVE  f.spawn \in Grid /\ f.goal \in Grid
<1>1. \A r \in runways : r.thr \in Grid
  <2>1. LongLength \in Nat \ {0} /\ ShortLength \in Nat \ {0}
    BY BonkAssumption
  <2>2. \A r \in runways : \/ r \in RunwaysOf(LongLength, {})
                           \/ \E taken_ : r \in RunwaysOf(ShortLength, taken_)
    BY DEF Airports
  <2>3. QED
    BY <2>1, <2>2, RunwayIn
<1>2. PICK e \in 0..3, t \in Spots,
           g \in IF mission = "land"
                 THEN {[goal |-> r.thr, dir |-> r.dir, exit |-> 4] : r \in runways}
                 ELSE {[goal |-> BorderCell(b, u), dir |-> Cell(0, 0), exit |-> b] :
                        b \in 0..3, u \in Spots} :
        f = [mission |-> mission, spawn |-> BorderCell(e, t), edge |-> e,
             goal |-> g.goal, dir |-> g.dir, exit |-> g.exit]
  BY DEF Flights
<1>3. f.spawn = BorderCell(e, t) /\ f.goal = g.goal
  BY <1>2
<1>4. g.goal \in Grid
  <2>1. CASE mission = "land"
    BY <1>1, <1>2, <2>1
  <2>2. CASE mission # "land"
    BY <1>2, <2>2, BorderIn
  <2>3. QED
    BY <2>1, <2>2
<1>5. QED
  BY <1>3, <1>4, BorderIn

\* Spawns and goals of a world are on the grid.
LEMMA WorldDealt ==
  ASSUME NEW p \in Worlds
  PROVE  \A i \in Planes : p.planes[i].spawn \in Grid /\ p.planes[i].goal \in Grid
<1>1. PICK runways, missions, roster :
        /\ runways \in Airports /\ roster \in Rosters(runways, missions)
        /\ p.planes = roster
  <2> DEFINE Of(runways, missions, roster) ==
               LET protected == Protected(runways, roster)
               IN  UNION {{[planes |-> roster, storm |-> storm, stars |-> stars] :
                        stars \in StarSets(storm, protected)} :
                    storm \in {s \in Storms(protected) :
                      \A i \in Planes : Routable(s, roster[i].spawn, roster[i].goal)}}
  <2>1. \A runways, missions, roster : \A w \in Of(runways, missions, roster) : w.planes = roster
    OBVIOUS
  <2>2. Worlds = UNION {UNION {UNION {Of(runways, missions, roster) :
                    roster \in Rosters(runways, missions)} :
                    missions \in Missions(runways)} :
                    runways \in Airports}
    BY DEF Worlds
  <2> HIDE DEF Of
  <2>3. \E runways \in Airports : \E missions \in Missions(runways) :
          \E roster \in Rosters(runways, missions) : p \in Of(runways, missions, roster)
    BY <2>2
  <2>4. QED
    BY <2>1, <2>3
<1>2. \A i \in Planes : roster[i] \in Flights(missions[i], runways)
  BY <1>1, RosterOf
<1>3. QED
  BY <1>1, <1>2, FlightEnds

\* Whatever the game, the puzzle dealt is one it can be played with.
LEMMA PuzzleDealt ==
  ASSUME game \in Games, puzzle \in Puzzles(game)
  PROVE  PuzzleOK
<1>1. CASE game = "sliding-puzzle"
  <2>1. PICK m \in ScrambleMoves : puzzle \in Scrambled[m]
    BY <1>1 DEF Puzzles
  <2>2. m \in 1..Max(ScrambleMoves) /\ m \in Nat
    BY RoundAssumption
  <2>3. puzzle \in ScrambledBoards(m)
    BY <2>1, <2>2 DEF Scrambled
  <2>4. QED
    BY <1>1, <2>2, <2>3, ScrambledTyped DEF PuzzleOK
<1>2. CASE game = "light-switch"
  <2>1. puzzle \in LightPuzzles
    BY <1>2 DEF Puzzles
  <2>2. QED
    BY <1>2, <2>1, LightsDealt DEF PuzzleOK
<1>3. CASE game = "vault-rush"
  <2>1. puzzle \in Vaults
    BY <1>3 DEF Puzzles
  <2>2. QED
    BY <1>3, <2>1, VaultDealt DEF PuzzleOK
<1>4. CASE game = "wordle"
  BY <1>4 DEF Puzzles, PuzzleOK, RandomWords
<1>5. CASE game = "balance-scale"
  BY <1>5 DEF PuzzleOK
<1>6. CASE game = "bonk-air"
  <2>1. puzzle \in Worlds
    BY <1>6 DEF Puzzles
  <2>2. QED
    BY <1>6, <2>1, WorldDealt DEF PuzzleOK
<1>7. QED
  BY <1>1, <1>2, <1>3, <1>4, <1>5, <1>6, RoundAssumption

-----------------------------------------------------------------------------
(* Routes *)

LEMMA GridCell ==
  ASSUME NEW c
  PROVE  c \in Grid <=> /\ c = Cell(c.x, c.y)
                        /\ c.x \in 0..(Cols - 1) /\ c.y \in 0..(Rows - 1)
BY DEF Grid, Cell

LEMMA GridInts ==
  ASSUME NEW c \in Grid
  PROVE  c.x \in Int /\ c.y \in Int
BY GridCell

\* How far two cells are apart, and which cells are around one
LEMMA ApartIs ==
  ASSUME NEW a \in Grid, NEW b \in Grid
  PROVE  LET m == CellsApart(a, b)
         IN  /\ m \in Nat /\ m \in {a.x - b.x, b.x - a.x, a.y - b.y, b.y - a.y}
             /\ m >= a.x - b.x /\ m >= b.x - a.x /\ m >= a.y - b.y /\ m >= b.y - a.y
<1> DEFINE p == a.x - b.x
           q == b.x - a.x
           r == a.y - b.y
           s == b.y - a.y
           S == {p, q, r, s}
<1>1. p \in Int /\ q \in Int /\ r \in Int /\ s \in Int /\ q = -p /\ s = -r
  BY GridInts
<1> HIDE DEF p, q, r, s
<1>2. \E x \in S : \A y \in S : x >= y
  BY <1>1
<1>3. Max(S) \in S /\ \A y \in S : Max(S) >= y
  BY <1>2 DEF Max
<1>4. Max(S) \in Nat /\ Max(S) \in {p, q, r, s} /\ Max(S) >= p /\ Max(S) >= q /\ Max(S) >= r /\ Max(S) >= s
  BY <1>1, <1>3
<1>5. CellsApart(a, b) = Max(S)
  BY DEF CellsApart, p, q, r, s
<1>6. QED
  BY <1>4, <1>5 DEF p, q, r, s

LEMMA AroundIs ==
  ASSUME NEW a \in Grid, NEW b \in Grid
  PROVE  b \in Around(a) \ {a} <=> /\ b.x - a.x \in -1..1 /\ b.y - a.y \in -1..1
                                   /\ b.x # a.x \/ b.y # a.y
<1>1. a.x \in Int /\ a.y \in Int /\ b.x \in Int /\ b.y \in Int
      /\ a = Cell(a.x, a.y) /\ b = Cell(b.x, b.y)
  BY GridInts, GridCell
<1>2. ASSUME b \in Around(a) \ {a}
      PROVE  /\ b.x - a.x \in -1..1 /\ b.y - a.y \in -1..1
             /\ b.x # a.x \/ b.y # a.y
  <2>1. PICK i \in -1..1, j \in -1..1 : b = Cell(a.x + i, a.y + j)
    BY <1>2 DEF Around
  <2>2. b.x = a.x + i /\ b.y = a.y + j
    BY <2>1 DEF Cell
  <2>3. b # a
    BY <1>2
  <2>4. QED
    BY <1>1, <2>2, <2>3
<1>3. ASSUME b.x - a.x \in -1..1, b.y - a.y \in -1..1, b.x # a.x \/ b.y # a.y
      PROVE  b \in Around(a) \ {a}
  <2>1. a.x + (b.x - a.x) = b.x /\ a.y + (b.y - a.y) = b.y
    BY <1>1
  <2>2. b = Cell(a.x + (b.x - a.x), a.y + (b.y - a.y))
    BY <1>1, <2>1
  <2>3. b # a
    BY <1>3
  <2>4. QED
    BY <1>3, <2>2, <2>3 DEF Around
<1>4. QED
  BY <1>2, <1>3

\* A move of a line between two values: its length so far, of so many cells.
Way(d, n) == Toward(d) * Min({n, Max({d, -d})})

LEMMA WayIs ==
  ASSUME NEW d \in Int, NEW n \in Nat
  PROVE  Way(d, n) = IF d >= 0 THEN (IF n <= d THEN n ELSE d)
                     ELSE (IF n <= -d THEN -n ELSE d)
<1> DEFINE m == IF d >= 0 THEN d ELSE -d
<1>1. Max({d, -d}) = m
  BY DEF Max
<1>2. m \in Nat
  OBVIOUS
<1> HIDE DEF m
<1>3. Min({n, m}) = IF n <= m THEN n ELSE m
  BY <1>2 DEF Min
<1>4. CASE d > 0
  BY <1>1, <1>3, <1>4 DEF Way, Toward, m
<1>5. CASE d < 0
  BY <1>1, <1>3, <1>5 DEF Way, Toward, m
<1>6. CASE d = 0
  BY <1>1, <1>3, <1>6 DEF Way, Toward, m
<1>7. QED
  BY <1>4, <1>5, <1>6

\* A line of cells goes from each to one around it.
LEMMA LineIs ==
  ASSUME NEW a \in Grid, NEW b \in Grid
  PROVE  /\ LineCells(a, b) \in Seq(Grid) /\ Len(LineCells(a, b)) \in Nat
         /\ \A n \in 1..Len(LineCells(a, b)) :
              LineCells(a, b)[n]
                \in Around(IF n = 1 THEN a ELSE LineCells(a, b)[n - 1])
                      \ {IF n = 1 THEN a ELSE LineCells(a, b)[n - 1]}
<1> DEFINE m == CellsApart(a, b)
           dx == b.x - a.x
           dy == b.y - a.y
           line == LineCells(a, b)
           at(n) == Cell(a.x + Way(dx, n), a.y + Way(dy, n))
<1>1. a.x \in Int /\ a.y \in Int /\ b.x \in Int /\ b.y \in Int /\ dx \in Int /\ dy \in Int
      /\ Cols \in Nat /\ Rows \in Nat
      /\ a.x \in 0..(Cols - 1) /\ a.y \in 0..(Rows - 1) /\ b.x \in 0..(Cols - 1) /\ b.y \in 0..(Rows - 1)
      /\ a = Cell(a.x, a.y)
  BY GridInts, GridCell, BonkAssumption
<1>2. m \in Nat /\ (m = dx \/ m = -dx \/ m = dy \/ m = -dy)
      /\ m >= dx /\ m >= -dx /\ m >= dy /\ m >= -dy
  <2>1. -dx = a.x - b.x /\ -dy = a.y - b.y
    BY <1>1
  <2> HIDE DEF m
  <2>2. QED
    BY <2>1, ApartIs DEF m
<1>3. line = [n \in 1..m |-> at(n)]
  BY DEF LineCells, Way
<1>4. ASSUME NEW n \in Nat, n <= m
      PROVE  at(n) \in Grid /\ at(n).x = a.x + Way(dx, n) /\ at(n).y = a.y + Way(dy, n)
  <2>1. /\ Way(dx, n) = IF dx >= 0 THEN (IF n <= dx THEN n ELSE dx)
                        ELSE (IF n <= -dx THEN -n ELSE dx)
        /\ Way(dy, n) = IF dy >= 0 THEN (IF n <= dy THEN n ELSE dy)
                        ELSE (IF n <= -dy THEN -n ELSE dy)
    BY <1>1, WayIs
  <2>2. a.x + dx = b.x /\ a.y + dy = b.y
    BY <1>1
  <2> HIDE DEF dx, dy
  <2>3. a.x + Way(dx, n) \in 0..(Cols - 1)
    BY <1>1, <2>1, <2>2
  <2>4. a.y + Way(dy, n) \in 0..(Rows - 1)
    BY <1>1, <2>1, <2>2
  <2>5. QED
    BY <2>3, <2>4 DEF Cell, Grid
<1>5. ASSUME NEW n \in 1..m PROVE at(n) \in Around(at(n - 1)) \ {at(n - 1)}
  <2>1. n \in Nat /\ n - 1 \in Nat /\ n <= m /\ n - 1 <= m
    BY <1>2
  <2>2. /\ Way(dx, n) = IF dx >= 0 THEN (IF n <= dx THEN n ELSE dx)
                        ELSE (IF n <= -dx THEN -n ELSE dx)
        /\ Way(dy, n) = IF dy >= 0 THEN (IF n <= dy THEN n ELSE dy)
                        ELSE (IF n <= -dy THEN -n ELSE dy)
        /\ Way(dx, n - 1) = IF dx >= 0 THEN (IF n - 1 <= dx THEN n - 1 ELSE dx)
                        ELSE (IF n - 1 <= -dx THEN -(n - 1) ELSE dx)
        /\ Way(dy, n - 1) = IF dy >= 0 THEN (IF n - 1 <= dy THEN n - 1 ELSE dy)
                        ELSE (IF n - 1 <= -dy THEN -(n - 1) ELSE dy)
    BY <1>1, <2>1, WayIs
  <2>3. /\ at(n) \in Grid /\ at(n).x = a.x + Way(dx, n) /\ at(n).y = a.y + Way(dy, n)
        /\ at(n - 1) \in Grid /\ at(n - 1).x = a.x + Way(dx, n - 1)
        /\ at(n - 1).y = a.y + Way(dy, n - 1)
    BY <1>4, <2>1
  <2> DEFINE p == at(n - 1)
             q == at(n)
  <2> HIDE DEF dx, dy, m, p, q, at
  <2>4. q.x - p.x = Way(dx, n) - Way(dx, n - 1) /\ q.y - p.y = Way(dy, n) - Way(dy, n - 1)
    BY <1>1, <2>2, <2>3 DEF p, q
  <2>5. Way(dx, n) - Way(dx, n - 1) \in -1..1 /\ Way(dy, n) - Way(dy, n - 1) \in -1..1
    BY <1>1, <2>1, <2>2
  <2>6. Way(dx, n) # Way(dx, n - 1) \/ Way(dy, n) # Way(dy, n - 1)
    BY <1>1, <1>2, <2>1, <2>2
  <2>7. q.x # p.x \/ q.y # p.y
    BY <1>1, <2>2, <2>3, <2>6 DEF p, q
  <2>8. q \in Around(p) \ {p}
    BY <2>3, <2>4, <2>5, <2>7, AroundIs DEF p, q
  <2>9. QED
    BY <2>8 DEF p, q
<1>6. at(0) = a
  <2>1. Way(dx, 0) = 0 /\ Way(dy, 0) = 0
    BY <1>1, WayIs
  <2> HIDE DEF dx, dy
  <2>2. QED
    BY <1>1, <2>1
<1> HIDE DEF m, dx, dy, at
<1>7. line \in Seq(Grid) /\ Len(line) = m /\ \A n \in 1..m : line[n] = at(n)
  BY <1>2, <1>3, <1>4
<1> HIDE DEF line
<1>8. ASSUME NEW n \in 1..m
      PROVE  line[n] \in Around(IF n = 1 THEN a ELSE line[n - 1]) \ {IF n = 1 THEN a ELSE line[n - 1]}
  <2>1. CASE n = 1
    <3>1. n - 1 = 0
      BY <2>1
    <3>2. QED
      BY <1>5, <1>6, <1>7, <2>1, <3>1
  <2>2. CASE n # 1
    <3>1. n - 1 \in 1..m
      BY <1>2, <2>2
    <3>2. QED
      BY <1>5, <1>7, <2>2, <3>1
  <2>3. QED
    BY <2>1, <2>2
<1>9. QED
  BY <1>2, <1>7, <1>8 DEF line

-----------------------------------------------------------------------------
(* What is drawn is connected, and a route stays one. *)

Connected(cells) ==
  /\ cells \in Seq(Grid) /\ cells # <<>>
  /\ \A n \in 2..Len(cells) : cells[n] \in Around(cells[n - 1]) \ {cells[n - 1]}

LEMMA ConnectedPrefix ==
  ASSUME NEW s, Connected(s), NEW k \in 1..Len(s)
  PROVE  Connected(SubSeq(s, 1, k)) /\ SubSeq(s, 1, k)[1] = s[1]
<1> DEFINE p == SubSeq(s, 1, k)
<1>1. s \in Seq(Grid) /\ Len(s) \in Nat \ {0}
  BY EmptySeq DEF Connected
<1>2. 1 \in Int /\ k \in Int /\ k >= 1 /\ k <= Len(s) /\ \A i \in 1..k : s[i] \in Grid
  BY <1>1, ElementOfSeq
<1>3. /\ p \in Seq(Grid) /\ Len(p) = (IF 1 <= k THEN k - 1 + 1 ELSE 0)
      /\ \A i \in 1..(k - 1 + 1) : p[i] = s[1 + i - 1]
  BY <1>2, SubSeqProperties
<1> HIDE DEF p
<1>4. Len(p) = k /\ \A i \in 1..k : p[i] = s[i]
  <2>1. k - 1 + 1 = k /\ \A i \in 1..k : 1 + i - 1 = i
    BY <1>2
  <2>2. QED
    BY <1>2, <1>3, <2>1
<1>5. p # <<>>
  BY <1>2, <1>4
<1>6. ASSUME NEW n \in 2..Len(p) PROVE p[n] \in Around(p[n - 1]) \ {p[n - 1]}
  <2>1. n \in 1..k /\ n - 1 \in 1..k /\ n \in 2..Len(s)
    BY <1>1, <1>2, <1>4
  <2>2. QED
    BY <1>4, <2>1 DEF Connected
<1>7. QED
  BY <1>2, <1>3, <1>4, <1>5, <1>6 DEF Connected, p

LEMMA ConnectedOn ==
  ASSUME NEW s, Connected(s), NEW line \in Seq(Grid),
         \A n \in 1..Len(line) :
            line[n] \in Around(IF n = 1 THEN s[Len(s)] ELSE line[n - 1])
                          \ {IF n = 1 THEN s[Len(s)] ELSE line[n - 1]}
  PROVE  Connected(s \o line) /\ (s \o line)[1] = s[1] /\ Len(s \o line) = Len(s) + Len(line)
<1> DEFINE j == Len(s)
           k == Len(line)
           r == s \o line
<1>1. s \in Seq(Grid) /\ j \in Nat \ {0} /\ k \in Nat
  BY EmptySeq, LenProperties DEF Connected
<1>2. /\ r \in Seq(Grid) /\ Len(r) = j + k
      /\ \A i \in 1..(j + k) : r[i] = IF i <= j THEN s[i] ELSE line[i - j]
  BY <1>1, ConcatProperties
<1> HIDE DEF r
<1>3. ASSUME NEW n \in 2..Len(r) PROVE r[n] \in Around(r[n - 1]) \ {r[n - 1]}
  <2>1. n \in Int /\ n - 1 \in 1..(j + k) /\ n \in 1..(j + k) /\ 2 <= n /\ n <= j + k
    BY <1>1, <1>2
  <2>2. CASE n <= j
    <3>1. r[n] = s[n] /\ r[n - 1] = s[n - 1] /\ n \in 2..j
      BY <1>1, <1>2, <2>1, <2>2
    <3>2. QED
      BY <3>1 DEF Connected
  <2>3. CASE n = j + 1
    <3>1. ~(n <= j) /\ n - j = 1 /\ n - 1 = j /\ 1 \in 1..k
      BY <1>1, <2>1, <2>3
    <3>2. r[n] = line[1] /\ r[n - 1] = s[j]
      BY <1>1, <1>2, <2>1, <3>1
    <3>3. QED
      BY <3>1, <3>2
  <2>4. CASE n > j + 1
    <3>1. /\ ~(n <= j) /\ ~(n - 1 <= j) /\ n - j \in 1..k /\ n - j # 1
          /\ (n - 1) - j = (n - j) - 1
      BY <1>1, <2>1, <2>4
    <3>2. r[n] = line[n - j] /\ r[n - 1] = line[(n - j) - 1]
      BY <1>2, <2>1, <3>1
    <3>3. QED
      BY <3>1, <3>2
  <2>5. QED
    BY <1>1, <2>1, <2>2, <2>3, <2>4
<1>4. r # <<>> /\ r[1] = s[1]
  <2>1. 1 <= j /\ 1 \in 1..(j + k) /\ j + k # 0
    BY <1>1
  <2>2. QED
    BY <1>2, <2>1
<1>5. QED
  BY <1>2, <1>3, <1>4 DEF Connected, r

\* onPointerMove() keeps a route connected and its first cell.
LEMMA DrawnOn ==
  ASSUME NEW s, Connected(s), NEW c \in Grid
  PROVE  Connected(Drawn(s, c)) /\ Drawn(s, c)[1] = s[1]
<1>1. s \in Seq(Grid) /\ Len(s) \in Nat \ {0} /\ s[Len(s)] \in Grid
  <2>1. s \in Seq(Grid) /\ Len(s) \in Nat \ {0}
    BY EmptySeq DEF Connected
  <2>2. QED
    BY <2>1, ElementOfSeq
<1>2. CASE Len(s) > 1 /\ s[Len(s) - 1] = c
  <2>1. Len(s) - 1 \in 1..Len(s)
    BY <1>1, <1>2
  <2>2. QED
    BY <1>2, <2>1, ConnectedPrefix DEF Drawn, Front
<1>3. CASE ~(Len(s) > 1 /\ s[Len(s) - 1] = c)
  <2> DEFINE line == LineCells(Last(s), c)
             on == s \o line
             k == Min({Len(on), Max({Len(s), MaxPathCells})})
  <2>1. Drawn(s, c) = SubSeq(on, 1, k)
    BY <1>3 DEF Drawn
  <2>2. line \in Seq(Grid) /\ Len(line) \in Nat
    BY <1>1, LineIs DEF Last
  <2>3. Connected(on) /\ on[1] = s[1] /\ Len(on) = Len(s) + Len(line)
    <3>1. \A n \in 1..Len(line) :
            line[n] \in Around(IF n = 1 THEN s[Len(s)] ELSE line[n - 1])
                          \ {IF n = 1 THEN s[Len(s)] ELSE line[n - 1]}
      BY <1>1, LineIs DEF Last
    <3> HIDE DEF line
    <3>2. QED
      BY <2>2, <3>1, ConnectedOn
  <2> HIDE DEF line, on
  <2>4. k \in 1..Len(on)
    <3> DEFINE m == Max({Len(s), MaxPathCells})
    <3>1. MaxPathCells \in Nat \ {0}
      BY BonkAssumption
    <3>2. m \in Nat \ {0}
      BY <1>1, <3>1 DEF Max
    <3>3. Len(on) \in Nat \ {0}
      BY <1>1, <2>2, <2>3
    <3> HIDE DEF m
    <3>4. Min({Len(on), m}) = IF Len(on) <= m THEN Len(on) ELSE m
      BY <3>2, <3>3 DEF Min
    <3>5. QED
      BY <3>2, <3>3, <3>4 DEF m
  <2>5. QED
    BY <2>1, <2>3, <2>4, ConnectedPrefix
<1>4. QED
  BY <1>2, <1>3

LEMMA RouteIs ==
  ASSUME NEW i, NEW path \in Paths
  PROVE  IsRoute(i, path) <=> /\ Connected(path.cells)
                              /\ path.cells[1] = puzzle.planes[i].spawn
                              /\ path.complete => Last(path.cells) = puzzle.planes[i].goal
BY DEF IsRoute, Connected, Paths

LEMMA DrawnRoute ==
  ASSUME NEW i, NEW path \in Paths, IsRoute(i, path), ~path.complete, NEW c \in Grid
  PROVE  LET new == [path EXCEPT !.cells = Drawn(path.cells, c)]
         IN  new \in Paths /\ IsRoute(i, new) /\ ~new.complete
<1> DEFINE new == [path EXCEPT !.cells = Drawn(path.cells, c)]
<1>1. Connected(path.cells) /\ path.cells[1] = puzzle.planes[i].spawn
  BY RouteIs
<1>2. Connected(Drawn(path.cells, c)) /\ Drawn(path.cells, c)[1] = path.cells[1]
  BY <1>1, DrawnOn
<1>3. new \in Paths /\ new.cells = Drawn(path.cells, c) /\ ~new.complete
  BY <1>2 DEF Paths, Connected
<1> HIDE DEF new
<1>4. IsRoute(i, new)
  BY <1>1, <1>2, <1>3, RouteIs
<1>5. QED
  BY <1>3, <1>4 DEF new

\* finishStroke() leaves a route that ends at its goal if it is complete.
LEMMA SnappedRoute ==
  ASSUME NEW i, NEW path \in Paths, IsRoute(i, path), puzzle.planes[i].goal \in Grid
  PROVE  LET new == Snapped(path, puzzle.planes[i].goal)
         IN  new \in Paths /\ IsRoute(i, new)
<1> DEFINE goal == puzzle.planes[i].goal
           s == path.cells
           new == Snapped(path, goal)
           apart == CellsApart(Last(s), goal)
<1>1. Connected(s) /\ s[1] = puzzle.planes[i].spawn
  BY RouteIs
<1>2. s \in Seq(Grid) /\ Len(s) \in Nat \ {0} /\ s[Len(s)] \in Grid /\ Last(s) = s[Len(s)]
  <2>1. s \in Seq(Grid) /\ Len(s) \in Nat \ {0}
    BY <1>1, EmptySeq DEF Connected
  <2>2. QED
    BY <2>1, ElementOfSeq DEF Last
<1> DEFINE l == s[Len(s)]
<1>3. /\ apart \in Nat /\ apart \in {l.x - goal.x, goal.x - l.x, l.y - goal.y, goal.y - l.y}
      /\ apart >= l.x - goal.x /\ apart >= goal.x - l.x /\ apart >= l.y - goal.y
      /\ apart >= goal.y - l.y
  BY <1>2, ApartIs
<1>4. l.x \in Int /\ l.y \in Int /\ goal.x \in Int /\ goal.y \in Int
      /\ l = Cell(l.x, l.y) /\ goal = Cell(goal.x, goal.y)
  BY <1>2, GridInts, GridCell
<1>5. new = [cells |-> IF apart = 1 THEN Append(s, goal) ELSE s, complete |-> apart <= 1]
  BY DEF Snapped
<1> HIDE DEF apart, s, goal, new
<1>6. CASE apart = 1
  <2> DEFINE t == Append(s, goal)
  <2>1. goal \in Around(l) \ {l}
    <3>1. goal.x - l.x \in -1..1 /\ goal.y - l.y \in -1..1 /\ (goal.x # l.x \/ goal.y # l.y)
      <4> HIDE DEF l
      <4>1. QED
        BY <1>3, <1>4, <1>6
    <3>2. goal \in Grid /\ l \in Grid
      BY <1>2 DEF goal
    <3> HIDE DEF l
    <3>3. QED
      BY <3>1, <3>2, AroundIs
  <2>2. t = s \o <<goal>> /\ <<goal>> \in Seq(Grid) /\ Len(<<goal>>) = 1 /\ <<goal>>[1] = goal
    BY <1>2 DEF goal
  <2>3. /\ Connected(t) /\ t[1] = s[1] /\ Len(t) = Len(s) + 1
    <3>1. \A n \in 1..Len(<<goal>>) :
            <<goal>>[n] \in Around(IF n = 1 THEN s[Len(s)] ELSE <<goal>>[n - 1])
                          \ {IF n = 1 THEN s[Len(s)] ELSE <<goal>>[n - 1]}
      BY <2>1, <2>2
    <3>2. Connected(s \o <<goal>>) /\ (s \o <<goal>>)[1] = s[1]
          /\ Len(s \o <<goal>>) = Len(s) + Len(<<goal>>)
      BY <1>1, <2>2, <3>1, ConnectedOn
    <3>3. QED
      BY <2>2, <3>2
  <2>4. t[Len(t)] = goal
    BY <1>2, <2>3
  <2> HIDE DEF t
  <2>5. new.cells = t /\ new.complete = TRUE /\ new \in Paths
    <3>1. t \in Seq(Grid) /\ (apart <= 1) = TRUE
      BY <1>6, <2>3 DEF Connected
    <3>2. new = [cells |-> t, complete |-> TRUE]
      BY <1>5, <1>6, <3>1 DEF t
    <3>3. QED
      BY <3>1, <3>2 DEF Paths
  <2>6. IsRoute(i, new)
    BY <1>1, <2>3, <2>4, <2>5, RouteIs DEF Last, goal
  <2>7. QED
    BY <2>5, <2>6 DEF new, goal
<1>7. CASE apart # 1
  <2>1. new.cells = s /\ new.complete = (apart <= 1) /\ new \in Paths
    BY <1>2, <1>5, <1>7 DEF Paths
  <2>2. apart <= 1 => l = goal
    <3>1. apart <= 1 => l.x = goal.x /\ l.y = goal.y
      <4> HIDE DEF l
      <4>1. QED
        BY <1>3, <1>4, <1>7
    <3> HIDE DEF l
    <3>2. QED
      BY <1>4, <3>1
  <2>3. IsRoute(i, new)
    BY <1>1, <1>2, <2>1, <2>2, RouteIs DEF goal
  <2>4. QED
    BY <2>1, <2>3 DEF new, goal
<1>8. QED
  BY <1>6, <1>7

-----------------------------------------------------------------------------
(* Steps keep the round. *)

LEMMA GamesAre ==
  ASSUME game \in Games
  PROVE  game \in {"sliding-puzzle", "light-switch", "vault-rush", "wordle",
                   "balance-scale", "bonk-air"}
BY RoundAssumption

\* The types of the frames are those of the game, which does not change.
LEMMA SameRound ==
  ASSUME game \in Games, UNCHANGED <<game, puzzle>>
  PROVE  /\ Answers' = Answers /\ UpFrames' = UpFrames /\ DownFrames' = DownFrames
         /\ Snapshots' = Snapshots /\ Saves' = Saves
         /\ PuzzleOK => PuzzleOK'
         /\ ScreenOK(screen') => ScreenOK(screen)'
<1>1. Plans' = Plans
  BY DEF Plans, IsRoute
<1>2. Answers' = Answers
  BY <1>1 DEF Answers
<1>3. Feedbacks' = Feedbacks
  BY DEF Feedbacks
<1>4. UpFrames' = UpFrames /\ Snapshots' = Snapshots /\ Saves' = Saves
  BY <1>2 DEF UpFrames, Snapshots, Saves
<1>5. DownFrames' = DownFrames
  BY <1>3 DEF DownFrames
<1>6. PuzzleOK => PuzzleOK'
  BY DEF PuzzleOK
<1>7. ASSUME ScreenOK(screen') PROVE ScreenOK(screen)'
  <2>1. CASE game = "wordle"
    BY <1>3, <1>7, <2>1 DEF ScreenOK, WordScreens
  <2>2. CASE game = "bonk-air"
    <3>1. FlightScreen(screen')
      BY <1>7, <2>2 DEF ScreenOK
    <3>2. Strokes(screen'.paths) = Strokes(screen.paths)'
      BY DEF Strokes, IsRoute
    <3>3. Maybe(Strokes(screen'.paths)) = Maybe(Strokes(screen.paths))'
      BY <3>2 DEF Maybe
    <3>4. Maybe(Plans)' = Maybe(Plans)
      BY <1>1 DEF Maybe
    <3>5. FlightScreen(screen)'
      BY <1>1, <3>1, <3>3, <3>4 DEF FlightScreen
    <3>6. QED
      BY <2>2, <3>5 DEF ScreenOK
  <2>3. CASE game # "wordle" /\ game # "bonk-air"
    <3>1. CASE game = "sliding-puzzle"
      BY <1>7, <3>1 DEF ScreenOK, Boards
    <3>2. CASE game = "light-switch"
      BY <1>7, <3>2 DEF ScreenOK
    <3>3. CASE game = "vault-rush"
      BY <1>7, <3>3 DEF ScreenOK
    <3>4. CASE game = "balance-scale"
      BY <1>7, <3>4 DEF ScreenOK
    <3>5. QED
      BY <2>3, <3>1, <3>2, <3>3, <3>4, GamesAre
  <2>4. QED
    BY <2>1, <2>2, <2>3
<1>8. QED
  BY <1>2, <1>4, <1>5, <1>6, <1>7

LEMMA FramesTyped ==
  ASSUME NEW v \in Answers
  PROVE  /\ Progress(v) \in UpFrames /\ Submit(v) \in UpFrames
         /\ Progress(v).kind = "progress" /\ Submit(v).kind = "submit"
         /\ Progress(v).value = v /\ Submit(v).value = v
BY DEF Progress, Submit, UpFrames

LEMMA UpFramesAre ==
  ASSUME NEW f \in UpFrames
  PROVE  f.value \in Answers /\ f.kind \in {"progress", "submit"}
BY DEF UpFrames

\* What a step of the phone does to the frames, where it finds the answer
\* locked or not.
Moves(locked) ==
    /\ lost' \in BOOLEAN /\ (lost => lost')
    /\ up' \in Seq(UpFrames) /\ submitted' \in BOOLEAN
    /\ ~online' => up' = up
    /\ ~lost' =>
         \/ up' = up /\ submitted' = locked
         \/ /\ ~locked /\ online'
            /\ \E v \in Answers :
                 \/ ~submitted' /\ up' = Append(up, Progress(v))
                 \/ /\ submitted' /\ Handed(v)' /\ (faults = 0 => Valid(v))
                    /\ \/ up' = Append(up, Submit(v))
                       \/ up' = Append(Append(up, Progress(v)), Submit(v))

HandedKept(locked) ==
    (locked /\ ~lost') => \A v \in Answers : Handed(v) => Handed(v)'

\* What a phone may send in one step: nothing, a report, an answer or both
LEMMA NothingSent ==
  ASSUME up \in Seq(UpFrames), lost \in BOOLEAN, NEW locked \in BOOLEAN,
         up' = up, submitted' = locked, lost' \in BOOLEAN, lost => lost'
  PROVE  Moves(locked)
BY DEF Moves

LEMMA ProgressSent ==
  ASSUME up \in Seq(UpFrames), lost \in BOOLEAN, online \in BOOLEAN, UNCHANGED online,
         submitted = FALSE, NEW v \in Answers, Send(<<Progress(v)>>)
  PROVE  Moves(submitted)
<1>1. /\ Progress(v) \in UpFrames /\ Progress(v).kind = "progress"
  BY FramesTyped
<1>2. up \o <<Progress(v)>> = Append(up, Progress(v)) /\ Append(up, Progress(v)) \in Seq(UpFrames)
  BY <1>1
<1>3. <<Progress(v)>>[1] = Progress(v) /\ DOMAIN <<Progress(v)>> = {1}
  OBVIOUS
<1>4. submitted' = FALSE /\ lost' = (lost \/ ~online)
  BY <1>1, <1>3 DEF Send
<1>5. CASE online
  BY <1>2, <1>4, <1>5 DEF Send, Moves
<1>6. CASE ~online
  BY <1>4, <1>6 DEF Send, Moves
<1>7. QED
  BY <1>5, <1>6

LEMMA SubmitSent ==
  ASSUME up \in Seq(UpFrames), lost \in BOOLEAN, online \in BOOLEAN, UNCHANGED online,
         submitted = FALSE, NEW v \in Answers, Handed(v)', Valid(v),
         Send(<<Submit(v)>>)
  PROVE  Moves(submitted)
<1>1. /\ Submit(v) \in UpFrames /\ Submit(v).kind = "submit"
  BY FramesTyped
<1>2. up \o <<Submit(v)>> = Append(up, Submit(v)) /\ Append(up, Submit(v)) \in Seq(UpFrames)
  BY <1>1
<1>3. <<Submit(v)>>[1] = Submit(v) /\ DOMAIN <<Submit(v)>> = {1}
  OBVIOUS
<1>4. submitted' = online /\ lost' = (lost \/ ~online)
  BY <1>1, <1>3 DEF Send
<1>5. CASE online
  BY <1>2, <1>4, <1>5 DEF Send, Moves
<1>6. CASE ~online
  BY <1>4, <1>6 DEF Send, Moves
<1>7. QED
  BY <1>5, <1>6

LEMMA BothSent ==
  ASSUME up \in Seq(UpFrames), lost \in BOOLEAN, online \in BOOLEAN, UNCHANGED online,
         submitted = FALSE, NEW v \in Answers, Handed(v)', Valid(v),
         Send(<<Progress(v)>> \o <<Submit(v)>>)
  PROVE  Moves(submitted)
<1> DEFINE both == <<Progress(v)>> \o <<Submit(v)>>
<1>1. /\ Submit(v) \in UpFrames /\ Submit(v).kind = "submit" /\ Progress(v) \in UpFrames
      /\ Progress(v).kind = "progress"
  BY FramesTyped
<1>2. /\ both \in Seq(UpFrames) /\ DOMAIN both = {1, 2}
      /\ both[1] = Progress(v) /\ both[2] = Submit(v)
  BY <1>1
<1>3. /\ up \o both = Append(Append(up, Progress(v)), Submit(v)) /\ up \o both \in Seq(UpFrames)
  <2>1. up \o both = (up \o <<Progress(v)>>) \o <<Submit(v)>>
    BY <1>1, ConcatAssociative
  <2>2. up \o <<Progress(v)>> = Append(up, Progress(v)) /\ Append(up, Progress(v)) \in Seq(UpFrames)
    BY <1>1
  <2>3. Append(up, Progress(v)) \o <<Submit(v)>> = Append(Append(up, Progress(v)), Submit(v))
        /\ Append(Append(up, Progress(v)), Submit(v)) \in Seq(UpFrames)
    BY <1>1, <2>2
  <2>4. QED
    BY <2>1, <2>2, <2>3
<1> HIDE DEF both
<1>4. submitted' = online /\ lost' = (lost \/ ~online)
  BY <1>1, <1>2 DEF Send, both
<1>5. CASE online
  <2>1. up' = up \o both
    BY <1>5 DEF Send, both
  <2>2. QED
    BY <1>3, <1>4, <1>5, <2>1 DEF Moves
<1>6. CASE ~online
  BY <1>4, <1>6 DEF Send, Moves
<1>7. QED
  BY <1>5, <1>6

\* The same of a plan, or of a word that submits itself.
LEMMA HandedInMoves ==
  ASSUME up \in Seq(UpFrames), lost \in BOOLEAN, online' \in BOOLEAN,
         NEW locked \in BOOLEAN, NEW v \in Answers, HandIn(v, locked),
         lost' \in BOOLEAN, lost => lost',
         ~online' => lost' \/ locked, ~lost' => Handed(v)' /\ (faults = 0 => Valid(v))
  PROVE  Moves(locked)
<1>1. /\ Submit(v) \in UpFrames
  BY FramesTyped
<1>2. Append(up, Submit(v)) \in Seq(UpFrames)
  BY <1>1
<1>3. CASE online' /\ ~locked
  BY <1>2, <1>3 DEF HandIn, Moves
<1>4. CASE locked
  BY <1>4 DEF HandIn, Moves
<1>5. CASE ~online' /\ ~locked
  BY <1>5 DEF HandIn, Moves
<1>6. QED
  BY <1>3, <1>4, <1>5

-----------------------------------------------------------------------------
(* Rendering *)

Inv == Base /\ LockOK /\ HandedOK /\ More

\* What a step of a phone that shows the game comes to.
PhoneDid(locked) ==
    /\ screen' # <<>> /\ ScreenOK(screen')
    /\ Moves(locked) /\ HandedKept(locked)

LEMMA MaybeOne ==
  ASSUME NEW S, NEW m \in Maybe(S)
  PROVE  m = <<>> \/ (m # <<>> /\ m[1] \in S /\ m = <<m[1]>> /\ DOMAIN m = {1})
<1>1. CASE \E x \in S : m = <<x>>
  BY <1>1
<1>2. QED
  BY <1>1, MaybeIs

LEMMA OneMaybe ==
  ASSUME NEW S, NEW x \in S
  PROVE  <<x>> \in Maybe(S) /\ <<x>> # <<>> /\ <<>> \in Maybe(S) /\ <<x>>[1] = x
BY DEF Maybe

\* A screen of Guess the word that takes over its feedback
LEMMA RefreshedTyped ==
  ASSUME NEW s \in WordScreens, s.feedback # <<>>
  PROVE  /\ s.feedback[1] \in Feedbacks /\ s.feedback = <<s.feedback[1]>>
         /\ s.feedback[1].words \in Guesses
         /\ s.feedback[1].phase = GameState(s.feedback[1].words, puzzle)
         /\ Len(s.feedback[1].words) \in Nat
         /\ Refreshed(s) \in WordScreens
         /\ [Refreshed(s) EXCEPT !.sent = Len(s.feedback[1].words)] \in WordScreens
         /\ Refreshed(s).feedback = s.feedback
         /\ ~Refreshed(s).waiting
<1>1. s.feedback \in Maybe(Feedbacks)
  BY DEF WordScreens
<1>2. s.feedback[1] \in Feedbacks /\ s.feedback = <<s.feedback[1]>>
  BY <1>1, MaybeOne
<1>3. PICK w \in Guesses : s.feedback[1] = Feedback(w, puzzle)
  BY <1>2 DEF Feedbacks
<1>4. s.feedback[1].words = w /\ s.feedback[1].phase = GameState(w, puzzle)
  BY <1>3 DEF Feedback
<1>5. Len(w) \in Nat
  BY DEF Guesses
<1>6. Refreshed(s) = [s EXCEPT !.words = w, !.waiting = FALSE]
  BY <1>4 DEF Refreshed
<1>7. /\ Refreshed(s) \in WordScreens /\ Refreshed(s).feedback = s.feedback
      /\ ~Refreshed(s).waiting
  BY <1>6 DEF WordScreens
<1>8. [Refreshed(s) EXCEPT !.sent = Len(w)] \in WordScreens
  BY <1>5, <1>7 DEF WordScreens
<1>9. QED
  BY <1>2, <1>4, <1>5, <1>7, <1>8

LEMMA GuessesValid ==
  ASSUME game = "wordle", NEW w \in Guesses
  PROVE  Valid(w) /\ w \in Answers
<1>1. Valid(w)
  BY DEF Valid, ValidGuesses, Guesses
<1>2. w \in Answers
  BY DEF Answers
<1>3. QED
  BY <1>1, <1>2

\* Rendering Guess the word is a step of the phone.
LEMMA WordRenders ==
  ASSUME game = "wordle", UNCHANGED <<game, puzzle, progress>>,
         up \in Seq(UpFrames), lost \in BOOLEAN, online' \in BOOLEAN,
         NEW s \in WordScreens, NEW locked \in BOOLEAN, NEW phase,
         ~lost => IsJudged(s), RenderWord(s, phase, locked)
  PROVE  /\ PhoneDid(locked)
         /\ screen' \in WordScreens
         /\ ~lost' => IsJudged(s)
         /\ screen'.feedback = s.feedback
         /\ screen'.waiting => s.waiting
<1>1. /\ lost' \in BOOLEAN /\ (lost => lost')
      /\ screen' \in WordScreens /\ screen'.feedback = s.feedback
      /\ screen'.waiting => s.waiting
      /\ Moves(locked)
  <2>1. CASE s.feedback = <<>>
    <3>1. screen' = s /\ submitted' = locked /\ up' = up /\ lost' = lost
      BY <2>1 DEF RenderWord
    <3>2. QED
      BY <3>1, NothingSent
  <2>2. CASE s.feedback # <<>> /\ SubmitsItself(s, locked \/ phase = "reveal")
    <3> DEFINE w == s.feedback[1].words
    <3>1. /\ screen' = [Refreshed(s) EXCEPT !.sent = Len(w)]
          /\ HandIn(w, locked) /\ lost' = (lost \/ ~online')
      BY <2>2 DEF RenderWord
    <3>2. /\ w \in Guesses /\ s.feedback[1].phase = GameState(w, puzzle)
          /\ screen' \in WordScreens /\ Refreshed(s) \in WordScreens
          /\ Refreshed(s).feedback = s.feedback /\ ~Refreshed(s).waiting
      BY <2>2, <3>1, RefreshedTyped
    <3>3. screen'.feedback = s.feedback /\ ~screen'.waiting
      BY <3>1, <3>2 DEF WordScreens
    <3>4. GameState(w, puzzle) \in {"solved", "failed"}
      BY <2>2, <3>2 DEF SubmitsItself
    <3>5. Valid(w) /\ w \in Answers
      BY <3>2, GuessesValid
    <3>6. 1 \in DOMAIN s.feedback
      BY <2>2, MaybeOne DEF WordScreens
    <3> HIDE DEF w
    <3>7. ~lost' => Handed(w)'
      <4>1. SUFFICES ASSUME ~lost' PROVE Handed(w)'
        OBVIOUS
      <4>2. WasJudged(w)
        BY <3>1, <3>6, <4>1 DEF IsJudged, w
      <4>3. (Finishes(w) /\ WasJudged(w))'
        BY <3>4, <4>2 DEF Finishes, WasJudged
      <4>4. QED
        BY <4>3 DEF Handed
    <3>8. lost' \in BOOLEAN /\ (lost => lost') /\ (~online' => lost')
      BY <3>1
    <3>9. Moves(locked)
      BY <3>1, <3>5, <3>7, <3>8, HandedInMoves
    <3>10. QED
      BY <3>2, <3>3, <3>8, <3>9
  <2>3. CASE s.feedback # <<>> /\ ~SubmitsItself(s, locked \/ phase = "reveal")
    <3>1. screen' = Refreshed(s) /\ submitted' = locked /\ up' = up /\ lost' = lost
      BY <2>3 DEF RenderWord
    <3>2. QED
      BY <2>3, <3>1, NothingSent, RefreshedTyped
  <2>4. QED
    BY <2>1, <2>2, <2>3
<1>2. screen' # <<>> /\ ScreenOK(screen')
  <2>1. screen' # <<>>
    BY <1>1 DEF WordScreens
  <2>2. QED
    BY <1>1, <2>1 DEF ScreenOK
<1>3. HandedKept(locked)
  BY DEF HandedKept, Handed, Finishes, WasJudged
<1>4. QED
  BY <1>1, <1>2, <1>3 DEF PhoneDid

-----------------------------------------------------------------------------
(* The flight of a plan is one flight: it can go on in one way only.       *)

LEMMA RunExists ==
  ASSUME NEW count \in Nat, NEW world, NEW paths
  PROVE  \E run : IsRun(run, count, world, paths)
<1> DEFINE S == {k \in Nat : \E run : IsRun(run, k, world, paths)}
           start == {TakenOff(world, paths)}
<1>1. 0 \in S
  <2> DEFINE f == [n \in 0..0 |-> start]
  <2>1. IsRun(f, 0, world, paths)
    BY DEF IsRun
  <2>2. QED
    BY <2>1
<1>2. ASSUME NEW k \in Nat, k \in S PROVE k + 1 \in S
  <2>1. PICK f : IsRun(f, k, world, paths)
    BY <1>2
  <2> DEFINE h == [n \in 0..(k + 1) |-> IF n = k + 1 THEN NextOf(world, paths, f[k]) ELSE f[n]]
  <2>2. ASSUME NEW n \in 0..(k + 1)
        PROVE  h[n] = IF n = 0 THEN start ELSE NextOf(world, paths, h[n - 1])
    <3>1. CASE n = k + 1
      BY <3>1
    <3>2. CASE n # k + 1
      <4>1. n \in 0..k
        BY <3>2
      <4>2. f[n] = IF n = 0 THEN start ELSE NextOf(world, paths, f[n - 1])
        BY <2>1, <4>1 DEF IsRun
      <4>3. h[n] = f[n] /\ (n # 0 => h[n - 1] = f[n - 1])
        BY <3>2
      <4>4. QED
        BY <4>2, <4>3
    <3>3. QED
      BY <3>1, <3>2
  <2>3. h = [n \in 0..(k + 1) |-> h[n]]
    OBVIOUS
  <2> HIDE DEF h
  <2>4. IsRun(h, k + 1, world, paths)
    BY <2>2, <2>3 DEF IsRun
  <2>5. QED
    BY <2>4
<1> HIDE DEF S
<1>3. count \in S
  BY <1>1, <1>2, CountUp
<1>4. QED
  BY <1>3 DEF S

\* runHeadless() as a function of the number of steps
LEMMA RunIs ==
  ASSUME NEW world, NEW paths
  PROVE  /\ IsRun(Run(world, paths), MaxSimSteps + 1, world, paths)
         /\ RunHeadless(world, paths) = Run(world, paths)[MaxSimSteps + 1]
<1>1. MaxSimSteps + 1 \in Nat
  BY BonkAssumption
<1>2. IsRun(Run(world, paths), MaxSimSteps + 1, world, paths)
  BY <1>1, RunExists DEF Run, RunOf
<1>3. RunHeadless(world, paths) = Run(world, paths)[MaxSimSteps + 1]
  BY DEF RunHeadless, Run, RunOf, IsRun, NextOf
<1>4. QED
  BY <1>2, <1>3

\* What is flown on with the stars that are found.
Found(world, paths, sim) ==
    LET finders(star) == {i \in Airborne(world, paths, sim) :
                            Square(sim.planes[i].at, Centre(star)) < Reached * Reached}
        found == {star \in world.stars \ sim.taken : finders(star) # {}}
        finds(i) == {star \in found : i = Min(finders(star))}
    IN  [sim EXCEPT !.taken = @ \cup found,
                    !.planes = [i \in Planes |->
                        [@[i] EXCEPT !.stars = @ + Cardinality(finds(i))]]]

LEMMA CollectedIs ==
  ASSUME NEW world, NEW paths, NEW sims
  PROVE  Collected(world, paths, sims) = {Found(world, paths, sim) : sim \in sims}
BY DEF Collected, Found

LEMMA FlightGoesOn ==
  ASSUME NEW sim, Flight(sim), NEW planes, NEW violations, NEW armed, NEW taken_
  PROVE  /\ LET next == [sim EXCEPT !.t = sim.t + 1, !.planes = planes]
            IN  Flight(next) /\ next.t = sim.t + 1
         /\ LET next == [sim EXCEPT !.planes = planes]
            IN  Flight(next) /\ next.t = sim.t
         /\ LET next == [sim EXCEPT !.violations = violations, !.armed = armed, !.planes = planes]
            IN  Flight(next) /\ next.t = sim.t
         /\ LET next == [sim EXCEPT !.taken = taken_, !.planes = planes]
            IN  Flight(next) /\ next.t = sim.t
BY DEF Flight

\* A step of a flight has one outcome, so the flight of a plan is one flight.
LEMMA StepIsOne ==
  ASSUME NEW world, NEW paths, NEW sim, Flight(sim)
  PROVE  \E next : /\ SimStep(world, paths, {sim}) = {next}
                   /\ Flight(next) /\ next.t = sim.t + 1
<1>1. PICK a : /\ Moved(world, paths, {sim}) = {a}
               /\ Flight(a) /\ a.t = sim.t + 1
  <2> DEFINE planes == [i \in Planes |->
                    IF i \in Active(sim)
                    THEN Advanced(RunCells(world.planes[i], paths[i]),
                                  paths[i].complete, sim.planes[i])
                    ELSE sim.planes[i]]
             a == [sim EXCEPT !.t = sim.t + 1, !.planes = planes]
  <2>1. Moved(world, paths, {sim}) = {a}
    BY DEF Moved
  <2> HIDE DEF planes
  <2>2. Flight(a) /\ a.t = sim.t + 1
    BY FlightGoesOn
  <2>3. QED
    BY <2>1, <2>2
<1>2. PICK b : /\ Struck(world, paths, {a}) = {b}
               /\ Flight(b) /\ b.t = a.t
  <2> DEFINE planes == Crashed(a, {i \in Airborne(world, paths, a) :
                                    CellAt(a.planes[i].at) \in world.storm})
             b == [a EXCEPT !.planes = planes]
  <2>1. Struck(world, paths, {a}) = {b}
    BY DEF Struck
  <2> HIDE DEF planes
  <2>2. Flight(b) /\ b.t = a.t
    BY <1>1, FlightGoesOn
  <2>3. QED
    BY <2>1, <2>2
<1>3. PICK c : /\ Separated(world, paths, {b}) = {c}
               /\ Flight(c) /\ c.t = b.t
  <2> DEFINE pairs == {ij \in Pairs : {ij[1], ij[2]} \subseteq Airborne(world, paths, b)}
             apart(ij) == Square(b.planes[ij[1]].at, b.planes[ij[2]].at)
             hits == {ij \in pairs : apart(ij) < Collision * Collision}
             near == {ij \in pairs : apart(ij) < Separation * Separation} \ hits
             far == {ij \in pairs : apart(ij) > Rearming * Rearming}
             violations == b.violations + Cardinality(near \cap b.armed)
             armed == (b.armed \ near) \cup far
             planes == Crashed(b, UNION {{ij[1], ij[2]} : ij \in hits})
             c == [b EXCEPT !.violations = violations, !.armed = armed, !.planes = planes]
  <2>1. Separated(world, paths, {b}) = {c}
    BY DEF Separated
  <2> HIDE DEF violations, armed, planes
  <2>2. Flight(c) /\ c.t = b.t
    BY <1>2 DEF Flight
  <2>3. QED
    BY <2>1, <2>2
<1>4. PICK d : /\ Collected(world, paths, {c}) = {d}
               /\ Flight(d) /\ d.t = c.t
  <2>1. Collected(world, paths, {c}) = {Found(world, paths, c)}
    BY CollectedIs
  <2>2. Flight(Found(world, paths, c)) /\ Found(world, paths, c).t = c.t
    <3>1. PICK planes, taken_ :
             Found(world, paths, c) = [c EXCEPT !.taken = taken_, !.planes = planes]
      BY DEF Found
    <3>2. QED
      BY <1>3, <3>1 DEF Flight
  <2>3. QED
    BY <2>1, <2>2
<1>5. SimStep(world, paths, {sim}) = {d}
  BY <1>1, <1>2, <1>3, <1>4 DEF SimStep
<1>6. d.t = sim.t + 1
  BY <1>1, <1>2, <1>3, <1>4
<1>7. QED
  BY <1>4, <1>5, <1>6

LEMMA TakenOffIs ==
  ASSUME NEW world, NEW paths
  PROVE  Flight(TakenOff(world, paths)) /\ TakenOff(world, paths).t = 0
BY DEF TakenOff, Flight

LEMMA FlownOnce ==
  ASSUME NEW world, NEW paths, NEW n \in Nat, n + 1 <= MaxSimSteps + 1, NEW sim,
         IsFlown(world, paths, n, sim)
  PROVE  /\ Finished(sim) => IsFlown(world, paths, n + 1, sim)
         /\ \A next : ~Finished(sim) /\ next \in SimStep(world, paths, {sim}) =>
                         IsFlown(world, paths, n + 1, next) /\ next.t = n + 1
         /\ \E next : IsFlown(world, paths, n + 1, next)
<1> DEFINE run == Run(world, paths)
<1>1. MaxSimSteps \in Nat /\ n + 1 \in 0..(MaxSimSteps + 1) /\ n + 1 # 0 /\ n + 1 - 1 = n
  BY BonkAssumption
<1>2. run[n + 1] = NextOf(world, paths, run[n])
  BY <1>1, RunIs DEF IsRun
<1>3. run[n] = {sim} /\ Flight(sim) /\ (sim.t = n \/ Finished(sim))
  BY DEF IsFlown
<1> HIDE DEF run
<1>4. ASSUME Finished(sim) PROVE IsFlown(world, paths, n + 1, sim)
  <2>1. run[n + 1] = {sim}
    BY <1>2, <1>3, <1>4 DEF NextOf
  <2>2. QED
    BY <1>3, <1>4, <2>1 DEF IsFlown, run
<1>5. ASSUME ~Finished(sim)
      PROVE  \E next : /\ IsFlown(world, paths, n + 1, next)
                       /\ SimStep(world, paths, {sim}) = {next} /\ next.t = n + 1
  <2>1. PICK next : /\ SimStep(world, paths, {sim}) = {next}
                    /\ Flight(next) /\ next.t = sim.t + 1
    BY <1>3, StepIsOne
  <2>2. run[n + 1] = {next}
    BY <1>2, <1>3, <1>5, <2>1 DEF NextOf
  <2>3. QED
    BY <1>3, <1>5, <2>1, <2>2 DEF IsFlown, run
<1>6. QED
  BY <1>4, <1>5

LEMMA FlownToTheEnd ==
  ASSUME NEW world, NEW paths
  PROVE  \A n \in 0..(MaxSimSteps + 1) : \E sim : IsFlown(world, paths, n, sim)
<1> DEFINE S == {n \in Nat : n <= MaxSimSteps + 1 => \E sim : IsFlown(world, paths, n, sim)}
<1>1. MaxSimSteps \in Nat
  BY BonkAssumption
<1>2. 0 \in S
  <2>1. 0 \in 0..(MaxSimSteps + 1)
    BY <1>1
  <2>2. Run(world, paths)[0] = {TakenOff(world, paths)}
    <3> DEFINE run == Run(world, paths)
    <3>1. IsRun(run, MaxSimSteps + 1, world, paths)
      BY RunIs
    <3> HIDE DEF run
    <3>2. run[0] = {TakenOff(world, paths)}
      BY <2>1, <3>1 DEF IsRun
    <3>3. QED
      BY <3>2 DEF run
  <2>3. IsFlown(world, paths, 0, TakenOff(world, paths))
    BY <2>2, TakenOffIs DEF IsFlown
  <2>4. QED
    BY <2>3
<1>3. ASSUME NEW n \in Nat, n \in S PROVE n + 1 \in S
  <2>1. SUFFICES ASSUME n + 1 <= MaxSimSteps + 1
                 PROVE  \E sim : IsFlown(world, paths, n + 1, sim)
    OBVIOUS
  <2>2. PICK sim : IsFlown(world, paths, n, sim)
    BY <1>1, <1>3, <2>1
  <2>3. QED
    BY <2>1, <2>2, FlownOnce
<1> HIDE DEF S
<1>4. Nat \subseteq S
  BY <1>2, <1>3, CountUp
<1>5. QED
  BY <1>1, <1>4 DEF S

\* A flight that is over is the one the server flies.
LEMMA FlownIsRun ==
  ASSUME NEW world, NEW paths, NEW n \in 0..(MaxSimSteps + 1), NEW sim,
         IsFlown(world, paths, n, sim), Finished(sim)
  PROVE  RunHeadless(world, paths) = {sim}
<1> DEFINE S == {k \in Nat : n + k <= MaxSimSteps + 1 => IsFlown(world, paths, n + k, sim)}
<1>1. MaxSimSteps \in Nat /\ n \in Nat
  BY BonkAssumption
<1>2. 0 \in S
  <2>1. n + 0 = n
    BY <1>1
  <2>2. QED
    BY <2>1
<1>3. ASSUME NEW k \in Nat, k \in S PROVE k + 1 \in S
  <2>1. SUFFICES ASSUME n + (k + 1) <= MaxSimSteps + 1
                 PROVE  IsFlown(world, paths, n + (k + 1), sim)
    OBVIOUS
  <2>2. n + (k + 1) = (n + k) + 1 /\ n + k \in Nat /\ n + k <= MaxSimSteps + 1
    BY <1>1, <2>1
  <2>3. IsFlown(world, paths, n + k, sim)
    BY <1>3, <2>2
  <2>4. IsFlown(world, paths, (n + k) + 1, sim)
    BY <2>1, <2>2, <2>3, FlownOnce
  <2>5. QED
    BY <2>2, <2>4
<1> HIDE DEF S
<1>4. Nat \subseteq S
  BY <1>2, <1>3, CountUp
<1>5. (MaxSimSteps + 1) - n \in S /\ n + ((MaxSimSteps + 1) - n) = MaxSimSteps + 1
  BY <1>1, <1>4
<1>6. IsFlown(world, paths, MaxSimSteps + 1, sim)
  BY <1>1, <1>5 DEF S
<1>7. QED
  BY <1>6, RunIs DEF IsFlown

\* The server flies a plan in one way.
LEMMA RunIsOne ==
  ASSUME NEW world, NEW paths
  PROVE  \E sim : RunHeadless(world, paths) = {sim}
<1>1. MaxSimSteps + 1 \in 0..(MaxSimSteps + 1)
  BY BonkAssumption
<1>2. PICK sim : IsFlown(world, paths, MaxSimSteps + 1, sim)
  BY <1>1, FlownToTheEnd
<1>3. QED
  BY <1>2, RunIs DEF IsFlown

-----------------------------------------------------------------------------
(* Rendering Bonk Air *)

\* A plan has a route for each plane it names.
LEMMA PlansAre ==
  ASSUME NEW paths
  PROVE  paths \in Plans <=>
           /\ paths = [i \in DOMAIN paths |-> paths[i]] /\ DOMAIN paths \subseteq Planes
           /\ \A i \in DOMAIN paths : paths[i] \in Paths /\ IsRoute(i, paths[i])
<1>1. ASSUME paths \in Plans
      PROVE  /\ paths = [i \in DOMAIN paths |-> paths[i]] /\ DOMAIN paths \subseteq Planes
             /\ \A i \in DOMAIN paths : paths[i] \in Paths /\ IsRoute(i, paths[i])
  <2>1. PICK P \in SUBSET Planes : paths \in [P -> Paths]
    BY <1>1 DEF Plans
  <2>2. DOMAIN paths = P /\ \A i \in P : IsRoute(i, paths[i])
    BY <1>1, <2>1 DEF Plans
  <2>3. QED
    BY <2>1, <2>2
<1>2. ASSUME /\ paths = [i \in DOMAIN paths |-> paths[i]] /\ DOMAIN paths \subseteq Planes
             /\ \A i \in DOMAIN paths : paths[i] \in Paths /\ IsRoute(i, paths[i])
      PROVE  paths \in Plans
  <2>1. paths \in [DOMAIN paths -> Paths]
    BY <1>2
  <2>2. DOMAIN paths \in SUBSET Planes
    BY <1>2
  <2>3. QED
    BY <1>2, <2>1, <2>2 DEF Plans
<1>3. QED
  BY <1>1, <1>2

LEMMA NoPlan == <<>> \in Plans
<1>1. DOMAIN <<>> = {} /\ <<>> = [i \in {} |-> <<>>[i]]
  OBVIOUS
<1>2. QED
  BY <1>1, PlansAre

LEMMA PlansValid ==
  ASSUME game = "bonk-air", NEW paths \in Plans, NEW b \in BOOLEAN
  PROVE  /\ Plan(paths, b) \in Answers /\ (b => Valid(Plan(paths, b)))
         /\ Plan(paths, b).isCurrent = b /\ Plan(paths, b).solution = paths
<1>1. /\ DOMAIN paths \subseteq Nat
      /\ \A i \in DOMAIN paths : paths[i] \in Paths
  BY PlansAre DEF Planes
<1>2. \A i \in DOMAIN paths :
          /\ paths[i].complete \in BOOLEAN
          /\ \A n \in DOMAIN paths[i].cells : paths[i].cells[n] \in [x : Int, y : Int]
  <2> SUFFICES ASSUME NEW i \in DOMAIN paths
               PROVE  /\ paths[i].complete \in BOOLEAN
                      /\ \A n \in DOMAIN paths[i].cells : paths[i].cells[n] \in [x : Int, y : Int]
    OBVIOUS
  <2>1. paths[i].complete \in BOOLEAN /\ paths[i].cells \in Seq(Grid)
    BY <1>1 DEF Paths
  <2>2. \A n \in DOMAIN paths[i].cells : paths[i].cells[n] \in Grid
    BY <2>1
  <2>3. Grid \subseteq [x : Int, y : Int]
    BY BonkAssumption DEF Grid
  <2>4. QED
    BY <2>1, <2>2, <2>3
<1>3. ValidPlan(paths)
  BY <1>1, <1>2 DEF ValidPlan
<1>4. Plan(paths, b).isCurrent = b /\ Plan(paths, b).solution = paths
  BY DEF Plan
<1>5. Plan(paths, b) \in Answers
  BY DEF Plan, Answers
<1>6. b => Valid(Plan(paths, b))
  BY <1>3, <1>4 DEF Valid
<1>7. QED
  BY <1>4, <1>5, <1>6

LEMMA ReplayedIs ==
  ASSUME NEW s, FlightScreen(s), s.phase \in {"plan", "locked"}, Planned(s)
  PROVE  /\ FlightScreen(Replayed(s)) /\ Planned(Replayed(s))
         /\ Replayed(s).phase = "sim" /\ Replayed(s).paths = s.paths
         /\ Replayed(s).drawing = <<>>
<1> DEFINE plan == IF s.phase = "plan" THEN <<s.paths>> ELSE s.plan
           flight == <<TakenOff(puzzle, s.paths)>>
           r == [s EXCEPT !.phase = "sim", !.drawing = <<>>, !.plan = plan, !.flight = flight]
<1>1. /\ DOMAIN s = {"phase", "paths", "drawing", "plan", "flight", "left"}
      /\ s.paths \in Plans /\ s.drawing \in Maybe(Strokes(s.paths))
      /\ s.plan \in Maybe(Plans) /\ s.left \in Nat
  BY DEF FlightScreen
<1>2. plan \in Maybe(Plans)
  BY <1>1, OneMaybe
<1>3. Replayed(s) = r
  BY DEF Replayed
<1>4. PlanIsKnown(r)
  <2>1. r.plan = plan /\ r.paths = s.paths
    BY <1>1
  <2>2. plan = <<s.paths>> \/ (plan = <<>> /\ s.paths = <<>>)
    BY DEF Planned, PlanIsKnown
  <2>3. QED
    BY <2>1, <2>2 DEF PlanIsKnown
<1>5. flight[1] = TakenOff(puzzle, s.paths)
  OBVIOUS
<1> HIDE DEF plan, flight
<1>6. /\ DOMAIN r = {"phase", "paths", "drawing", "plan", "flight", "left"}
      /\ r.phase = "sim" /\ r.paths = s.paths /\ r.drawing = <<>> /\ r.plan = plan
      /\ r.flight = flight /\ r.left = s.left
  BY <1>1
<1>7. \E n \in 0..(MaxSimSteps + 1) : IsFlown(puzzle, s.paths, n, flight[1])
  <2>1. 0 \in 0..(MaxSimSteps + 1)
    BY BonkAssumption
  <2> DEFINE run == Run(puzzle, s.paths)
  <2>2. IsRun(run, MaxSimSteps + 1, puzzle, s.paths)
    BY RunIs
  <2> HIDE DEF run
  <2>3. run[0] = {TakenOff(puzzle, s.paths)}
    BY <2>1, <2>2 DEF IsRun
  <2>4. IsFlown(puzzle, s.paths, 0, flight[1])
    BY <1>5, <2>3, TakenOffIs DEF IsFlown, run
  <2>5. QED
    BY <2>1, <2>4
<1> HIDE DEF r
<1>8. FlightScreen(r)
  <2>1. <<>> \in Maybe(Strokes(s.paths))
    BY DEF Maybe
  <2>2. QED
    BY <1>1, <1>2, <1>6, <2>1 DEF FlightScreen
<1>9. Planned(r)
  BY <1>4, <1>6, <1>7 DEF Planned, Flying
<1>10. QED
  BY <1>3, <1>6, <1>8, <1>9

\* Rendering Bonk Air is a step of the phone.
LEMMA FlightRenders ==
  ASSUME game = "bonk-air", UNCHANGED <<game, puzzle, progress>>,
         up \in Seq(UpFrames), lost \in BOOLEAN, online' \in BOOLEAN,
         NEW s, FlightScreen(s), Planned(s), NEW locked \in BOOLEAN, NEW phase,
         s.paths = screen.paths, s.drawing = screen.drawing,
         RenderFlight(s, phase, locked)
  PROVE  /\ PhoneDid(locked)
         /\ FlightScreen(screen') /\ Planned(screen')
         /\ screen'.phase = "locked" => s.phase = "locked"
<1>1. /\ lost' \in BOOLEAN /\ (lost => lost')
      /\ FlightScreen(screen') /\ Planned(screen')
      /\ screen'.phase = "locked" => s.phase = "locked"
      /\ screen'.paths = screen.paths
      /\ screen'.drawing = <<>> \/ screen'.drawing = screen.drawing
      /\ Moves(locked)
  <2>1. CASE phase = "reveal" /\ s.phase \in {"plan", "locked"}
    <3>1. screen' = Replayed(s) /\ IF s.phase = "plan" /\ ~locked
                                   THEN HandIn(Plan(s.paths, TRUE), locked) /\ lost' = TRUE
                                   ELSE submitted' = locked /\ UNCHANGED <<up, lost>>
      BY <2>1 DEF RenderFlight
    <3>2. /\ FlightScreen(screen') /\ Planned(screen') /\ screen'.phase = "sim"
          /\ screen'.paths = s.paths /\ screen'.drawing = <<>>
      BY <2>1, <3>1, ReplayedIs
    <3>3. CASE s.phase = "plan" /\ ~locked
      <4>1. HandIn(Plan(s.paths, TRUE), locked) /\ lost' = TRUE
        BY <3>1, <3>3
      <4>2. s.paths \in Plans
        BY DEF FlightScreen
      <4>3. Moves(locked)
        BY <4>1, <4>2, HandedInMoves, PlansValid
      <4>4. QED
        BY <3>2, <4>1, <4>3
    <3>4. CASE ~(s.phase = "plan" /\ ~locked)
      <4>1. submitted' = locked /\ up' = up /\ lost' = lost
        BY <3>1, <3>4
      <4>2. Moves(locked)
        BY <4>1, NothingSent
      <4>3. QED
        BY <3>2, <4>1, <4>2
    <3>5. QED
      BY <3>3, <3>4
  <2>2. CASE ~(phase = "reveal" /\ s.phase \in {"plan", "locked"}) /\ FlushIsDue(s, phase, locked)
    <3> DEFINE p == IF s.plan = <<>> THEN <<>> ELSE s.plan[1]
    <3>1. /\ HandIn(Plan(p, TRUE), locked)
          /\ lost' = (lost \/ ~online' \/ s.drawing # <<>>) /\ screen' = s
      BY <2>2 DEF RenderFlight
    <3>2. p \in Plans
      BY NoPlan, MaybeOne DEF FlightScreen
    <3>3. s.drawing = <<>> => p = s.paths
      <4>1. <<s.paths>> # <<>> /\ <<s.paths>>[1] = s.paths
        OBVIOUS
      <4>2. QED
        BY <4>1 DEF Planned, PlanIsKnown
    <3> HIDE DEF p
    <3>4. ~lost' => Handed(Plan(p, TRUE))' /\ Valid(Plan(p, TRUE))
      <4>1. SUFFICES ASSUME ~lost' PROVE Handed(Plan(p, TRUE))' /\ Valid(Plan(p, TRUE))
        OBVIOUS
      <4>2. s.drawing = <<>> /\ p = screen'.paths /\ screen'.drawing = <<>>
        BY <3>1, <3>3, <4>1
      <4>3. Valid(Plan(p, TRUE)) /\ Plan(p, TRUE).solution = p
        BY <3>2, PlansValid
      <4>4. Handed(Plan(p, TRUE))'
        BY <4>2, <4>3 DEF Handed
      <4>5. QED
        BY <4>3, <4>4
    <3>5. Plan(p, TRUE) \in Answers
      BY <3>2, PlansValid
    <3>6. Moves(locked)
      BY <3>1, <3>4, <3>5, HandedInMoves
    <3>7. QED
      BY <3>1, <3>6
  <2>3. CASE ~(phase = "reveal" /\ s.phase \in {"plan", "locked"}) /\ ~FlushIsDue(s, phase, locked)
    <3>1. screen' = s /\ submitted' = locked /\ up' = up /\ lost' = lost
      BY <2>3 DEF RenderFlight
    <3>2. QED
      BY <3>1, NothingSent
  <2>4. QED
    BY <2>1, <2>2, <2>3
<1>2. screen' # <<>> /\ ScreenOK(screen')
  <2>1. screen' # <<>>
    BY <1>1 DEF FlightScreen
  <2>2. QED
    BY <1>1, <2>1 DEF ScreenOK
<1>3. HandedKept(locked)
  BY <1>1 DEF HandedKept, Handed
<1>4. QED
  BY <1>1, <1>2, <1>3 DEF PhoneDid

-----------------------------------------------------------------------------
(* What is played: the sliding puzzle, the vault, the words, the scale     *)

Own == LightsLock /\ SlideOK /\ LightOK /\ WordOK /\ FlightOK

\* What playing leaves alone
LEMMA PlaysIs ==
  ASSUME Inv, NEW g, Plays(g)
  PROVE  /\ game = g /\ screen # <<>> /\ ScreenOK(screen)
         /\ UNCHANGED <<game, puzzle, seen, online, down, now, window, progress,
                        taken, saving, row, acked, result, faults>>
         /\ up \in Seq(UpFrames) /\ lost \in BOOLEAN /\ submitted \in BOOLEAN
         /\ online \in BOOLEAN /\ PuzzleOK /\ game \in Games
BY DEF Inv, Base, TypeOK, PhoneTypeOK, Plays, server

LEMMA BothAre ==
  ASSUME NEW S, NEW s \in Seq(S), NEW a \in S, NEW b \in S
  PROVE  s \o (<<a>> \o <<b>>) = Append(Append(s, a), b)
<1>1. s \o (<<a>> \o <<b>>) = (s \o <<a>>) \o <<b>>
  BY ConcatAssociative
<1>2. s \o <<a>> = Append(s, a) /\ Append(s, a) \in Seq(S)
  OBVIOUS
<1>3. Append(s, a) \o <<b>> = Append(Append(s, a), b)
  BY <1>2
<1>4. QED
  BY <1>1, <1>2, <1>3

LEMMA BoardsValid ==
  ASSUME game = "sliding-puzzle", NEW b \in Boards
  PROVE  b \in Answers /\ Valid(b)
BY DEF Answers, Valid, Boards

\* Each way to play is a step of the phone that keeps what its game keeps.
LEMMA SlideTileDid ==
  ASSUME Inv, NEW i \in Indexes, SlideTile(i)
  PROVE  PhoneDid(submitted) /\ Own'
<1>0. PICK board : board = MoveTile(screen.board, i)
  OBVIOUS
<1> DEFINE frames == <<Progress(board)>>
                   \o IF IsSolvedBoard(board) THEN <<Submit(board)>> ELSE <<>>
<1>1. /\ game = "sliding-puzzle" /\ screen # <<>> /\ ScreenOK(screen)
      /\ UNCHANGED <<game, puzzle, online, faults, progress>>
      /\ up \in Seq(UpFrames) /\ lost \in BOOLEAN /\ submitted \in BOOLEAN
      /\ online \in BOOLEAN
  BY PlaysIs DEF SlideTile
<1>2. submitted = FALSE /\ screen' = [board |-> board] /\ Send(frames)
  BY <1>0, <1>1 DEF SlideTile
<1>3. board \in Boards
  BY <1>0, <1>1, MovedBoard DEF ScreenOK
<1>4. /\ board \in Answers /\ Valid(board) /\ Progress(board) \in UpFrames
      /\ Submit(board) \in UpFrames /\ Progress(board).value = board
      /\ Submit(board).value = board /\ Progress(board).kind = "progress"
  BY <1>1, <1>3, BoardsValid, FramesTyped
<1>5. screen' # <<>> /\ ScreenOK(screen') /\ screen'.board = board
  <2>1. screen' \in [board : Boards]
    BY <1>2, <1>3
  <2>2. QED
    BY <1>1, <1>2, <2>1 DEF ScreenOK
<1>a. lost' = (lost \/ ~online) /\ (online => up' = up \o frames)
  BY <1>2 DEF Send
<1>6. ASSUME IsSolvedBoard(board) PROVE Moves(submitted) /\ SlideOK'
  <2>1. frames = <<Progress(board)>> \o <<Submit(board)>>
    BY <1>6
  <2> HIDE DEF frames
  <2>2. Handed(board)'
    BY <1>1, <1>6 DEF Handed, IsSolvedBoard
  <2>3. Moves(submitted)
    BY <1>1, <1>2, <1>4, <2>1, <2>2, BothSent
  <2>4. CASE online
    <3> DEFINE first == Append(up, Progress(board))
    <3>1. first \in Seq(UpFrames) /\ Len(first) \in Nat \ {0} /\ first[Len(first)] = Progress(board)
      BY <1>1, <1>4, Pushed
    <3>2. up' = Append(first, Submit(board))
      BY <1>1, <1>4, <1>a, <2>1, <2>4, BothAre
    <3> HIDE DEF first
    <3>3. /\ up' # <<>> /\ Last(up') = Submit(board) /\ Len(up') = Len(first) + 1
          /\ up'[Len(up') - 1] = Progress(board)
      <4>1. /\ Len(up') = Len(first) + 1 /\ up'[Len(first) + 1] = Submit(board) /\ up' # <<>>
            /\ \A n \in DOMAIN first : up'[n] = first[n]
            /\ DOMAIN first = 1..Len(first)
        BY <1>4, <3>1, <3>2, Pushed
      <4>2. Len(first) \in DOMAIN first /\ Len(up') - 1 = Len(first)
        BY <3>1, <4>1
      <4>3. Last(up') = up'[Len(up')]
        BY DEF Last
      <4>4. QED
        BY <3>1, <4>1, <4>2, <4>3
    <3>4. Len(up') # 1
      BY <3>1, <3>3
    <3>5. SlideOK'
      BY <1>4, <1>5, <3>3, <3>4 DEF SlideOK
    <3>6. QED
      BY <2>3, <3>5
  <2>5. CASE ~online
    BY <1>a, <2>3, <2>5 DEF SlideOK
  <2>6. QED
    BY <2>4, <2>5
<1>7. ASSUME ~IsSolvedBoard(board) PROVE Moves(submitted) /\ SlideOK'
  <2>1. frames = <<Progress(board)>>
    BY <1>4, <1>7
  <2> HIDE DEF frames
  <2>2. Moves(submitted)
    BY <1>1, <1>2, <1>4, <2>1, ProgressSent
  <2>3. CASE online
    <3>1. up' = Append(up, Progress(board))
      BY <1>1, <1>4, <1>a, <2>1, <2>3
    <3>2. up' # <<>> /\ Last(up') = Progress(board)
      BY <1>1, <1>4, <3>1, Pushed DEF Last
    <3>3. SlideOK'
      BY <1>4, <1>5, <3>2 DEF SlideOK
    <3>4. QED
      BY <2>2, <3>3
  <2>4. CASE ~online
    BY <1>a, <2>2, <2>4 DEF SlideOK
  <2>5. QED
    BY <2>3, <2>4
<1>8. HandedKept(submitted)
  BY <1>2 DEF HandedKept
<1>9. PhoneDid(submitted)
  BY <1>5, <1>6, <1>7, <1>8 DEF PhoneDid
<1>10. Own'
  BY <1>1, <1>6, <1>7 DEF Own, LightsLock, LightOK, WordOK, FlightOK
<1>11. QED
  BY <1>9, <1>10

LEMMA FourthChanged ==
  ASSUME NEW S, NEW s \in Seq(S), Len(s) = 4, NEW d \in S
  PROVE  [s EXCEPT ![4] = d] \in Seq(S) /\ Len([s EXCEPT ![4] = d]) = 4
<1>1. 4 \in 1..Len(s)
  OBVIOUS
<1>2. [s EXCEPT ![4] = d] \in Seq(S)
  BY <1>1, ExceptSeq
<1>3. Len([s EXCEPT ![4] = d]) = Len(s)
  BY <1>1, ExceptSeq
<1>4. QED
  BY <1>2, <1>3

LEMMA EnterCodeDid ==
  ASSUME Inv, game = "vault-rush", NEW code \in Codes, EnterCode(code)
  PROVE  PhoneDid(submitted) /\ Own'
<1>1. /\ game = "vault-rush" /\ screen # <<>> /\ ScreenOK(screen) /\ PuzzleOK
      /\ UNCHANGED <<game, puzzle, online, faults, progress>>
      /\ up \in Seq(UpFrames) /\ lost \in BOOLEAN /\ submitted \in BOOLEAN
      /\ online \in BOOLEAN
  BY PlaysIs DEF EnterCode
<1>2. submitted = FALSE /\ screen' = [code |-> code] /\ Send(<<Submit(code)>>)
  BY <1>1 DEF EnterCode
<1>3. code \in Seq(Int) /\ Len(code) = DigitCount
  <2>0. PICK right : right = puzzle.code
    OBVIOUS
  <2>a. right \in Seq(Int) /\ Len(right) = 4
    BY <1>1, <2>0 DEF PuzzleOK, DigitCount
  <2>1. right \in Seq(Int) /\ Len(right) = 4 /\ 4 \in 1..Len(right)
    BY <2>a
  <2>2. PICK d : d = (right[4] + 1) % (MaxDigit + 1)
    OBVIOUS
  <2>3. d \in Int
    <3>1. right[4] \in Int
      BY <2>1, ElementOfSeq
    <3>2. QED
      BY <2>2, <3>1 DEF MaxDigit
  <2>4. code = right \/ code = [right EXCEPT ![4] = d]
    <3>1. Solution = right
      BY <1>1, <2>0 DEF Solution
    <3>2. code \in {right, [right EXCEPT ![4] = (right[4] + 1) % (MaxDigit + 1)]}
      BY <3>1 DEF Codes
    <3>3. QED
      BY <2>2, <3>2
  <2>5. [right EXCEPT ![4] = d] \in Seq(Int) /\ Len([right EXCEPT ![4] = d]) = 4
    BY <2>a, <2>3, FourthChanged
  <2>6. QED
    BY <2>1, <2>4, <2>5 DEF DigitCount
<1>4. code \in Answers /\ Valid(code)
  BY <1>1, <1>3 DEF Answers, Valid, ValidCode
<1>5. screen' # <<>> /\ ScreenOK(screen') /\ Handed(code)'
  <2>1. screen' \in [code : Seq(Int)] /\ screen'.code = code
    BY <1>2, <1>3
  <2>2. QED
    BY <1>1, <2>1 DEF ScreenOK, Handed
<1>6. Moves(submitted)
  BY <1>1, <1>2, <1>4, <1>5, SubmitSent
<1>7. HandedKept(submitted)
  BY <1>2 DEF HandedKept
<1>8. Own'
  BY <1>1 DEF Own, SlideOK, LightsLock, LightOK, WordOK, FlightOK
<1>9. QED
  BY <1>5, <1>6, <1>7, <1>8 DEF PhoneDid

LEMMA PickOptionDid ==
  ASSUME Inv, game = "balance-scale", NEW o \in Options(puzzle.difficulty), PickOption(o)
  PROVE  PhoneDid(submitted) /\ Own'
<1>1. /\ game = "balance-scale" /\ screen # <<>> /\ ScreenOK(screen) /\ PuzzleOK
      /\ UNCHANGED <<game, puzzle, online, faults, progress>>
      /\ up \in Seq(UpFrames) /\ lost \in BOOLEAN /\ submitted \in BOOLEAN
      /\ online \in BOOLEAN
  BY PlaysIs DEF PickOption
<1>2. submitted = FALSE /\ screen' = [selected |-> o] /\ Send(<<Submit(o)>>)
  BY <1>1 DEF PickOption
<1>3. o \in Nat \ {0}
  BY DEF Options, ItemCount
<1>4. o \in Answers /\ Valid(o)
  BY <1>1, <1>3 DEF Answers, Valid, ValidOption
<1>5. screen' # <<>> /\ ScreenOK(screen') /\ Handed(o)'
  <2>1. screen' \in [selected : Nat] /\ screen'.selected = o
    BY <1>2, <1>3
  <2>2. QED
    BY <1>1, <2>1 DEF ScreenOK, Handed
<1>6. Moves(submitted)
  BY <1>1, <1>2, <1>4, <1>5, SubmitSent
<1>7. HandedKept(submitted)
  BY <1>2 DEF HandedKept
<1>8. Own'
  BY <1>1 DEF Own, SlideOK, LightsLock, LightOK, WordOK, FlightOK
<1>9. QED
  BY <1>5, <1>6, <1>7, <1>8 DEF PhoneDid

LEMMA EnterGuessDid ==
  ASSUME Inv, NEW word \in Dictionary, EnterGuess(word)
  PROVE  PhoneDid(submitted) /\ Own'
<1> DEFINE words == Append(screen.words, word)
<1>1. /\ game = "wordle" /\ screen # <<>> /\ ScreenOK(screen) /\ PuzzleOK
      /\ UNCHANGED <<game, puzzle, online, down, window, faults, progress>>
      /\ up \in Seq(UpFrames) /\ lost \in BOOLEAN /\ submitted \in BOOLEAN
      /\ online \in BOOLEAN
  BY PlaysIs DEF EnterGuess
<1>2. /\ submitted = FALSE /\ Len(screen.words) < MaxTries
      /\ screen' = [screen EXCEPT !.words = Append(screen.words, word), !.waiting = TRUE]
      /\ Send(<<Progress(words)>>)
  BY <1>1 DEF EnterGuess
<1>3. screen \in WordScreens
  BY <1>1 DEF ScreenOK
<1>4. words \in Guesses
  <2>1. screen.words \in Seq(Dictionary)
    <3>1. screen.words \in {<<>>} \cup Guesses
      BY <1>3 DEF WordScreens
    <3>2. Guesses \subseteq Seq(Dictionary) /\ <<>> \in Seq(Dictionary)
      BY DEF Guesses
    <3>3. QED
      BY <3>1, <3>2
  <2>2. words \in Seq(Dictionary) /\ Len(words) = Len(screen.words) + 1 /\ Len(screen.words) \in Nat
    BY <2>1, Pushed
  <2>3. Len(words) \in 1..MaxTries
    BY <1>2, <2>2, DictionaryAssumption
  <2>4. QED
    BY <2>2, <2>3 DEF Guesses
<1>5. words \in Answers
  BY <1>1, <1>4, GuessesValid
<1> HIDE DEF words
<1>6. screen' = [screen EXCEPT !.words = words, !.waiting = TRUE]
  BY <1>2 DEF words
<1>7. screen' \in WordScreens /\ screen'.feedback = screen.feedback /\ screen'.waiting
  BY <1>3, <1>4, <1>6 DEF WordScreens
<1>8. screen' # <<>> /\ ScreenOK(screen')
  <2>1. screen' # <<>>
    BY <1>7 DEF WordScreens
  <2>2. QED
    BY <1>1, <1>7, <2>1 DEF ScreenOK
<1>9. Moves(submitted)
  BY <1>1, <1>2, <1>5, ProgressSent
<1>10. HandedKept(submitted)
  BY <1>2 DEF HandedKept
<1>11. WordOK'
  <2>1. SUFFICES ASSUME ~lost' PROVE WordOK'
    BY DEF WordOK
  <2>2. ~lost /\ online
    BY <1>2, <2>1 DEF Send
  <2>3. Progress(words) \in UpFrames /\ Progress(words).kind = "progress"
    BY <1>5, FramesTyped
  <2>4. up' = Append(up, Progress(words))
    BY <1>1, <1>2, <2>2, <2>3 DEF Send
  <2>5. \E n \in DOMAIN up' : up'[n].kind = "progress"
    <3>1. /\ DOMAIN up' = 1..(Len(up) + 1) /\ Len(up) \in Nat
          /\ up'[Len(up) + 1] = Progress(words)
      BY <1>1, <2>3, <2>4, Pushed
    <3>2. Len(up) + 1 \in DOMAIN up'
      BY <3>1
    <3>3. QED
      BY <2>3, <3>1, <3>2
  <2>6. /\ \A n \in DOMAIN down : down[n].kind = "feedback" => WasJudged(down[n].value.words)
        /\ IsJudged(screen)
    BY <1>1, <2>2 DEF Inv, More, WordOK
  <2>7. \A n \in DOMAIN down' : down'[n].kind = "feedback" => WasJudged(down'[n].value.words)
    BY <1>1, <2>6
  <2>8. \A f \in DOMAIN screen'.feedback : WasJudged(screen'.feedback[f].words)
    BY <1>7, <2>6 DEF IsJudged
  <2>9. QED
    BY <1>1, <2>5, <2>7, <2>8 DEF WordOK, WasJudged, IsJudged
<1>12. Own'
  BY <1>1, <1>11 DEF Own, SlideOK, LightsLock, LightOK, FlightOK
<1>13. QED
  BY <1>8, <1>9, <1>10, <1>12 DEF PhoneDid

-----------------------------------------------------------------------------
(* The light switches *)

Distinct(s) == \A i, j \in DOMAIN s : s[i] = s[j] => i = j

\* No switch is listed twice.
LEMMA DistinctMore ==
  ASSUME NEW S, NEW s \in Seq(S), Distinct(s), NEW e \in S, ~Contains(s, e)
  PROVE  Distinct(Append(s, e))
<1> DEFINE t == Append(s, e)
<1>1. /\ DOMAIN t = 1..(Len(s) + 1) /\ DOMAIN s = 1..Len(s) /\ Len(s) \in Nat
      /\ t[Len(s) + 1] = e /\ \A n \in DOMAIN s : t[n] = s[n]
  BY Pushed
<1>2. \A n \in DOMAIN s : s[n] # e
  BY <1>1 DEF Contains
<1> HIDE DEF t
<1>3. SUFFICES ASSUME NEW i \in DOMAIN t, NEW j \in DOMAIN t, t[i] = t[j] PROVE i = j
  BY DEF Distinct, t
<1>4. \A n \in DOMAIN t : n = Len(s) + 1 \/ n \in DOMAIN s
  BY <1>1
<1>5. CASE i \in DOMAIN s /\ j \in DOMAIN s
  BY <1>1, <1>3, <1>5 DEF Distinct
<1>6. CASE i \in DOMAIN s /\ j = Len(s) + 1
  BY <1>1, <1>2, <1>3, <1>6
<1>7. CASE i = Len(s) + 1 /\ j \in DOMAIN s
  BY <1>1, <1>2, <1>3, <1>7
<1>8. QED
  BY <1>4, <1>5, <1>6, <1>7

LEMMA DistinctLess ==
  ASSUME NEW S, NEW s \in Seq(S), Distinct(s), NEW e, NEW k \in DOMAIN s, TakesOut(k, s, e, S)
  PROVE  Distinct(RemoveFirst(s, e))
<1> DEFINE t == RemoveFirst(s, e)
<1>1. /\ t \in Seq(S) /\ Len(s) \in Nat \ {0} /\ Len(t) = Len(s) - 1
      /\ \A j \in 1..(Len(s) - 1) : t[j] = IF j < k THEN s[j] ELSE s[j + 1]
  BY DEF TakesOut
<1> HIDE DEF t
<1>2. DOMAIN t = 1..(Len(s) - 1) /\ DOMAIN s = 1..Len(s) /\ k \in Nat
  BY <1>1
<1>3. SUFFICES ASSUME NEW i \in DOMAIN t, NEW j \in DOMAIN t, t[i] = t[j] PROVE i = j
  BY DEF Distinct, t
<1> DEFINE p == IF i < k THEN i ELSE i + 1
           q == IF j < k THEN j ELSE j + 1
<1>4. p \in DOMAIN s /\ q \in DOMAIN s /\ i \in Nat /\ j \in Nat
  BY <1>1, <1>2
<1>5. t[i] = s[p] /\ t[j] = s[q]
  BY <1>1, <1>2
<1>6. p = q
  BY <1>3, <1>4, <1>5 DEF Distinct
<1>7. QED
  BY <1>2, <1>4, <1>6

LEMMA PressSwitchDid ==
  ASSUME Inv, NEW i \in Switches, PressSwitch(i)
  PROVE  PhoneDid(submitted) /\ Own'
<1>0. PICK pressed : pressed = IF Contains(screen.pressed, i) THEN RemoveFirst(screen.pressed, i)
                               ELSE Append(screen.pressed, i)
  OBVIOUS
<1>a. PICK lights : lights = ApplySwitch(screen.lights, puzzle.wiring[i])
  OBVIOUS
<1>1. /\ game = "light-switch" /\ screen # <<>> /\ ScreenOK(screen) /\ PuzzleOK
      /\ UNCHANGED <<game, puzzle, online, faults, progress>>
      /\ up \in Seq(UpFrames) /\ lost \in BOOLEAN /\ submitted \in BOOLEAN
      /\ online \in BOOLEAN
  BY PlaysIs DEF PressSwitch
<1>2. /\ ~screen.isSolved
      /\ screen' = [pressed |-> pressed, lights |-> lights, isSolved |-> AllOn(lights)]
      /\ IF AllOn(lights) THEN Send(<<Submit(pressed)>>)
         ELSE IF submitted THEN UNCHANGED <<up, submitted, lost>>
         ELSE Send(<<Progress(pressed)>>)
  BY <1>0, <1>1, <1>a DEF PressSwitch
<1>3. submitted = FALSE
  BY <1>1, <1>2 DEF Inv, LockOK, LightsLock
<1>4. screen \in [pressed : Seq(Switches), lights : SUBSET Lights, isSolved : BOOLEAN]
  BY <1>1 DEF ScreenOK
<1>5. screen.pressed \in Seq(Switches) /\ screen.lights \in SUBSET Lights
  BY <1>4
<1>6. /\ puzzle.wiring \in [Switches -> SUBSET Lights] /\ puzzle.lights \in SUBSET Lights
      /\ puzzle.lights # Lights
  BY <1>1 DEF PuzzleOK
<1>7. screen.lights = ApplyAll(puzzle.lights, puzzle.wiring, screen.pressed)
      /\ Distinct(screen.pressed)
  BY <1>1 DEF Inv, More, LightOK, Distinct
<1>8. pressed \in Seq(Switches) /\ Distinct(pressed)
      /\ ApplyAll(puzzle.lights, puzzle.wiring, pressed)
           = ApplySwitch(ApplyAll(puzzle.lights, puzzle.wiring, screen.pressed), puzzle.wiring[i])
  <2>1. CASE Contains(screen.pressed, i)
    <3>1. PICK m \in DOMAIN screen.pressed : screen.pressed[m] = i
      BY <1>5, <2>1, LenProperties DEF Contains
    <3>2. PICK k \in DOMAIN screen.pressed : TakesOut(k, screen.pressed, i, Switches)
      BY <1>5, <3>1, RemovedFirst
    <3>3. pressed = RemoveFirst(screen.pressed, i)
      BY <1>0, <2>1
    <3>4. pressed \in Seq(Switches)
      BY <3>2, <3>3 DEF TakesOut
    <3>5. Distinct(pressed)
      BY <1>5, <1>7, <3>2, <3>3, DistinctLess
    <3>6. QED
      BY <1>5, <1>6, <2>1, <3>3, <3>4, <3>5, OnePressedLess
  <2>2. CASE ~Contains(screen.pressed, i)
    <3>1. pressed = Append(screen.pressed, i)
      BY <1>0, <2>2
    <3>2. pressed \in Seq(Switches)
      BY <1>5, <3>1
    <3>3. Distinct(pressed)
      BY <1>5, <1>7, <2>2, <3>1, DistinctMore
    <3>4. QED
      BY <1>5, <1>6, <3>1, <3>2, <3>3, OnePressedMore
  <2>3. QED
    BY <2>1, <2>2
<1>9. lights = ApplyAll(puzzle.lights, puzzle.wiring, pressed) /\ lights \in SUBSET Lights
  BY <1>a, <1>6, <1>7, <1>8, AppliedTyped
<1>10. /\ screen' # <<>> /\ ScreenOK(screen') /\ screen'.pressed = pressed
       /\ screen'.lights = lights /\ screen'.isSolved = AllOn(lights)
  <2>1. AllOn(lights) \in BOOLEAN
    BY DEF AllOn
  <2>2. screen' \in [pressed : Seq(Switches), lights : SUBSET Lights, isSolved : BOOLEAN]
    BY <1>2, <1>8, <1>9, <2>1
  <2>3. QED
    BY <1>1, <1>2, <2>2 DEF ScreenOK
<1>11. pressed \in Answers
  BY <1>1, <1>8 DEF Answers
<1>12. AllOn(lights) => Valid(pressed) /\ Handed(pressed)'
  <2>1. ASSUME AllOn(lights) PROVE pressed # <<>>
    BY <1>6, <1>9, <2>1, NonePressed DEF AllOn
  <2>2. ASSUME AllOn(lights) PROVE Valid(pressed)
    BY <1>1, <2>1, <2>2 DEF Valid, ValidPresses
  <2>3. ASSUME AllOn(lights) PROVE Handed(pressed)'
    BY <1>1, <1>10, <2>3 DEF Handed
  <2>4. QED
    BY <2>2, <2>3
<1>13. Moves(submitted)
  BY <1>1, <1>2, <1>3, <1>11, <1>12, ProgressSent, SubmitSent
<1>14. HandedKept(submitted)
  BY <1>3 DEF HandedKept
<1>15. /\ ~AllOn(lights) => submitted' = FALSE
       /\ AllOn(lights) /\ ~lost' => submitted' = TRUE
  <2>1. /\ Progress(pressed).kind = "progress" /\ Submit(pressed).kind = "submit"
        /\ DOMAIN <<Progress(pressed)>> = {1} /\ DOMAIN <<Submit(pressed)>> = {1}
        /\ <<Progress(pressed)>>[1] = Progress(pressed) /\ <<Submit(pressed)>>[1] = Submit(pressed)
    BY DEF Progress, Submit
  <2>2. ASSUME ~AllOn(lights) PROVE submitted' = FALSE
    BY <1>2, <1>3, <2>1, <2>2 DEF Send
  <2>3. ASSUME AllOn(lights), ~lost' PROVE submitted' = TRUE
    BY <1>1, <1>2, <1>3, <2>1, <2>3 DEF Send
  <2>4. QED
    BY <2>2, <2>3
<1>16. LightOK'
  BY <1>1, <1>8, <1>9, <1>10, <1>15 DEF LightOK, Distinct
<1>17. LightsLock'
  BY <1>10, <1>15 DEF LightsLock
<1>18. Own'
  BY <1>1, <1>16, <1>17 DEF Own, SlideOK, WordOK, FlightOK
<1>19. QED
  BY <1>10, <1>13, <1>14, <1>18 DEF PhoneDid

-----------------------------------------------------------------------------
(* Drawing a plan *)

\* A plan with a route more or less
LEMMA WithPlan ==
  ASSUME NEW paths \in Plans, NEW i \in Planes, NEW path \in Paths, IsRoute(i, path)
  PROVE  /\ With(paths, i, path) \in Plans /\ i \in DOMAIN With(paths, i, path)
         /\ With(paths, i, path)[i] = path
<1> DEFINE new == With(paths, i, path)
<1>1. /\ DOMAIN paths \subseteq Planes
      /\ \A j \in DOMAIN paths : paths[j] \in Paths /\ IsRoute(j, paths[j])
  BY PlansAre
<1>2. /\ DOMAIN new = DOMAIN paths \cup {i} /\ new = [j \in DOMAIN new |-> new[j]]
      /\ \A j \in DOMAIN new : new[j] = IF j = i THEN path ELSE paths[j]
  BY DEF With
<1> HIDE DEF new
<1>3. \A j \in DOMAIN new : new[j] \in Paths /\ IsRoute(j, new[j])
  BY <1>1, <1>2
<1>4. DOMAIN new \subseteq Planes /\ i \in DOMAIN new /\ new[i] = path
  BY <1>1, <1>2
<1>5. new \in Plans
  BY <1>2, <1>3, <1>4, PlansAre
<1>6. QED
  BY <1>4, <1>5 DEF new

LEMMA WithoutPlan ==
  ASSUME NEW paths \in Plans, NEW i
  PROVE  [j \in DOMAIN paths \ {i} |-> paths[j]] \in Plans
<1> DEFINE new == [j \in DOMAIN paths \ {i} |-> paths[j]]
<1>1. /\ DOMAIN paths \subseteq Planes
      /\ \A j \in DOMAIN paths : paths[j] \in Paths /\ IsRoute(j, paths[j])
  BY PlansAre
<1>2. /\ DOMAIN new = DOMAIN paths \ {i} /\ new = [j \in DOMAIN new |-> new[j]]
      /\ \A j \in DOMAIN new : new[j] = paths[j]
  OBVIOUS
<1> HIDE DEF new
<1>3. \A j \in DOMAIN new : new[j] \in Paths /\ IsRoute(j, new[j])
  BY <1>1, <1>2
<1>4. new \in Plans
  BY <1>1, <1>2, <1>3, PlansAre
<1>5. QED
  BY <1>4 DEF new

LEMMA DrawsDid ==
  ASSUME Inv, NEW s, Draws(s), FlightScreen(s), s.phase = "plan", PlanIsKnown(s)
  PROVE  PhoneDid(submitted) /\ Own'
<1>1. /\ game = "bonk-air" /\ screen # <<>> /\ ScreenOK(screen) /\ PuzzleOK
      /\ UNCHANGED <<game, puzzle, online, faults, progress>>
      /\ up \in Seq(UpFrames) /\ lost \in BOOLEAN /\ submitted \in BOOLEAN
      /\ online \in BOOLEAN
  BY PlaysIs DEF Draws
<1>2. screen' = s /\ lost' = (lost \/ submitted) /\ up' = up /\ submitted' = submitted
  BY <1>1 DEF Draws
<1>3. screen' # <<>> /\ ScreenOK(screen')
  BY <1>1, <1>2 DEF ScreenOK, FlightScreen
<1>4. Moves(submitted)
  BY <1>1, <1>2, NothingSent
<1>5. HandedKept(submitted)
  BY <1>1, <1>2 DEF HandedKept
<1>6. Planned(s)
  BY DEF Planned, Flying
<1>7. FlightOK'
  BY <1>1, <1>2, <1>6 DEF FlightOK, Planned, Flying, PlanIsKnown
<1>8. Own'
  BY <1>1, <1>7 DEF Own, LightsLock, SlideOK, LightOK, WordOK
<1>9. QED
  BY <1>3, <1>4, <1>5, <1>8 DEF PhoneDid

LEMMA FlightIs ==
  ASSUME Inv, game = "bonk-air", screen # <<>>
  PROVE  /\ FlightScreen(screen) /\ Planned(screen)
         /\ DOMAIN screen = {"phase", "paths", "drawing", "plan", "flight", "left"}
         /\ screen.paths \in Plans /\ screen.drawing \in Maybe(Strokes(screen.paths))
         /\ screen.plan \in Maybe(Plans) /\ screen.left \in Nat
         /\ DOMAIN screen.paths \subseteq Planes
         /\ \A i \in DOMAIN screen.paths : screen.paths[i] \in Paths
                                           /\ IsRoute(i, screen.paths[i])
         /\ \A i \in Planes : puzzle.planes[i].spawn \in Grid /\ puzzle.planes[i].goal \in Grid
<1>1. FlightScreen(screen)
  BY DEF Inv, Base, TypeOK, PhoneTypeOK, ScreenOK
<1>2. screen.paths \in Plans
  BY <1>1 DEF FlightScreen
<1>3. /\ DOMAIN screen.paths \subseteq Planes
      /\ \A i \in DOMAIN screen.paths : screen.paths[i] \in Paths
                                        /\ IsRoute(i, screen.paths[i])
  BY <1>2, PlansAre
<1>4. \A i \in Planes : puzzle.planes[i].spawn \in Grid /\ puzzle.planes[i].goal \in Grid
  BY DEF Inv, Base, TypeOK, PuzzleOK
<1>5. Planned(screen)
  BY DEF Inv, More, FlightOK
<1>6. QED
  BY <1>1, <1>2, <1>3, <1>4, <1>5 DEF FlightScreen

\* A screen on which a stroke goes on
LEMMA StrokeTyped ==
  ASSUME FlightScreen(screen), screen.phase = "plan", NEW paths \in Plans,
         NEW d \in Strokes(paths)
  PROVE  LET s == [screen EXCEPT !.drawing = <<d>>, !.paths = paths]
         IN  FlightScreen(s) /\ s.phase = "plan" /\ PlanIsKnown(s)
<1> DEFINE drawing == <<d>>
           s == [screen EXCEPT !.drawing = drawing, !.paths = paths]
<1>1. drawing \in Maybe(Strokes(paths)) /\ drawing # <<>>
  BY OneMaybe
<1> HIDE DEF drawing
<1>2. /\ DOMAIN s = {"phase", "paths", "drawing", "plan", "flight", "left"}
      /\ s.phase = "plan" /\ s.paths = paths /\ s.drawing = drawing /\ s.plan = screen.plan
      /\ s.left = screen.left
  BY DEF FlightScreen
<1> HIDE DEF s
<1>3. FlightScreen(s)
  BY <1>1, <1>2 DEF FlightScreen
<1>4. PlanIsKnown(s)
  BY <1>1, <1>2 DEF PlanIsKnown
<1>5. QED
  BY <1>2, <1>3, <1>4 DEF s, drawing

LEMMA PointerDownDid ==
  ASSUME Inv, game = "bonk-air", screen # <<>>, NEW c \in Grid, PointerDown(c)
  PROVE  PhoneDid(submitted) /\ Own'
<1> DEFINE paths == screen.paths
           starts == {i \in Planes : puzzle.planes[i].spawn = c}
           goesOn == {i \in DOMAIN paths : /\ ~paths[i].complete
                                           /\ Len(paths[i].cells) > 1
                                           /\ Last(paths[i].cells) = c}
           prev(i) == IF i \in DOMAIN paths THEN <<paths[i]>> ELSE <<>>
           stroke(i, moved) == [plane |-> i, prev |-> prev(i), moved |-> moved]
           start == [cells |-> <<c>>, complete |-> FALSE]
<1>1. /\ FlightScreen(screen) /\ paths \in Plans /\ DOMAIN paths \subseteq Planes
      /\ \A i \in DOMAIN paths : paths[i] \in Paths /\ IsRoute(i, paths[i])
  BY FlightIs
<1>2. PlaneCount \in Nat
  BY BonkAssumption
<1>3. \A i \in Planes : /\ prev(i) \in Maybe(Paths)
                        /\ prev(i) # <<>> => IsRoute(i, prev(i)[1])
  <2> SUFFICES ASSUME NEW i \in Planes
               PROVE  /\ prev(i) \in Maybe(Paths)
                      /\ prev(i) # <<>> => IsRoute(i, prev(i)[1])
    OBVIOUS
  <2>1. CASE i \in DOMAIN paths
    <3>1. paths[i] \in Paths /\ prev(i) = <<paths[i]>> /\ IsRoute(i, paths[i])
      BY <1>1, <2>1
    <3>2. QED
      BY <3>1, OneMaybe
  <2>2. CASE i \notin DOMAIN paths
    BY <2>2 DEF Maybe
  <2>3. QED
    BY <2>1, <2>2
<1> HIDE DEF prev
<1>4. CASE /\ starts # {}
           /\ Draws([screen EXCEPT !.drawing = <<stroke(Min(starts), FALSE)>>,
                                   !.paths = With(paths, Min(starts), start)])
  <2>1. PICK i : i = Min(starts)
    OBVIOUS
  <2>2. i \in Planes /\ puzzle.planes[i].spawn = c
    <3>1. starts \in SUBSET (1..PlaneCount)
      BY DEF Planes
    <3>2. i \in starts
      BY <1>2, <1>4, <2>1, <3>1, LeastIsIn
    <3>3. QED
      BY <3>2
  <2>3. PICK new : new = With(paths, i, start)
    OBVIOUS
  <2>4. start \in Paths /\ IsRoute(i, start) /\ ~start.complete
    <3>1. /\ <<c>> \in Seq(Grid) /\ <<c>> # <<>> /\ <<c>>[1] = c /\ Len(<<c>>) = 1
          /\ 2..1 = {}
      OBVIOUS
    <3>2. QED
      BY <2>2, <3>1 DEF Paths, IsRoute
  <2>5. new \in Plans /\ i \in DOMAIN new /\ new[i] = start
    BY <1>1, <2>2, <2>3, <2>4, WithPlan
  <2>6. PICK d : d = stroke(i, FALSE)
    OBVIOUS
  <2>7. d \in Strokes(new)
    <3>1. d \in [plane : DOMAIN new, prev : Maybe(Paths), moved : BOOLEAN]
      BY <1>3, <2>2, <2>5, <2>6
    <3>2. d.plane = i /\ d.prev = prev(i)
      BY <2>6
    <3>3. QED
      BY <1>3, <2>2, <2>4, <2>5, <3>1, <3>2 DEF Strokes
  <2>8. PICK s : s = [screen EXCEPT !.drawing = <<d>>, !.paths = new]
    OBVIOUS
  <2>9. Draws(s)
    BY <1>4, <2>1, <2>3, <2>6, <2>8
  <2>10. screen.phase = "plan"
    BY <2>9 DEF Draws
  <2>11. FlightScreen(s) /\ s.phase = "plan" /\ PlanIsKnown(s)
    BY <1>1, <2>5, <2>7, <2>8, <2>10, StrokeTyped
  <2>12. QED
    BY <2>9, <2>11, DrawsDid
<1>5. CASE /\ goesOn # {}
           /\ Draws([screen EXCEPT !.drawing = <<stroke(Min(goesOn), TRUE)>>])
  <2>1. PICK i : i = Min(goesOn)
    OBVIOUS
  <2>2. i \in DOMAIN paths /\ ~paths[i].complete /\ i \in Planes
    <3>1. goesOn \in SUBSET (1..PlaneCount)
      BY <1>1 DEF Planes
    <3>2. i \in goesOn
      BY <1>2, <1>5, <2>1, <3>1, LeastIsIn
    <3>3. QED
      BY <1>1, <3>2
  <2>3. PICK new : new = paths
    OBVIOUS
  <2>4. PICK d : d = stroke(i, TRUE)
    OBVIOUS
  <2>5. d \in Strokes(new)
    <3>1. d \in [plane : DOMAIN new, prev : Maybe(Paths), moved : BOOLEAN]
      BY <1>3, <2>2, <2>3, <2>4
    <3>2. d.plane = i /\ d.prev = prev(i)
      BY <2>4
    <3>3. QED
      BY <1>3, <2>2, <2>3, <3>1, <3>2 DEF Strokes
  <2>6. PICK s : s = [screen EXCEPT !.drawing = <<d>>, !.paths = new]
    OBVIOUS
  <2>7. s = [screen EXCEPT !.drawing = <<d>>]
    BY <1>1, <2>3, <2>6 DEF FlightScreen
  <2>8. Draws(s)
    BY <1>5, <2>1, <2>4, <2>7
  <2>9. screen.phase = "plan"
    BY <2>8 DEF Draws
  <2>10. FlightScreen(s) /\ s.phase = "plan" /\ PlanIsKnown(s)
    BY <1>1, <2>3, <2>5, <2>6, <2>9, StrokeTyped
  <2>11. QED
    BY <2>8, <2>10, DrawsDid
<1>6. QED
  BY <1>4, <1>5 DEF PointerDown, prev

-----------------------------------------------------------------------------
(* Drawing on, and the end of a stroke *)

LEMMA PointerMoveDid ==
  ASSUME Inv, game = "bonk-air", screen # <<>>, NEW c \in Grid, PointerMove(c)
  PROVE  PhoneDid(submitted) /\ Own'
<1> DEFINE paths == screen.paths
<1>1. /\ FlightScreen(screen) /\ paths \in Plans
      /\ DOMAIN paths \subseteq Planes
      /\ \A i \in DOMAIN paths : paths[i] \in Paths /\ IsRoute(i, paths[i])
      /\ screen.drawing \in Maybe(Strokes(paths)) /\ screen.drawing # <<>>
      /\ DOMAIN screen = {"phase", "paths", "drawing", "plan", "flight", "left"}
  BY FlightIs DEF PointerMove
<1>2. PICK d : d = screen.drawing[1]
  OBVIOUS
<1>3. d \in Strokes(paths) /\ screen.drawing = <<d>>
  BY <1>1, <1>2, MaybeOne
<1>4. PICK i : i = d.plane
  OBVIOUS
<1>5. /\ i \in DOMAIN paths /\ ~paths[i].complete /\ paths[i] \in Paths /\ IsRoute(i, paths[i])
      /\ d \in [plane : DOMAIN paths, prev : Maybe(Paths), moved : BOOLEAN]
      /\ d.prev # <<>> => IsRoute(i, d.prev[1])
  BY <1>1, <1>3, <1>4 DEF Strokes
<1>6. PICK path : path = [paths[i] EXCEPT !.cells = Drawn(paths[i].cells, c)]
  OBVIOUS
<1>7. path \in Paths /\ IsRoute(i, path) /\ ~path.complete
  BY <1>5, <1>6, DrawnRoute
<1>8. PICK new : new = With(paths, i, path)
  OBVIOUS
<1>9. i \in Planes /\ new \in Plans /\ new[i] = path /\ DOMAIN new = DOMAIN paths
  <2>1. i \in Planes
    BY <1>1, <1>5
  <2>2. new \in Plans /\ new[i] = path
    BY <1>1, <1>7, <1>8, <2>1, WithPlan
  <2>3. DOMAIN new = DOMAIN paths
    BY <1>5, <1>8 DEF With
  <2>4. QED
    BY <2>1, <2>2, <2>3
<1>10. PICK e : e = [d EXCEPT !.moved = TRUE]
  OBVIOUS
<1>11. e \in Strokes(new)
  <2>1. e \in [plane : DOMAIN new, prev : Maybe(Paths), moved : BOOLEAN]
        /\ e.plane = i /\ e.prev = d.prev
    BY <1>4, <1>5, <1>9, <1>10
  <2>2. QED
    BY <1>5, <1>7, <1>9, <2>1 DEF Strokes
<1>12. PICK s : s = [screen EXCEPT !.drawing = <<e>>, !.paths = new]
  OBVIOUS
<1>13. Draws(s)
  <2>1. new = [paths EXCEPT ![i] = path]
    <3>1. paths = [j \in DOMAIN paths |-> paths[j]]
      BY <1>1, PlansAre
    <3> HIDE DEF paths
    <3>2. QED
      BY <1>5, <1>8, <3>1 DEF With
  <2>2. [<<d>> EXCEPT ![1].moved = TRUE] = <<e>>
    <3>1. <<d>>[1] = d
      OBVIOUS
    <3>2. [<<d>> EXCEPT ![1].moved = TRUE] = [<<d>> EXCEPT ![1] = e]
      BY <1>10, <3>1
    <3>3. [<<d>> EXCEPT ![1] = e] = <<e>>
      OBVIOUS
    <3>4. QED
      BY <3>2, <3>3
  <2>3. [paths EXCEPT ![i].cells = Drawn(paths[i].cells, c)] = new
    BY <1>6, <2>1
  <2> DEFINE cells == Drawn(paths[i].cells, c)
  <2>4. Draws([screen EXCEPT !.paths[i].cells = cells, !.drawing[1].moved = TRUE])
    BY <1>2, <1>4 DEF PointerMove
  <2>5. [screen EXCEPT !.paths[i].cells = cells, !.drawing[1].moved = TRUE]
           = [screen EXCEPT !.paths = new, !.drawing = <<e>>]
    <3>1. [screen.paths EXCEPT ![i].cells = cells] = new
      BY <2>3
    <3>2. [screen.drawing EXCEPT ![1].moved = TRUE] = <<e>>
      BY <1>3, <2>2
    <3> HIDE DEF cells, paths
    <3>3. QED
      BY <1>1, <3>1, <3>2
  <2>6. [screen EXCEPT !.paths = new, !.drawing = <<e>>] = s
    BY <1>1, <1>12
  <2>7. QED
    BY <2>4, <2>5, <2>6
<1>14. screen.phase = "plan"
  BY <1>13 DEF Draws
<1>15. FlightScreen(s) /\ s.phase = "plan" /\ PlanIsKnown(s)
  BY <1>1, <1>9, <1>11, <1>12, <1>14, StrokeTyped
<1>16. QED
  BY <1>13, <1>15, DrawsDid

\* The end of a stroke leaves a plan.
LEMMA FinishTyped ==
  ASSUME NEW paths \in Plans, NEW d \in Strokes(paths),
         \A i \in Planes : puzzle.planes[i].goal \in Grid
  PROVE  Finish(paths, d) \in Plans
<1>1. /\ DOMAIN paths \subseteq Planes
      /\ \A i \in DOMAIN paths : paths[i] \in Paths /\ IsRoute(i, paths[i])
  BY PlansAre
<1>2. PICK i : i = d.plane
  OBVIOUS
<1>3. /\ i \in DOMAIN paths /\ i \in Planes /\ d.prev \in Maybe(Paths)
      /\ d.prev # <<>> => IsRoute(i, d.prev[1])
  BY <1>1, <1>2 DEF Strokes
<1>4. CASE d.moved
  <2>1. PICK path : path = Snapped(paths[i], puzzle.planes[i].goal)
    OBVIOUS
  <2>2. path \in Paths /\ IsRoute(i, path)
    BY <1>1, <1>3, <2>1, SnappedRoute
  <2>3. Finish(paths, d) = With(paths, i, path)
    BY <1>2, <1>4, <2>1 DEF Finish
  <2>4. QED
    BY <1>3, <2>2, <2>3, WithPlan
<1>5. CASE ~d.moved /\ d.prev = <<>>
  <2>1. Finish(paths, d) = [j \in DOMAIN paths \ {i} |-> paths[j]]
    BY <1>2, <1>5 DEF Finish
  <2>2. QED
    BY <2>1, WithoutPlan
<1>6. CASE ~d.moved /\ d.prev # <<>>
  <2>1. d.prev[1] \in Paths /\ IsRoute(i, d.prev[1])
    BY <1>3, <1>6, MaybeOne
  <2>2. Finish(paths, d) = With(paths, i, d.prev[1])
    BY <1>2, <1>6 DEF Finish
  <2>3. QED
    BY <1>3, <2>1, <2>2, WithPlan
<1>7. QED
  BY <1>4, <1>5, <1>6

\* A screen on which the plan is what is drawn
LEMMA PlanTyped ==
  ASSUME FlightScreen(screen), NEW phase \in {"plan", "locked"}, NEW paths \in Plans
  PROVE  LET s == [screen EXCEPT !.phase = phase, !.drawing = <<>>, !.paths = paths,
                                 !.plan = <<paths>>]
         IN  /\ FlightScreen(s) /\ PlanIsKnown(s) /\ s.phase = phase
             /\ s.paths = paths /\ s.drawing = <<>>
<1> DEFINE plan == <<paths>>
           s == [screen EXCEPT !.phase = phase, !.drawing = <<>>, !.paths = paths,
                               !.plan = plan]
<1>1. plan \in Maybe(Plans) /\ <<>> \in Maybe(Strokes(paths))
  BY OneMaybe DEF Maybe
<1>a. plan = <<paths>>
  OBVIOUS
<1> HIDE DEF plan
<1>2. /\ DOMAIN s = {"phase", "paths", "drawing", "plan", "flight", "left"}
      /\ s.phase = phase /\ s.paths = paths /\ s.drawing = <<>> /\ s.plan = plan
      /\ s.left = screen.left
  BY DEF FlightScreen
<1> HIDE DEF s
<1>3. FlightScreen(s)
  BY <1>1, <1>2 DEF FlightScreen
<1>4. PlanIsKnown(s)
  BY <1>2, <1>a DEF PlanIsKnown
<1>5. QED
  BY <1>2, <1>3, <1>4 DEF s, plan

LEMMA FinishStrokeDid ==
  ASSUME Inv, game = "bonk-air", screen # <<>>, FinishStroke
  PROVE  PhoneDid(submitted) /\ Own'
<1>1. /\ FlightScreen(screen) /\ screen.paths \in Plans
      /\ screen.drawing \in Maybe(Strokes(screen.paths)) /\ screen.drawing # <<>>
      /\ DOMAIN screen = {"phase", "paths", "drawing", "plan", "flight", "left"}
      /\ \A i \in Planes : puzzle.planes[i].goal \in Grid
  BY FlightIs DEF FinishStroke
<1>2. screen.drawing[1] \in Strokes(screen.paths)
  BY <1>1, MaybeOne
<1>3. PICK paths : paths = Finish(screen.paths, screen.drawing[1])
  OBVIOUS
<1>4. paths \in Plans
  BY <1>1, <1>2, <1>3, FinishTyped
<1>5. PICK s : s = [screen EXCEPT !.drawing = <<>>, !.paths = paths, !.plan = <<paths>>]
  OBVIOUS
<1>6. Draws(s)
  BY <1>3, <1>5 DEF FinishStroke
<1>7. screen.phase = "plan"
  BY <1>6 DEF Draws
<1>8. s = [screen EXCEPT !.phase = "plan", !.drawing = <<>>, !.paths = paths,
                         !.plan = <<paths>>]
  BY <1>1, <1>5, <1>7
<1>9. FlightScreen(s) /\ s.phase = "plan" /\ PlanIsKnown(s)
  BY <1>1, <1>4, <1>8, PlanTyped
<1>10. QED
  BY <1>6, <1>9, DrawsDid

LEMMA TakeOffDid ==
  ASSUME Inv, game = "bonk-air", screen # <<>>, TakeOff
  PROVE  PhoneDid(submitted) /\ Own'
<1>1. /\ game = "bonk-air" /\ PuzzleOK
      /\ UNCHANGED <<game, puzzle, online, faults, progress>>
      /\ up \in Seq(UpFrames) /\ lost \in BOOLEAN /\ submitted \in BOOLEAN
      /\ online \in BOOLEAN
  BY PlaysIs DEF TakeOff
<1>2. PICK paths : paths = screen.paths
  OBVIOUS
<1>3. /\ screen.phase = "plan"
      /\ screen' = [screen EXCEPT !.phase = "locked", !.drawing = <<>>, !.plan = <<paths>>]
      /\ HandIn(Plan(paths, TRUE), submitted)
      /\ lost' = (lost \/ ~online \/ submitted)
  BY <1>2 DEF TakeOff
<1>4. /\ FlightScreen(screen) /\ paths \in Plans
      /\ DOMAIN screen = {"phase", "paths", "drawing", "plan", "flight", "left"}
  BY <1>2, FlightIs
<1>5. screen' = [screen EXCEPT !.phase = "locked", !.drawing = <<>>, !.paths = paths,
                               !.plan = <<paths>>]
  BY <1>2, <1>3, <1>4
<1>6. /\ FlightScreen(screen') /\ PlanIsKnown(screen') /\ screen'.phase = "locked"
      /\ screen'.paths = paths /\ screen'.drawing = <<>>
  BY <1>4, <1>5, PlanTyped
<1>7. screen' # <<>> /\ ScreenOK(screen')
  <2>1. screen' # <<>>
    BY <1>6 DEF FlightScreen
  <2>2. QED
    BY <1>1, <1>6, <2>1 DEF ScreenOK
<1>8. Plan(paths, TRUE) \in Answers /\ Valid(Plan(paths, TRUE))
      /\ Plan(paths, TRUE).solution = paths
  BY <1>1, <1>4, PlansValid
<1>9. Handed(Plan(paths, TRUE))'
  BY <1>1, <1>6, <1>8 DEF Handed
<1>10. Moves(submitted)
  BY <1>1, <1>3, <1>8, <1>9, HandedInMoves
<1>11. HandedKept(submitted)
  BY <1>1, <1>3 DEF HandedKept
<1>12. Planned(screen')
  BY <1>6 DEF Planned, Flying
<1>13. ~lost' => submitted'
  BY <1>1, <1>3 DEF HandIn
<1>14. FlightOK'
  BY <1>1, <1>12, <1>13 DEF FlightOK, Planned, Flying, PlanIsKnown
<1>15. Own'
  BY <1>1, <1>14 DEF Own, LightsLock, SlideOK, LightOK, WordOK
<1>16. QED
  BY <1>7, <1>10, <1>11, <1>15 DEF PhoneDid

\* The replay goes on: nothing is sent, and the plan is as it was.
LEMMA Flew ==
  ASSUME game = "bonk-air", up \in Seq(UpFrames), lost \in BOOLEAN, submitted \in BOOLEAN,
         UNCHANGED <<game, puzzle, submitted, up, lost, faults>>,
         FlightScreen(screen'), Planned(screen'),
         screen'.paths = screen.paths, screen'.drawing = screen.drawing,
         screen'.phase # "locked"
  PROVE  PhoneDid(submitted) /\ Own'
<1>1. screen' # <<>> /\ ScreenOK(screen')
  <2>1. DOMAIN screen' = {"phase", "paths", "drawing", "plan", "flight", "left"}
    BY DEF FlightScreen
  <2>2. screen' # <<>>
    <3>1. DOMAIN <<>> = {} /\ "phase" \in DOMAIN screen'
      BY <2>1
    <3>2. QED
      BY <3>1
  <2>3. ScreenOK(screen')
    BY DEF ScreenOK
  <2>4. QED
    BY <2>2, <2>3
<1>2. Moves(submitted)
  BY NothingSent
<1>3. HandedKept(submitted)
  BY DEF HandedKept, Handed
<1>4. FlightOK'
  BY DEF FlightOK, Planned, Flying, PlanIsKnown
<1>5. Own'
  BY <1>4 DEF Own, LightsLock, SlideOK, LightOK, WordOK
<1>6. QED
  BY <1>1, <1>2, <1>3, <1>5 DEF PhoneDid

\* So does the flight on the phone.
LEMMA FlyDid ==
  ASSUME Inv, Fly
  PROVE  PhoneDid(submitted) /\ Own'
<1>1. /\ game = "bonk-air" /\ screen # <<>> /\ screen.phase = "sim"
      /\ UNCHANGED <<game, puzzle, submitted, seen, online, up, down, now, window,
                     progress, taken, saving, row, acked, result, lost, faults>>
      /\ up \in Seq(UpFrames) /\ lost \in BOOLEAN /\ submitted \in BOOLEAN
  BY DEF Inv, Base, TypeOK, PhoneTypeOK, Fly, server
<1>2. /\ FlightScreen(screen) /\ Planned(screen) /\ screen.paths \in Plans
      /\ DOMAIN screen = {"phase", "paths", "drawing", "plan", "flight", "left"}
  BY <1>1, FlightIs
<1>3. PICK flight : flight = screen.flight[1]
  OBVIOUS
<1>4. PICK n \in 0..(MaxSimSteps + 1) : IsFlown(puzzle, screen.paths, n, flight)
  BY <1>1, <1>2, <1>3 DEF Planned, Flying
<1>5. CASE Finished(flight)
  <2>1. screen' = [screen EXCEPT !.phase = "done"]
    BY <1>1, <1>3, <1>5 DEF Fly
  <2>2. /\ DOMAIN screen' = DOMAIN screen /\ screen'.phase = "done"
        /\ screen'.paths = screen.paths /\ screen'.drawing = screen.drawing
        /\ screen'.plan = screen.plan /\ screen'.left = screen.left
        /\ screen'.flight = screen.flight
    BY <1>2, <2>1
  <2>3. FlightScreen(screen')
    BY <1>2, <2>2 DEF FlightScreen
  <2>4. Planned(screen')
    BY <1>1, <1>2, <1>3, <1>5, <2>2 DEF Planned, Flying, PlanIsKnown
  <2>5. QED
    BY <1>1, <1>2, <2>2, <2>3, <2>4, Flew
<1>6. CASE ~Finished(flight)
  <2>1. PICK next \in SimStep(puzzle, screen.paths, {flight}) :
                screen' = [screen EXCEPT !.flight = <<next>>]
    BY <1>1, <1>3, <1>6 DEF Fly
  <2>2. /\ DOMAIN screen' = DOMAIN screen /\ screen'.phase = "sim"
        /\ screen'.paths = screen.paths /\ screen'.drawing = screen.drawing
        /\ screen'.plan = screen.plan /\ screen'.left = screen.left
        /\ screen'.flight = <<next>> /\ screen'.flight[1] = next
    BY <1>1, <1>2, <2>1
  <2>3. FlightScreen(screen')
    BY <1>1, <1>2, <2>2 DEF FlightScreen
  <2>4. n + 1 \in 0..(MaxSimSteps + 1) /\ IsFlown(puzzle, screen.paths, n + 1, next)
    <3>1. MaxSimSteps \in Nat /\ n \in Nat
      BY BonkAssumption
    <3>2. flight.t = n /\ ~(flight.t > MaxSimSteps)
      BY <1>4, <1>6 DEF IsFlown, Finished
    <3>3. n + 1 <= MaxSimSteps + 1
      BY <3>1, <3>2
    <3>4. QED
      BY <1>4, <1>6, <2>1, <3>1, <3>3, FlownOnce
  <2>5. Planned(screen')
    BY <1>1, <1>2, <2>2, <2>4 DEF Planned, Flying, PlanIsKnown
  <2>6. QED
    BY <1>1, <1>2, <2>2, <2>3, <2>5, Flew
<1>7. QED
  BY <1>5, <1>6

-----------------------------------------------------------------------------
(* Frames reach the phone *)

\* What was under way to the server still is.
LEMMA UpGrows ==
  ASSUME up \in Seq(UpFrames), NEW locked, Moves(locked), ~lost'
  PROVE  \A n \in DOMAIN up : n \in DOMAIN up' /\ up'[n] = up[n]
<1>1. \/ up' = up
      \/ \E v \in Answers : \/ up' = Append(up, Progress(v))
                            \/ up' = Append(up, Submit(v))
                            \/ up' = Append(Append(up, Progress(v)), Submit(v))
  BY DEF Moves
<1>2. ASSUME NEW v \in Answers
      PROVE  /\ Progress(v) \in UpFrames /\ Submit(v) \in UpFrames
             /\ Append(up, Progress(v)) \in Seq(UpFrames)
             /\ \A n \in DOMAIN up : /\ n \in DOMAIN Append(up, Progress(v))
                                     /\ Append(up, Progress(v))[n] = up[n]
                                     /\ n \in DOMAIN Append(up, Submit(v))
                                     /\ Append(up, Submit(v))[n] = up[n]
  <2>1. Progress(v) \in UpFrames /\ Submit(v) \in UpFrames
    BY FramesTyped
  <2>2. QED
    BY <2>1, Pushed
<1>3. ASSUME NEW v \in Answers
      PROVE  \A n \in DOMAIN up : /\ n \in DOMAIN Append(Append(up, Progress(v)), Submit(v))
                                  /\ Append(Append(up, Progress(v)), Submit(v))[n] = up[n]
  <2> DEFINE t == Append(up, Progress(v))
  <2>1. t \in Seq(UpFrames) /\ Submit(v) \in UpFrames
        /\ \A n \in DOMAIN up : n \in DOMAIN t /\ t[n] = up[n]
    BY <1>2
  <2> HIDE DEF t
  <2>2. \A n \in DOMAIN t : n \in DOMAIN Append(t, Submit(v)) /\ Append(t, Submit(v))[n] = t[n]
    BY <2>1, Pushed
  <2>3. \A n \in DOMAIN up : n \in DOMAIN Append(t, Submit(v)) /\ Append(t, Submit(v))[n] = up[n]
    BY <2>1, <2>2
  <2>4. QED
    BY <2>3 DEF t
<1>4. QED
  BY <1>1, <1>2, <1>3

\* What may be rendered in the place of the screen: it is as good.
Renders(s) ==
    /\ s # <<>>
    /\ game = "wordle" => s \in WordScreens /\ (~lost => IsJudged(s)) /\ (s.waiting => screen.waiting)
    /\ game = "bonk-air" => /\ FlightScreen(s) /\ Planned(s) /\ s.paths = screen.paths
                            /\ s.drawing = screen.drawing /\ s.phase = screen.phase
    /\ game \notin {"wordle", "bonk-air"} => s = screen

LEMMA ShownRenders ==
  ASSUME Inv, screen # <<>>
  PROVE  Renders(screen)
<1>1. game = "wordle" => screen \in WordScreens /\ (~lost => IsJudged(screen))
  BY DEF Inv, More, WordOK, Base, TypeOK, PhoneTypeOK, ScreenOK
<1>2. game = "bonk-air" => FlightScreen(screen) /\ Planned(screen)
  BY FlightIs
<1>3. QED
  BY <1>1, <1>2 DEF Renders

\* Rendering any of the games is a step of the phone,
LEMMA RenderDid ==
  ASSUME Inv, screen # <<>>, NEW s, Renders(s), NEW phase, NEW locked \in BOOLEAN,
         UNCHANGED <<game, puzzle, faults, progress>>, online' \in BOOLEAN,
         Render(s, phase, locked)
  PROVE  /\ PhoneDid(locked)
         /\ game = "wordle" => /\ ~lost' => IsJudged(screen')
                               /\ screen'.waiting => screen.waiting
         /\ game = "bonk-air" => /\ Planned(screen')
                                 /\ screen'.phase = "locked" => screen.phase = "locked"
         /\ game \notin {"wordle", "bonk-air"} =>
                 UNCHANGED <<screen, up, lost>> /\ submitted' = locked
<1>1. up \in Seq(UpFrames) /\ lost \in BOOLEAN /\ ScreenOK(screen) /\ s # <<>>
  BY DEF Inv, Base, TypeOK, PhoneTypeOK, Renders
<1>2. CASE game = "wordle"
  <2>1. RenderWord(s, phase, locked)
    BY <1>1, <1>2 DEF Render
  <2>2. s \in WordScreens /\ (~lost => IsJudged(s)) /\ (s.waiting => screen.waiting)
    BY <1>2 DEF Renders
  <2>3. /\ PhoneDid(locked) /\ screen'.feedback = s.feedback
        /\ ~lost' => IsJudged(s)
        /\ screen'.waiting => s.waiting
    BY <1>1, <1>2, <2>1, <2>2, WordRenders
  <2>4. ~lost' => IsJudged(screen')
    BY <2>3 DEF IsJudged
  <2>5. QED
    BY <1>2, <2>2, <2>3, <2>4
<1>3. CASE game = "bonk-air"
  <2>1. RenderFlight(s, phase, locked)
    BY <1>1, <1>3 DEF Render
  <2>2. /\ FlightScreen(s) /\ Planned(s) /\ s.paths = screen.paths
        /\ s.drawing = screen.drawing /\ s.phase = screen.phase
    BY <1>3 DEF Renders
  <2>3. /\ PhoneDid(locked) /\ Planned(screen')
        /\ screen'.phase = "locked" => s.phase = "locked"
    BY <1>1, <1>3, <2>1, <2>2, FlightRenders
  <2>4. QED
    BY <1>3, <2>2, <2>3
<1>4. CASE game \notin {"wordle", "bonk-air"}
  <2>1. screen' = s /\ submitted' = locked /\ up' = up /\ lost' = lost
    BY <1>4 DEF Render
  <2>2. s = screen
    BY <1>4 DEF Renders
  <2>3. ScreenOK(screen') /\ screen' # <<>>
    BY <1>1, <2>1, <2>2
  <2>4. Moves(locked)
    BY <1>1, <2>1, NothingSent
  <2>5. HandedKept(locked)
    <3>1. screen' = screen
      BY <2>1, <2>2
    <3>2. \A v : Handed(v)' = Handed(v)
      BY <1>4, <3>1 DEF Handed, Finishes, WasJudged
    <3>3. QED
      BY <3>2 DEF HandedKept
  <2>6. QED
    BY <1>4, <2>1, <2>2, <2>3, <2>4, <2>5 DEF PhoneDid
<1>5. QED
  BY <1>2, <1>3, <1>4

\* What an arrival leaves of the frames to the phone
FramesLeft ==
    /\ \A n \in DOMAIN down' : \E m \in DOMAIN down : down'[n] = down[m]
    /\ (\E n \in DOMAIN down : down[n].kind = "feedback") =>
            \/ \E n \in DOMAIN down' : down'[n].kind = "feedback"
            \/ game = "wordle" => ~screen'.waiting

\* ... and keeps what the game keeps.
LEMMA RenderOwn ==
  ASSUME Inv, screen # <<>>, NEW s, Renders(s), NEW phase, NEW locked \in BOOLEAN,
         UNCHANGED <<game, puzzle, faults, progress, window>>, online' \in BOOLEAN,
         Render(s, phase, locked), FramesLeft,
         locked = submitted \/ (~locked /\ (~lost => faults # 0))
  PROVE  Own'
<1>1. up \in Seq(UpFrames) /\ lost \in BOOLEAN /\ game \in Games /\ submitted \in BOOLEAN
  BY DEF Inv, Base, TypeOK, PhoneTypeOK
<1>2. /\ PhoneDid(locked)
      /\ game = "wordle" => /\ ~lost' => IsJudged(screen')
                            /\ screen'.waiting => screen.waiting
      /\ game = "bonk-air" => /\ Planned(screen')
                              /\ screen'.phase = "locked" => screen.phase = "locked"
      /\ game \notin {"wordle", "bonk-air"} =>
              UNCHANGED <<screen, up, lost>> /\ submitted' = locked
  BY RenderDid
<1>3. Moves(locked)
  BY <1>2 DEF PhoneDid
<1>4. lost' \in BOOLEAN /\ (lost => lost')
  BY <1>3 DEF Moves
<1>5. ~lost' => (locked => submitted')
  BY <1>3 DEF Moves
<1>6. CASE game = "wordle"
  <2>1. SUFFICES ASSUME ~lost' PROVE WordOK'
    BY <1>6 DEF Own, LightsLock, SlideOK, LightOK, FlightOK, WordOK
  <2>2. /\ \A n \in DOMAIN down : down[n].kind = "feedback" => WasJudged(down[n].value.words)
        /\ (screen.waiting /\ window = "open") =>
              \/ \E n \in DOMAIN up : up[n].kind = "progress"
              \/ \E n \in DOMAIN down : down[n].kind = "feedback"
    BY <1>4, <1>6, <2>1 DEF Inv, More, WordOK
  <2>3. \A n \in DOMAIN down' : down'[n].kind = "feedback" => WasJudged(down'[n].value.words)
    BY <2>2 DEF FramesLeft
  <2>4. (\E n \in DOMAIN up : up[n].kind = "progress") => \E n \in DOMAIN up' : up'[n].kind = "progress"
    BY <1>1, <1>3, <2>1, UpGrows
  <2>5. (screen'.waiting /\ window' = "open") =>
              \/ \E n \in DOMAIN up' : up'[n].kind = "progress"
              \/ \E n \in DOMAIN down' : down'[n].kind = "feedback"
    BY <1>2, <1>6, <2>2, <2>4 DEF FramesLeft
  <2>6. IsJudged(screen')
    BY <1>2, <1>6, <2>1
  <2>7. QED
    BY <2>3, <2>5, <2>6 DEF WordOK, IsJudged, WasJudged
<1>7. CASE game = "bonk-air"
  <2>1. (~lost /\ faults = 0 /\ screen.phase = "locked") => submitted
    BY <1>7 DEF Inv, More, FlightOK
  <2>2. (~lost' /\ faults' = 0 /\ screen'.phase = "locked") => submitted'
    BY <1>2, <1>4, <1>5, <1>7, <2>1
  <2>3. Planned(screen')
    BY <1>2, <1>7
  <2>4. FlightOK'
    BY <2>2, <2>3 DEF FlightOK, Planned, Flying, PlanIsKnown
  <2>5. QED
    BY <1>7, <2>4 DEF Own, LightsLock, SlideOK, LightOK, WordOK
<1>8. CASE game = "light-switch"
  <2>1. UNCHANGED <<screen, up, lost>> /\ submitted' = locked
    BY <1>2, <1>8
  <2>2. LightOK /\ LightsLock
    BY DEF Inv, More, LockOK
  <2>3. LightOK'
    BY <1>8, <2>1, <2>2 DEF LightOK
  <2>4. LightsLock'
    BY <1>8, <2>1, <2>2 DEF LightsLock
  <2>5. QED
    BY <1>8, <2>3, <2>4 DEF Own, SlideOK, WordOK, FlightOK
<1>9. CASE game = "sliding-puzzle"
  <2>1. UNCHANGED <<screen, up, lost>>
    BY <1>2, <1>9
  <2>2. SlideOK'
    BY <1>9, <2>1 DEF Inv, More, SlideOK
  <2>3. QED
    BY <1>9, <2>2 DEF Own, LightsLock, LightOK, WordOK, FlightOK
<1>10. CASE game \in {"vault-rush", "balance-scale"}
  BY <1>10 DEF Own, LightsLock, SlideOK, LightOK, WordOK, FlightOK
<1>11. QED
  BY <1>1, <1>6, <1>7, <1>8, <1>9, <1>10, GamesAre

-----------------------------------------------------------------------------
(* A step of the phone keeps the invariant *)

DownKept(locked) ==
    \/ down' = down /\ locked = submitted
    \/ /\ down # <<>> /\ down' = Tail(down)
       /\ IF IsUnlock(down[1]) THEN ~locked ELSE locked = submitted

OneUnlock ==
    \A n, m \in DOMAIN down : (IsUnlock(down[n]) /\ IsUnlock(down[m])) => n = m

LEMMA Dropped ==
  ASSUME NEW S, NEW s \in Seq(S), s # <<>>
  PROVE  /\ Tail(s) \in Seq(S) /\ Len(s) \in Nat /\ Len(s) >= 1
         /\ DOMAIN Tail(s) = 1..(Len(s) - 1) /\ DOMAIN s = 1..Len(s)
         /\ \A n \in DOMAIN Tail(s) : n + 1 \in DOMAIN s /\ Tail(s)[n] = s[n + 1]
<1>1. Len(s) \in Nat /\ Len(s) # 0 /\ DOMAIN s = 1..Len(s)
  BY EmptySeq
<1>2. Tail(s) \in Seq(S) /\ Len(Tail(s)) = Len(s) - 1
      /\ \A n \in 1..(Len(s) - 1) : Tail(s)[n] = s[n + 1]
  BY <1>1
<1>3. DOMAIN Tail(s) = 1..(Len(s) - 1)
  BY <1>2
<1>4. QED
  BY <1>1, <1>2, <1>3

\* The frames still under way to the phone are some of those before.
LEMMA DownIs ==
  ASSUME down \in Seq(DownFrames), submitted \in BOOLEAN, NEW locked \in BOOLEAN,
         DownKept(locked)
  PROVE  /\ down' \in Seq(DownFrames)
         /\ \A n \in DOMAIN down' : \E m \in DOMAIN down : down'[n] = down[m]
         /\ \A n, m \in DOMAIN down' : n # m =>
               \E i, j \in DOMAIN down : i # j /\ down'[n] = down[i] /\ down'[m] = down[j]
         /\ UnlockIsDown' => UnlockIsDown
         /\ (UnlockIsDown /\ locked = submitted /\ submitted) => UnlockIsDown'
         /\ (~locked /\ submitted) => (UnlockIsDown /\ (OneUnlock => ~UnlockIsDown'))
<1>1. CASE down' = down /\ locked = submitted
  BY <1>1 DEF UnlockIsDown
<1>2. CASE /\ down # <<>> /\ down' = Tail(down)
           /\ IF IsUnlock(down[1]) THEN ~locked ELSE locked = submitted
  <2>1. /\ down' \in Seq(DownFrames) /\ Len(down) \in Nat /\ Len(down) >= 1
        /\ DOMAIN down' = 1..(Len(down) - 1) /\ DOMAIN down = 1..Len(down)
        /\ \A n \in DOMAIN down' : n + 1 \in DOMAIN down /\ down'[n] = down[n + 1]
    BY <1>2, Dropped
  <2>2. \A n, m \in DOMAIN down' : n # m =>
               \E i, j \in DOMAIN down : i # j /\ down'[n] = down[i] /\ down'[m] = down[j]
    <3>1. \A n, m \in DOMAIN down' : n # m => n + 1 # m + 1
      BY <2>1
    <3>2. QED
      BY <2>1, <3>1
  <2>3. \A n \in DOMAIN down' : \E m \in DOMAIN down : down'[n] = down[m]
    BY <2>1
  <2>4. UnlockIsDown' => UnlockIsDown
    BY <2>3 DEF UnlockIsDown, IsUnlock
  <2>5. (UnlockIsDown /\ locked = submitted /\ submitted) => UnlockIsDown'
    <3>1. SUFFICES ASSUME UnlockIsDown, locked = submitted, submitted PROVE UnlockIsDown'
      OBVIOUS
    <3>2. ~IsUnlock(down[1])
      BY <1>2, <3>1
    <3>3. PICK n \in DOMAIN down : IsUnlock(down[n])
      BY <3>1 DEF UnlockIsDown
    <3>4. n - 1 \in DOMAIN down' /\ (n - 1) + 1 = n
      BY <2>1, <3>2, <3>3
    <3>5. down'[n - 1] = down[n]
      BY <2>1, <3>4
    <3>6. QED
      BY <3>3, <3>4, <3>5 DEF UnlockIsDown, IsUnlock
  <2>6. (~locked /\ submitted) => (UnlockIsDown /\ (OneUnlock => ~UnlockIsDown'))
    <3>1. SUFFICES ASSUME ~locked, submitted
                   PROVE  UnlockIsDown /\ (OneUnlock => ~UnlockIsDown')
      OBVIOUS
    <3>a. 1 \in DOMAIN down
      BY <2>1
    <3>b. IsUnlock(down[1])
      BY <1>2, <3>1
    <3>2. IsUnlock(down[1]) /\ 1 \in DOMAIN down
      BY <3>a, <3>b
    <3>3. UnlockIsDown
      BY <3>2 DEF UnlockIsDown
    <3>4. ASSUME OneUnlock, UnlockIsDown'
          PROVE  FALSE
      <4>1. PICK n \in DOMAIN down' : IsUnlock(down'[n])
        BY <3>4 DEF UnlockIsDown, IsUnlock
      <4>2. n + 1 \in DOMAIN down /\ IsUnlock(down[n + 1])
        BY <2>1, <4>1
      <4>3. n + 1 = 1 /\ n \in 1..(Len(down) - 1)
        BY <2>1, <3>2, <3>4, <4>2 DEF OneUnlock
      <4>4. QED
        BY <2>1, <4>3
    <3>5. QED
      BY <3>3, <3>4
  <2>7. QED
    BY <2>1, <2>2, <2>3, <2>4, <2>5, <2>6
<1>3. QED
  BY <1>1, <1>2 DEF DownKept

-----------------------------------------------------------------------------
(* What the phone has sent after its step *)

\* What is up after the phone has moved
LEMMA UpIs ==
  ASSUME up \in Seq(UpFrames), submitted \in BOOLEAN, NEW locked \in BOOLEAN, Moves(locked),
         ~lost', ~locked => ~SubmitIsUp
  PROVE  /\ \A n \in DOMAIN up' : up'[n].kind = "submit" =>
               \/ n \in DOMAIN up /\ up'[n] = up[n] /\ up' = up /\ locked /\ submitted'
               \/ /\ ~locked /\ submitted' /\ n = Len(up')
                  /\ \E v \in Answers : /\ up'[n].value = v /\ Handed(v)'
                                        /\ (faults = 0 => Valid(v))
         /\ (~locked /\ submitted') => \E n \in DOMAIN up' : up'[n].kind = "submit"
         /\ (locked => submitted' /\ up' = up)
<1>1. CASE up' = up /\ submitted' = locked
  BY <1>1, UpFramesAre DEF SubmitIsUp
<1>2. ASSUME ~locked, NEW v \in Answers, ~submitted', up' = Append(up, Progress(v))
      PROVE  \A n \in DOMAIN up' : up'[n].kind # "submit"
  <2>1. Progress(v) \in UpFrames /\ Progress(v).kind = "progress"
    BY FramesTyped
  <2>2. /\ DOMAIN up' = 1..(Len(up) + 1) /\ DOMAIN up = 1..Len(up) /\ Len(up) \in Nat
        /\ up'[Len(up) + 1] = Progress(v) /\ \A n \in DOMAIN up : up'[n] = up[n]
    BY <1>2, <2>1, Pushed
  <2>3. \A n \in DOMAIN up : up[n].kind # "submit"
    BY <1>2 DEF SubmitIsUp
  <2>4. \A n \in DOMAIN up' : n = Len(up) + 1 \/ n \in DOMAIN up
    BY <2>2
  <2>5. QED
    BY <2>1, <2>2, <2>3, <2>4
<1>3. ASSUME ~locked, NEW v \in Answers, submitted', Handed(v)', faults = 0 => Valid(v),
             NEW u \in Seq(UpFrames), \A n \in DOMAIN u : u[n].kind # "submit",
             up' = Append(u, Submit(v))
      PROVE  /\ \A n \in DOMAIN up' : up'[n].kind = "submit" =>
                   /\ n = Len(up')
                   /\ \E w \in Answers : /\ up'[n].value = w /\ Handed(w)'
                                         /\ (faults = 0 => Valid(w))
             /\ \E n \in DOMAIN up' : up'[n].kind = "submit"
  <2>1. Submit(v) \in UpFrames /\ Submit(v).kind = "submit" /\ Submit(v).value = v
    BY FramesTyped
  <2>2. /\ DOMAIN up' = 1..(Len(u) + 1) /\ DOMAIN u = 1..Len(u) /\ Len(u) \in Nat
        /\ up'[Len(u) + 1] = Submit(v) /\ \A n \in DOMAIN u : up'[n] = u[n]
        /\ Len(up') = Len(u) + 1
    BY <1>3, <2>1, Pushed
  <2>3. \A n \in DOMAIN up' : n = Len(u) + 1 \/ n \in DOMAIN u
    BY <2>2
  <2>4. \A n \in DOMAIN up' : up'[n].kind = "submit" => n = Len(u) + 1
    BY <1>3, <2>2, <2>3
  <2>5. Len(u) + 1 \in DOMAIN up' /\ up'[Len(u) + 1].kind = "submit"
        /\ up'[Len(u) + 1].value = v
    BY <2>1, <2>2
  <2>6. QED
    BY <1>3, <2>2, <2>4, <2>5
<1>4. CASE /\ ~locked /\ online'
           /\ \E v \in Answers :
                 \/ ~submitted' /\ up' = Append(up, Progress(v))
                 \/ /\ submitted' /\ Handed(v)' /\ (faults = 0 => Valid(v))
                    /\ \/ up' = Append(up, Submit(v))
                       \/ up' = Append(Append(up, Progress(v)), Submit(v))
  <2>1. PICK v \in Answers :
                 \/ ~submitted' /\ up' = Append(up, Progress(v))
                 \/ /\ submitted' /\ Handed(v)' /\ (faults = 0 => Valid(v))
                    /\ \/ up' = Append(up, Submit(v))
                       \/ up' = Append(Append(up, Progress(v)), Submit(v))
    BY <1>4
  <2>2. CASE ~submitted' /\ up' = Append(up, Progress(v))
    <3>1. \A n \in DOMAIN up' : up'[n].kind # "submit"
      BY <1>2, <1>4, <2>2
    <3>2. QED
      BY <1>4, <2>2, <3>1
  <2>3. CASE /\ submitted' /\ Handed(v)' /\ (faults = 0 => Valid(v))
             /\ up' = Append(up, Submit(v))
    <3>1. \A n \in DOMAIN up : up[n].kind # "submit"
      BY <1>4 DEF SubmitIsUp
    <3>2. QED
      BY <1>3, <1>4, <2>3, <3>1
  <2>4. CASE /\ submitted' /\ Handed(v)' /\ (faults = 0 => Valid(v))
             /\ up' = Append(Append(up, Progress(v)), Submit(v))
    <3>1. \A n \in DOMAIN up : up[n].kind # "submit"
      BY <1>4 DEF SubmitIsUp
    <3>2. Progress(v) \in UpFrames /\ Progress(v).kind = "progress"
      BY FramesTyped
    <3> DEFINE u == Append(up, Progress(v))
    <3>3. /\ u \in Seq(UpFrames)
          /\ DOMAIN u = 1..(Len(up) + 1) /\ DOMAIN up = 1..Len(up) /\ Len(up) \in Nat
          /\ u[Len(up) + 1] = Progress(v) /\ \A n \in DOMAIN up : u[n] = up[n]
      BY <3>2, Pushed
    <3>4. up' = Append(u, Submit(v))
      BY <2>4
    <3> HIDE DEF u
    <3>5. \A n \in DOMAIN u : n = Len(up) + 1 \/ n \in DOMAIN up
      BY <3>3
    <3>6. \A n \in DOMAIN u : u[n].kind # "submit"
      BY <3>1, <3>2, <3>3, <3>5
    <3>7. QED
      BY <1>3, <1>4, <2>4, <3>3, <3>4, <3>6
  <2>5. QED
    BY <2>1, <2>2, <2>3, <2>4
<1>5. QED
  BY <1>1, <1>4 DEF Moves

-----------------------------------------------------------------------------
(* A step of the phone keeps the invariant. *)

\* What the step of a phone leaves alone
ServerStays ==
    /\ UNCHANGED <<game, puzzle, now, window, progress, taken, saving, row, acked, faults>>
    /\ online' \in BOOLEAN /\ (online => online') /\ seen' \in {"playing", "reveal"}

\* A step of a phone that shows the game keeps the invariant.
LEMMA PhoneKeeps ==
  ASSUME Inv, screen # <<>> \/ (down # <<>> /\ down' = Tail(down)),
         NEW locked \in BOOLEAN, PhoneDid(locked), Own', ServerStays, DownKept(locked)
  PROVE  Inv'
<1>1. /\ UNCHANGED <<game, puzzle, now, window, progress, taken, saving, row, acked, faults>>
      /\ online' \in BOOLEAN /\ (online => online') /\ seen' \in {"playing", "reveal"}
  BY DEF ServerStays
<1>2. /\ screen' # <<>> /\ ScreenOK(screen') /\ Moves(locked) /\ HandedKept(locked)
  BY DEF PhoneDid
<1>3. /\ game \in Games /\ PuzzleOK /\ down \in Seq(DownFrames) /\ up \in Seq(UpFrames)
      /\ submitted \in BOOLEAN /\ lost \in BOOLEAN
      /\ ServerTypeOK /\ faults \in Nat
      /\ OfflineIsSilent
  BY DEF Inv, Base, TypeOK, PhoneTypeOK
<1>4. /\ lost' \in BOOLEAN /\ (lost => lost')
      /\ up' \in Seq(UpFrames) /\ submitted' \in BOOLEAN
      /\ ~online' => up' = up
  BY <1>2 DEF Moves
<1>5. /\ down' \in Seq(DownFrames)
      /\ \A n \in DOMAIN down' : \E m \in DOMAIN down : down'[n] = down[m]
      /\ \A n, m \in DOMAIN down' : n # m =>
            \E i, j \in DOMAIN down : i # j /\ down'[n] = down[i] /\ down'[m] = down[j]
      /\ UnlockIsDown' => UnlockIsDown
      /\ (UnlockIsDown /\ locked = submitted /\ submitted) => UnlockIsDown'
      /\ (~locked /\ submitted) => (UnlockIsDown /\ (OneUnlock => ~UnlockIsDown'))
  BY <1>3, DownIs
<1>6. TypeOK'
  <2>1. /\ UpFrames' = UpFrames /\ DownFrames' = DownFrames
        /\ Snapshots' = Snapshots /\ Saves' = Saves
        /\ PuzzleOK' /\ ScreenOK(screen)'
    BY <1>1, <1>2, <1>3, SameRound
  <2>2. PhoneTypeOK'
    BY <1>1, <1>4, <2>1 DEF PhoneTypeOK
  <2>3. ServerTypeOK'
    BY <1>1, <1>3, <2>1 DEF ServerTypeOK, Maybe
  <2>4. QED
    BY <1>1, <1>3, <1>4, <1>5, <2>1, <2>2, <2>3 DEF TypeOK
<1>7. ContentIsFirst'
  <2>1. \A n \in DOMAIN down : down[n].kind = "content" => n = 1 /\ screen = <<>>
    BY DEF Inv, Base, ContentIsFirst
  <2>2. \A n \in DOMAIN down' : down'[n].kind # "content"
    <3>1. CASE screen # <<>>
      BY <1>5, <2>1, <3>1
    <3>2. CASE down # <<>> /\ down' = Tail(down)
      <4>1. /\ Len(down) \in Nat /\ DOMAIN down' = 1..(Len(down) - 1)
            /\ \A n \in DOMAIN down' : n + 1 \in DOMAIN down /\ down'[n] = down[n + 1]
        BY <1>3, <3>2, Dropped
      <4>2. \A n \in DOMAIN down' : n + 1 # 1
        BY <4>1
      <4>3. QED
        BY <2>1, <4>1, <4>2
    <3>3. QED
      BY <3>1, <3>2
  <2>3. QED
    BY <1>2, <2>2 DEF ContentIsFirst
<1>8. OfflineIsSilent'
  <2>1. SUFFICES ASSUME ~online'
                 PROVE  up' = <<>> /\ down' = <<>> /\ \A i \in DOMAIN saving' : ~saving'[i].heard
    BY DEF OfflineIsSilent
  <2>2. up = <<>> /\ down = <<>> /\ \A i \in DOMAIN saving : ~saving[i].heard
    BY <1>1, <1>3, <2>1 DEF OfflineIsSilent
  <2>3. QED
    BY <1>1, <1>4, <2>1, <2>2 DEF DownKept
<1>9. SavesFollow'
  BY <1>1 DEF Inv, LockOK, SavesFollow
<1>10. ASSUME ~lost'
       PROVE  /\ ~lost /\ OneAnswer /\ OneUnlock /\ SavesFollow
              /\ ~locked => ~SubmitIsUp /\ ~taken /\ ~UnlockIsDown'
              /\ locked => submitted /\ (UnlockIsDown => UnlockIsDown')
  <2>1. ~lost /\ OneAnswer /\ SavesFollow
    BY <1>3, <1>4, <1>10 DEF Inv, LockOK
  <2>2. OneUnlock
    BY <2>1 DEF OneAnswer, OneUnlock
  <2>3. ~submitted => ~SubmitIsUp /\ ~taken /\ ~UnlockIsDown
    BY <2>1 DEF OneAnswer, SubmitIsUp, UnlockIsDown
  <2>4. UnlockIsDown => ~SubmitIsUp /\ ~taken
    BY <2>1 DEF OneAnswer, SubmitIsUp
  <2>5. locked => submitted = locked
    BY <1>3 DEF DownKept
  <2>6. ~locked => ~SubmitIsUp /\ ~taken /\ ~UnlockIsDown'
    BY <1>3, <1>5, <2>2, <2>3, <2>4
  <2>7. QED
    BY <1>5, <2>1, <2>2, <2>5, <2>6
<1>11. ASSUME ~lost'
       PROVE  /\ \A n \in DOMAIN up' : up'[n].kind = "submit" =>
                   \/ n \in DOMAIN up /\ up'[n] = up[n] /\ up' = up /\ locked /\ submitted'
                   \/ /\ ~locked /\ submitted' /\ n = Len(up')
                      /\ \E v \in Answers : /\ up'[n].value = v /\ Handed(v)'
                                            /\ (faults = 0 => Valid(v))
              /\ (~locked /\ submitted') => \E n \in DOMAIN up' : up'[n].kind = "submit"
              /\ (locked => submitted' /\ up' = up)
  BY <1>2, <1>3, <1>10, <1>11, UpIs
<1>12. ASSUME ~lost' PROVE OneAnswer'
  <2>1. /\ OneAnswer /\ OneUnlock
        /\ ~locked => ~SubmitIsUp /\ ~taken /\ ~UnlockIsDown'
        /\ locked => submitted /\ (UnlockIsDown => UnlockIsDown')
    BY <1>10, <1>12
  <2>2. ASSUME NEW n \in DOMAIN up', up'[n].kind = "submit"
        PROVE  n = Len(up') /\ submitted' /\ ~taken' /\ ~UnlockIsDown'
    <3>1. CASE n \in DOMAIN up /\ up'[n] = up[n] /\ up' = up /\ locked /\ submitted'
      BY <1>1, <1>5, <2>1, <2>2, <3>1 DEF OneAnswer
    <3>2. CASE ~locked /\ submitted' /\ n = Len(up')
      BY <1>1, <2>1, <3>2
    <3>3. QED
      BY <1>11, <1>12, <2>2, <3>1, <3>2
  <2>3. taken' => submitted' /\ up' = <<>> /\ ~UnlockIsDown'
    BY <1>1, <1>5, <1>11, <1>12, <2>1 DEF OneAnswer
  <2>4. ASSUME NEW n \in DOMAIN down', NEW m \in DOMAIN down', IsUnlock(down'[n])
        PROVE  submitted' /\ (IsUnlock(down'[m]) => n = m)
    <3>1. UnlockIsDown'
      BY <2>4 DEF UnlockIsDown, IsUnlock
    <3>2. submitted'
      BY <1>11, <1>12, <2>1, <3>1
    <3>3. IsUnlock(down'[m]) => n = m
      BY <1>5, <2>1, <2>4 DEF OneUnlock
    <3>4. QED
      BY <3>2, <3>3
  <2>5. (submitted' /\ window' = "open") => SubmitIsUp' \/ taken' \/ UnlockIsDown'
    <3>1. CASE locked
      <4>1. up' = up /\ submitted
        BY <1>11, <1>12, <2>1, <3>1
      <4>2. SubmitIsUp => SubmitIsUp'
        BY <4>1 DEF SubmitIsUp
      <4>3. QED
        BY <1>1, <2>1, <3>1, <4>1, <4>2 DEF OneAnswer
    <3>2. CASE ~locked
      BY <1>11, <1>12, <3>2 DEF SubmitIsUp
    <3>3. QED
      BY <3>1, <3>2
  <2>6. QED
    BY <2>2, <2>3, <2>4, <2>5 DEF OneAnswer, IsUnlock
<1>13. HandedOK'
  <2>1. SUFFICES ASSUME ~lost' PROVE AnswersAreShown'
    BY DEF HandedOK
  <2>2. AnswersAreShown /\ ~lost
    <3>1. CASE screen # <<>>
      BY <1>3, <1>4, <2>1, <3>1 DEF Inv, HandedOK
    <3>2. CASE screen = <<>>
      BY <1>3, <1>4, <2>1, <3>2 DEF Inv, Base, ContentIsFirst, Untouched, AnswersAreShown
    <3>3. QED
      BY <3>1, <3>2
  <2>3. \A v : Valid(v)' = Valid(v)
    BY <1>1 DEF Valid
  <2>4. \A v \in Answers : locked /\ Handed(v) => Handed(v)'
    BY <1>2, <2>1 DEF HandedKept
  <2>5. ASSUME NEW n \in DOMAIN up', up'[n].kind = "submit"
        PROVE  (Handed(up[n].value))' /\ (faults' = 0 => Valid(up[n].value)')
    <3>1. CASE n \in DOMAIN up /\ up'[n] = up[n] /\ up' = up /\ locked /\ submitted'
      <4>1. PICK v : v = up[n].value
        OBVIOUS
      <4>2. v \in Answers
        BY <1>3, <3>1, <4>1, UpFramesAre
      <4>3. Handed(v) /\ (faults = 0 => Valid(v))
        BY <2>2, <2>5, <3>1, <4>1 DEF AnswersAreShown
      <4>4. Handed(v)' /\ (faults = 0 => Valid(v)') /\ v = up'[n].value
        BY <2>3, <2>4, <3>1, <4>1, <4>2, <4>3
      <4>5. QED
        BY <1>1, <4>4
    <3>2. CASE /\ ~locked /\ submitted' /\ n = Len(up')
               /\ \E v \in Answers : /\ up'[n].value = v /\ Handed(v)'
                                     /\ (faults = 0 => Valid(v))
      BY <1>1, <2>3, <3>2
    <3>3. QED
      BY <1>11, <2>1, <2>5, <3>1, <3>2
  <2>6. (saving # <<>> \/ acked) => locked
    BY <1>10, <2>1 DEF SavesFollow
  <2>7. ASSUME NEW i \in DOMAIN saving'
        PROVE  Valid(saving[i].value)' /\ Handed(saving[i].value)'
    <3>1. i \in DOMAIN saving /\ saving # <<>> /\ saving[i] \in Saves
      BY <1>1, <1>3, <2>7 DEF ServerTypeOK, Maybe
    <3>2. PICK v : v = saving[i].value
      OBVIOUS
    <3>3. v \in Answers
      BY <3>1, <3>2 DEF Saves
    <3>4. Valid(v) /\ Handed(v)
      BY <2>2, <3>1, <3>2 DEF AnswersAreShown
    <3>5. Valid(v)' /\ Handed(v)' /\ v = saving'[i].value
      BY <1>1, <2>3, <2>4, <2>6, <3>1, <3>2, <3>3, <3>4
    <3>6. QED
      BY <3>5
  <2>8. acked' => Valid(row[1].value)' /\ Handed(row[1].value)'
    <3>1. SUFFICES ASSUME acked PROVE Valid(row[1].value)' /\ Handed(row[1].value)'
      BY <1>1
    <3>2. row # <<>> /\ row \in Maybe(Snapshots)
      BY <1>3, <3>1, <1>10, <2>1 DEF SavesFollow, ServerTypeOK
    <3>3. row[1] \in Snapshots
      BY <3>2, MaybeOne
    <3>4. PICK v : v = row[1].value
      OBVIOUS
    <3>5. v \in Answers
      BY <3>3, <3>4 DEF Snapshots
    <3>6. Valid(v) /\ Handed(v)
      BY <2>2, <3>1, <3>4 DEF AnswersAreShown
    <3>7. Valid(v)' /\ Handed(v)' /\ v = row'[1].value
      BY <1>1, <2>3, <2>4, <2>6, <3>1, <3>4, <3>5, <3>6
    <3>8. QED
      BY <3>7
  <2>9. QED
    BY <2>5, <2>7, <2>8 DEF AnswersAreShown
<1>14. LightsLock' /\ SlideOK' /\ LightOK' /\ WordOK' /\ FlightOK'
  BY DEF Own
<1>15. NoRefusal'
  <2>1. SUFFICES ASSUME ~lost', faults' = 0 PROVE ~UnlockIsDown'
    BY DEF NoRefusal
  <2>2. QED
    BY <1>1, <1>3, <1>4, <1>5, <2>1 DEF Inv, More, NoRefusal
<1>16. ContentOK'
  BY <1>2 DEF ContentOK
<1>17. QED
  BY <1>6, <1>7, <1>8, <1>9, <1>12, <1>13, <1>14, <1>15, <1>16
     DEF Inv, Base, LockOK, More

-----------------------------------------------------------------------------
(* Arrivals *)

LEMMA FramesPopped ==
  ASSUME down \in Seq(DownFrames), down # <<>>, down' = Tail(down),
         down[1].kind = "feedback" => (game = "wordle" => ~screen'.waiting)
  PROVE  FramesLeft
<1>1. /\ Len(down) \in Nat /\ DOMAIN down' = 1..(Len(down) - 1) /\ DOMAIN down = 1..Len(down)
      /\ \A n \in DOMAIN down' : n + 1 \in DOMAIN down /\ down'[n] = down[n + 1]
  BY Dropped
<1>2. ASSUME NEW n \in DOMAIN down, down[n].kind = "feedback", n # 1
      PROVE  \E m \in DOMAIN down' : down'[m].kind = "feedback"
  <2>1. n - 1 \in DOMAIN down' /\ (n - 1) + 1 = n
    BY <1>1, <1>2
  <2>2. down'[n - 1] = down[n]
    BY <1>1, <2>1
  <2>3. QED
    BY <1>2, <2>1, <2>2
<1>3. QED
  BY <1>1, <1>2 DEF FramesLeft

\* An app that shows the game is rendered.
LEMMA RenderKeeps ==
  ASSUME Inv, screen # <<>>, NEW s, Renders(s), NEW phase, NEW locked \in BOOLEAN,
         ServerStays, Render(s, phase, locked), FramesLeft, DownKept(locked),
         locked = submitted \/ (~locked /\ (~lost => faults # 0))
  PROVE  Inv'
<1>1. UNCHANGED <<game, puzzle, faults, progress, window>> /\ online' \in BOOLEAN
  BY DEF ServerStays
<1>2. PhoneDid(locked)
  BY <1>1, RenderDid
<1>3. Own'
  BY <1>1, RenderOwn
<1>4. QED
  BY <1>2, <1>3, PhoneKeeps

\* Before the game is shown
LEMMA SilentKeeps ==
  ASSUME TypeOK', ContentIsFirst', screen' = <<>>, ContentOK'
  PROVE  Inv'
<1>1. /\ up' = <<>> /\ ~submitted' /\ online' /\ ~lost'
      /\ progress' = <<>> /\ ~taken' /\ saving' = <<>> /\ row' = <<>> /\ ~acked'
      /\ \A n \in DOMAIN down' : down'[n].kind \in {"content", "tick", "reveal"}
  BY DEF ContentIsFirst, Untouched
<1>2. \A n \in DOMAIN down' : ~IsUnlock(down'[n])
  BY <1>1 DEF IsUnlock
<1>3. ~UnlockIsDown'
  BY <1>2 DEF UnlockIsDown, IsUnlock
<1>4. OneAnswer'
  BY <1>1, <1>2, <1>3 DEF OneAnswer, IsUnlock
<1>5. LockOK'
  BY <1>1, <1>4 DEF LockOK, SavesFollow, LightsLock
<1>6. HandedOK' /\ OfflineIsSilent'
  BY <1>1 DEF HandedOK, OfflineIsSilent
<1>7. More'
  BY <1>3 DEF More, NoRefusal, SlideOK, LightOK, WordOK, FlightOK
<1>8. QED
  BY <1>5, <1>6, <1>7 DEF Inv, Base

\* What the arrival of a frame comes to
LEMMA ArrivesIs ==
  ASSUME Inv, NEW kind, Arrives(kind), seen' \in {"playing", "reveal"}
  PROVE  /\ down \in Seq(DownFrames) /\ down # <<>> /\ down[1].kind = kind
         /\ down[1] \in DownFrames /\ 1 \in DOMAIN down
         /\ down' = Tail(down) /\ ServerStays /\ submitted \in BOOLEAN
         /\ UNCHANGED <<game, puzzle, online, now, window, progress, taken, saving, row,
                        acked, result, faults>>
         /\ kind \notin {"content", "tick", "reveal"} => screen # <<>>
         /\ kind = "content" => screen = <<>>
<1>1. /\ down \in Seq(DownFrames) /\ down # <<>> /\ down[1].kind = kind
      /\ down' = Tail(down) /\ submitted \in BOOLEAN /\ online \in BOOLEAN
      /\ UNCHANGED <<game, puzzle, online, now, window, progress, taken, saving, row,
                        acked, result, faults>>
  BY DEF Inv, Base, TypeOK, PhoneTypeOK, Arrives, server
<1>2. 1 \in DOMAIN down /\ down[1] \in DownFrames
  <2>1. Len(down) \in Nat /\ Len(down) >= 1 /\ DOMAIN down = 1..Len(down)
    BY <1>1, Dropped
  <2>2. 1 \in DOMAIN down
    BY <2>1
  <2>3. QED
    BY <1>1, <2>2, ElementOfSeq, <2>1
<1>3. ServerStays
  BY <1>1 DEF ServerStays
<1>4. /\ kind \notin {"content", "tick", "reveal"} => screen # <<>>
      /\ kind = "content" => screen = <<>>
  BY <1>1, <1>2 DEF Inv, Base, ContentIsFirst, Untouched
<1>5. QED
  BY <1>1, <1>2, <1>3, <1>4

LEMMA SilentArrival ==
  ASSUME Inv, screen = <<>>, NEW kind, Arrives(kind), seen' \in {"playing", "reveal"},
         UNCHANGED <<screen, submitted, up, lost>>
  PROVE  Inv'
<1>1. /\ down \in Seq(DownFrames) /\ down # <<>> /\ down' = Tail(down)
      /\ UNCHANGED <<game, puzzle, online, now, window, progress, taken, saving, row,
                        acked, result, faults>>
  BY ArrivesIs
<1>2. /\ Len(down) \in Nat /\ down' \in Seq(DownFrames) /\ DOMAIN down' = 1..(Len(down) - 1)
      /\ \A n \in DOMAIN down' : n + 1 \in DOMAIN down /\ down'[n] = down[n + 1]
  BY <1>1, Dropped
<1>3. ContentIsFirst /\ Untouched /\ TypeOK
  BY DEF Inv, Base, ContentIsFirst
<1>4. \A n \in DOMAIN down' : down'[n].kind \in {"tick", "reveal"}
  <2>1. \A n \in DOMAIN down' : n + 1 # 1
    BY <1>2
  <2>2. QED
    BY <1>2, <1>3, <2>1 DEF ContentIsFirst, Untouched
<1>5. ContentIsFirst'
  BY <1>1, <1>3, <1>4 DEF ContentIsFirst, Untouched
<1>6. ContentOK'
  <2>1. down' # <<>> => down'[1].kind # "content"
    <3>1. down' # <<>> => 1 \in DOMAIN down'
      BY <1>2, Dropped
    <3>2. QED
      BY <1>4, <3>1
  <2>2. QED
    BY <2>1 DEF ContentOK
<1>7. TypeOK'
  <2>1. /\ UpFrames' = UpFrames /\ DownFrames' = DownFrames
        /\ Snapshots' = Snapshots /\ Saves' = Saves /\ PuzzleOK'
    BY <1>1, <1>3, SameRound DEF TypeOK
  <2>2. PhoneTypeOK'
    BY <1>1, <1>3, <2>1 DEF TypeOK, PhoneTypeOK
  <2>3. ServerTypeOK'
    BY <1>1, <1>3, <2>1 DEF TypeOK, ServerTypeOK, Maybe
  <2>4. QED
    BY <1>1, <1>2, <1>3, <2>1, <2>2, <2>3 DEF TypeOK
<1>8. QED
  BY <1>5, <1>6, <1>7, SilentKeeps

-----------------------------------------------------------------------------
(* Each arrival keeps the invariant. *)

\* A tick, the feedback, an acknowledgement and the reveal keep the invariant.
LEMMA TickArrivesKeeps ==
  ASSUME Inv, TickArrives
  PROVE  Inv'
<1>1. seen' = seen /\ Arrives("tick") /\ seen \in {"playing", "reveal"}
  BY DEF TickArrives, Inv, Base, TypeOK, PhoneTypeOK
<1>2. /\ down \in Seq(DownFrames) /\ down # <<>> /\ down[1].kind = "tick"
      /\ down[1] \in DownFrames /\ down' = Tail(down) /\ ServerStays /\ submitted \in BOOLEAN
  BY <1>1, ArrivesIs
<1>3. PICK s : s = IF game # "bonk-air" \/ screen = <<>> THEN screen
                   ELSE [screen EXCEPT !.left = down[1].left]
  OBVIOUS
<1>4. Render(s, seen, submitted)
  BY <1>3 DEF TickArrives
<1>5. CASE screen = <<>>
  <2>1. UNCHANGED <<screen, submitted, up, lost>>
    BY <1>3, <1>4, <1>5 DEF Render
  <2>2. QED
    BY <1>1, <1>5, <2>1, SilentArrival
<1>6. CASE screen # <<>>
  <2>1. Renders(s)
    <3>1. CASE game # "bonk-air"
      BY <1>3, <1>6, <3>1, ShownRenders
    <3>2. CASE game = "bonk-air"
      <4>1. PICK left : left = down[1].left
        OBVIOUS
      <4>2. left \in Nat
        BY <1>2, <4>1 DEF DownFrames
      <4>3. s = [screen EXCEPT !.left = left]
        BY <1>3, <1>6, <3>2, <4>1
      <4>4. /\ FlightScreen(screen) /\ Planned(screen)
            /\ DOMAIN screen = {"phase", "paths", "drawing", "plan", "flight", "left"}
        BY <1>6, <3>2, FlightIs
      <4>5. /\ DOMAIN s = {"phase", "paths", "drawing", "plan", "flight", "left"}
            /\ s.phase = screen.phase /\ s.paths = screen.paths /\ s.drawing = screen.drawing
            /\ s.plan = screen.plan /\ s.flight = screen.flight /\ s.left = left
        BY <4>3, <4>4
      <4>6. FlightScreen(s)
        BY <4>2, <4>4, <4>5 DEF FlightScreen
      <4>7. Planned(s)
        BY <4>4, <4>5 DEF Planned, PlanIsKnown, Flying
      <4>8. s # <<>>
        BY <4>5
      <4>9. QED
        BY <3>2, <4>5, <4>6, <4>7, <4>8 DEF Renders
    <3>3. QED
      BY <3>1, <3>2
  <2>2. FramesLeft
    BY <1>2, FramesPopped
  <2>3. DownKept(submitted)
    BY <1>2 DEF DownKept, IsUnlock
  <2>4. QED
    BY <1>2, <1>4, <1>6, <2>1, <2>2, <2>3, RenderKeeps
<1>7. QED
  BY <1>5, <1>6

LEMMA FeedbackArrivesKeeps ==
  ASSUME Inv, FeedbackArrives
  PROVE  Inv'
<1>1. seen' = seen /\ Arrives("feedback") /\ seen \in {"playing", "reveal"}
  BY DEF FeedbackArrives, Inv, Base, TypeOK, PhoneTypeOK
<1>2. /\ down \in Seq(DownFrames) /\ down # <<>> /\ down[1].kind = "feedback"
      /\ down[1] \in DownFrames /\ down' = Tail(down) /\ ServerStays /\ submitted \in BOOLEAN
      /\ screen # <<>> /\ 1 \in DOMAIN down
  BY <1>1, ArrivesIs
<1>3. PICK fb : fb = down[1].value
  OBVIOUS
<1>4. game = "wordle" /\ fb \in Feedbacks
  <2>1. down[1] \in [kind : {"feedback"}, value : IF game = "wordle" THEN Feedbacks ELSE {}]
    BY <1>2 DEF DownFrames
  <2>2. fb \in IF game = "wordle" THEN Feedbacks ELSE {}
    BY <1>3, <2>1
  <2>3. QED
    BY <2>2
<1>5. screen \in WordScreens
  BY <1>2, <1>4 DEF Inv, Base, TypeOK, PhoneTypeOK, ScreenOK
<1>6. PICK feedback : feedback = <<fb>>
  OBVIOUS
<1>7. PICK s : s = [screen EXCEPT !.feedback = feedback]
  OBVIOUS
<1>8. Render(s, seen, submitted)
  BY <1>3, <1>6, <1>7 DEF FeedbackArrives
<1>9. feedback \in Maybe(Feedbacks) /\ feedback # <<>> /\ feedback[1] = fb /\ DOMAIN feedback = {1}
  BY <1>4, <1>6, OneMaybe
<1>10. s \in WordScreens /\ s.feedback = feedback /\ s.waiting = screen.waiting /\ s # <<>>
  <2>1. s \in WordScreens /\ s.feedback = feedback /\ s.waiting = screen.waiting
    BY <1>5, <1>7, <1>9 DEF WordScreens
  <2>2. QED
    BY <2>1 DEF WordScreens
<1>11. Renders(s)
  <2>1. ~lost => IsJudged(s)
    <3>1. SUFFICES ASSUME ~lost PROVE IsJudged(s)
      OBVIOUS
    <3>2. WasJudged(fb.words)
      BY <1>2, <1>3, <1>4, <3>1 DEF Inv, More, WordOK
    <3>3. QED
      BY <1>9, <1>10, <3>2 DEF IsJudged
  <2>2. QED
    BY <1>4, <1>10, <2>1 DEF Renders
<1>12. ~screen'.waiting
  <2>1. RenderWord(s, seen, submitted)
    BY <1>4, <1>8, <1>10 DEF Render
  <2>2. s.feedback # <<>>
    BY <1>9, <1>10
  <2>3. /\ Refreshed(s) \in WordScreens /\ ~Refreshed(s).waiting
    BY <1>10, <2>2, RefreshedTyped
  <2>4. \/ screen' = [Refreshed(s) EXCEPT !.sent = Len(s.feedback[1].words)]
        \/ screen' = Refreshed(s)
    BY <2>1, <2>2 DEF RenderWord
  <2>5. QED
    BY <2>3, <2>4 DEF WordScreens
<1>13. FramesLeft
  BY <1>2, <1>12, FramesPopped
<1>14. DownKept(submitted)
  BY <1>2 DEF DownKept, IsUnlock
<1>15. QED
  BY <1>2, <1>8, <1>11, <1>13, <1>14, RenderKeeps

\* A frame that changes nothing on the phone
LEMMA NothingDone ==
  ASSUME Inv, screen # <<>>, ServerStays, UNCHANGED <<screen, submitted, up, lost>>, FramesLeft
  PROVE  PhoneDid(submitted) /\ Own'
<1>1. /\ UNCHANGED <<game, puzzle, faults, progress, window>>
      /\ up \in Seq(UpFrames) /\ lost \in BOOLEAN /\ submitted \in BOOLEAN /\ ScreenOK(screen)
  BY DEF ServerStays, Inv, Base, TypeOK, PhoneTypeOK
<1>2. Moves(submitted)
  BY <1>1, NothingSent
<1>3. HandedKept(submitted)
  BY <1>1 DEF HandedKept, Handed, Finishes, WasJudged
<1>4. PhoneDid(submitted)
  BY <1>1, <1>2, <1>3 DEF PhoneDid
<1>5. LightsLock' /\ SlideOK' /\ LightOK'
  BY <1>1 DEF Inv, LockOK, More, LightsLock, SlideOK, LightOK
<1>6. FlightOK'
  BY <1>1 DEF Inv, More, FlightOK, Planned, PlanIsKnown, Flying
<1>7. WordOK'
  <2>1. SUFFICES ASSUME game = "wordle", ~lost PROVE WordOK'
    BY <1>1 DEF WordOK
  <2>2. WordOK
    BY DEF Inv, More
  <2>3. QED
    BY <1>1, <2>1, <2>2 DEF WordOK, IsJudged, WasJudged, FramesLeft
<1>8. QED
  BY <1>4, <1>5, <1>6, <1>7 DEF Own

LEMMA AckArrivesKeeps ==
  ASSUME Inv, AckArrives
  PROVE  Inv'
<1>1. seen' = seen /\ Arrives("ack") /\ seen \in {"playing", "reveal"}
  BY DEF AckArrives, Inv, Base, TypeOK, PhoneTypeOK
<1>2. /\ down \in Seq(DownFrames) /\ down # <<>> /\ down[1].kind = "ack"
      /\ down[1] \in DownFrames /\ down' = Tail(down) /\ ServerStays /\ submitted \in BOOLEAN
      /\ screen # <<>> /\ 1 \in DOMAIN down
  BY <1>1, ArrivesIs
<1>3. FramesLeft
  BY <1>2, FramesPopped
<1>4. CASE IsUnlock(down[1])
  <2>1. Render(screen, seen, FALSE)
    BY <1>4 DEF AckArrives, IsUnlock
  <2>2. ~lost => faults # 0
    BY <1>2, <1>4 DEF Inv, More, NoRefusal, UnlockIsDown
  <2>3. Renders(screen)
    BY <1>2, ShownRenders
  <2>4. DownKept(FALSE)
    BY <1>2, <1>4 DEF DownKept
  <2>5. QED
    BY <1>2, <1>3, <2>1, <2>2, <2>3, <2>4, RenderKeeps
<1>5. CASE ~IsUnlock(down[1])
  <2>1. UNCHANGED <<screen, submitted, up, lost>>
    BY <1>2, <1>5 DEF AckArrives, IsUnlock
  <2>2. PhoneDid(submitted) /\ Own'
    BY <1>2, <1>3, <2>1, NothingDone
  <2>3. DownKept(submitted)
    BY <1>2, <1>5 DEF DownKept
  <2>4. QED
    BY <1>2, <2>2, <2>3, PhoneKeeps
<1>6. QED
  BY <1>4, <1>5

LEMMA RevealArrivesKeeps ==
  ASSUME Inv, RevealArrives
  PROVE  Inv'
<1>1. seen' = "reveal" /\ Arrives("reveal") /\ Render(screen, "reveal", submitted)
  BY DEF RevealArrives
<1>2. /\ down \in Seq(DownFrames) /\ down # <<>> /\ down[1].kind = "reveal"
      /\ down' = Tail(down) /\ ServerStays /\ submitted \in BOOLEAN
  BY <1>1, ArrivesIs
<1>3. CASE screen = <<>>
  <2>1. UNCHANGED <<screen, submitted, up, lost>>
    BY <1>1, <1>3 DEF Render
  <2>2. QED
    BY <1>1, <1>3, <2>1, SilentArrival
<1>4. CASE screen # <<>>
  <2>1. FramesLeft
    BY <1>2, FramesPopped
  <2>2. DownKept(submitted)
    BY <1>2 DEF DownKept, IsUnlock
  <2>3. QED
    BY <1>1, <1>2, <1>4, <2>1, <2>2, ShownRenders, RenderKeeps
<1>5. QED
  BY <1>3, <1>4

LEMMA ReopenKeeps ==
  ASSUME Inv, Reopen
  PROVE  Inv'
<1>1. /\ ~online /\ online' = TRUE /\ seen' \in {"playing", "reveal"}
      /\ Render(screen, seen', submitted) /\ down' = down /\ submitted \in BOOLEAN
      /\ UNCHANGED <<game, puzzle, now, window, progress, taken, saving, row, acked, faults>>
  BY DEF Reopen, server, Inv, Base, TypeOK, PhoneTypeOK
<1>2. screen # <<>>
  BY <1>1 DEF Inv, Base, ContentIsFirst, Untouched
<1>3. ServerStays
  BY <1>1 DEF ServerStays
<1>4. FramesLeft
  BY <1>1 DEF FramesLeft
<1>5. DownKept(submitted)
  BY <1>1 DEF DownKept
<1>6. QED
  BY <1>1, <1>2, <1>3, <1>4, <1>5, ShownRenders, RenderKeeps

-----------------------------------------------------------------------------
(* The content arrives, and the phone is played with. *)

\* A phone that shows the content for the first time
LEMMA FreshTyped ==
  ASSUME game \in Games, PuzzleOK, game = "bonk-air" => down[1].left \in Nat
  PROVE  ScreenOK(Fresh) /\ Fresh # <<>>
<1>1. CASE game = "sliding-puzzle"
  <2>1. Fresh = [board |-> puzzle] /\ puzzle \in Boards
    BY <1>1 DEF Fresh, PuzzleOK
  <2>2. ScreenOK(Fresh)
    BY <1>1, <2>1 DEF ScreenOK
  <2>3. DOMAIN Fresh # {}
    BY <2>1
  <2>4. QED
    BY <2>2, <2>3
<1>2. CASE game = "light-switch"
  <2>1. Fresh = [pressed |-> <<>>, lights |-> puzzle.lights, isSolved |-> FALSE]
        /\ puzzle.lights \in SUBSET Lights
    BY <1>2 DEF Fresh, PuzzleOK
  <2>2. ScreenOK(Fresh)
    BY <1>2, <2>1 DEF ScreenOK
  <2>3. DOMAIN Fresh # {}
    BY <2>1
  <2>4. QED
    BY <2>2, <2>3
<1>3. CASE game = "vault-rush"
  <2>1. Fresh = [code |-> <<>>]
    BY <1>3 DEF Fresh
  <2>2. ScreenOK(Fresh)
    BY <1>3, <2>1 DEF ScreenOK
  <2>3. DOMAIN Fresh # {}
    BY <2>1
  <2>4. QED
    BY <2>2, <2>3
<1>4. CASE game = "wordle"
  <2>1. Fresh = [words |-> <<>>, waiting |-> FALSE, feedback |-> <<>>, sent |-> 0]
    BY <1>4 DEF Fresh
  <2>2. <<>> \in Maybe(Feedbacks)
    BY DEF Maybe
  <2>3. Fresh \in WordScreens
    BY <2>1, <2>2 DEF WordScreens
  <2>4. ScreenOK(Fresh)
    BY <1>4, <2>3 DEF ScreenOK
  <2>5. DOMAIN Fresh # {}
    BY <2>1
  <2>6. QED
    BY <2>4, <2>5
<1>5. CASE game = "balance-scale"
  <2>1. Fresh = [selected |-> 0]
    BY <1>5 DEF Fresh
  <2>2. ScreenOK(Fresh)
    BY <1>5, <2>1 DEF ScreenOK
  <2>3. DOMAIN Fresh # {}
    BY <2>1
  <2>4. QED
    BY <2>2, <2>3
<1>6. CASE game = "bonk-air"
  <2>1. Fresh = [phase |-> "plan", paths |-> <<>>, drawing |-> <<>>,
                 plan |-> <<>>, flight |-> <<>>, left |-> down[1].left]
    BY <1>6 DEF Fresh
  <2>2. <<>> \in Maybe(Strokes(Fresh.paths)) /\ <<>> \in Maybe(Plans)
    BY DEF Maybe
  <2>3. FlightScreen(Fresh)
    BY <1>6, <2>1, <2>2, NoPlan DEF FlightScreen
  <2>4. ScreenOK(Fresh)
    BY <1>6, <2>3 DEF ScreenOK
  <2>5. DOMAIN Fresh # {}
    BY <2>1
  <2>6. QED
    BY <2>4, <2>5
<1>7. QED
  BY <1>1, <1>2, <1>3, <1>4, <1>5, <1>6, GamesAre

\* What a game that is shown for the first time sends
LEMMA FirstSent ==
  ASSUME up = <<>>, online \in BOOLEAN, UNCHANGED online, lost = FALSE, UNCHANGED lost,
         online, game \in Games, PuzzleOK, UNCHANGED <<game, puzzle>>,
         screen' = Fresh, faults > 0 \/ ~(game = "bonk-air" /\ down[1].isStale),
         faults \in Nat,
         /\ game = "sliding-puzzle" =>
                up' = Append(up, Progress(puzzle)) /\ submitted' = FALSE
         /\ (game = "bonk-air" /\ down[1].isStale /\ down[1].left = 1) =>
                HandIn(Plan(<<>>, FALSE), FALSE)
         /\ (game # "sliding-puzzle"
               /\ ~(game = "bonk-air" /\ down[1].isStale /\ down[1].left = 1)) =>
                submitted' = FALSE /\ UNCHANGED up
  PROVE  /\ Moves(FALSE)
         /\ game = "sliding-puzzle" => up' = Append(<<>>, Progress(puzzle)) /\ ~submitted'
         /\ game \notin {"bonk-air"} => ~submitted'
<1>0. up \in Seq(UpFrames)
  OBVIOUS
<1>1. CASE game = "sliding-puzzle"
  <2>1. puzzle \in Answers
    BY <1>1 DEF PuzzleOK, Answers
  <2>2. Progress(puzzle) \in UpFrames
    BY <2>1, FramesTyped
  <2>3. up' = Append(up, Progress(puzzle)) /\ submitted' = FALSE
    BY <1>1
  <2>4. up' \in Seq(UpFrames)
    BY <1>0, <2>2, <2>3
  <2>5. Moves(FALSE)
    BY <2>1, <2>3, <2>4 DEF Moves
  <2>6. QED
    BY <1>1, <2>3, <2>5
<1>2. CASE game = "bonk-air" /\ down[1].isStale /\ down[1].left = 1
  <2>1. HandIn(Plan(<<>>, FALSE), FALSE)
    BY <1>2
  <2>2. Plan(<<>>, FALSE) \in Answers /\ Plan(<<>>, FALSE).isCurrent = FALSE
    BY <1>2, NoPlan, PlansValid
  <2>3. PICK v \in Answers : v = Plan(<<>>, FALSE)
    BY <2>2
  <2>a. game' = "bonk-air" /\ ~v.isCurrent
    BY <1>2, <2>2, <2>3
  <2>4. Handed(v)'
    BY <2>a DEF Handed
  <2>b. faults # 0
    BY <1>2
  <2>c. HandIn(v, FALSE)
    BY <2>1, <2>3
  <2>d. online' /\ lost' \in BOOLEAN /\ lost \in BOOLEAN /\ (lost => lost') /\ online' \in BOOLEAN
    OBVIOUS
  <2>5. Moves(FALSE)
    BY <1>0, <2>4, <2>b, <2>c, <2>d, HandedInMoves
  <2>6. QED
    BY <1>2, <2>5
<1>3. CASE /\ game # "sliding-puzzle"
           /\ ~(game = "bonk-air" /\ down[1].isStale /\ down[1].left = 1)
  <2>1. submitted' = FALSE /\ up' = up
    BY <1>3
  <2>2. Moves(FALSE)
    BY <1>0, <2>1, NothingSent
  <2>3. QED
    BY <1>3, <2>1, <2>2
<1>4. QED
  BY <1>1, <1>2, <1>3

\* The content keeps the invariant.
LEMMA ShowContentKeeps ==
  ASSUME Inv, ShowContent
  PROVE  Inv'
<1>1. seen' = seen /\ Arrives("content") /\ seen \in {"playing", "reveal"} /\ lost' = lost
      /\ screen' = Fresh
  BY DEF ShowContent, Inv, Base, TypeOK, PhoneTypeOK
<1>2. /\ down \in Seq(DownFrames) /\ down # <<>> /\ down[1].kind = "content"
      /\ down[1] \in DownFrames /\ down' = Tail(down) /\ ServerStays /\ submitted \in BOOLEAN
      /\ screen = <<>>
      /\ UNCHANGED <<game, puzzle, online, now, window, progress, taken, saving, row,
                        acked, result, faults>>
  BY <1>1, ArrivesIs
<1>3. /\ up = <<>> /\ ~submitted /\ online /\ ~lost /\ progress = <<>>
      /\ \A n \in DOMAIN down : down[n].kind \in {"content", "tick", "reveal"}
      /\ game \in Games /\ PuzzleOK /\ faults \in Nat /\ lost \in BOOLEAN /\ online \in BOOLEAN
  BY <1>2 DEF Inv, Base, ContentIsFirst, Untouched, TypeOK, PhoneTypeOK
<1>4. faults > 0 \/ ~(game = "bonk-air" /\ down[1].isStale)
  BY <1>2, <1>3 DEF Inv, More, ContentOK
<1>5. down[1].left \in Nat
  BY <1>2 DEF DownFrames
<1>6. ScreenOK(screen') /\ screen' # <<>>
  BY <1>1, <1>3, <1>5, FreshTyped
<1>7. /\ Moves(FALSE)
      /\ game = "sliding-puzzle" => up' = Append(<<>>, Progress(puzzle)) /\ ~submitted'
      /\ game \notin {"bonk-air"} => ~submitted'
  <2>1.  /\ game = "sliding-puzzle" =>
                up' = Append(up, Progress(puzzle)) /\ submitted' = FALSE
         /\ (game = "bonk-air" /\ down[1].isStale /\ down[1].left = 1) =>
                HandIn(Plan(<<>>, FALSE), FALSE)
         /\ (game # "sliding-puzzle"
               /\ ~(game = "bonk-air" /\ down[1].isStale /\ down[1].left = 1)) =>
                submitted' = FALSE /\ UNCHANGED up
    BY DEF ShowContent
  <2>2. lost = FALSE
    BY <1>3
  <2>3. QED
    BY <1>1, <1>2, <1>3, <1>4, <2>1, <2>2, FirstSent
<1>8. PhoneDid(FALSE)
  BY <1>6, <1>7 DEF PhoneDid, HandedKept
<1>9. DownKept(FALSE)
  BY <1>2, <1>3 DEF DownKept, IsUnlock
<1>10. Own'
  <2>1. LightsLock'
    BY <1>2, <1>7 DEF LightsLock
  <2>2. SlideOK'
    <3>1. SUFFICES ASSUME game = "sliding-puzzle" PROVE SlideOK'
      BY <1>2 DEF SlideOK
    <3>2. screen' = [board |-> puzzle] /\ up' = Append(<<>>, Progress(puzzle))
      BY <1>1, <1>7, <3>1 DEF Fresh
    <3>3. up' = <<Progress(puzzle)>>
      BY <3>2
    <3>4. up' # <<>> /\ Last(up') = Progress(puzzle)
      BY <3>3 DEF Last
    <3>5. Progress(puzzle).value = puzzle /\ Progress(puzzle).kind = "progress"
      BY DEF Progress
    <3>6. QED
      BY <3>2, <3>4, <3>5 DEF SlideOK
  <2>3. LightOK'
    <3>1. SUFFICES ASSUME game = "light-switch" PROVE LightOK'
      BY <1>2 DEF LightOK
    <3>2. /\ screen' = [pressed |-> <<>>, lights |-> puzzle.lights, isSolved |-> FALSE]
          /\ puzzle.wiring \in [Switches -> SUBSET Lights]
          /\ puzzle.lights \in SUBSET Lights /\ puzzle.lights # Lights
      BY <1>1, <1>3, <3>1 DEF Fresh, PuzzleOK
    <3>3. ApplyAll(puzzle.lights, puzzle.wiring, <<>>) = puzzle.lights
      BY <3>2, NonePressed
    <3>a. screen'.lights = puzzle.lights /\ screen'.pressed = <<>> /\ screen'.isSolved = FALSE
      BY <3>2
    <3>b. DOMAIN screen'.pressed = {}
      BY <3>a
    <3>c. AllOn(screen'.lights) = FALSE
      BY <3>2, <3>a DEF AllOn
    <3>4. /\ screen'.lights = ApplyAll(puzzle.lights, puzzle.wiring, screen'.pressed)
          /\ screen'.isSolved = AllOn(screen'.lights) /\ ~screen'.isSolved
          /\ DOMAIN screen'.pressed = {}
      BY <3>3, <3>a, <3>b, <3>c
    <3>5. LightOK'
      BY <1>2, <3>4 DEF LightOK
    <3>6. QED
      BY <3>5
  <2>4. WordOK'
    <3>1. SUFFICES ASSUME game = "wordle" PROVE WordOK'
      BY <1>2 DEF WordOK
    <3>2. screen' = [words |-> <<>>, waiting |-> FALSE, feedback |-> <<>>, sent |-> 0]
      BY <1>1, <3>1 DEF Fresh
    <3>3. screen'.waiting = FALSE /\ DOMAIN screen'.feedback = {}
      BY <3>2
    <3>4. \A n \in DOMAIN down' : down'[n].kind # "feedback"
      BY <1>2, <1>3, Dropped
    <3>5. QED
      BY <3>3, <3>4 DEF WordOK, IsJudged
  <2>5. FlightOK'
    <3>1. SUFFICES ASSUME game = "bonk-air" PROVE FlightOK'
      BY <1>2 DEF FlightOK
    <3>2. screen' = [phase |-> "plan", paths |-> <<>>, drawing |-> <<>>,
                     plan |-> <<>>, flight |-> <<>>, left |-> down[1].left]
      BY <1>1, <3>1 DEF Fresh
    <3>3. screen'.phase = "plan" /\ screen'.plan = <<>> /\ screen'.paths = <<>>
          /\ screen'.drawing = <<>>
      BY <3>2
    <3>4. Planned(screen')
      BY <3>3 DEF Planned, PlanIsKnown, Flying
    <3>5. FlightOK'
      BY <3>3, <3>4 DEF FlightOK, Planned, PlanIsKnown, Flying
    <3>6. QED
      BY <3>5
  <2>6. QED
    BY <2>1, <2>2, <2>3, <2>4, <2>5 DEF Own
<1>11. QED
  BY <1>2, <1>8, <1>9, <1>10, PhoneKeeps

-----------------------------------------------------------------------------
(* Playing keeps the invariant. *)

\* Playing any of the games keeps the invariant.
LEMMA PlayedKeeps ==
  ASSUME Inv, NEW g, Plays(g), PhoneDid(submitted), Own'
  PROVE  Inv'
<1>1. screen # <<>> /\ submitted \in BOOLEAN /\ online \in BOOLEAN /\ down' = down
      /\ UNCHANGED <<game, puzzle, seen, online, now, window, progress, taken, saving, row,
                     acked, faults>>
  BY PlaysIs
<1>2. seen \in {"playing", "reveal"}
  BY DEF Inv, Base, TypeOK, PhoneTypeOK
<1>3. ServerStays
  BY <1>1, <1>2 DEF ServerStays
<1>4. DownKept(submitted)
  BY <1>1 DEF DownKept
<1>5. QED
  BY <1>1, <1>3, <1>4, PhoneKeeps

LEMMA FlyKeeps ==
  ASSUME Inv, Fly
  PROVE  Inv'
<1>1. screen # <<>> /\ submitted \in BOOLEAN /\ online \in BOOLEAN /\ down' = down
      /\ UNCHANGED <<game, puzzle, seen, online, now, window, progress, taken, saving, row,
                     acked, faults>>
  BY DEF Fly, server, Inv, Base, TypeOK, PhoneTypeOK
<1>2. seen \in {"playing", "reveal"}
  BY DEF Inv, Base, TypeOK, PhoneTypeOK
<1>3. ServerStays
  BY <1>1, <1>2 DEF ServerStays
<1>4. DownKept(submitted)
  BY <1>1 DEF DownKept
<1>5. QED
  BY <1>1, <1>3, <1>4, FlyDid, PhoneKeeps

LEMMA PlayKeeps ==
  ASSUME Inv, Play
  PROVE  Inv'
<1>1. CASE \E i \in Indexes : SlideTile(i)
  <2>1. PICK i \in Indexes : SlideTile(i)
    BY <1>1
  <2>2. Plays("sliding-puzzle")
    BY <2>1 DEF SlideTile
  <2>3. QED
    BY <2>1, <2>2, SlideTileDid, PlayedKeeps
<1>2. CASE \E i \in Switches : PressSwitch(i)
  <2>1. PICK i \in Switches : PressSwitch(i)
    BY <1>2
  <2>2. Plays("light-switch")
    BY <2>1 DEF PressSwitch
  <2>3. QED
    BY <2>1, <2>2, PressSwitchDid, PlayedKeeps
<1>3. CASE \E word \in Dictionary : EnterGuess(word)
  <2>1. PICK word \in Dictionary : EnterGuess(word)
    BY <1>3
  <2>2. Plays("wordle")
    BY <2>1 DEF EnterGuess
  <2>3. QED
    BY <2>1, <2>2, EnterGuessDid, PlayedKeeps
<1>4. CASE game = "vault-rush" /\ \E code \in Codes : EnterCode(code)
  <2>1. PICK code \in Codes : EnterCode(code)
    BY <1>4
  <2>2. Plays("vault-rush")
    BY <2>1 DEF EnterCode
  <2>3. QED
    BY <1>4, <2>1, <2>2, EnterCodeDid, PlayedKeeps
<1>5. CASE game = "balance-scale" /\ \E o \in Options(puzzle.difficulty) : PickOption(o)
  <2>1. PICK o \in Options(puzzle.difficulty) : PickOption(o)
    BY <1>5
  <2>2. Plays("balance-scale")
    BY <2>1 DEF PickOption
  <2>3. QED
    BY <1>5, <2>1, <2>2, PickOptionDid, PlayedKeeps
<1>6. CASE /\ game = "bonk-air" /\ screen # <<>>
           /\ \/ \E c \in Touched : PointerDown(c) \/ PointerMove(c)
              \/ FinishStroke \/ TakeOff \/ Fly
  <2>1. CASE \E c \in Touched : PointerDown(c) \/ PointerMove(c)
    <3>1. PICK c \in Touched : PointerDown(c) \/ PointerMove(c)
      BY <2>1
    <3>2. c \in Grid
      BY RoundAssumption
    <3>3. CASE PointerDown(c)
      <4>1. Plays("bonk-air")
        BY <3>3 DEF PointerDown, Draws
      <4>2. QED
        BY <1>6, <3>2, <3>3, <4>1, PointerDownDid, PlayedKeeps
    <3>4. CASE PointerMove(c)
      <4>1. Plays("bonk-air")
        BY <3>4 DEF PointerMove, Draws
      <4>2. QED
        BY <1>6, <3>2, <3>4, <4>1, PointerMoveDid, PlayedKeeps
    <3>5. QED
      BY <3>1, <3>3, <3>4
  <2>2. CASE FinishStroke
    <3>1. Plays("bonk-air")
      BY <2>2 DEF FinishStroke, Draws
    <3>2. QED
      BY <1>6, <2>2, <3>1, FinishStrokeDid, PlayedKeeps
  <2>3. CASE TakeOff
    <3>1. Plays("bonk-air")
      BY <2>3 DEF TakeOff
    <3>2. QED
      BY <1>6, <2>3, <3>1, TakeOffDid, PlayedKeeps
  <2>4. CASE Fly
    BY <2>4, FlyKeeps
  <2>5. QED
    BY <1>6, <2>1, <2>2, <2>3, <2>4
<1>7. QED
  BY <1>1, <1>2, <1>3, <1>4, <1>5, <1>6 DEF Play

-----------------------------------------------------------------------------
(* The server *)

\* What the server tells the phone
ToldOne(frame) ==
    /\ down' \in Seq(DownFrames)
    /\ \A n \in DOMAIN down' : n \notin DOMAIN down => online /\ down'[n] = frame
    /\ \A n \in DOMAIN down : n \in DOMAIN down' /\ down'[n] = down[n]
    /\ \A n, m \in DOMAIN down' : (n \notin DOMAIN down /\ m \notin DOMAIN down) => n = m
    /\ online => \E n \in DOMAIN down' : down'[n] = frame
    /\ ~online => down' = down
    /\ down # <<>> => 1 \in DOMAIN down

\* What the server tells reaches the end of the queue.
LEMMA Told ==
  ASSUME down \in Seq(DownFrames), NEW frame \in DownFrames, Tell(frame)
  PROVE  ToldOne(frame)
<1>0. /\ DOMAIN down = 1..Len(down) /\ Len(down) \in Nat
      /\ down # <<>> => Len(down) # 0
  BY EmptySeq
<1>1. CASE online
  <2>1. down' = Append(down, frame)
    BY <1>1 DEF Tell
  <2>2. /\ down' \in Seq(DownFrames) /\ DOMAIN down' = 1..(Len(down) + 1)
        /\ down'[Len(down) + 1] = frame /\ \A n \in DOMAIN down : down'[n] = down[n]
    BY <2>1, Pushed
  <2>3. \A n \in DOMAIN down' : n \in DOMAIN down \/ (n = Len(down) + 1 /\ n \notin DOMAIN down)
    BY <1>0, <2>2
  <2>4. \A n \in DOMAIN down : n \in DOMAIN down'
    BY <1>0, <2>2
  <2>5. Len(down) + 1 \in DOMAIN down'
    BY <1>0, <2>2
  <2>7. down # <<>> => 1 \in DOMAIN down
    BY <1>0
  <2>8. \A n \in DOMAIN down' : n \notin DOMAIN down => online /\ down'[n] = frame
    BY <1>1, <2>2, <2>3
  <2>9. QED
    BY <1>1, <2>2, <2>3, <2>4, <2>5, <2>7, <2>8 DEF ToldOne
<1>2. CASE ~online
  <2>1. down' = down
    BY <1>2 DEF Tell
  <2>2. down # <<>> => 1 \in DOMAIN down
    BY <1>0
  <2>3. QED
    BY <1>2, <2>1, <2>2 DEF ToldOne
<1>3. QED
  BY <1>1, <1>2

\* What a step of the server leaves of the phone
PhoneStays ==
    /\ UNCHANGED <<game, puzzle, screen, submitted, seen, online>>
    /\ lost' \in BOOLEAN /\ (lost => lost') /\ faults' \in Nat /\ (faults' = 0 => faults = 0)

LEMMA ScreenStays ==
  ASSUME Inv, PhoneStays
  PROVE  LightsLock' /\ LightOK' /\ FlightOK'
<1>1. /\ UNCHANGED <<game, puzzle, screen, submitted, seen, online>>
      /\ lost' \in BOOLEAN /\ (lost => lost') /\ (faults' = 0 => faults = 0)
  BY DEF PhoneStays
<1>2. LightsLock'
  BY <1>1 DEF Inv, LockOK, LightsLock
<1>3. LightOK'
  BY <1>1 DEF Inv, More, LightOK
<1>4. FlightOK'
  BY <1>1 DEF Inv, More, FlightOK, Planned, PlanIsKnown, Flying
<1>5. QED
  BY <1>2, <1>3, <1>4

ServerTyped ==
    /\ now' \in Times /\ window' \in {"open", "closed"}
    /\ progress' \in Maybe(Snapshots) /\ row' \in Maybe(Snapshots)
    /\ saving' \in Maybe(Saves)
    /\ taken' \in BOOLEAN /\ acked' \in BOOLEAN

\* A step of the server keeps the base,
LEMMA BaseStays ==
  ASSUME Inv, PhoneStays, ServerTyped, up' = up \/ (up # <<>> /\ up' = Tail(up)),
         NEW frame \in DownFrames, down' = down \/ ToldOne(frame),
         frame.kind # "content",
         ~online => \A i \in DOMAIN saving' : ~saving'[i].heard,
         screen # <<>> \/ Untouched'
  PROVE  Base'
<1>1. /\ UNCHANGED <<game, puzzle, screen, submitted, seen, online>>
      /\ lost' \in BOOLEAN /\ (lost => lost') /\ faults' \in Nat
  BY DEF PhoneStays
<1>2. /\ game \in Games /\ PuzzleOK /\ PhoneTypeOK /\ up \in Seq(UpFrames)
      /\ down \in Seq(DownFrames) /\ ContentIsFirst /\ OfflineIsSilent
  BY DEF Inv, Base, TypeOK, PhoneTypeOK
<1>3. /\ UpFrames' = UpFrames /\ DownFrames' = DownFrames
      /\ Snapshots' = Snapshots /\ Saves' = Saves /\ PuzzleOK'
      /\ ScreenOK(screen') => ScreenOK(screen)'
  BY <1>1, <1>2, SameRound
<1>4. up' \in Seq(UpFrames)
  BY <1>2, Dropped
<1>5. down' \in Seq(DownFrames)
  BY <1>2 DEF ToldOne
<1>6. PhoneTypeOK'
  BY <1>1, <1>2, <1>3, <1>4 DEF PhoneTypeOK
<1>7. ServerTypeOK'
  BY <1>3 DEF ServerTypeOK, ServerTyped, Maybe
<1>8. TypeOK'
  BY <1>1, <1>2, <1>3, <1>5, <1>6, <1>7 DEF TypeOK
<1>9. ContentIsFirst'
  <2>1. \A n \in DOMAIN down' : down'[n].kind = "content" => n = 1 /\ screen' = <<>>
    BY <1>1, <1>2 DEF ToldOne, ContentIsFirst
  <2>2. QED
    BY <1>1, <2>1 DEF ContentIsFirst
<1>10. OfflineIsSilent'
  BY <1>1, <1>2 DEF OfflineIsSilent, ToldOne
<1>11. QED
  BY <1>8, <1>9, <1>10 DEF Base

\* ... what the games keep,
LEMMA OthersStay ==
  ASSUME Inv, PhoneStays, UNCHANGED <<up, progress>>, window' = "open" => window = "open",
         NEW frame \in DownFrames, frame.kind \notin {"content", "feedback"},
         down' = down \/ ToldOne(frame)
  PROVE  SlideOK' /\ WordOK' /\ (faults' = faults \/ screen # <<>> => ContentOK')
<1>1. /\ UNCHANGED <<game, puzzle, screen, submitted, seen, online>>
      /\ lost' \in BOOLEAN /\ (lost => lost')
  BY DEF PhoneStays
<1>2. SlideOK'
  BY <1>1 DEF Inv, More, SlideOK
<1>3. WordOK'
  <2>1. SUFFICES ASSUME game = "wordle", screen # <<>>, ~lost, ~lost' PROVE WordOK'
    BY <1>1 DEF WordOK
  <2>2. /\ \A n \in DOMAIN down : down[n].kind = "feedback" => WasJudged(down[n].value.words)
        /\ IsJudged(screen)
        /\ (screen.waiting /\ window = "open") =>
              \/ \E n \in DOMAIN up : up[n].kind = "progress"
              \/ \E n \in DOMAIN down : down[n].kind = "feedback"
    BY <2>1 DEF Inv, More, WordOK
  <2>3. \A n \in DOMAIN down' : down'[n].kind = "feedback" => n \in DOMAIN down /\ down'[n] = down[n]
    BY DEF ToldOne
  <2>4. \A n \in DOMAIN down : n \in DOMAIN down' /\ down'[n] = down[n]
    BY DEF ToldOne
  <2>5. \A n \in DOMAIN down' : down'[n].kind = "feedback" => WasJudged(down[n].value.words)'
    BY <2>2, <2>3 DEF WasJudged
  <2>6. IsJudged(screen)'
    BY <1>1, <2>2 DEF IsJudged, WasJudged
  <2>7. (screen'.waiting /\ window' = "open") =>
              \/ \E n \in DOMAIN up' : up'[n].kind = "progress"
              \/ \E n \in DOMAIN down' : down'[n].kind = "feedback"
    BY <1>1, <2>2, <2>4
  <2>8. QED
    BY <2>5, <2>6, <2>7 DEF WordOK
<1>4. ASSUME faults' = faults \/ screen # <<>> PROVE ContentOK'
  <2>1. CASE screen # <<>>
    BY <1>1, <2>1 DEF ContentOK
  <2>2. CASE faults' = faults /\ down' = down
    BY <1>1, <2>2 DEF Inv, More, ContentOK
  <2>3. CASE faults' = faults /\ ToldOne(frame)
    <3>1. CASE down # <<>>
      <4>1. down'[1] = down[1]
        BY <2>3, <3>1 DEF ToldOne
      <4>2. QED
        BY <1>1, <2>3, <3>1, <4>1 DEF Inv, More, ContentOK
    <3>2. CASE down = <<>>
      <4>1. SUFFICES ASSUME down' # <<>> PROVE down'[1].kind # "content"
        BY DEF ContentOK
      <4>2. down' \in Seq(DownFrames)
        BY <2>3 DEF ToldOne
      <4>3. 1 \in DOMAIN down'
        BY <4>1, <4>2, Dropped
      <4>4. 1 \notin DOMAIN down
        BY <3>2
      <4>5. QED
        BY <2>3, <4>3, <4>4 DEF ToldOne
    <3>3. QED
      BY <3>1, <3>2
  <2>4. QED
    BY <1>4, <2>1, <2>2, <2>3
<1>5. QED
  BY <1>2, <1>3, <1>4

-----------------------------------------------------------------------------
(* What a step of the server leaves as it was *)

LEMMA UnlocksStay ==
  ASSUME NEW frame, down' = down \/ ToldOne(frame), ~IsUnlock(frame)
  PROVE  /\ UnlockIsDown' <=> UnlockIsDown
         /\ \A n \in DOMAIN down' : IsUnlock(down'[n]) =>
                n \in DOMAIN down /\ down'[n] = down[n]
<1>1. \A n \in DOMAIN down' : IsUnlock(down'[n]) => n \in DOMAIN down /\ down'[n] = down[n]
  BY DEF ToldOne
<1>2. \A n \in DOMAIN down : n \in DOMAIN down' /\ down'[n] = down[n]
  BY DEF ToldOne
<1>3. QED
  BY <1>1, <1>2 DEF UnlockIsDown, IsUnlock

\* ... that there is one answer,
LEMMA AnswerStays ==
  ASSUME OneAnswer, NEW frame, down' = down \/ ToldOne(frame), ~IsUnlock(frame),
         UNCHANGED <<up, submitted, taken>>, window' = "open" => window = "open"
  PROVE  OneAnswer'
<1>1. /\ UnlockIsDown' <=> UnlockIsDown
      /\ \A n \in DOMAIN down' : IsUnlock(down'[n]) =>
             n \in DOMAIN down /\ down'[n] = down[n]
  BY UnlocksStay
<1>2. SubmitIsUp' <=> SubmitIsUp
  BY DEF SubmitIsUp
<1>3. \A n, m \in DOMAIN down' : IsUnlock(down'[n]) =>
          submitted' /\ (IsUnlock(down'[m]) => n = m)
  BY <1>1 DEF OneAnswer
<1>4. \A n \in DOMAIN up' : up'[n].kind = "submit" =>
          n = Len(up') /\ submitted' /\ ~taken' /\ ~UnlockIsDown'
  BY <1>1 DEF OneAnswer
<1>5. /\ taken' => submitted' /\ up' = <<>> /\ ~UnlockIsDown'
      /\ submitted' /\ window' = "open" => SubmitIsUp' \/ taken' \/ UnlockIsDown'
  BY <1>1, <1>2 DEF OneAnswer
<1>6. QED
  BY <1>3, <1>4, <1>5 DEF OneAnswer, IsUnlock

LEMMA HandedStays ==
  ASSUME PhoneStays, UNCHANGED progress
  PROVE  \A v : Handed(v)' = Handed(v) /\ Valid(v)' = Valid(v)
BY DEF PhoneStays, Handed, Valid, Finishes, WasJudged

\* ... and that it is what the phone shows.
LEMMA AnswersStay ==
  ASSUME HandedOK, PhoneStays, UNCHANGED <<up, progress>>,
         \A i \in DOMAIN saving' : i \in DOMAIN saving /\ saving'[i].value = saving[i].value,
         acked' => acked /\ row' = row
  PROVE  HandedOK'
<1>1. SUFFICES ASSUME screen # <<>>, ~lost' PROVE AnswersAreShown'
  BY DEF HandedOK, PhoneStays
<1>2. AnswersAreShown
  BY <1>1 DEF HandedOK, PhoneStays
<1>3. \A v : Handed(v)' = Handed(v) /\ Valid(v)' = Valid(v)
  BY HandedStays
<1>4. ASSUME NEW n \in DOMAIN up', up'[n].kind = "submit"
      PROVE  Handed(up[n].value)' /\ (faults' = 0 => Valid(up[n].value)')
  <2>1. PICK v : v = up[n].value
    OBVIOUS
  <2>2. Handed(v) /\ (faults = 0 => Valid(v)) /\ v = up'[n].value
    BY <1>2, <1>4, <2>1 DEF AnswersAreShown
  <2>3. Handed(v)' /\ (faults' = 0 => Valid(v)')
    BY <1>3, <2>2 DEF PhoneStays
  <2>4. QED
    BY <2>2, <2>3
<1>5. ASSUME NEW i \in DOMAIN saving'
      PROVE  Valid(saving[i].value)' /\ Handed(saving[i].value)'
  <2>1. PICK v : v = saving[i].value
    OBVIOUS
  <2>2. Handed(v) /\ Valid(v) /\ v = saving'[i].value
    BY <1>2, <1>5, <2>1 DEF AnswersAreShown
  <2>3. Handed(v)' /\ Valid(v)'
    BY <1>3, <2>2
  <2>4. QED
    BY <2>2, <2>3
<1>6. acked' => Valid(row[1].value)' /\ Handed(row[1].value)'
  <2>1. PICK v : v = row[1].value
    OBVIOUS
  <2>2. acked' => Valid(v) /\ Handed(v) /\ v = row'[1].value
    BY <1>2, <2>1 DEF AnswersAreShown
  <2>3. acked' => Valid(v)' /\ Handed(v)'
    BY <1>3, <2>2
  <2>4. QED
    BY <2>2, <2>3
<1>7. QED
  BY <1>4, <1>5, <1>6 DEF AnswersAreShown

LEMMA TickKeeps ==
  ASSUME Inv, Tick
  PROVE  Inv'
<1>1. PICK frame : frame = [kind |-> "tick", left |-> TimeLimit - now']
  OBVIOUS
<1>2. /\ UNCHANGED <<game, puzzle, screen, submitted, seen, online, up, window, progress,
                     taken, saving, row, acked, lost, faults>>
      /\ now' = now + 1 /\ now < TimeLimit /\ Tell(frame)
  BY <1>1 DEF Tick, phone, server
<1>3. /\ now \in 0..TimeLimit /\ down \in Seq(DownFrames) /\ lost \in BOOLEAN /\ faults \in Nat
      /\ ServerTypeOK
  BY DEF Inv, Base, TypeOK, ServerTypeOK, Times
<1>4. now' \in 0..TimeLimit /\ TimeLimit - now' \in Nat
  BY <1>2, <1>3, TimeLimitAssumption
<1>5. frame \in DownFrames /\ frame.kind = "tick" /\ ~IsUnlock(frame)
  BY <1>1, <1>4 DEF DownFrames, IsUnlock
<1>6. ToldOne(frame)
  BY <1>2, <1>3, <1>5, Told
<1>7. PhoneStays
  BY <1>2, <1>3 DEF PhoneStays
<1>8. ServerTyped
  BY <1>2, <1>3, <1>4 DEF ServerTyped, ServerTypeOK, Times
<1>9. screen # <<>> \/ Untouched'
  <2>1. SUFFICES ASSUME screen = <<>> PROVE Untouched'
    OBVIOUS
  <2>2. Untouched
    BY <2>1 DEF Inv, Base, ContentIsFirst
  <2>3. \A n \in DOMAIN down' : down'[n].kind \in {"content", "tick", "reveal"}
    BY <1>5, <1>6, <2>2 DEF ToldOne, Untouched
  <2>4. QED
    BY <1>2, <2>2, <2>3 DEF Untouched
<1>10. ~online => \A i \in DOMAIN saving' : ~saving'[i].heard
  BY <1>2 DEF Inv, Base, OfflineIsSilent
<1>11. Base'
  BY <1>2, <1>5, <1>6, <1>7, <1>8, <1>9, <1>10, BaseStays
<1>12. SlideOK' /\ WordOK' /\ ContentOK'
  BY <1>2, <1>5, <1>6, <1>7, OthersStay
<1>13. LightsLock' /\ LightOK' /\ FlightOK'
  BY <1>7, ScreenStays
<1>14. HandedOK'
  BY <1>2, <1>7, AnswersStay DEF Inv
<1>15. SavesFollow'
  BY <1>2 DEF Inv, LockOK, SavesFollow
<1>16. ~lost' => OneAnswer'
  BY <1>2, <1>5, <1>6, AnswerStays DEF Inv, LockOK
<1>17. NoRefusal'
  BY <1>2, <1>5, <1>6, UnlocksStay DEF Inv, More, NoRefusal
<1>18. QED
  BY <1>11, <1>12, <1>13, <1>14, <1>15, <1>16, <1>17 DEF Inv, LockOK, More

LEMMA CloseWindowKeeps ==
  ASSUME Inv, CloseWindow
  PROVE  Inv'
<1>1. PICK frame : frame = Frame("reveal")
  OBVIOUS
<1>2. /\ UNCHANGED <<game, puzzle, screen, submitted, seen, online, up, now, progress,
                     taken, saving, acked, lost, faults>>
      /\ window' = "closed" /\ Tell(frame)
      /\ row' = IF taken \/ row # <<>> THEN row ELSE progress
  BY <1>1 DEF CloseWindow, phone
<1>3. /\ down \in Seq(DownFrames) /\ lost \in BOOLEAN /\ faults \in Nat
      /\ ServerTypeOK /\ SavesFollow
  BY DEF Inv, Base, TypeOK, LockOK
<1>5. frame \in DownFrames /\ frame.kind = "reveal" /\ ~IsUnlock(frame)
  BY <1>1 DEF DownFrames, IsUnlock, Frame
<1>6. ToldOne(frame)
  BY <1>2, <1>3, <1>5, Told
<1>7. PhoneStays
  BY <1>2, <1>3 DEF PhoneStays
<1>8. ServerTyped
  BY <1>2, <1>3 DEF ServerTyped, ServerTypeOK
<1>9. screen # <<>> \/ Untouched'
  <2>1. SUFFICES ASSUME screen = <<>> PROVE Untouched'
    OBVIOUS
  <2>2. Untouched
    BY <2>1 DEF Inv, Base, ContentIsFirst
  <2>3. \A n \in DOMAIN down' : down'[n].kind \in {"content", "tick", "reveal"}
    BY <1>5, <1>6, <2>2 DEF ToldOne, Untouched
  <2>4. QED
    BY <1>2, <2>2, <2>3 DEF Untouched
<1>10. ~online => \A i \in DOMAIN saving' : ~saving'[i].heard
  BY <1>2 DEF Inv, Base, OfflineIsSilent
<1>11. Base'
  BY <1>2, <1>5, <1>6, <1>7, <1>8, <1>9, <1>10, BaseStays
<1>12. SlideOK' /\ WordOK' /\ ContentOK'
  BY <1>2, <1>5, <1>6, <1>7, OthersStay
<1>13. LightsLock' /\ LightOK' /\ FlightOK'
  BY <1>7, ScreenStays
<1>14. HandedOK'
  <2>1. acked' => acked /\ row' = row
    BY <1>2, <1>3 DEF SavesFollow
  <2>2. QED
    BY <1>2, <1>7, <2>1, AnswersStay DEF Inv
<1>15. SavesFollow'
  BY <1>2, <1>3 DEF SavesFollow
<1>16. ~lost' => OneAnswer'
  BY <1>2, <1>5, <1>6, AnswerStays DEF Inv, LockOK
<1>17. NoRefusal'
  BY <1>2, <1>5, <1>6, UnlocksStay DEF Inv, More, NoRefusal
<1>18. QED
  BY <1>11, <1>12, <1>13, <1>14, <1>15, <1>16, <1>17 DEF Inv, LockOK, More

-----------------------------------------------------------------------------
(* The save returns, whatever becomes of it. *)

\* The save returns, whatever becomes of it.
LEMMA AnsweredIs ==
  ASSUME Inv, NEW reason \in Reasons, Answered(reason), faults' \in Nat,
         faults' = 0 => faults = 0, taken' \in BOOLEAN, acked' \in BOOLEAN,
         row' = row \/ row' = Stored(saving[1])
  PROVE  /\ PhoneStays /\ Base' /\ screen # <<>> /\ taken /\ ~acked
         /\ saving[1] \in Saves /\ saving = <<saving[1]>> /\ saving' = <<>>
         /\ UNCHANGED <<up, progress, window>>
         /\ row' \in Maybe(Snapshots)
         /\ SlideOK' /\ WordOK' /\ ContentOK' /\ LightsLock' /\ LightOK' /\ FlightOK'
         /\ down' = down \/ ToldOne(Ack(reason))
         /\ ~lost' => ~lost /\ online /\ ToldOne(Ack(reason))
<1>1. /\ saving # <<>> /\ saving' = <<>>
      /\ IF saving[1].heard THEN Tell(Ack(reason)) ELSE UNCHANGED down
      /\ lost' = (lost \/ ~saving[1].heard)
      /\ UNCHANGED <<game, puzzle, screen, submitted, seen, online, up, now, window, progress>>
  BY DEF Answered, phone
<1>2. /\ down \in Seq(DownFrames) /\ lost \in BOOLEAN /\ faults \in Nat
      /\ ServerTypeOK /\ SavesFollow
  BY DEF Inv, Base, TypeOK, LockOK
<1>3. saving[1] \in Saves /\ saving = <<saving[1]>> /\ 1 \in DOMAIN saving
  BY <1>1, <1>2, MaybeOne DEF ServerTypeOK
<1>4. taken /\ ~acked
  BY <1>1, <1>2 DEF SavesFollow
<1>5. screen # <<>>
  BY <1>1 DEF Inv, Base, ContentIsFirst, Untouched
<1>6. Ack(reason) \in DownFrames /\ Ack(reason).kind = "ack"
  BY DEF Ack, DownFrames
<1>7. saving[1].heard => ToldOne(Ack(reason))
  BY <1>1, <1>2, <1>6, Told
<1>8. down' = down \/ ToldOne(Ack(reason))
  BY <1>1, <1>7
<1>9. lost' \in BOOLEAN /\ (lost => lost')
  BY <1>1, <1>2
<1>10. PhoneStays
  BY <1>1, <1>9 DEF PhoneStays
<1>11. Stored(saving[1]) \in Maybe(Snapshots)
  <2>1. PICK saved \in Saves : saved = saving[1]
    BY <1>3
  <2>2. PICK kept : kept = [value |-> saved.value, time |-> saved.time]
    OBVIOUS
  <2>3. kept \in Snapshots
    BY <2>2 DEF Saves, Snapshots
  <2>4. Stored(saving[1]) = <<kept>>
    BY <2>1, <2>2 DEF Stored
  <2>5. QED
    BY <2>3, <2>4, OneMaybe
<1>12. row' \in Maybe(Snapshots) /\ saving' \in Maybe(Saves)
  BY <1>1, <1>2, <1>11 DEF ServerTypeOK, Maybe
<1>13. ServerTyped
  BY <1>1, <1>2, <1>12 DEF ServerTyped, ServerTypeOK
<1>14. ~online => \A i \in DOMAIN saving' : ~saving'[i].heard
  BY <1>1
<1>15. Base'
  BY <1>1, <1>5, <1>6, <1>8, <1>10, <1>13, <1>14, BaseStays
<1>16. SlideOK' /\ WordOK' /\ ContentOK'
  BY <1>1, <1>5, <1>6, <1>8, <1>10, OthersStay
<1>17. LightsLock' /\ LightOK' /\ FlightOK'
  BY <1>10, ScreenStays
<1>18. ~lost' => ~lost /\ online /\ ToldOne(Ack(reason))
  <2>1. SUFFICES ASSUME ~lost' PROVE ~lost /\ online /\ ToldOne(Ack(reason))
    OBVIOUS
  <2>2. saving[1].heard /\ ~lost
    BY <1>1, <2>1
  <2>3. online
    BY <1>3, <2>2 DEF Inv, Base, OfflineIsSilent
  <2>4. QED
    BY <1>7, <2>2, <2>3
<1>19. QED
  BY <1>1, <1>3, <1>4, <1>5, <1>8, <1>10, <1>12, <1>15, <1>16, <1>17, <1>18

LEMMA SaveRowKeeps ==
  ASSUME Inv, SaveRow
  PROVE  Inv'
<1>1. /\ row = <<>> /\ Answered("accepted") /\ row' = Stored(saving[1]) /\ acked' = TRUE
      /\ taken' = taken /\ faults' = faults /\ "accepted" \in Reasons
      /\ faults \in Nat /\ taken \in BOOLEAN
  BY DEF SaveRow, Reasons, Inv, Base, TypeOK, ServerTypeOK
<1>2. /\ PhoneStays /\ Base' /\ screen # <<>> /\ taken /\ ~acked
      /\ saving[1] \in Saves /\ saving = <<saving[1]>> /\ saving' = <<>>
      /\ UNCHANGED <<up, progress, window>>
      /\ SlideOK' /\ WordOK' /\ ContentOK' /\ LightsLock' /\ LightOK' /\ FlightOK'
      /\ down' = down \/ ToldOne(Ack("accepted"))
  BY <1>1, AnsweredIs
<1>3. ~lost' => ~lost
  BY <1>2 DEF PhoneStays
<1>4. ~IsUnlock(Ack("accepted"))
  BY DEF IsUnlock, Ack
<1>5. PICK saved : saved = saving[1]
  OBVIOUS
<1>6. row' # <<>> /\ row'[1].value = saved.value
  BY <1>1, <1>5 DEF Stored
<1>7. SavesFollow'
  BY <1>1, <1>2, <1>6 DEF SavesFollow
<1>8. UNCHANGED submitted
  BY <1>2 DEF PhoneStays
<1>9. ~lost' => OneAnswer'
  BY <1>1, <1>2, <1>3, <1>4, <1>8, AnswerStays DEF Inv, LockOK
<1>10. HandedOK'
  <2>1. SUFFICES ASSUME ~lost' PROVE AnswersAreShown'
    BY DEF HandedOK
  <2>2. AnswersAreShown /\ OneAnswer
    BY <1>2, <1>3, <2>1 DEF Inv, HandedOK, LockOK
  <2>3. up' = <<>>
    BY <1>2, <2>2 DEF OneAnswer
  <2>4. 1 \in DOMAIN saving
    BY <1>2
  <2>5. Valid(saved.value) /\ Handed(saved.value)
    BY <1>5, <2>2, <2>4 DEF AnswersAreShown
  <2>6. \A v : Handed(v)' = Handed(v) /\ Valid(v)' = Valid(v)
    BY <1>2, HandedStays
  <2>7. PICK v : v = saved.value
    OBVIOUS
  <2>8. Valid(v)' /\ Handed(v)' /\ v = row'[1].value
    BY <1>6, <2>5, <2>6, <2>7
  <2>9. Valid(row[1].value)' /\ Handed(row[1].value)'
    BY <2>8
  <2>10. QED
    BY <1>2, <2>3, <2>9 DEF AnswersAreShown
<1>11. NoRefusal'
  BY <1>1, <1>2, <1>3, <1>4, UnlocksStay DEF Inv, More, NoRefusal
<1>12. QED
  BY <1>2, <1>7, <1>9, <1>10, <1>11 DEF Inv, LockOK, More

LEMMA SaveTwiceKeeps ==
  ASSUME Inv, SaveTwice
  PROVE  Inv'
<1>1. /\ row # <<>> /\ Answered("already-answered") /\ row' = row /\ acked' = acked
      /\ taken' = taken /\ faults' = faults /\ "already-answered" \in Reasons
      /\ faults \in Nat /\ taken \in BOOLEAN /\ acked \in BOOLEAN
  BY DEF SaveTwice, Reasons, Inv, Base, TypeOK, ServerTypeOK
<1>2. /\ PhoneStays /\ Base' /\ screen # <<>> /\ taken /\ ~acked
      /\ saving' = <<>>
      /\ UNCHANGED <<up, progress, window>>
      /\ SlideOK' /\ WordOK' /\ ContentOK' /\ LightsLock' /\ LightOK' /\ FlightOK'
      /\ down' = down \/ ToldOne(Ack("already-answered"))
  BY <1>1, AnsweredIs
<1>3. ~lost' => ~lost
  BY <1>2 DEF PhoneStays
<1>4. ~IsUnlock(Ack("already-answered"))
  BY DEF IsUnlock, Ack
<1>5. SavesFollow'
  BY <1>1, <1>2 DEF SavesFollow
<1>6. UNCHANGED submitted
  BY <1>2 DEF PhoneStays
<1>7. ~lost' => OneAnswer'
  BY <1>1, <1>2, <1>3, <1>4, <1>6, AnswerStays DEF Inv, LockOK
<1>8. HandedOK'
  BY <1>1, <1>2, AnswersStay DEF Inv
<1>9. NoRefusal'
  BY <1>1, <1>2, <1>3, <1>4, UnlocksStay DEF Inv, More, NoRefusal
<1>10. QED
  BY <1>2, <1>5, <1>7, <1>8, <1>9 DEF Inv, LockOK, More

LEMMA SaveFailsKeeps ==
  ASSUME Inv, SaveFails
  PROVE  Inv'
<1>1. /\ Answered("server-error") /\ acked' = acked
      /\ taken' = FALSE /\ faults' = faults + 1 /\ "server-error" \in Reasons
      /\ faults \in Nat /\ taken \in BOOLEAN /\ acked \in BOOLEAN
      /\ row' = row \/ row' = Stored(saving[1])
  BY DEF SaveFails, Reasons, Inv, Base, TypeOK, ServerTypeOK
<1>a. faults' \in Nat /\ faults' # 0
  BY <1>1
<1>2. /\ PhoneStays /\ Base' /\ screen # <<>> /\ taken /\ ~acked
      /\ saving' = <<>>
      /\ UNCHANGED <<up, progress, window>>
      /\ SlideOK' /\ WordOK' /\ ContentOK' /\ LightsLock' /\ LightOK' /\ FlightOK'
      /\ ~lost' => ~lost /\ online /\ ToldOne(Ack("server-error"))
  BY <1>1, <1>a, AnsweredIs
<1>3. UNCHANGED submitted
  BY <1>2 DEF PhoneStays
<1>4. SavesFollow'
  BY <1>1, <1>2 DEF SavesFollow
<1>5. ~lost' => OneAnswer'
  <2>1. SUFFICES ASSUME ~lost' PROVE OneAnswer'
    OBVIOUS
  <2>2. OneAnswer /\ online /\ ToldOne(Ack("server-error"))
    BY <1>2, <2>1 DEF Inv, LockOK
  <2>3. submitted /\ up = <<>> /\ ~UnlockIsDown
    BY <1>2, <2>2 DEF OneAnswer
  <2>4. PICK n \in DOMAIN down' : down'[n] = Ack("server-error")
    BY <2>2 DEF ToldOne
  <2>5. UnlockIsDown'
    BY <2>4 DEF UnlockIsDown, IsUnlock, Ack
  <2>6. \A m \in DOMAIN down' : IsUnlock(down'[m]) => m \notin DOMAIN down
    BY <2>2, <2>3 DEF ToldOne, UnlockIsDown
  <2>7. \A k, m \in DOMAIN down' : (IsUnlock(down'[k]) /\ IsUnlock(down'[m])) => k = m
    BY <2>2, <2>6 DEF ToldOne
  <2>8. up' = <<>> /\ submitted'
    BY <1>2, <1>3, <2>3
  <2>9. QED
    BY <1>1, <2>5, <2>7, <2>8 DEF OneAnswer, IsUnlock
<1>6. HandedOK'
  BY <1>1, <1>2, AnswersStay DEF Inv
<1>7. NoRefusal'
  BY <1>a DEF NoRefusal
<1>8. QED
  BY <1>2, <1>4, <1>5, <1>6, <1>7 DEF Inv, LockOK, More

-----------------------------------------------------------------------------
(* An answer reaches the server. *)

\* A frame reaches the server.
LEMMA TakesIs ==
  ASSUME Inv, NEW kind, Takes(kind), lost' \in BOOLEAN, lost => lost'
  PROVE  /\ up # <<>> /\ up[1].kind = kind /\ up' = Tail(up) /\ up[1] \in UpFrames
         /\ up[1].value \in Answers
         /\ Len(up) \in Nat /\ 1 \in DOMAIN up /\ DOMAIN up = 1..Len(up)
         /\ DOMAIN up' = 1..(Len(up) - 1) /\ Len(up') = Len(up) - 1 /\ up' \in Seq(UpFrames)
         /\ \A n \in DOMAIN up' : n + 1 \in DOMAIN up /\ up'[n] = up[n + 1]
         /\ UNCHANGED <<game, puzzle, screen, submitted, seen, online, now, window, row,
                        acked, result, faults>>
         /\ PhoneStays /\ screen # <<>> /\ online
         /\ ServerTypeOK /\ SavesFollow /\ down \in Seq(DownFrames) /\ game \in Games
<1>1. /\ up # <<>> /\ up[1].kind = kind /\ up' = Tail(up)
      /\ UNCHANGED <<game, puzzle, screen, submitted, seen, online, now, window, row,
                        acked, result, faults>>
  BY DEF Takes, phone
<1>2. /\ up \in Seq(UpFrames) /\ down \in Seq(DownFrames) /\ faults \in Nat /\ ServerTypeOK
      /\ SavesFollow /\ game \in Games
  BY DEF Inv, Base, TypeOK, PhoneTypeOK, LockOK
<1>3. /\ Tail(up) \in Seq(UpFrames) /\ Len(up) \in Nat /\ Len(up) >= 1
      /\ DOMAIN Tail(up) = 1..(Len(up) - 1) /\ DOMAIN up = 1..Len(up)
      /\ \A n \in DOMAIN Tail(up) : n + 1 \in DOMAIN up /\ Tail(up)[n] = up[n + 1]
  BY <1>1, <1>2, Dropped
<1>4. 1 \in DOMAIN up /\ Len(Tail(up)) = Len(up) - 1
  BY <1>1, <1>2, <1>3
<1>5. up[1] \in UpFrames
  BY <1>2, <1>3, <1>4, ElementOfSeq
<1>6. PhoneStays
  BY <1>1, <1>2 DEF PhoneStays
<1>7. screen # <<>> /\ online
  BY <1>1 DEF Inv, Base, ContentIsFirst, Untouched, OfflineIsSilent
<1>8. up[1].value \in Answers
  BY <1>5, UpFramesAre
<1>9. QED
  BY <1>1, <1>2, <1>3, <1>4, <1>5, <1>6, <1>7, <1>8

\* Taking an answer keeps the invariant.
LEMMA SubmitRoundKeeps ==
  ASSUME Inv, SubmitRound
  PROVE  Inv'
<1>0. Takes("submit") /\ lost' = lost /\ progress' = progress /\ lost \in BOOLEAN
  BY DEF SubmitRound, Inv, Base, TypeOK
<1>1. /\ up # <<>> /\ up[1].kind = "submit" /\ up' = Tail(up) /\ up[1] \in UpFrames
      /\ up[1].value \in Answers
      /\ Len(up) \in Nat /\ 1 \in DOMAIN up /\ DOMAIN up = 1..Len(up)
      /\ DOMAIN up' = 1..(Len(up) - 1)
      /\ UNCHANGED <<game, puzzle, screen, submitted, seen, online, now, window, row,
                     acked, result, faults>>
      /\ PhoneStays /\ screen # <<>> /\ online
      /\ ServerTypeOK /\ SavesFollow /\ down \in Seq(DownFrames) /\ game \in Games
      /\ up' \in Seq(UpFrames)
  BY <1>0, TakesIs
<1>2. PICK v : v = up[1].value
  OBVIOUS
<1>3. PICK refusal : refusal = CASE window # "open" -> "window-closed"
                                 [] ~Valid(v) -> "invalid-answer"
                                 [] taken -> "already-answered"
                                 [] OTHER -> "none"
  OBVIOUS
<1>4. /\ refusal \in {"window-closed", "invalid-answer", "already-answered", "none"}
      /\ refusal = "window-closed" => window # "open"
      /\ refusal = "invalid-answer" => ~Valid(v)
      /\ refusal = "already-answered" => taken
      /\ refusal = "none" => window = "open" /\ Valid(v) /\ ~taken
  BY <1>3
<1>5. /\ refusal # "none" => Tell(Ack(refusal)) /\ UNCHANGED <<taken, saving>>
      /\ refusal = "none" => /\ taken' = TRUE /\ UNCHANGED down
                             /\ saving' = <<[value |-> v, time |-> now, heard |-> TRUE]>>
  BY <1>2, <1>3 DEF SubmitRound
<1>6. PICK frame : frame = IF refusal = "none" THEN Ack("window-closed") ELSE Ack(refusal)
  OBVIOUS
<1>7. frame \in DownFrames /\ frame.kind = "ack"
  BY <1>4, <1>6 DEF DownFrames, Reasons, Ack
<1>8. down' = down \/ ToldOne(frame)
  BY <1>1, <1>5, <1>6, <1>7, Told
<1>9. refusal # "none" => ToldOne(frame)
  BY <1>1, <1>5, <1>6, <1>7, Told
<1>10. IsUnlock(frame) => refusal = "invalid-answer"
  BY <1>4, <1>6 DEF IsUnlock, Ack
<1>11. refusal = "none" => saving'[1] = [value |-> v, time |-> now, heard |-> TRUE]
                          /\ DOMAIN saving' = {1} /\ saving' # <<>>
  BY <1>5
<1>12. saving' \in Maybe(Saves)
  <2>1. CASE refusal = "none"
    <3>1. PICK save : save = [value |-> v, time |-> now, heard |-> TRUE]
      OBVIOUS
    <3>2. save \in Saves
      BY <1>1, <1>2, <3>1 DEF Saves, ServerTypeOK
    <3>3. QED
      BY <1>5, <2>1, <3>1, <3>2, OneMaybe
  <2>2. CASE refusal # "none"
    BY <1>1, <1>5, <2>2 DEF ServerTypeOK
  <2>3. QED
    BY <2>1, <2>2
<1>13. ServerTyped
  BY <1>0, <1>1, <1>5, <1>12 DEF ServerTyped, ServerTypeOK
<1>14. Base'
  BY <1>1, <1>7, <1>8, <1>13, BaseStays
<1>15. LightsLock' /\ LightOK' /\ FlightOK'
  BY <1>1, ScreenStays
<1>16. SavesFollow'
  <2>1. CASE refusal = "none"
    <3>1. ~acked
      BY <1>1, <1>4, <2>1 DEF SavesFollow
    <3>2. QED
      BY <1>1, <1>5, <1>11, <2>1, <3>1 DEF SavesFollow
  <2>2. CASE refusal # "none"
    BY <1>1, <1>5, <2>2 DEF SavesFollow
  <2>3. QED
    BY <2>1, <2>2
<1>17. ASSUME ~lost
       PROVE  /\ OneAnswer /\ Len(up) = 1 /\ submitted /\ ~taken /\ ~UnlockIsDown
              /\ up' = <<>>
  <2>1. OneAnswer
    BY <1>17 DEF Inv, LockOK
  <2>2. Len(up) = 1 /\ submitted /\ ~taken /\ ~UnlockIsDown
    BY <1>1, <2>1 DEF OneAnswer
  <2>3. DOMAIN up' = {}
    BY <1>1, <2>2
  <2>4. up' = <<>>
    BY <1>1, <2>3, Dropped
  <2>5. QED
    BY <2>1, <2>2, <2>4
<1>18. ~lost' => OneAnswer'
  <2>1. SUFFICES ASSUME ~lost PROVE OneAnswer'
    BY <1>0
  <2>2. OneAnswer /\ Len(up) = 1 /\ submitted /\ ~taken /\ ~UnlockIsDown /\ up' = <<>>
    BY <1>17, <2>1
  <2>3. CASE refusal = "invalid-answer"
    <3>1. ToldOne(frame) /\ IsUnlock(frame)
      BY <1>6, <1>9, <2>3 DEF IsUnlock, Ack
    <3>2. PICK n \in DOMAIN down' : down'[n] = frame
      BY <1>1, <3>1 DEF ToldOne
    <3>3. UnlockIsDown'
      BY <3>1, <3>2 DEF UnlockIsDown, IsUnlock
    <3>4. \A m \in DOMAIN down' : IsUnlock(down'[m]) => m \notin DOMAIN down
      BY <2>2, <3>1 DEF ToldOne, UnlockIsDown
    <3>5. \A k, m \in DOMAIN down' : (IsUnlock(down'[k]) /\ IsUnlock(down'[m])) => k = m
      BY <3>1, <3>4 DEF ToldOne
    <3>6. ~taken'
      BY <1>5, <2>2, <2>3
    <3>7. QED
      BY <1>1, <2>2, <3>3, <3>5, <3>6 DEF OneAnswer, IsUnlock
  <2>4. CASE refusal # "invalid-answer"
    <3>1. ~UnlockIsDown' /\ \A n \in DOMAIN down' : ~IsUnlock(down'[n])
      BY <1>8, <1>10, <2>2, <2>4, UnlocksStay DEF UnlockIsDown
    <3>2. window' = "open" => taken'
      BY <1>1, <1>4, <1>5, <2>2, <2>4
    <3>3. QED
      BY <1>1, <2>2, <3>1, <3>2 DEF OneAnswer, IsUnlock
  <2>5. QED
    BY <2>3, <2>4
<1>19. \A w : Handed(w)' = Handed(w) /\ Valid(w)' = Valid(w)
  BY <1>0, <1>1, HandedStays
<1>20. HandedOK'
  <2>1. SUFFICES ASSUME ~lost PROVE AnswersAreShown'
    BY <1>0 DEF HandedOK
  <2>2. AnswersAreShown /\ up' = <<>> /\ ~taken
    BY <1>1, <1>17, <2>1 DEF Inv, HandedOK
  <2>3. acked' => acked /\ ~taken
    BY <1>1, <2>2
  <2>4. ~acked'
    BY <1>1, <2>3 DEF SavesFollow
  <2>5. ASSUME NEW i \in DOMAIN saving' PROVE Valid(saving[i].value)' /\ Handed(saving[i].value)'
    <3>1. saving = <<>>
      BY <1>1, <2>2 DEF SavesFollow
    <3>2. refusal = "none"
      BY <1>5, <2>5, <3>1
    <3>3. Valid(v) /\ Handed(v)
      BY <1>1, <1>2, <1>4, <2>2, <3>2 DEF AnswersAreShown
    <3>4. saving'[i].value = v
      BY <1>11, <2>5, <3>2
    <3>5. Valid(v)' /\ Handed(v)'
      BY <1>19, <3>3
    <3>6. QED
      BY <3>4, <3>5
  <2>6. QED
    BY <2>2, <2>4, <2>5 DEF AnswersAreShown
<1>21. NoRefusal'
  <2>1. SUFFICES ASSUME ~lost, faults = 0 PROVE ~UnlockIsDown'
    BY <1>0, <1>1 DEF NoRefusal
  <2>2. AnswersAreShown /\ ~UnlockIsDown
    BY <1>1, <1>17, <2>1 DEF Inv, HandedOK
  <2>3. Valid(v)
    BY <1>1, <1>2, <2>1, <2>2 DEF AnswersAreShown
  <2>4. ~IsUnlock(frame)
    BY <1>4, <1>10, <2>3
  <2>5. QED
    BY <1>8, <2>2, <2>4, UnlocksStay
<1>22. SlideOK'
  <2>1. SUFFICES ASSUME game = "sliding-puzzle", ~lost, window = "open"
                 PROVE  progress # <<>> /\ progress[1].value = screen.board
    BY <1>0, <1>1, <1>17 DEF SlideOK
  <2>2. up' = <<>> /\ Len(up) = 1
    BY <1>17, <2>1
  <2>3. Last(up) = up[1]
    BY <2>2 DEF Last
  <2>4. QED
    BY <1>1, <2>1, <2>2, <2>3 DEF Inv, More, SlideOK
<1>23. WordOK'
  <2>1. SUFFICES ASSUME game = "wordle", ~lost PROVE WordOK'
    BY <1>0, <1>1 DEF WordOK
  <2>2. /\ \A n \in DOMAIN down : down[n].kind = "feedback" => WasJudged(down[n].value.words)
        /\ IsJudged(screen)
        /\ (screen.waiting /\ window = "open") =>
              \/ \E n \in DOMAIN up : up[n].kind = "progress"
              \/ \E n \in DOMAIN down : down[n].kind = "feedback"
    BY <1>1, <2>1 DEF Inv, More, WordOK
  <2>3. \A n \in DOMAIN up : n = 1
    BY <1>1, <1>17, <2>1
  <2>4. \A n \in DOMAIN up : up[n].kind = "submit"
    BY <1>1, <2>3
  <2>5. \A n \in DOMAIN down' : down'[n].kind = "feedback" => n \in DOMAIN down /\ down'[n] = down[n]
    BY <1>7, <1>8 DEF ToldOne
  <2>6. \A n \in DOMAIN down : n \in DOMAIN down' /\ down'[n] = down[n]
    BY <1>8 DEF ToldOne
  <2>7. \A n \in DOMAIN down' : down'[n].kind = "feedback" => WasJudged(down[n].value.words)'
    BY <1>0, <2>2, <2>5 DEF WasJudged
  <2>8. IsJudged(screen)'
    BY <1>0, <1>1, <2>2 DEF IsJudged, WasJudged
  <2>9. (screen'.waiting /\ window' = "open") =>
              \E n \in DOMAIN down' : down'[n].kind = "feedback"
    BY <1>1, <2>2, <2>4, <2>6
  <2>10. QED
    BY <2>7, <2>8, <2>9 DEF WordOK
<1>24. ContentOK'
  BY <1>1 DEF ContentOK
<1>25. QED
  BY <1>14, <1>15, <1>16, <1>18, <1>20, <1>21, <1>22, <1>23, <1>24 DEF Inv, LockOK, More

-----------------------------------------------------------------------------
(* Prefixes: the guesses judged before and now *)

\* A prefix is as long at most, and agrees.
LEMMA PrefixIs ==
  ASSUME NEW S, NEW s \in Seq(S), NEW t \in Seq(S)
  PROVE  IsPrefix(s, t) <=> Len(s) <= Len(t) /\ \A i \in 1..Len(s) : s[i] = t[i]
<1>1. Len(s) \in Nat /\ Len(t) \in Nat
  OBVIOUS
<1>2. SubSeq(s, 1, Len(s)) \in Seq(S) /\ Len(SubSeq(s, 1, Len(s))) = Len(s)
      /\ \A i \in 1..Len(s) : SubSeq(s, 1, Len(s))[i] = s[i]
  BY <1>1
<1>3. ASSUME Len(s) <= Len(t)
      PROVE  /\ SubSeq(t, 1, Len(s)) \in Seq(S) /\ Len(SubSeq(t, 1, Len(s))) = Len(s)
             /\ \A i \in 1..Len(s) : SubSeq(t, 1, Len(s))[i] = t[i]
  BY <1>1, <1>3
<1>4. ASSUME Len(s) <= Len(t), \A i \in 1..Len(s) : s[i] = t[i]
      PROVE  SubSeq(s, 1, Len(s)) = SubSeq(t, 1, Len(s))
  <2> DEFINE a == SubSeq(s, 1, Len(s))
             b == SubSeq(t, 1, Len(s))
  <2>1. a \in Seq(S) /\ b \in Seq(S) /\ Len(a) = Len(b)
        /\ \A i \in 1..Len(a) : a[i] = b[i]
    BY <1>2, <1>3, <1>4
  <2> HIDE DEF a, b
  <2>2. a = b
    BY <2>1, SeqEqual
  <2>3. QED
    BY <2>2 DEF a, b
<1>5. QED
  BY <1>2, <1>3, <1>4 DEF IsPrefix

LEMMA PrefixItself ==
  ASSUME NEW S, NEW s \in Seq(S)
  PROVE  IsPrefix(s, s)
<1>1. Len(s) \in Nat
  OBVIOUS
<1>2. QED
  BY <1>1, PrefixIs

LEMMA PrefixFollows ==
  ASSUME NEW S, NEW s \in Seq(S), NEW t \in Seq(S), NEW u \in Seq(S),
         IsPrefix(s, t), IsPrefix(t, u)
  PROVE  IsPrefix(s, u)
<1>1. Len(s) \in Nat /\ Len(t) \in Nat /\ Len(u) \in Nat
  OBVIOUS
<1>2. Len(s) <= Len(t) /\ \A i \in 1..Len(s) : s[i] = t[i]
  BY PrefixIs
<1>3. Len(t) <= Len(u) /\ \A i \in 1..Len(t) : t[i] = u[i]
  BY PrefixIs
<1>4. Len(s) <= Len(u) /\ \A i \in 1..Len(s) : s[i] = u[i]
  BY <1>1, <1>2, <1>3
<1>5. QED
  BY <1>4, PrefixIs

\* What was judged stays judged, unless a guess is lost.
LEMMA JudgedStays ==
  ASSUME game = "wordle", ServerTypeOK, NEW w \in Guesses, NEW t,
         progress' = <<[value |-> w, time |-> t]>>, ~Replaced(w)
  PROVE  /\ \A u \in Guesses : WasJudged(u) => WasJudged(u)'
         /\ WasJudged(w)'
<1>1. Guesses \subseteq Seq(Dictionary)
  BY DEF Guesses
<1>2. DOMAIN progress' = {1} /\ progress'[1].value = w
  OBVIOUS
<1>3. \A i \in DOMAIN progress : progress[i].value \in Guesses
  <2>1. \A i \in DOMAIN progress : progress[i] \in Snapshots
    BY MaybeOne DEF ServerTypeOK
  <2>2. QED
    BY <2>1 DEF Snapshots, Answers
<1>4. ASSUME NEW u \in Guesses, WasJudged(u) PROVE WasJudged(u)'
  <2>1. PICK i \in DOMAIN progress : IsPrefix(u, progress[i].value)
    BY <1>4 DEF WasJudged
  <2>2. IsPrefix(progress[i].value, w)
    BY DEF Replaced
  <2>3. IsPrefix(u, w)
    BY <1>1, <1>3, <2>1, <2>2, PrefixFollows
  <2>4. QED
    BY <1>2, <2>3 DEF WasJudged
<1>5. WasJudged(w)'
  BY <1>1, <1>2, PrefixItself DEF WasJudged
<1>6. QED
  BY <1>4, <1>5

\* The words of a feedback are the guesses it was asked for.
LEMMA FeedbackIs ==
  ASSUME NEW f \in Feedbacks
  PROVE  f.words \in Guesses
<1>1. PICK w \in Guesses : f = Feedback(w, puzzle)
  BY DEF Feedbacks
<1>2. QED
  BY <1>1 DEF Feedback

LEMMA FeedbackFrames ==
  ASSUME game = "wordle", down \in Seq(DownFrames), NEW n \in DOMAIN down,
         down[n].kind = "feedback"
  PROVE  down[n].value \in Feedbacks /\ down[n].value.words \in Guesses
<1>1. down[n] \in DownFrames
  <2>1. n \in 1..Len(down)
    OBVIOUS
  <2>2. QED
    BY <2>1, ElementOfSeq
<1>2. PICK f : f = down[n]
  OBVIOUS
<1>3. f \in DownFrames /\ f.kind = "feedback"
  BY <1>1, <1>2
<1>4. f.value \in Feedbacks
  BY <1>3 DEF DownFrames
<1>5. QED
  BY <1>2, <1>4, FeedbackIs

-----------------------------------------------------------------------------
(* A progress report reaches the server. *)

\* Taking a report keeps the invariant.
LEMMA UpdateProgressKeeps ==
  ASSUME Inv, UpdateProgress
  PROVE  Inv'
<1>a. game \in Games /\ lost \in BOOLEAN
  BY DEF Inv, Base, TypeOK
<1>0. Takes("progress") /\ UNCHANGED <<taken, saving>> /\ lost' \in BOOLEAN /\ (lost => lost')
  BY <1>a DEF UpdateProgress
<1>1. /\ up # <<>> /\ up[1].kind = "progress" /\ up' = Tail(up) /\ up[1] \in UpFrames
      /\ up[1].value \in Answers
      /\ Len(up) \in Nat /\ 1 \in DOMAIN up /\ DOMAIN up = 1..Len(up)
      /\ DOMAIN up' = 1..(Len(up) - 1) /\ Len(up') = Len(up) - 1
      /\ \A n \in DOMAIN up' : n + 1 \in DOMAIN up /\ up'[n] = up[n + 1]
      /\ up' \in Seq(UpFrames)
  BY <1>0, TakesIs
<1>2. /\ UNCHANGED <<game, puzzle, screen, submitted, seen, online, now, window, row,
                     acked, result, faults>>
      /\ PhoneStays /\ screen # <<>> /\ online
      /\ ServerTypeOK /\ SavesFollow /\ down \in Seq(DownFrames)
  BY <1>0, TakesIs
<1>3. PICK v \in Answers : v = up[1].value
  BY <1>1
<1>4. PICK frame : frame = IF game = "wordle" THEN [kind |-> "feedback", value |-> Feedback(v, puzzle)]
                           ELSE [kind |-> "reveal"]
  OBVIOUS
<1>5. frame \in DownFrames /\ ~IsUnlock(frame) /\ frame.kind # "content"
  <2>1. CASE game = "wordle"
    <3>1. v \in Guesses
      BY <2>1 DEF Answers
    <3>2. PICK fb : fb = Feedback(v, puzzle)
      OBVIOUS
    <3>3. fb \in Feedbacks
      BY <3>1, <3>2 DEF Feedbacks
    <3>4. frame = [kind |-> "feedback", value |-> fb]
      BY <1>4, <2>1, <3>2
    <3>5. frame \in [kind : {"feedback"}, value : IF game = "wordle" THEN Feedbacks ELSE {}]
      BY <2>1, <3>3, <3>4
    <3>6. QED
      BY <3>4, <3>5 DEF DownFrames, IsUnlock
  <2>2. CASE game # "wordle"
    BY <1>4, <2>2 DEF DownFrames, IsUnlock
  <2>3. QED
    BY <2>1, <2>2
<1>6. PICK wanted \in BOOLEAN : wanted = (window = "open" /\ ~taken /\ Valid(v))
  BY <1>2 DEF ServerTypeOK
<1>7. wanted => /\ progress' = <<[value |-> v, time |-> now]>>
                /\ IF game = "wordle" THEN Tell(frame) ELSE UNCHANGED down
                /\ lost' = (lost \/ Replaced(v))
  <2>1. ASSUME wanted
        PROVE  /\ progress' = <<[value |-> v, time |-> now]>>
               /\ IF game = "wordle" THEN Tell([kind |-> "feedback", value |-> Feedback(v, Solution)])
                  ELSE UNCHANGED down
               /\ lost' = (lost \/ Replaced(v))
    BY <1>3, <1>6, <2>1 DEF UpdateProgress
  <2>2. game = "wordle" => Solution = puzzle
    BY DEF Solution
  <2>3. QED
    BY <1>4, <2>1, <2>2
<1>8. ~wanted => UNCHANGED <<progress, down, lost>>
  BY <1>3, <1>6 DEF UpdateProgress
<1>9. down' = down \/ ToldOne(frame)
  BY <1>2, <1>5, <1>7, <1>8, Told
<1>10. (wanted /\ game = "wordle") => ToldOne(frame)
  BY <1>2, <1>5, <1>7, Told
<1>11. progress' \in Maybe(Snapshots)
  <2>1. CASE wanted
    <3>1. PICK snapshot : snapshot = [value |-> v, time |-> now]
      OBVIOUS
    <3>2. snapshot \in Snapshots
      BY <1>2, <3>1 DEF Snapshots, ServerTypeOK
    <3>3. QED
      BY <1>7, <2>1, <3>1, <3>2, OneMaybe
  <2>2. CASE ~wanted
    BY <1>2, <1>8, <2>2 DEF ServerTypeOK
  <2>3. QED
    BY <2>1, <2>2
<1>12. ServerTyped
  BY <1>0, <1>2, <1>11 DEF ServerTyped, ServerTypeOK
<1>13. Base'
  BY <1>1, <1>2, <1>5, <1>9, <1>12, BaseStays
<1>14. LightsLock' /\ LightOK' /\ FlightOK'
  BY <1>2, ScreenStays
<1>15. SavesFollow'
  BY <1>0, <1>2 DEF SavesFollow
<1>16. ASSUME ~lost PROVE OneAnswer /\ ~taken
  BY <1>1, <1>16 DEF Inv, LockOK, OneAnswer
<1>17. /\ UnlockIsDown' <=> UnlockIsDown
       /\ \A n \in DOMAIN down' : IsUnlock(down'[n]) =>
              n \in DOMAIN down /\ down'[n] = down[n]
  BY <1>5, <1>9, UnlocksStay
<1>18. ~lost' => OneAnswer'
  <2>1. SUFFICES ASSUME ~lost PROVE OneAnswer'
    BY <1>0
  <2>2. OneAnswer /\ ~taken /\ ~taken' /\ UNCHANGED submitted
    BY <1>0, <1>2, <1>16, <2>1
  <2>3. \A n \in DOMAIN up' : up'[n].kind = "submit" =>
            n = Len(up') /\ submitted' /\ ~taken' /\ ~UnlockIsDown'
    <3>1. SUFFICES ASSUME NEW n \in DOMAIN up', up'[n].kind = "submit"
                   PROVE  n = Len(up') /\ submitted' /\ ~UnlockIsDown'
      BY <2>2
    <3>2. n + 1 \in DOMAIN up /\ up[n + 1].kind = "submit"
      BY <1>1, <3>1
    <3>3. n + 1 = Len(up) /\ submitted /\ ~UnlockIsDown
      BY <2>2, <3>2 DEF OneAnswer
    <3>4. n = Len(up')
      BY <1>1, <3>3
    <3>5. QED
      BY <1>17, <2>2, <3>3, <3>4
  <2>4. \A n, m \in DOMAIN down' : IsUnlock(down'[n]) =>
            submitted' /\ (IsUnlock(down'[m]) => n = m)
    BY <1>17, <2>2 DEF OneAnswer
  <2>5. SubmitIsUp => SubmitIsUp'
    <3>1. SUFFICES ASSUME SubmitIsUp PROVE SubmitIsUp'
      OBVIOUS
    <3>2. PICK n \in DOMAIN up : up[n].kind = "submit"
      BY <3>1 DEF SubmitIsUp
    <3>3. n # 1
      BY <1>1, <3>2
    <3>4. n - 1 \in DOMAIN up' /\ (n - 1) + 1 = n
      BY <1>1, <3>2, <3>3
    <3>5. up'[n - 1] = up[n]
      BY <1>1, <3>4
    <3>6. QED
      BY <3>2, <3>4, <3>5 DEF SubmitIsUp
  <2>6. (submitted' /\ window' = "open") => SubmitIsUp' \/ taken' \/ UnlockIsDown'
    BY <1>2, <1>17, <2>2, <2>5 DEF OneAnswer
  <2>7. QED
    BY <2>2, <2>3, <2>4, <2>6 DEF OneAnswer, IsUnlock
<1>19. NoRefusal'
  BY <1>0, <1>2, <1>17 DEF Inv, More, NoRefusal
<1>20. (~lost' /\ game = "wordle") =>
            /\ \A u \in Guesses : WasJudged(u) => WasJudged(u)'
            /\ wanted => WasJudged(v)'
  <2>1. SUFFICES ASSUME ~lost', game = "wordle"
                 PROVE  /\ \A u \in Guesses : WasJudged(u) => WasJudged(u)'
                        /\ wanted => WasJudged(v)'
    OBVIOUS
  <2>2. CASE wanted
    <3>1. v \in Guesses
      BY <2>1 DEF Answers
    <3>2. ~Replaced(v) /\ progress' = <<[value |-> v, time |-> now]>>
      BY <1>7, <2>1, <2>2
    <3>3. QED
      BY <1>2, <2>1, <3>1, <3>2, JudgedStays
  <2>3. CASE ~wanted
    BY <1>8, <2>3 DEF WasJudged
  <2>4. QED
    BY <2>2, <2>3
<1>21. ~lost' => \A u \in Answers : Handed(u) => Handed(u)'
  <2>1. SUFFICES ASSUME ~lost', NEW u \in Answers, Handed(u) PROVE Handed(u)'
    OBVIOUS
  <2>2. CASE game = "wordle"
    <3>a. u \in Guesses
      BY <2>1, <2>2 DEF Answers
    <3>b. Finishes(u) /\ WasJudged(u)
      BY <2>1, <2>2 DEF Handed
    <3>1. u \in Guesses /\ Finishes(u) /\ WasJudged(u)
      BY <3>a, <3>b
    <3>2. WasJudged(u)'
      BY <1>20, <2>1, <2>2, <3>1
    <3>3. Finishes(u)'
      BY <1>2, <3>1 DEF Finishes
    <3>4. QED
      BY <1>2, <2>2, <3>2, <3>3 DEF Handed
  <2>3. CASE game # "wordle"
    <3>1. game' = game /\ screen' = screen
      BY <1>2
    <3>2. game \in {"sliding-puzzle", "light-switch", "vault-rush", "balance-scale", "bonk-air"}
      BY <1>a, <2>3, GamesAre
    <3>3. QED
      BY <2>1, <2>3, <3>1, <3>2 DEF Handed
  <2>4. QED
    BY <2>2, <2>3
<1>22. \A w : Valid(w)' = Valid(w)
  BY <1>2 DEF Valid
<1>23. HandedOK'
  <2>1. SUFFICES ASSUME ~lost' PROVE AnswersAreShown'
    BY DEF HandedOK
  <2>2. AnswersAreShown /\ ~taken
    BY <1>0, <1>2, <1>16, <2>1 DEF Inv, HandedOK
  <2>3. \A u \in Answers : Handed(u) => Handed(u)'
    BY <1>21, <2>1
  <2>4. saving' = <<>> /\ ~acked'
    BY <1>0, <1>2, <2>2 DEF SavesFollow
  <2>5. ASSUME NEW n \in DOMAIN up', up'[n].kind = "submit"
        PROVE  Handed(up[n].value)' /\ (faults' = 0 => Valid(up[n].value)')
    <3>1. n + 1 \in DOMAIN up /\ up'[n] = up[n + 1]
      BY <1>1, <2>5
    <3>2. PICK u : u = up[n + 1].value
      OBVIOUS
    <3>3. up' \in Seq(UpFrames) /\ n \in 1..Len(up')
      BY <1>1, <2>5
    <3>4. up'[n] \in UpFrames
      BY <3>3, ElementOfSeq
    <3>5. u \in Answers
      BY <3>1, <3>2, <3>4, UpFramesAre
    <3>6. Handed(u) /\ (faults = 0 => Valid(u))
      BY <2>2, <2>5, <3>1, <3>2 DEF AnswersAreShown
    <3>7. Handed(u)' /\ (faults' = 0 => Valid(u)')
      BY <1>2, <1>22, <2>3, <3>5, <3>6
    <3>8. u = up'[n].value
      BY <3>1, <3>2
    <3>9. QED
      BY <3>7, <3>8
  <2>6. QED
    BY <2>4, <2>5 DEF AnswersAreShown
<1>24. SlideOK'
  <2>1. SUFFICES ASSUME game = "sliding-puzzle", ~lost', window = "open" PROVE SlideOK'
    BY <1>2 DEF SlideOK
  <2>2. ~lost /\ ~taken /\ Valid(v)
    <3>1. ~lost
      BY <1>0, <2>1
    <3>2. v \in Boards
      BY <2>1 DEF Answers
    <3>3. QED
      BY <1>16, <2>1, <3>1, <3>2, BoardsValid
  <2>3. wanted
    BY <1>6, <2>1, <2>2
  <2>4. progress' # <<>> /\ progress'[1].value = v
    BY <1>7, <2>3
  <2>5. /\ Last(up).value = screen.board
        /\ Last(up).kind = "submit" =>
               IF Len(up) = 1 THEN progress # <<>> /\ progress[1].value = screen.board
               ELSE up[Len(up) - 1].value = screen.board
    BY <1>1, <1>2, <2>1, <2>2 DEF Inv, More, SlideOK
  <2>6. CASE Len(up) = 1
    <3>1. up' = <<>> /\ Last(up) = up[1]
      <4>1. DOMAIN up' = {}
        BY <1>1, <2>6
      <4>2. up' = <<>>
        BY <1>1, <4>1, Dropped
      <4>3. QED
        BY <2>6, <4>2 DEF Last
    <3>2. v = screen.board
      BY <1>3, <2>5, <3>1
    <3>3. QED
      BY <1>2, <2>4, <3>1, <3>2 DEF SlideOK
  <2>7. CASE Len(up) # 1
    <3>a. Len(up') # 0 /\ Len(up') \in DOMAIN up' /\ Len(up') + 1 = Len(up)
      BY <1>1, <2>7
    <3>b. up' # <<>>
      BY <3>a
    <3>1. Len(up') # 0 /\ Len(up') \in DOMAIN up' /\ up' # <<>> /\ Len(up') + 1 = Len(up)
      BY <3>a, <3>b
    <3>2. Last(up') = Last(up)
      BY <1>1, <3>1 DEF Last
    <3>3. Last(up').kind = "submit" =>
              IF Len(up') = 1 THEN v = screen.board
              ELSE up'[Len(up') - 1].value = screen.board
      <4>1. SUFFICES ASSUME Last(up).kind = "submit"
                     PROVE  IF Len(up') = 1 THEN v = screen.board
                            ELSE up'[Len(up') - 1].value = screen.board
        BY <3>2
      <4>2. up[Len(up) - 1].value = screen.board
        BY <2>5, <2>7, <4>1
      <4>3. CASE Len(up') = 1
        <5>1. Len(up) - 1 = 1
          BY <1>1, <4>3
        <5>2. QED
          BY <1>3, <4>2, <4>3, <5>1
      <4>4. CASE Len(up') # 1
        <5>1. Len(up') - 1 \in DOMAIN up' /\ (Len(up') - 1) + 1 = Len(up) - 1
          BY <1>1, <3>1, <4>4
        <5>2. up'[Len(up') - 1] = up[Len(up) - 1]
          BY <1>1, <5>1
        <5>3. QED
          BY <4>2, <4>4, <5>2
      <4>5. QED
        BY <4>3, <4>4
    <3>4. QED
      BY <1>2, <2>4, <2>5, <3>1, <3>2, <3>3 DEF SlideOK
  <2>8. QED
    BY <2>6, <2>7
<1>25. WordOK'
  <2>1. SUFFICES ASSUME game = "wordle", ~lost' PROVE WordOK'
    BY <1>2 DEF WordOK
  <2>2. /\ \A n \in DOMAIN down : down[n].kind = "feedback" => WasJudged(down[n].value.words)
        /\ IsJudged(screen)
    BY <1>0, <1>2, <2>1 DEF Inv, More, WordOK
  <2>3. \A u \in Guesses : WasJudged(u) => WasJudged(u)'
    BY <1>20, <2>1
  <2>4. v \in Guesses
    BY <2>1 DEF Answers
  <2>5. frame.kind = "feedback" /\ frame.value.words = v
    BY <1>4, <2>1 DEF Feedback
  <2>6. ASSUME NEW n \in DOMAIN down', down'[n].kind = "feedback"
        PROVE  WasJudged(down[n].value.words)'
    <3>1. CASE n \in DOMAIN down /\ down'[n] = down[n]
      <4>1. PICK u : u = down[n].value.words
        OBVIOUS
      <4>2. u \in Guesses
        BY <1>2, <2>1, <2>6, <3>1, <4>1, FeedbackFrames
      <4>3. WasJudged(u)
        BY <2>2, <2>6, <3>1, <4>1
      <4>4. WasJudged(u)' /\ u = down'[n].value.words
        BY <2>3, <3>1, <4>1, <4>2, <4>3
      <4>5. QED
        BY <4>4
    <3>2. CASE n \notin DOMAIN down
      <4>a. wanted
        BY <1>8, <2>6, <3>2
      <4>b. down'[n] = frame
        BY <1>9, <2>6, <3>2 DEF ToldOne
      <4>1. wanted /\ down'[n] = frame
        BY <4>a, <4>b
      <4>2. WasJudged(v)' /\ v = down'[n].value.words
        BY <1>20, <2>1, <2>5, <4>1
      <4>3. QED
        BY <4>2
    <3>3. QED
      BY <1>9, <2>6, <3>1, <3>2 DEF ToldOne
  <2>7. IsJudged(screen)'
    <3>1. screen \in WordScreens
      BY <1>2, <2>1 DEF Inv, Base, TypeOK, PhoneTypeOK, ScreenOK
    <3>3. \A f \in DOMAIN screen.feedback : screen.feedback[f].words \in Guesses
      <4>1. screen.feedback \in Maybe(Feedbacks)
        BY <3>1 DEF WordScreens
      <4>2. \A f \in DOMAIN screen.feedback : screen.feedback[f] \in Feedbacks
        BY <4>1, MaybeOne
      <4>3. QED
        BY <4>2, FeedbackIs
    <3>4. \A f \in DOMAIN screen.feedback : WasJudged(screen.feedback[f].words)
      BY <2>2 DEF IsJudged
    <3>5. ASSUME NEW f \in DOMAIN screen.feedback PROVE WasJudged(screen.feedback[f].words)'
      <4>1. PICK u : u = screen.feedback[f].words
        OBVIOUS
      <4>2. WasJudged(u)'
        BY <2>3, <3>3, <3>4, <3>5, <4>1
      <4>3. u = screen'.feedback[f].words
        BY <1>2, <4>1
      <4>4. QED
        BY <4>2, <4>3
    <3>6. QED
      BY <1>2, <3>5 DEF IsJudged
  <2>8. window = "open" => \E n \in DOMAIN down' : down'[n].kind = "feedback"
    <3>1. SUFFICES ASSUME window = "open" PROVE \E n \in DOMAIN down' : down'[n].kind = "feedback"
      OBVIOUS
    <3>2. ~taken /\ Valid(v)
      BY <1>0, <1>16, <2>1, <2>4, GuessesValid
    <3>3. wanted
      BY <1>6, <3>1, <3>2
    <3>4. QED
      BY <1>2, <1>10, <2>1, <2>5, <3>3 DEF ToldOne
  <2>9. QED
    BY <1>2, <2>6, <2>7, <2>8 DEF WordOK
<1>26. ContentOK'
  BY <1>2 DEF ContentOK
<1>27. QED
  BY <1>13, <1>14, <1>15, <1>18, <1>19, <1>23, <1>24, <1>25, <1>26 DEF Inv, LockOK, More

-----------------------------------------------------------------------------
(* The invariant *)

\* A lost connection keeps the invariant.
LEMMA DropKeeps ==
  ASSUME Inv, Drop
  PROVE  Inv'
<1>1. /\ online /\ screen # <<>> /\ online' = FALSE /\ faults' = faults + 1
      /\ down' = <<>> /\ up' = <<>> /\ lost' = (lost \/ up # <<>> \/ down # <<>>)
      /\ saving' = [i \in DOMAIN saving |-> [saving[i] EXCEPT !.heard = FALSE]]
      /\ screen' = IF game = "wordle" /\ screen.feedback # <<>>
                   THEN Refreshed(screen) ELSE screen
      /\ UNCHANGED <<game, puzzle, submitted, seen, now, window, progress, taken,
                     row, acked, result>>
  BY DEF Drop
<1>2. /\ game \in Games /\ PuzzleOK /\ PhoneTypeOK /\ ServerTypeOK /\ SavesFollow
      /\ lost \in BOOLEAN /\ faults \in Nat /\ ScreenOK(screen)
  BY <1>1 DEF Inv, Base, TypeOK, PhoneTypeOK, LockOK
<1>3. faults' \in Nat /\ faults' # 0
  BY <1>1, <1>2
<1>4. lost' \in BOOLEAN /\ (lost => lost') /\ (~lost' => ~lost /\ up = <<>> /\ down = <<>>)
  BY <1>1, <1>2
<1>5. game = "wordle" => /\ screen \in WordScreens /\ screen' \in WordScreens
                         /\ screen'.feedback = screen.feedback
                         /\ screen'.waiting => screen.waiting
  <2>1. SUFFICES ASSUME game = "wordle"
                 PROVE  /\ screen \in WordScreens /\ screen' \in WordScreens
                        /\ screen'.feedback = screen.feedback
                        /\ screen'.waiting => screen.waiting
    OBVIOUS
  <2>2. screen \in WordScreens
    BY <1>2, <2>1 DEF ScreenOK
  <2>3. CASE screen.feedback # <<>>
    <3>1. screen' = Refreshed(screen)
      BY <1>1, <2>1, <2>3
    <3>2. QED
      BY <2>2, <2>3, <3>1, RefreshedTyped
  <2>4. CASE screen.feedback = <<>>
    BY <1>1, <2>2, <2>4
  <2>5. QED
    BY <2>3, <2>4
<1>6. game # "wordle" => screen' = screen
  BY <1>1
<1>7. ScreenOK(screen') /\ screen' # <<>>
  <2>1. CASE game = "wordle"
    <3>1. ScreenOK(screen')
      BY <1>5, <2>1 DEF ScreenOK
    <3>2. DOMAIN screen' # {}
      BY <1>5, <2>1 DEF WordScreens
    <3>3. QED
      BY <3>1, <3>2
  <2>2. CASE game # "wordle"
    BY <1>1, <1>2, <1>6, <2>2
  <2>3. QED
    BY <2>1, <2>2
<1>8. /\ DOMAIN saving' = DOMAIN saving
      /\ \A i \in DOMAIN saving' : ~saving'[i].heard /\ saving'[i].value = saving[i].value
      /\ saving' \in Maybe(Saves) /\ (saving' = <<>>) = (saving = <<>>)
  <2>1. CASE saving = <<>>
    <3>1. DOMAIN saving = {} /\ saving' = <<>>
      BY <1>1, <2>1
    <3>2. <<>> \in Maybe(Saves)
      BY DEF Maybe
    <3>3. QED
      BY <2>1, <3>1, <3>2
  <2>2. CASE saving # <<>>
    <3>1. saving[1] \in Saves /\ saving = <<saving[1]>> /\ DOMAIN saving = {1}
      BY <1>2, <2>2, MaybeOne DEF ServerTypeOK
    <3>2. PICK saved \in Saves : saved = saving[1]
      BY <3>1
    <3>3. PICK unheard : unheard = [saved EXCEPT !.heard = FALSE]
      OBVIOUS
    <3>4. unheard \in Saves /\ ~unheard.heard /\ unheard.value = saved.value
      BY <3>3 DEF Saves
    <3>5. saving' = [i \in {1} |-> unheard]
      BY <1>1, <3>1, <3>2, <3>3
    <3>6. saving' = <<unheard>>
      BY <3>5
    <3>7. saving' \in Maybe(Saves) /\ saving' # <<>> /\ saving'[1] = unheard /\ DOMAIN saving' = {1}
      BY <3>4, <3>6, OneMaybe
    <3>8. QED
      BY <2>2, <3>1, <3>2, <3>4, <3>7
  <2>3. QED
    BY <2>1, <2>2
<1>9. Base'
  <2>1. /\ UpFrames' = UpFrames /\ DownFrames' = DownFrames
        /\ Snapshots' = Snapshots /\ Saves' = Saves /\ PuzzleOK' /\ ScreenOK(screen)'
    BY <1>1, <1>2, <1>7, SameRound
  <2>b. up' = <<>> /\ online' = FALSE
    BY <1>1
  <2>c. <<>> \in Seq(UpFrames)
    OBVIOUS
  <2>a. up' \in Seq(UpFrames) /\ online' \in BOOLEAN
    BY <2>b, <2>c
  <2>2. PhoneTypeOK'
    BY <1>1, <1>2, <2>1, <2>a DEF PhoneTypeOK
  <2>3. ServerTypeOK'
    BY <1>1, <1>2, <1>8, <2>1 DEF ServerTypeOK, Maybe
  <2>4. TypeOK'
    BY <1>1, <1>2, <1>3, <1>4, <2>1, <2>2, <2>3 DEF TypeOK
  <2>5. DOMAIN down' = {}
    BY <1>1
  <2>6. ContentIsFirst' /\ OfflineIsSilent'
    BY <1>1, <1>7, <1>8, <2>5 DEF ContentIsFirst, OfflineIsSilent
  <2>7. QED
    BY <2>4, <2>6 DEF Base
<1>10. SavesFollow'
  BY <1>1, <1>2, <1>8 DEF SavesFollow
<1>11. DOMAIN up' = {} /\ DOMAIN down' = {}
  BY <1>1
<1>12. ~lost' => OneAnswer'
  <2>1. SUFFICES ASSUME ~lost' PROVE OneAnswer'
    OBVIOUS
  <2>2. OneAnswer /\ up = <<>> /\ down = <<>>
    BY <1>4, <2>1 DEF Inv, LockOK
  <2>3. ~SubmitIsUp /\ ~UnlockIsDown
    BY <2>2 DEF SubmitIsUp, UnlockIsDown
  <2>4. ~UnlockIsDown'
    BY <1>11 DEF UnlockIsDown
  <2>5. QED
    BY <1>1, <1>11, <2>2, <2>3, <2>4 DEF OneAnswer
<1>13. LightsLock'
  BY <1>1, <1>6 DEF Inv, LockOK, LightsLock
<1>14. HandedOK'
  <2>1. SUFFICES ASSUME ~lost' PROVE AnswersAreShown'
    BY DEF HandedOK
  <2>2. AnswersAreShown
    BY <1>1, <1>4, <2>1 DEF Inv, HandedOK
  <2>3. \A v : Handed(v) => Handed(v)'
    <3>1. CASE game = "wordle"
      BY <1>1, <3>1 DEF Handed, Finishes, WasJudged
    <3>2. CASE game # "wordle"
      BY <1>1, <1>6, <3>2 DEF Handed, Finishes, WasJudged
    <3>3. QED
      BY <3>1, <3>2
  <2>4. \A v : Valid(v)' = Valid(v)
    BY <1>1 DEF Valid
  <2>5. ASSUME NEW i \in DOMAIN saving'
        PROVE  Valid(saving[i].value)' /\ Handed(saving[i].value)'
    <3>1. PICK v : v = saving[i].value
      OBVIOUS
    <3>2. Valid(v) /\ Handed(v) /\ v = saving'[i].value
      BY <1>8, <2>2, <2>5, <3>1 DEF AnswersAreShown
    <3>3. Valid(v)' /\ Handed(v)'
      BY <2>3, <2>4, <3>2
    <3>4. QED
      BY <3>2, <3>3
  <2>6. acked' => Valid(row[1].value)' /\ Handed(row[1].value)'
    <3>1. PICK v : v = row[1].value
      OBVIOUS
    <3>2. acked' => Valid(v) /\ Handed(v) /\ v = row'[1].value
      BY <1>1, <2>2, <3>1 DEF AnswersAreShown
    <3>3. acked' => Valid(v)' /\ Handed(v)'
      BY <2>3, <2>4, <3>2
    <3>4. QED
      BY <3>2, <3>3
  <2>7. QED
    BY <1>11, <2>5, <2>6 DEF AnswersAreShown
<1>15. NoRefusal' /\ ContentOK'
  BY <1>3, <1>7 DEF NoRefusal, ContentOK
<1>16. SlideOK'
  BY <1>1, <1>4, <1>6 DEF Inv, More, SlideOK
<1>17. LightOK'
  BY <1>1, <1>3, <1>6 DEF Inv, More, LightOK
<1>18. WordOK'
  <2>1. SUFFICES ASSUME game = "wordle", ~lost' PROVE WordOK'
    BY <1>1 DEF WordOK
  <2>2. IsJudged(screen) /\ ~(screen.waiting /\ window = "open")
    <3>1. DOMAIN up = {} /\ DOMAIN down = {}
      BY <1>4, <2>1
    <3>2. QED
      BY <1>1, <1>4, <2>1, <3>1 DEF Inv, More, WordOK
  <2>3. IsJudged(screen)'
    BY <1>1, <1>5, <2>1, <2>2 DEF IsJudged, WasJudged
  <2>4. QED
    BY <1>1, <1>5, <1>11, <2>1, <2>2, <2>3 DEF WordOK
<1>19. FlightOK'
  BY <1>1, <1>3, <1>6 DEF Inv, More, FlightOK, Planned, PlanIsKnown, Flying
<1>20. QED
  BY <1>9, <1>10, <1>12, <1>13, <1>14, <1>15, <1>16, <1>17, <1>18, <1>19
     DEF Inv, LockOK, More

LEMMA InitHolds == Init => Inv
<1>1. SUFFICES ASSUME Init PROVE Inv
  OBVIOUS
<1>2. PICK g \in Games : Deal(g)
  BY <1>1 DEF Init
<1>3. game \in Games /\ puzzle \in Puzzles(game) /\ screen = <<>> /\ seen = "playing"
      /\ online = TRUE
  BY <1>2 DEF Deal
<1>4. /\ submitted = FALSE /\ up = <<>> /\ now = 0 /\ window = "open"
      /\ progress = <<>> /\ taken = FALSE /\ saving = <<>>
      /\ row = <<>> /\ acked = FALSE /\ lost = FALSE
  BY <1>1 DEF Init
<1>5. down = <<>> \/ \E c \in Contents(g) : down = <<c>>
  BY <1>2 DEF Deal
<1>6. Contents(g) \subseteq [kind : {"content"}, left : Nat, isStale : BOOLEAN]
  <2>1. PICK lefts : lefts = IF g = "bonk-air" THEN {0, 1} ELSE {0}
    OBVIOUS
  <2>2. PICK stales : stales = IF g = "bonk-air" /\ MaxFaults(g) > 0 THEN BOOLEAN ELSE {FALSE}
    OBVIOUS
  <2>3. Contents(g) = {[kind |-> "content", left |-> left, isStale |-> isStale] :
                           left \in lefts, isStale \in stales}
    BY <2>1, <2>2 DEF Contents
  <2>4. lefts \subseteq Nat
    BY <2>1
  <2>5. stales \subseteq BOOLEAN
    BY <2>2
  <2>6. QED
    BY <2>3, <2>4, <2>5
<1>7. down \in Seq(DownFrames)
      /\ \A n \in DOMAIN down : n = 1 /\ down[n].kind = "content"
  <2>1. CASE down = <<>>
    BY <2>1
  <2>2. CASE \E c \in Contents(g) : down = <<c>>
    <3>1. PICK c \in Contents(g) : down = <<c>>
      BY <2>2
    <3>2. c \in DownFrames /\ c.kind = "content"
      BY <1>6 DEF DownFrames
    <3>3. QED
      BY <3>1, <3>2
  <2>3. QED
    BY <1>5, <2>1, <2>2
<1>8. PuzzleOK
  BY <1>3, PuzzleDealt
<1>9. faults \in Nat /\ (down # <<>> /\ down[1].isStale => faults = 1)
  BY <1>2 DEF Deal
<1>10. <<>> \in Maybe(Snapshots) /\ <<>> \in Maybe(Saves) /\ 0 \in Times
  BY TimeLimitAssumption DEF Maybe, Times
<1>11. TypeOK
  <2>1. up \in Seq(UpFrames)
    BY <1>4
  <2>2. PhoneTypeOK
    BY <1>3, <1>4, <2>1 DEF PhoneTypeOK
  <2>3. ServerTypeOK
    BY <1>4, <1>10 DEF ServerTypeOK
  <2>4. QED
    BY <1>3, <1>4, <1>7, <1>8, <1>9, <2>2, <2>3 DEF TypeOK
<1>12. ContentIsFirst
  BY <1>3, <1>4, <1>7 DEF ContentIsFirst, Untouched
<1>13. \A n \in DOMAIN down : ~IsUnlock(down[n])
  BY <1>7 DEF IsUnlock
<1>14. ~UnlockIsDown
  BY <1>13 DEF UnlockIsDown
<1>15. OneAnswer
  BY <1>4, <1>13, <1>14 DEF OneAnswer
<1>16. LockOK
  BY <1>3, <1>4, <1>15 DEF LockOK, SavesFollow, LightsLock
<1>17. HandedOK /\ OfflineIsSilent
  BY <1>3 DEF HandedOK, OfflineIsSilent
<1>18. ContentOK
  BY <1>9 DEF ContentOK
<1>19. More
  BY <1>3, <1>14, <1>18 DEF More, NoRefusal, SlideOK, LightOK, WordOK, FlightOK
<1>20. QED
  BY <1>11, <1>12, <1>16, <1>17, <1>19 DEF Inv, Base

LEMMA StuttersKeep ==
  ASSUME Inv, UNCHANGED vars
  PROVE  Inv'
<1>1. /\ UNCHANGED <<game, puzzle, screen, submitted, seen, online, up, down, now, window,
                     progress, taken, saving, row, acked, result, lost, turns, faults>>
  BY DEF vars, phone, server
<1>2. /\ game \in Games /\ down \in Seq(DownFrames) /\ lost \in BOOLEAN /\ faults \in Nat
      /\ ServerTypeOK /\ PhoneTypeOK /\ PuzzleOK
  BY DEF Inv, Base, TypeOK
<1>3. PhoneStays
  BY <1>1, <1>2 DEF PhoneStays
<1>4. PICK frame : frame = [kind |-> "reveal"]
  OBVIOUS
<1>5. frame \in DownFrames /\ frame.kind = "reveal" /\ ~IsUnlock(frame)
  BY <1>4 DEF DownFrames, IsUnlock
<1>6. ServerTyped
  BY <1>1, <1>2 DEF ServerTyped, ServerTypeOK
<1>7. screen # <<>> \/ Untouched'
  BY <1>1 DEF Inv, Base, ContentIsFirst, Untouched
<1>8. ~online => \A i \in DOMAIN saving' : ~saving'[i].heard
  BY <1>1 DEF Inv, Base, OfflineIsSilent
<1>9. Base'
  BY <1>1, <1>3, <1>5, <1>6, <1>7, <1>8, BaseStays
<1>10. SlideOK' /\ WordOK' /\ ContentOK'
  BY <1>1, <1>3, <1>5, OthersStay
<1>11. LightsLock' /\ LightOK' /\ FlightOK'
  BY <1>3, ScreenStays
<1>12. HandedOK'
  BY <1>1, <1>3, AnswersStay DEF Inv
<1>13. SavesFollow'
  BY <1>1 DEF Inv, LockOK, SavesFollow
<1>14. ~lost' => OneAnswer'
  BY <1>1, <1>5, AnswerStays DEF Inv, LockOK
<1>15. NoRefusal'
  BY <1>1, <1>5, UnlocksStay DEF Inv, More, NoRefusal
<1>16. QED
  BY <1>9, <1>10, <1>11, <1>12, <1>13, <1>14, <1>15 DEF Inv, LockOK, More

\* Every step keeps the invariant.
LEMMA NextKeeps ==
  ASSUME Inv, [Next]_vars
  PROVE  Inv'
<1>1. CASE Play
  BY <1>1, PlayKeeps
<1>2. CASE Arrive
  BY <1>2, ShowContentKeeps, TickArrivesKeeps, FeedbackArrivesKeeps, AckArrivesKeeps,
     RevealArrivesKeeps DEF Arrive
<1>3. CASE Serve
  BY <1>3, UpdateProgressKeeps, SubmitRoundKeeps, SaveRowKeeps, SaveTwiceKeeps DEF Serve
<1>4. CASE SaveFails
  BY <1>4, SaveFailsKeeps
<1>5. CASE Tick
  BY <1>5, TickKeeps
<1>6. CASE CloseWindow
  BY <1>6, CloseWindowKeeps
<1>7. CASE Drop
  BY <1>7, DropKeeps
<1>8. CASE Reopen
  BY <1>8, ReopenKeeps
<1>9. CASE Over
  BY <1>9, StuttersKeep DEF Over
<1>10. CASE UNCHANGED vars
  BY <1>10, StuttersKeep
<1>11. QED
  BY <1>1, <1>2, <1>3, <1>4, <1>5, <1>6, <1>7, <1>8, <1>9, <1>10 DEF Next

\* The inductive invariant: the frames, the screen, the rows and the puzzle are
\* what the handlers of the game expect, a phone has one answer under way, and the
\* answer it handed in is the one it shows.
THEOREM InvCorrect == Spec => []Inv
<1>1. Init => Inv
  BY InitHolds
<1>2. Inv /\ [Next]_vars => Inv'
  BY NextKeeps
<1>3. QED
  BY <1>1, <1>2, PTL DEF Spec

-----------------------------------------------------------------------------
(* What the invariant means for the properties *)

LEMMA KeyboardFollows == Inv => KeyboardIsFreed
<1>1. SUFFICES ASSUME Inv, Waits, window = "open", ~lost PROVE up # <<>> \/ down # <<>>
  BY DEF KeyboardIsFreed
<1>2. game = "wordle" /\ screen # <<>> /\ screen.waiting
  BY <1>1 DEF Waits
<1>3. \/ \E n \in DOMAIN up : up[n].kind = "progress"
      \/ \E n \in DOMAIN down : down[n].kind = "feedback"
  BY <1>1, <1>2 DEF Inv, More, WordOK
<1>4. DOMAIN up # {} \/ DOMAIN down # {}
  BY <1>3
<1>5. QED
  BY <1>4

\* After every step a keyboard that waits for its feedback still has something to
\* wait for (GuessTheWord.tsx): a report on its way up, or the feedback or a tick on
\* its way down.
THEOREM KeyboardIsFreedCorrect == Spec => []KeyboardIsFreed
<1>1. Inv => KeyboardIsFreed
  BY KeyboardFollows
<1>2. QED
  BY <1>1, InvCorrect, PTL

LEMMA RoutesFollow == Inv => RoutesAreFlyable
<1>1. SUFFICES ASSUME Inv, IF game = "bonk-air" THEN screen # <<>> ELSE FALSE,
                      NEW i \in DOMAIN screen.paths
               PROVE  LET path == screen.paths[i]
                      IN  /\ path.cells[1] = puzzle.planes[i].spawn
                          /\ \A n \in 2..Len(path.cells) :
                                path.cells[n] \in Around(path.cells[n - 1]) \ {path.cells[n - 1]}
                          /\ path.complete => Last(path.cells) = puzzle.planes[i].goal
  BY DEF RoutesAreFlyable
<1>2. game = "bonk-air" /\ screen # <<>>
  BY <1>1
<1>3. IsRoute(i, screen.paths[i])
  BY <1>1, <1>2, FlightIs
<1>4. QED
  BY <1>3 DEF IsRoute

\* Whatever is drawn, in whatever order of strokes, the routes start at their
\* planes, go on from cell to cell, and end at the target if they are complete
\* (onPointerMove(), finishStroke()).
THEOREM RoutesAreFlyableCorrect == Spec => []RoutesAreFlyable
<1>1. Inv => RoutesAreFlyable
  BY RoutesFollow
<1>2. QED
  BY <1>1, InvCorrect, PTL

-----------------------------------------------------------------------------
(* Who has won is paid. *)

\* What GameState() says of the guesses
LEMMA StateIs ==
  ASSUME NEW S, NEW w \in Seq(S), w # <<>>, NEW a
  PROVE  /\ GameState(w, a) = "solved" <=> Contains(w, a)
         /\ GameState(w, a) = "failed" => Len(w) >= MaxTries
<1>1. CASE Contains(w, a)
  <2>1. GameState(w, a) = "solved"
    BY <1>1 DEF GameState
  <2>2. QED
    BY <1>1, <2>1
<1>2. CASE ~Contains(w, a)
  <2>1. GameState(w, a) = IF Len(w) >= MaxTries THEN "failed" ELSE "playing"
    BY <1>2 DEF GameState
  <2>2. QED
    BY <1>2, <2>1
<1>3. QED
  BY <1>1, <1>2

LEMMA PrefixContains ==
  ASSUME NEW S, NEW s \in Seq(S), NEW t \in Seq(S), IsPrefix(s, t), NEW a, Contains(s, a)
  PROVE  Contains(t, a)
<1>1. Len(s) <= Len(t) /\ \A i \in 1..Len(s) : s[i] = t[i]
  BY PrefixIs
<1>2. Len(s) \in Nat /\ Len(t) \in Nat
  OBVIOUS
<1>3. PICK i \in 1..Len(s) : s[i] = a
  BY DEF Contains
<1>4. i \in 1..Len(t) /\ t[i] = a
  BY <1>1, <1>2, <1>3
<1>5. QED
  BY <1>4 DEF Contains

LEMMA PrefixWhole ==
  ASSUME NEW S, NEW s \in Seq(S), NEW t \in Seq(S), IsPrefix(s, t), Len(t) <= Len(s)
  PROVE  s = t
<1>1. Len(s) <= Len(t) /\ \A i \in 1..Len(s) : s[i] = t[i]
  BY PrefixIs
<1>2. Len(s) = Len(t)
  BY <1>1
<1>3. QED
  BY <1>1, <1>2, SeqEqual

\* A phone that has settled has nothing under way.
LEMMA SettledIs ==
  ASSUME Inv, screen # <<>>, window = "open", Settled
  PROVE  /\ up = <<>> /\ down = <<>> /\ saving = <<>> /\ ~lost
         /\ submitted => row # <<>>
         /\ taken <=> row # <<>>
         /\ row # <<>> => Valid(row[1].value) /\ Handed(row[1].value)
         /\ row \in Maybe(Snapshots) /\ progress \in Maybe(Snapshots)
<1>1. up = <<>> /\ down = <<>> /\ saving = <<>> /\ ~lost /\ (row # <<>> => acked)
  BY DEF Settled
<1>2. ~SubmitIsUp /\ ~UnlockIsDown
  BY <1>1 DEF SubmitIsUp, UnlockIsDown
<1>3. submitted => taken
  BY <1>1, <1>2 DEF Inv, LockOK, OneAnswer
<1>4. (taken => row # <<>>) /\ (acked => taken)
  BY <1>1 DEF Inv, LockOK, SavesFollow
<1>5. acked => Valid(row[1].value) /\ Handed(row[1].value)
  BY <1>1 DEF Inv, HandedOK, AnswersAreShown
<1>6. row \in Maybe(Snapshots) /\ progress \in Maybe(Snapshots)
  BY DEF Inv, Base, TypeOK, ServerTypeOK
<1>7. QED
  BY <1>1, <1>3, <1>4, <1>5, <1>6

-----------------------------------------------------------------------------
(* Each game pays for what its phone shows as won. *)

\* The row the round is scored by.
Kept == IF taken \/ row # <<>> THEN row ELSE progress

LEMMA SliderIsPaid ==
  ASSUME Inv, screen # <<>>, window = "open", Settled, game = "sliding-puzzle",
         IsSolvedBoard(screen.board)
  PROVE  Scored(Kept).isCorrect
<1>1. screen.board = SolvedBoard
  BY DEF IsSolvedBoard
<1>2. CASE row # <<>>
  <2>1. row[1].value = SolvedBoard
    BY <1>2, SettledIs DEF Handed
  <2>2. Kept = row
    BY <1>2 DEF Kept
  <2>3. QED
    BY <1>2, <2>1, <2>2 DEF Scored, Score, ScoreBoard, Result, IsSolvedBoard
<1>3. CASE row = <<>>
  <2>1. progress # <<>> /\ progress[1].value = screen.board
    BY SettledIs DEF Inv, More, SlideOK
  <2>2. Kept = progress
    BY <1>3, SettledIs DEF Kept
  <2>3. QED
    BY <1>1, <2>1, <2>2 DEF Scored, Score, ScoreBoard, Result, IsSolvedBoard
<1>4. QED
  BY <1>2, <1>3

LEMMA LightsArePaid ==
  ASSUME Inv, screen # <<>>, window = "open", Settled, game = "light-switch",
         screen.isSolved, faults = 0
  PROVE  Scored(Kept).isCorrect
<1>1. /\ screen.lights = ApplyAll(puzzle.lights, puzzle.wiring, screen.pressed)
      /\ AllOn(screen.lights) /\ submitted
  BY SettledIs DEF Inv, More, LightOK, AllOn
<1>2. row # <<>> /\ Handed(row[1].value)
  BY <1>1, SettledIs
<1>3. row[1].value = screen.pressed
  BY <1>2 DEF Handed
<1>4. Kept = row
  BY <1>2 DEF Kept
<1>5. QED
  BY <1>1, <1>2, <1>3, <1>4 DEF Scored, Score, ScorePresses, Result

LEMMA VaultIsPaid ==
  ASSUME Inv, screen # <<>>, window = "open", Settled, game = "vault-rush",
         submitted, screen.code = Solution
  PROVE  Scored(Kept).isCorrect
<1>1. row # <<>> /\ Handed(row[1].value)
  BY SettledIs
<1>2. row[1].value = Solution
  BY <1>1 DEF Handed
<1>3. Kept = row
  BY <1>1 DEF Kept
<1> HIDE DEF Solution
<1>4. QED
  BY <1>1, <1>2, <1>3 DEF Scored, Score, ScoreCode, Result

LEMMA ScaleIsPaid ==
  ASSUME Inv, screen # <<>>, window = "open", Settled, game = "balance-scale",
         submitted, screen.selected = Solution
  PROVE  Scored(Kept).isCorrect
<1>1. row # <<>> /\ Handed(row[1].value)
  BY SettledIs
<1>2. row[1].value = Solution
  BY <1>1 DEF Handed
<1>3. Kept = row
  BY <1>1 DEF Kept
<1>4. QED
  BY <1>1, <1>2, <1>3 DEF Scored, Score, ScoreOption, Result

LEMMA WordIsPaid ==
  ASSUME Inv, screen # <<>>, window = "open", Settled, game = "wordle",
         NEW f \in DOMAIN screen.feedback, screen.feedback[f].phase = "solved"
  PROVE  Scored(Kept).isCorrect
<1>1. Solution = puzzle
  BY DEF Solution
<1>2. PICK w \in Guesses : screen.feedback[f] = Feedback(w, puzzle)
  <2>1. screen.feedback \in Maybe(Feedbacks)
    BY DEF Inv, Base, TypeOK, PhoneTypeOK, ScreenOK, WordScreens
  <2>2. screen.feedback[f] \in Feedbacks
    BY <2>1, MaybeOne
  <2>3. QED
    BY <2>2 DEF Feedbacks
<1>3. screen.feedback[f].words = w /\ GameState(w, puzzle) = "solved"
  BY <1>2 DEF Feedback
<1>4. \A u \in Guesses : u \in Seq(Dictionary) /\ u # <<>> /\ Len(u) <= MaxTries /\ Len(u) \in Nat
  <2>1. MaxTries \in Nat
    BY DictionaryAssumption
  <2>2. QED
    BY <2>1 DEF Guesses
<1>5. Contains(w, puzzle)
  BY <1>3, <1>4, StateIs
<1>6. PICK i \in DOMAIN progress : IsPrefix(w, progress[i].value)
  BY <1>3, SettledIs DEF Inv, More, WordOK, IsJudged, WasJudged
<1>7. progress # <<>> /\ i = 1 /\ progress[1] \in Snapshots
  BY <1>6, SettledIs, MaybeOne
<1> DEFINE p == progress[1].value
<1>8. p \in Guesses
  BY <1>7 DEF Snapshots, Answers
<1>9. Contains(p, puzzle)
  BY <1>4, <1>5, <1>6, <1>7, <1>8, PrefixContains
<1>10. CASE row = <<>>
  <2>1. Kept = progress
    BY <1>10, SettledIs DEF Kept
  <2>2. GameState(p, puzzle) = "solved"
    BY <1>4, <1>8, <1>9, StateIs
  <2>3. QED
    BY <1>1, <1>7, <2>1, <2>2 DEF Scored, Score, ScoreGuesses, Result
<1>11. CASE row # <<>>
  <2> DEFINE v == row[1].value
  <2>1. Finishes(v) /\ WasJudged(v)
    BY <1>11, SettledIs DEF Handed
  <2>2. v \in Guesses
    <3>1. row[1] \in Snapshots
      BY <1>11, SettledIs, MaybeOne
    <3>2. QED
      BY <3>1 DEF Snapshots, Answers
  <2>3. IsPrefix(v, p)
    <3>1. PICK j \in DOMAIN progress : IsPrefix(v, progress[j].value)
      BY <2>1 DEF WasJudged
    <3>2. j = 1
      BY <1>7, <3>1, SettledIs, MaybeOne
    <3>3. QED
      BY <3>1, <3>2
  <2> HIDE DEF v, p
  <2>4. GameState(v, puzzle) = "solved"
    <3>1. CASE GameState(v, puzzle) = "failed"
      <4>1. Len(v) >= MaxTries
        BY <1>4, <2>2, <3>1, StateIs
      <4>2. Len(p) <= Len(v)
        <5>1. MaxTries \in Nat /\ Len(p) \in Nat /\ Len(v) \in Nat /\ Len(p) <= MaxTries
          BY <1>4, <1>8, <2>2, DictionaryAssumption
        <5>2. QED
          BY <4>1, <5>1
      <4>3. v = p
        BY <1>4, <1>8, <2>2, <2>3, <4>2, PrefixWhole
      <4>4. QED
        BY <1>4, <1>9, <2>2, <4>3, StateIs
    <3>2. QED
      BY <2>1, <3>1 DEF Finishes
  <2>5. Kept = row
    BY <1>11 DEF Kept
  <2>6. QED
    BY <1>1, <1>11, <2>4, <2>5 DEF Scored, Score, ScoreGuesses, Result, v
<1>12. QED
  BY <1>10, <1>11

LEMMA PlanIsScored ==
  ASSUME NEW world, NEW paths, NEW t, NEW sim, RunHeadless(world, paths) = {sim}
  PROVE  ScorePlan(world, paths, t)
           = Result(IsPerfect(sim), Max({0, PlanPoints(sim, paths, t)}))
<1> DEFINE worth(s) == Result(IsPerfect(s), Max({0, PlanPoints(s, paths, t)}))
<1>1. ScorePlan(world, paths, t)
        = CHOOSE result_ \in {worth(s) : s \in RunHeadless(world, paths)} : TRUE
  BY DEF ScorePlan
<1> HIDE DEF worth
<1>2. {worth(s) : s \in RunHeadless(world, paths)} = {worth(sim)}
  OBVIOUS
<1>3. ScorePlan(world, paths, t) = worth(sim)
  BY <1>1, <1>2
<1>4. QED
  BY <1>3 DEF worth

LEMMA FlightIsPaid ==
  ASSUME Inv, screen # <<>>, window = "open", Settled, game = "bonk-air",
         screen.phase = "locked", faults = 0,
         \A flight \in RunHeadless(puzzle, screen.paths) : IsPerfect(flight)
  PROVE  Scored(Kept).isCorrect
<1>1. submitted
  BY SettledIs DEF Inv, More, FlightOK
<1>2. row # <<>> /\ Valid(row[1].value) /\ Handed(row[1].value)
  BY <1>1, SettledIs
<1>3. row[1].value.isCurrent
  BY <1>2 DEF Valid
<1>4. row[1].value.solution = screen.paths
  BY <1>2, <1>3 DEF Handed
<1>5. PICK sim : RunHeadless(puzzle, screen.paths) = {sim}
  BY RunIsOne
<1>6. IsPerfect(sim)
  BY <1>5
<1>7. ScorePlan(puzzle, screen.paths, row[1].time).isCorrect
  <2> DEFINE paths == screen.paths
             t == row[1].time
  <2>1. RunHeadless(puzzle, paths) = {sim}
    BY <1>5
  <2> HIDE DEF paths, t
  <2>2. ScorePlan(puzzle, paths, t)
          = Result(IsPerfect(sim), Max({0, PlanPoints(sim, paths, t)}))
    BY ONLY <2>1, PlanIsScored
  <2>3. ScorePlan(puzzle, paths, t).isCorrect
    BY <1>6, <2>2 DEF Result
  <2>4. QED
    BY <2>3 DEF paths, t
<1>8. Kept = row
  BY <1>2 DEF Kept
<1>9. Scored(Kept) = ScorePlan(puzzle, screen.paths, row[1].time)
  BY <1>2, <1>4, <1>8 DEF Scored, Score
<1>10. QED
  BY <1>7, <1>9

\* Whatever the game, the row of a phone that shows it won is paid.
LEMMA SolvedPays ==
  ASSUME Inv, CloseWindow, screen # <<>>, ShownSolved, Settled,
         game \in {"light-switch", "bonk-air"} => faults = 0
  PROVE  result'[1].isCorrect
<1>1. window = "open" /\ row' = Kept /\ result' = <<Scored(row')>>
  BY DEF CloseWindow, Kept
<1>2. result'[1] = Scored(Kept)
  <2>1. Scored(row') = Scored(Kept)
    BY <1>1
  <2>2. QED
    BY <1>1, <2>1
<1>3. Scored(Kept).isCorrect
  <2>1. CASE game = "sliding-puzzle"
    BY <1>1, <2>1, SliderIsPaid DEF ShownSolved
  <2>2. CASE game = "light-switch"
    BY <1>1, <2>2, LightsArePaid DEF ShownSolved
  <2>3. CASE game = "vault-rush"
    BY <1>1, <2>3, VaultIsPaid DEF ShownSolved
  <2>4. CASE game = "wordle"
    BY <1>1, <2>4, WordIsPaid DEF ShownSolved
  <2>5. CASE game = "balance-scale"
    BY <1>1, <2>5, ScaleIsPaid DEF ShownSolved
  <2>6. CASE game = "bonk-air"
    BY <1>1, <2>6, FlightIsPaid DEF ShownSolved
  <2>7. game \in Games
    BY DEF Inv, Base, TypeOK
  <2>8. QED
    BY <2>1, <2>2, <2>3, <2>4, <2>5, <2>6, <2>7, GamesAre
<1>4. QED
  BY <1>2, <1>3

\* Who has won on the phone is paid when the window closes, with nothing under way:
\* the row scored is the answer the phone shows as won, in all six games.
THEOREM SolvedIsPaidCorrect == Spec => SolvedIsPaid
<1>1. Inv /\ [Next]_vars => [(/\ CloseWindow /\ screen # <<>> /\ ShownSolved /\ Settled
                              /\ game \in {"light-switch", "bonk-air"} => faults = 0)
                             => result'[1].isCorrect]_vars
  BY SolvedPays
<1>2. QED
  BY <1>1, InvCorrect, PTL DEF Spec, SolvedIsPaid

-----------------------------------------------------------------------------
(* The flight a phone replays is the one the server scores. *)

LEMMA ReplayFollows == Inv => ReplayIsScored
<1> SUFFICES ASSUME Inv, game = "bonk-air", screen # <<>>, screen.phase = "done",
                    acked, ~lost
             PROVE  LET flight == screen.flight[1]
                        score == FlightScore(flight)
                                 + EarlyBonus(screen.paths, row[1].time)
                    IN  Scored(row) = Result(IsPerfect(flight), Max({0, score}))
  BY DEF ReplayIsScored
<1> DEFINE flight == screen.flight[1]
           paths == screen.paths
           t == row[1].time
<1>1. row # <<>>
  BY DEF Inv, LockOK, SavesFollow
<1>2. Valid(row[1].value) /\ Handed(row[1].value)
  BY DEF Inv, HandedOK, AnswersAreShown
<1>3. row[1].value.isCurrent
  BY <1>2 DEF Valid
<1>4. row[1].value.solution = paths
  BY <1>2, <1>3 DEF Handed
<1>5. Scored(row) = ScorePlan(puzzle, paths, t)
  BY <1>1, <1>4 DEF Scored, Score
<1>6. RunHeadless(puzzle, paths) = {flight}
  <2>1. Flying(screen)
    BY FlightIs DEF Planned
  <2>2. PICK n \in 0..(MaxSimSteps + 1) : IsFlown(puzzle, paths, n, flight)
    BY <2>1 DEF Flying
  <2>3. Finished(flight)
    BY <2>1 DEF Flying
  <2> HIDE DEF paths, flight
  <2>4. QED
    BY <2>2, <2>3, FlownIsRun
<1> HIDE DEF paths, flight, t
<1>7. ScorePlan(puzzle, paths, t)
        = Result(IsPerfect(flight), Max({0, PlanPoints(flight, paths, t)}))
  BY ONLY <1>6, PlanIsScored
<1>8. PlanPoints(flight, paths, t) = FlightScore(flight) + EarlyBonus(paths, t)
  BY DEF PlanPoints
<1>9. Scored(row) = Result(IsPerfect(flight),
                           Max({0, FlightScore(flight) + EarlyBonus(paths, t)}))
  BY <1>5, <1>7, <1>8
<1>10. QED
  BY <1>9 DEF paths, flight, t

\* The score of the stored plan is that of the flight the phone has replayed
\* (Sim on the phone, runHeadless() on the server).
THEOREM ReplayIsScoredCorrect == Spec => []ReplayIsScored
<1>1. Inv => ReplayIsScored
  BY ReplayFollows
<1>2. QED
  BY <1>1, InvCorrect, PTL

-----------------------------------------------------------------------------
(* How a guess is judged *)

\* What is folded is folded one by one.
HasTurns(n, S, base, step, g) ==
    \E turn \in [0..n -> S] : /\ turn[0] = base /\ turn[n] = g[1..n]
                              /\ \A i \in 1..n : turn[i] = step[i][turn[i - 1]]

\* A fold over a sequence, turn by turn
LEMMA FoldTurns ==
  ASSUME NEW n \in Nat, NEW S, NEW base \in S, NEW step,
         \A i \in 1..n : step[i] \in [S -> S], NEW g, g[{}] = base,
         \A s \in SUBSET (1..n) : (s # {} /\ g[s \ {Max(s)}] \in S) =>
            g[s] = step[Max(s)][g[s \ {Max(s)}]]
  PROVE  HasTurns(n, S, base, step, g)
<1> DEFINE K == {k \in Nat : k <= n => g[1..k] \in S}
<1>1. 1..0 = {}
  OBVIOUS
<1>2. ASSUME NEW i \in 1..n, g[1..(i - 1)] \in S
      PROVE  g[1..i] = step[i][g[1..(i - 1)]]
  <2>1. /\ 1..i \in SUBSET (1..n) /\ 1..i # {} /\ (1..i) \ {i} = 1..(i - 1)
        /\ Max(1..i) = i
    BY MaxOfInterval
  <2>2. QED
    BY <1>2, <2>1
<1>3. 0 \in K
  BY <1>1
<1>4. ASSUME NEW k \in Nat, k \in K PROVE k + 1 \in K
  <2> SUFFICES ASSUME k + 1 <= n PROVE g[1..(k + 1)] \in S
    OBVIOUS
  <2>1. k + 1 \in 1..n /\ (k + 1) - 1 = k /\ g[1..k] \in S
    BY <1>4
  <2>2. g[1..(k + 1)] = step[k + 1][g[1..k]]
    BY <1>2, <2>1
  <2>3. QED
    BY <2>1, <2>2
<1> HIDE DEF K
<1>5. \A k \in 0..n : g[1..k] \in S
  <2>1. Nat \subseteq K
    BY <1>3, <1>4, CountUp
  <2>2. QED
    BY <2>1 DEF K
<1> DEFINE turn == [i \in 0..n |-> g[1..i]]
<1>6. turn \in [0..n -> S] /\ turn[0] = base /\ turn[n] = g[1..n]
  BY <1>1, <1>5
<1>7. \A i \in 1..n : turn[i] = step[i][turn[i - 1]]
  <2> TAKE i \in 1..n
  <2>1. i - 1 \in 0..n /\ i \in 0..n
    OBVIOUS
  <2>2. QED
    BY <1>2, <1>5, <2>1
<1> HIDE DEF turn
<1>8. QED
  BY <1>6, <1>7 DEF HasTurns

CountOf(s, c) == Cardinality({i \in DOMAIN s : s[i] = c})

LEMMA CountTyped ==
  ASSUME NEW S, NEW s \in Seq(S), NEW c
  PROVE  /\ IsFiniteSet({i \in DOMAIN s : s[i] = c}) /\ CountOf(s, c) \in Nat
         /\ CountOf(s, c) > 0 <=> Contains(s, c)
<1> DEFINE C == {i \in DOMAIN s : s[i] = c}
<1>1. Len(s) \in Nat /\ DOMAIN s = 1..Len(s)
  OBVIOUS
<1>2. IsFiniteSet(1..Len(s))
  BY <1>1, FS_Interval
<1>3. IsFiniteSet(C)
  BY <1>1, <1>2, FS_Subset
<1>4. C # {} <=> Contains(s, c)
  BY <1>1 DEF Contains
<1> HIDE DEF C
<1>5. Cardinality(C) \in Nat /\ (Cardinality(C) = 0 <=> C = {})
  BY <1>3, FS_CardinalityType, FS_EmptySet
<1>6. Cardinality(C) > 0 <=> C # {}
  BY <1>5
<1>7. QED
  BY <1>3, <1>4, <1>5, <1>6 DEF CountOf, C

\* Removing a letter takes one of its occurrences.
LEMMA CountRemoved ==
  ASSUME NEW S, NEW s \in Seq(S), NEW e, Contains(s, e), NEW c
  PROVE  /\ RemoveFirst(s, e) \in Seq(S)
         /\ CountOf(RemoveFirst(s, e), c) = IF c = e THEN CountOf(s, c) - 1 ELSE CountOf(s, c)
<1>1. Len(s) \in Nat /\ DOMAIN s = 1..Len(s)
  OBVIOUS
<1>2. PICK m \in DOMAIN s : s[m] = e
  BY <1>1 DEF Contains
<1>3. PICK k \in DOMAIN s : TakesOut(k, s, e, S)
  BY <1>2, RemovedFirst
<1> DEFINE r == RemoveFirst(s, e)
<1>4. /\ s[k] = e /\ r \in Seq(S) /\ Len(r) = Len(s) - 1
      /\ \A j \in 1..(Len(s) - 1) : r[j] = IF j < k THEN s[j] ELSE s[j + 1]
  BY <1>3 DEF TakesOut
<1> DEFINE C == {i \in DOMAIN s : s[i] = c}
           B == {j \in DOMAIN r : r[j] = c}
           f == [j \in B |-> IF j < k THEN j ELSE j + 1]
<1> HIDE DEF r
<1>5. DOMAIN r = 1..(Len(s) - 1)
  BY <1>1, <1>4
<1>6. f \in Injection(B, C \ {k})
  <2>1. ASSUME NEW j \in B PROVE f[j] \in C \ {k}
    <3>1. j \in 1..(Len(s) - 1) /\ r[j] = c /\ r[j] = s[f[j]]
      BY <1>4, <1>5
    <3>2. f[j] \in 1..Len(s) /\ f[j] # k
      BY <1>1, <3>1
    <3>3. QED
      BY <1>1, <3>1, <3>2
  <2>2. ASSUME NEW i \in B, NEW j \in B, f[i] = f[j] PROVE i = j
    <3>1. i \in Int /\ j \in Int /\ k \in Int
      BY <1>1, <1>5
    <3>2. QED
      BY <2>2, <3>1
  <2>3. f = [j \in B |-> f[j]]
    OBVIOUS
  <2> HIDE DEF f
  <2>4. f \in [B -> C \ {k}]
    BY <2>1, <2>3
  <2>5. QED
    BY <2>2, <2>4 DEF Injection, IsInjective
<1>7. f \in Surjection(B, C \ {k})
  <2>1. ASSUME NEW i \in C \ {k} PROVE \E j \in B : f[j] = i
    <3>1. i \in 1..Len(s) /\ s[i] = c /\ i # k
      BY <1>1
    <3>2. CASE i < k
      <4>1. i \in 1..(Len(s) - 1) /\ r[i] = s[i]
        BY <1>1, <1>4, <3>1, <3>2
      <4>2. i \in B /\ f[i] = i
        BY <1>5, <3>1, <3>2, <4>1
      <4>3. QED
        BY <4>2
    <3>3. CASE i > k
      <4>1. i - 1 \in 1..(Len(s) - 1) /\ ~(i - 1 < k) /\ (i - 1) + 1 = i
        BY <1>1, <3>1, <3>3
      <4>2. r[i - 1] = s[i]
        BY <1>4, <4>1
      <4>3. i - 1 \in B /\ f[i - 1] = i
        BY <1>5, <3>1, <4>1, <4>2
      <4>4. QED
        BY <4>3
    <3>4. QED
      BY <1>1, <3>1, <3>2, <3>3
  <2>2. f \in [B -> C \ {k}]
    BY <1>6 DEF Injection
  <2> HIDE DEF f
  <2>3. QED
    BY <2>1, <2>2 DEF Surjection
<1> HIDE DEF f
<1>8. IsFiniteSet(B) /\ IsFiniteSet(C)
  BY <1>4, CountTyped
<1> HIDE DEF B, C
<1>9. Cardinality(C \ {k}) = Cardinality(B)
  <2>1. ExistsBijection(B, C \ {k})
    BY <1>6, <1>7 DEF ExistsBijection, Bijection
  <2>2. QED
    BY <1>8, <2>1, FS_Bijection
<1>10. Cardinality(C \ {k}) = IF k \in C THEN Cardinality(C) - 1 ELSE Cardinality(C)
  BY <1>8, FS_RemoveElement
<1>11. k \in C <=> c = e
  BY <1>4 DEF C
<1>12. CountOf(r, c) = IF c = e THEN CountOf(s, c) - 1 ELSE CountOf(s, c)
  BY <1>9, <1>10, <1>11 DEF CountOf, B, C
<1>13. QED
  BY <1>4, <1>12 DEF r

-----------------------------------------------------------------------------
(* evaluate_guess(), its two loops as folds *)

\* Where a letter is in its place, so far, and where it is not.
Hits(guess, answer, k, c) == {j \in 1..k : guess[j] = c /\ answer[j] = c}
Misses(guess, answer, k, c) == {j \in 1..k : guess[j] = c /\ answer[j] # c}

\* evaluate_guess(), its two loops
Unplace(guess, answer, left, i) ==
    IF guess[i] = answer[i] THEN RemoveFirst(left, answer[i]) ELSE left
Mark(guess, answer, marks, i) ==
    IF guess[i] = answer[i] THEN [marks EXCEPT !.states = Append(@, "correct")]
    ELSE IF Contains(marks.left, guess[i])
    THEN [states |-> Append(marks.states, "present"),
          left |-> RemoveFirst(marks.left, guess[i])]
    ELSE [marks EXCEPT !.states = Append(@, "wrong")]

Places(guess) == [i \in DOMAIN guess |-> i]
Unplacing(guess, answer, g) ==
    g = [s \in SUBSET DOMAIN Places(guess) |->
            IF s = {} THEN answer
            ELSE Unplace(guess, answer, g[s \ {Max(s)}], Places(guess)[Max(s)])]
Marking(guess, answer, base, g) ==
    g = [s \in SUBSET DOMAIN Places(guess) |->
            IF s = {} THEN base
            ELSE Mark(guess, answer, g[s \ {Max(s)}], Places(guess)[Max(s)])]

Unplaced(guess, answer) ==
    (CHOOSE g : Unplacing(guess, answer, g))[DOMAIN Places(guess)]

\* The two loops of evaluate_guess()
LEMMA EvaluatedIs ==
  ASSUME NEW guess, NEW answer
  PROVE  EvaluateGuess(guess, answer)
           = ((CHOOSE g : Marking(guess, answer,
                                  [states |-> <<>>, left |-> Unplaced(guess, answer)], g))
                [DOMAIN Places(guess)]).states
BY DEF EvaluateGuess, FoldLeft, MapThenFoldSet, Unplacing, Marking, Unplaced, Unplace, Mark, Places

\* One place more: in its place or not
LEMMA MoreHits ==
  ASSUME NEW guess, NEW answer, NEW i \in Nat \ {0}, NEW c
  PROVE  /\ IsFiniteSet(Hits(guess, answer, i, c))
         /\ Cardinality(Hits(guess, answer, i, c)) \in Nat
         /\ Cardinality(Hits(guess, answer, i, c))
              = IF guess[i] = c /\ answer[i] = c
                THEN Cardinality(Hits(guess, answer, i - 1, c)) + 1
                ELSE Cardinality(Hits(guess, answer, i - 1, c))
<1> DEFINE A == Hits(guess, answer, i - 1, c)
           B == Hits(guess, answer, i, c)
<1>1. IsFiniteSet(A) /\ IsFiniteSet(B)
  <2>1. IsFiniteSet(1..i)
    BY FS_Interval
  <2>2. A \in SUBSET (1..i) /\ B \in SUBSET (1..i)
    BY DEF Hits
  <2>3. QED
    BY <2>1, <2>2, FS_Subset
<1>2. B = IF guess[i] = c /\ answer[i] = c THEN A \cup {i} ELSE A
  BY DEF Hits
<1>3. i \notin A
  BY DEF Hits
<1> HIDE DEF A, B
<1>4. Cardinality(A \cup {i}) = Cardinality(A) + 1
  BY <1>1, <1>3, FS_AddElement
<1>5. Cardinality(B) \in Nat
  BY <1>1, FS_CardinalityType
<1>6. QED
  BY <1>1, <1>2, <1>4, <1>5 DEF A, B

LEMMA MoreMisses ==
  ASSUME NEW guess, NEW answer, NEW i \in Nat \ {0}, NEW c
  PROVE  /\ Cardinality(Misses(guess, answer, i - 1, c)) \in Nat
         /\ Cardinality(Misses(guess, answer, i, c))
              = IF guess[i] = c /\ answer[i] # c
                THEN Cardinality(Misses(guess, answer, i - 1, c)) + 1
                ELSE Cardinality(Misses(guess, answer, i - 1, c))
<1> DEFINE A == Misses(guess, answer, i - 1, c)
           B == Misses(guess, answer, i, c)
<1>1. IsFiniteSet(A)
  <2>1. IsFiniteSet(1..i)
    BY FS_Interval
  <2>2. A \in SUBSET (1..i)
    BY DEF Misses
  <2>3. QED
    BY <2>1, <2>2, FS_Subset
<1>2. B = IF guess[i] = c /\ answer[i] # c THEN A \cup {i} ELSE A
  BY DEF Misses
<1>3. i \notin A
  BY DEF Misses
<1> HIDE DEF A, B
<1>4. Cardinality(A \cup {i}) = Cardinality(A) + 1
  BY <1>1, <1>3, FS_AddElement
<1>5. Cardinality(A) \in Nat
  BY <1>1, FS_CardinalityType
<1>6. QED
  BY <1>2, <1>4, <1>5 DEF A, B

-----------------------------------------------------------------------------
(* What is left of the answer after the first loop *)

\* The letters of a guess and of the answer
Letters(guess, answer) == Range(guess) \cup Range(answer)
Words(guess, answer) ==
    /\ guess \in Seq(Letters(guess, answer)) /\ answer \in Seq(Letters(guess, answer))
    /\ Len(guess) = Len(answer)

\* After the first loop as many of a letter are left as the answer has spare.
LEMMA UnplacedCounts ==
  ASSUME NEW guess, NEW answer, Words(guess, answer)
  PROVE  /\ Unplaced(guess, answer) \in Seq(Letters(guess, answer))
         /\ \A c : CountOf(Unplaced(guess, answer), c)
                     = CountOf(answer, c) - Cardinality(Hits(guess, answer, Len(guess), c))
<1> DEFINE n == Len(guess)
           S == Seq(Letters(guess, answer))
           step == [i \in 1..n |-> [left \in S |-> Unplace(guess, answer, left, i)]]
<1>1. /\ n \in Nat /\ DOMAIN guess = 1..n /\ DOMAIN answer = 1..n /\ answer \in S
      /\ DOMAIN Places(guess) = 1..n /\ \A i \in 1..n : Places(guess)[i] = i
  BY DEF Words, Places
<1>2. \A i \in 1..n, left \in S : Unplace(guess, answer, left, i) \in S
  <2> TAKE i \in 1..n, left \in S
  <2>1. CASE Contains(left, answer[i])
    BY <2>1, CountRemoved DEF Unplace
  <2>2. CASE ~Contains(left, answer[i])
    BY <2>2 DEF Unplace, RemoveFirst, Contains
  <2>3. QED
    BY <2>1, <2>2
<1>3. /\ \A i \in 1..n : step[i] \in [S -> S]
      /\ \A i \in 1..n, left \in S : step[i][left] = Unplace(guess, answer, left, i)
  BY <1>2
<1> HIDE DEF n, S, step
<1>4. PICK f : IsFold(f, n, answer, step)
  BY <1>1, FoldExists
<1>5. \A s \in SUBSET (1..n) : f[s] \in S
  BY <1>1, <1>3, <1>4, FoldTyped
<1>6. Unplacing(guess, answer, f)
  <2>1. ASSUME NEW s \in SUBSET (1..n), s # {}
        PROVE  step[Max(s)][f[s \ {Max(s)}]]
                 = Unplace(guess, answer, f[s \ {Max(s)}], Places(guess)[Max(s)])
    <3>1. Max(s) \in 1..n /\ s \ {Max(s)} \in SUBSET (1..n)
      BY <1>1, <2>1, MaxIsIn
    <3>2. QED
      BY <1>1, <1>3, <1>5, <3>1
  <2>2. QED
    BY <1>1, <1>4, <2>1 DEF IsFold, Unplacing
<1> DEFINE g == CHOOSE h : Unplacing(guess, answer, h)
<1>7. Unplacing(guess, answer, g)
  BY <1>6
<1>8. Unplaced(guess, answer) = g[1..n]
  BY <1>1 DEF Unplaced
<1> HIDE DEF g
<1>9. /\ g[{}] = answer
      /\ \A s \in SUBSET (1..n) : (s # {} /\ g[s \ {Max(s)}] \in S) =>
            g[s] = step[Max(s)][g[s \ {Max(s)}]]
  <2>1. g[{}] = answer
    BY <1>1, <1>7 DEF Unplacing
  <2>2. ASSUME NEW s \in SUBSET (1..n), s # {}, g[s \ {Max(s)}] \in S
        PROVE  g[s] = step[Max(s)][g[s \ {Max(s)}]]
    <3>1. Max(s) \in 1..n
      BY <1>1, <2>2, MaxIsIn
    <3>2. g[s] = Unplace(guess, answer, g[s \ {Max(s)}], Places(guess)[Max(s)])
      BY <1>1, <1>7, <2>2 DEF Unplacing
    <3>3. QED
      BY <1>1, <1>3, <2>2, <3>1, <3>2
  <2>3. QED
    BY <2>1, <2>2
<1>10. HasTurns(n, S, answer, step, g)
  <2>1. n \in Nat /\ answer \in S /\ (\A i \in 1..n : step[i] \in [S -> S]) /\ g[{}] = answer
    BY <1>1, <1>3, <1>9
  <2>2. \A s \in SUBSET (1..n) : (s # {} /\ g[s \ {Max(s)}] \in S) =>
            g[s] = step[Max(s)][g[s \ {Max(s)}]]
    BY <1>9
  <2>3. QED
    BY ONLY <2>1, <2>2, FoldTurns
<1>11. PICK turn \in [0..n -> S] :
          /\ turn[0] = answer /\ turn[n] = g[1..n]
          /\ \A i \in 1..n : turn[i] = step[i][turn[i - 1]]
  BY <1>10 DEF HasTurns
<1> DEFINE hits(k, c) == Cardinality(Hits(guess, answer, k, c))
           K == {k \in Nat : k <= n =>
                    \A c : CountOf(turn[k], c) = CountOf(answer, c) - hits(k, c)}
<1>12. \A c : CountOf(answer, c) \in Nat
  BY <1>1, CountTyped DEF S
<1>13. 0 \in K
  <2>1. \A c : Hits(guess, answer, 0, c) = {}
    BY DEF Hits
  <2>2. \A c : hits(0, c) = 0
    BY <2>1, FS_EmptySet
  <2> HIDE DEF hits
  <2>3. QED
    BY <1>11, <1>12, <2>2
<1>14. ASSUME NEW k \in Nat, k \in K PROVE k + 1 \in K
  <2> SUFFICES ASSUME k + 1 <= n, NEW c
               PROVE  CountOf(turn[k + 1], c) = CountOf(answer, c) - hits(k + 1, c)
    OBVIOUS
  <2> DEFINE i == k + 1
             left == turn[k]
  <2>1. /\ i \in 1..n /\ i \in Nat \ {0} /\ i - 1 = k /\ left \in S
        /\ \A d : CountOf(left, d) = CountOf(answer, d) - hits(k, d)
    BY <1>1, <1>11, <1>14
  <2>2. turn[i] = Unplace(guess, answer, left, i)
    BY <1>3, <1>11, <2>1
  <2>3. \A d : /\ hits(k, d) \in Int /\ hits(i, d) \in Nat
               /\ hits(i, d) = IF guess[i] = d /\ answer[i] = d THEN hits(k, d) + 1
                               ELSE hits(k, d)
    <3> TAKE d
    <3>1. /\ hits(i, d) \in Nat
          /\ hits(i, d) = IF guess[i] = d /\ answer[i] = d THEN hits(i - 1, d) + 1
                          ELSE hits(i - 1, d)
      BY <2>1, MoreHits
    <3>2. hits(k, d) \in Int
      <4>1. IsFiniteSet(1..k)
        BY FS_Interval
      <4>2. IsFiniteSet(Hits(guess, answer, k, d))
        <5>1. Hits(guess, answer, k, d) \in SUBSET (1..k)
          BY DEF Hits
        <5>2. QED
          BY <4>1, <5>1, FS_Subset
      <4>3. QED
        BY <4>2, FS_CardinalityType
    <3>3. QED
      BY <2>1, <3>1, <3>2
  <2>4. \A d : hits(i, d) <= CountOf(answer, d)
    <3> TAKE d
    <3>1. Hits(guess, answer, i, d) \in SUBSET {j \in DOMAIN answer : answer[j] = d}
      BY <1>1, <2>1 DEF Hits
    <3>2. IsFiniteSet({j \in DOMAIN answer : answer[j] = d})
      BY <1>1, CountTyped DEF S
    <3>3. QED
      BY <3>1, <3>2, FS_Subset DEF CountOf
  <2> HIDE DEF i, left, hits
  <2>5. CASE guess[i] = answer[i]
    <3> DEFINE e == answer[i]
    <3>1. CountOf(left, e) > 0
      BY <1>12, <2>1, <2>3, <2>4, <2>5
    <3>2. Contains(left, e)
      BY <2>1, <3>1, CountTyped DEF S
    <3>3. turn[i] = RemoveFirst(left, e)
      BY <2>2, <2>5 DEF Unplace
    <3>4. CountOf(turn[i], c) = IF c = e THEN CountOf(left, c) - 1 ELSE CountOf(left, c)
      BY <2>1, <3>2, <3>3, CountRemoved DEF S
    <3>5. CountOf(turn[i], c) = CountOf(answer, c) - hits(i, c)
      BY <1>12, <2>1, <2>3, <2>5, <3>4
    <3>6. QED
      BY <3>5 DEF i
  <2>6. CASE guess[i] # answer[i]
    <3>1. turn[i] = left
      BY <2>2, <2>6 DEF Unplace
    <3>2. hits(i, c) = hits(k, c)
      BY <2>3, <2>6
    <3>3. CountOf(turn[i], c) = CountOf(answer, c) - hits(i, c)
      BY <2>1, <3>1, <3>2
    <3>4. QED
      BY <3>3 DEF i
  <2>7. QED
    BY <2>5, <2>6
<1> HIDE DEF K
<1>15. n \in K
  BY <1>1, <1>13, <1>14, CountUp
<1>16. QED
  BY <1>1, <1>8, <1>11, <1>15 DEF K, S, n

-----------------------------------------------------------------------------
(* What is left of it after some turns of the second *)

\* What the rules say of the letter at a place: see JudgedFairly.
Spare(guess, answer, c) ==
    Cardinality({i \in DOMAIN answer : answer[i] = c}
                   \ ({i \in DOMAIN guess : guess[i] = c}
                         \cap {i \in DOMAIN answer : answer[i] = c}))
Missed(guess, answer, k, c) == Cardinality(Misses(guess, answer, k, c))
RuleOf(guess, answer, i) ==
    IF guess[i] = answer[i] THEN "correct"
    ELSE IF Missed(guess, answer, i - 1, guess[i]) < Spare(guess, answer, guess[i])
    THEN "present" ELSE "wrong"

\* A letter out of its place is one more of those missed.
LEMMA MissedMore ==
  ASSUME NEW guess, NEW answer, NEW i \in Nat \ {0}, NEW c
  PROVE  /\ Missed(guess, answer, i - 1, c) \in Nat
         /\ (guess[i] = c /\ answer[i] # c) =>
                Missed(guess, answer, i, c) = Missed(guess, answer, i - 1, c) + 1
         /\ ~(guess[i] = c /\ answer[i] # c) =>
                Missed(guess, answer, i, c) = Missed(guess, answer, i - 1, c)
BY MoreMisses DEF Missed

LEMMA SpareIs ==
  ASSUME NEW guess, NEW answer, Words(guess, answer), NEW c
  PROVE  /\ Spare(guess, answer, c) \in Nat
         /\ Spare(guess, answer, c) = CountOf(Unplaced(guess, answer), c)
<1> DEFINE A == {i \in DOMAIN answer : answer[i] = c}
           B == {i \in DOMAIN guess : guess[i] = c} \cap A
           H == Hits(guess, answer, Len(guess), c)
<1>1. answer \in Seq(Letters(guess, answer)) /\ DOMAIN answer = 1..Len(guess)
      /\ DOMAIN guess = 1..Len(guess)
  BY DEF Words
<1>2. H = B /\ A \cap B = B
  BY <1>1 DEF Hits
<1>3. IsFiniteSet(A)
  BY <1>1, CountTyped
<1>4. CountOf(Unplaced(guess, answer), c) = Cardinality(A) - Cardinality(H)
  BY UnplacedCounts DEF CountOf
<1>5. Spare(guess, answer, c) = Cardinality(A \ B)
  BY DEF Spare
<1> HIDE DEF A, B, H
<1>6. Cardinality(A \ B) = Cardinality(A) - Cardinality(B) /\ IsFiniteSet(A \ B)
  BY <1>2, <1>3, FS_Difference
<1>7. Cardinality(A \ B) \in Nat
  BY <1>6, FS_CardinalityType
<1>8. QED
  BY <1>2, <1>4, <1>5, <1>6, <1>7

States == {"correct", "present", "wrong"}
Marks(guess, answer) == [states : Seq(States), left : Seq(Letters(guess, answer))]

\* What each turn of the second loop has made.
LeftOver(spare, missed) == IF missed < spare THEN spare - missed ELSE 0
IsMarked(guess, answer, k, marks) ==
    /\ Len(marks.states) = k
    /\ \A j \in 1..k : marks.states[j] = RuleOf(guess, answer, j)
    /\ \A c : CountOf(marks.left, c)
                = LeftOver(Spare(guess, answer, c), Missed(guess, answer, k, c))

LEMMA MarkTyped ==
  ASSUME NEW guess, NEW answer, NEW i, NEW marks \in Marks(guess, answer)
  PROVE  /\ Mark(guess, answer, marks, i) \in Marks(guess, answer)
         /\ guess[i] = answer[i] =>
              Mark(guess, answer, marks, i)
                = [states |-> Append(marks.states, "correct"), left |-> marks.left]
         /\ guess[i] # answer[i] /\ ~Contains(marks.left, guess[i]) =>
              Mark(guess, answer, marks, i)
                = [states |-> Append(marks.states, "wrong"), left |-> marks.left]
         /\ guess[i] # answer[i] /\ Contains(marks.left, guess[i]) =>
              Mark(guess, answer, marks, i)
                = [states |-> Append(marks.states, "present"),
                   left |-> RemoveFirst(marks.left, guess[i])]
<1> DEFINE L == Seq(Letters(guess, answer))
<1>1. marks = [states |-> marks.states, left |-> marks.left]
      /\ marks.states \in Seq(States) /\ marks.left \in L
  BY DEF Marks
<1>2. \A x \in States : Append(marks.states, x) \in Seq(States)
  BY <1>1
<1>3. \A x : [marks EXCEPT !.states = Append(@, x)]
               = [states |-> Append(marks.states, x), left |-> marks.left]
  <2>1. \A y : [marks EXCEPT !.states = y] = [states |-> y, left |-> marks.left]
    BY DEF Marks
  <2>2. QED
    BY <2>1
<1>4. CASE guess[i] = answer[i]
  <2>1. Mark(guess, answer, marks, i)
          = [states |-> Append(marks.states, "correct"), left |-> marks.left]
    BY <1>3, <1>4 DEF Mark
  <2>2. Append(marks.states, "correct") \in Seq(States)
    BY <1>2 DEF States
  <2>3. QED
    BY <1>1, <1>4, <2>1, <2>2 DEF Marks
<1>5. CASE guess[i] # answer[i] /\ ~Contains(marks.left, guess[i])
  <2>1. Mark(guess, answer, marks, i)
          = [states |-> Append(marks.states, "wrong"), left |-> marks.left]
    BY <1>3, <1>5 DEF Mark
  <2>2. Append(marks.states, "wrong") \in Seq(States)
    BY <1>2 DEF States
  <2>3. QED
    BY <1>1, <1>5, <2>1, <2>2 DEF Marks
<1>6. CASE guess[i] # answer[i] /\ Contains(marks.left, guess[i])
  <2>1. Mark(guess, answer, marks, i)
          = [states |-> Append(marks.states, "present"),
             left |-> RemoveFirst(marks.left, guess[i])]
    BY <1>6 DEF Mark
  <2>2. Append(marks.states, "present") \in Seq(States)
    BY <1>2 DEF States
  <2>3. RemoveFirst(marks.left, guess[i]) \in L
    BY <1>1, <1>6, CountRemoved
  <2>4. QED
    BY <1>6, <2>1, <2>2, <2>3 DEF Marks
<1>7. QED
  BY <1>4, <1>5, <1>6

\* After k turns of the second loop the first k letters are marked by the rule.
LEMMA MarkedOn ==
  ASSUME NEW guess, NEW answer, Words(guess, answer), NEW i \in 1..Len(guess),
         NEW marks \in Marks(guess, answer), IsMarked(guess, answer, i - 1, marks)
  PROVE  IsMarked(guess, answer, i, Mark(guess, answer, marks, i))
<1> DEFINE new == Mark(guess, answer, marks, i)
           missed(k, c) == Missed(guess, answer, k, c)
           spare(c) == Spare(guess, answer, c)
           e == guess[i]
<1>1. i \in Nat \ {0} /\ i - 1 \in Nat /\ (i - 1) + 1 = i
  BY DEF Words
<1>2. /\ Len(marks.states) = i - 1 /\ marks.states \in Seq(States)
      /\ marks.left \in Seq(Letters(guess, answer))
      /\ \A j \in 1..(i - 1) : marks.states[j] = RuleOf(guess, answer, j)
      /\ \A c : CountOf(marks.left, c) = LeftOver(spare(c), missed(i - 1, c))
  BY DEF IsMarked, Marks
<1>3. \A c : /\ missed(i - 1, c) \in Nat /\ spare(c) \in Nat
             /\ missed(i, c) = IF guess[i] = c /\ answer[i] # c THEN missed(i - 1, c) + 1
                               ELSE missed(i - 1, c)
  <2> TAKE c
  <2>1. spare(c) \in Nat
    BY SpareIs
  <2>2. missed(i - 1, c) \in Nat
    BY <1>1, MissedMore
  <2>3. CASE guess[i] = c /\ answer[i] # c
    <3>1. missed(i, c) = missed(i - 1, c) + 1
      BY <1>1, <2>3, MissedMore
    <3> HIDE DEF spare, missed
    <3>2. QED
      BY <2>1, <2>2, <2>3, <3>1
  <2>4. CASE ~(guess[i] = c /\ answer[i] # c)
    <3>1. missed(i, c) = missed(i - 1, c)
      BY <1>1, <2>4, MissedMore
    <3> HIDE DEF spare, missed
    <3>2. QED
      BY <2>1, <2>2, <2>4, <3>1
  <2>5. QED
    BY <2>3, <2>4
<1>4. \A x \in States : /\ Len(Append(marks.states, x)) = i
                        /\ Append(marks.states, x)[i] = x
                        /\ \A j \in 1..(i - 1) : Append(marks.states, x)[j] = marks.states[j]
  BY <1>1, <1>2
<1>5. ASSUME NEW x \in States, x = RuleOf(guess, answer, i)
      PROVE  /\ Len(Append(marks.states, x)) = i
             /\ \A j \in 1..i : Append(marks.states, x)[j] = RuleOf(guess, answer, j)
  <2>1. \A j \in 1..i : j = i \/ j \in 1..(i - 1)
    BY <1>1
  <2>2. QED
    BY <1>2, <1>4, <1>5, <2>1
<1>6. Contains(marks.left, e) <=> missed(i - 1, e) < spare(e)
  <2>1. Contains(marks.left, e) <=> CountOf(marks.left, e) > 0
    BY <1>2, CountTyped
  <2>2. CountOf(marks.left, e) = LeftOver(spare(e), missed(i - 1, e))
    BY <1>2
  <2> HIDE DEF spare, missed, e
  <2>3. missed(i - 1, e) \in Nat /\ spare(e) \in Nat
    BY <1>3
  <2>4. QED
    BY <2>1, <2>2, <2>3 DEF LeftOver
<1>7. CASE guess[i] = answer[i]
  <2>1. new = [states |-> Append(marks.states, "correct"), left |-> marks.left]
    BY <1>7, MarkTyped
  <2>2. RuleOf(guess, answer, i) = "correct" /\ "correct" \in States
    BY <1>7 DEF RuleOf, States
  <2>3. \A c : missed(i, c) = missed(i - 1, c)
    BY <1>3, <1>7
  <2>4. /\ Len(new.states) = i
        /\ \A j \in 1..i : new.states[j] = RuleOf(guess, answer, j)
    BY <1>5, <2>1, <2>2
  <2>5. \A c : CountOf(new.left, c) = LeftOver(spare(c), missed(i, c))
    BY <1>2, <2>1, <2>3
  <2>6. QED
    BY <2>4, <2>5 DEF IsMarked
<1>8. CASE guess[i] # answer[i] /\ ~Contains(marks.left, e)
  <2>1. new = [states |-> Append(marks.states, "wrong"), left |-> marks.left]
    BY <1>8, MarkTyped
  <2>2. RuleOf(guess, answer, i) = "wrong" /\ "wrong" \in States
    BY <1>6, <1>8 DEF RuleOf, States
  <2>3. /\ Len(new.states) = i
        /\ \A j \in 1..i : new.states[j] = RuleOf(guess, answer, j)
    BY <1>5, <2>1, <2>2
  <2>4. ASSUME NEW c PROVE CountOf(new.left, c) = LeftOver(spare(c), missed(i, c))
    <3>1. CountOf(new.left, c) = LeftOver(spare(c), missed(i - 1, c))
      BY <1>2, <2>1
    <3>2. /\ missed(i - 1, c) \in Nat /\ spare(c) \in Nat
          /\ missed(i, c) = IF guess[i] = c /\ answer[i] # c THEN missed(i - 1, c) + 1
                            ELSE missed(i - 1, c)
      BY <1>3
    <3>3. c = e => ~(missed(i - 1, c) < spare(c))
      BY <1>6, <1>8
    <3> HIDE DEF spare, missed, new
    <3>4. LeftOver(spare(c), missed(i, c)) = LeftOver(spare(c), missed(i - 1, c))
      BY <3>2, <3>3 DEF LeftOver
    <3>5. QED
      BY <3>1, <3>4
  <2>5. QED
    BY <2>3, <2>4 DEF IsMarked
<1>9. CASE guess[i] # answer[i] /\ Contains(marks.left, e)
  <2>1. new = [states |-> Append(marks.states, "present"),
               left |-> RemoveFirst(marks.left, e)]
    BY <1>9, MarkTyped
  <2>2. RuleOf(guess, answer, i) = "present" /\ "present" \in States
    BY <1>6, <1>9 DEF RuleOf, States
  <2>3. /\ Len(new.states) = i
        /\ \A j \in 1..i : new.states[j] = RuleOf(guess, answer, j)
    BY <1>5, <2>1, <2>2
  <2>4. ASSUME NEW c PROVE CountOf(new.left, c) = LeftOver(spare(c), missed(i, c))
    <3>1. CountOf(new.left, c)
            = IF c = e THEN CountOf(marks.left, c) - 1 ELSE CountOf(marks.left, c)
      BY <1>2, <1>9, <2>1, CountRemoved
    <3>2. CountOf(marks.left, c) = LeftOver(spare(c), missed(i - 1, c))
      BY <1>2
    <3>3. /\ missed(i - 1, c) \in Nat /\ spare(c) \in Nat
          /\ missed(i, c) = IF guess[i] = c /\ answer[i] # c THEN missed(i - 1, c) + 1
                            ELSE missed(i - 1, c)
      BY <1>3
    <3>4. c = e => missed(i - 1, c) < spare(c)
      BY <1>6, <1>9
    <3> HIDE DEF spare, missed, new
    <3>5. CASE c = e
      <4>1. missed(i, c) = missed(i - 1, c) + 1
        BY <1>9, <3>3, <3>5
      <4>2. QED
        BY <3>1, <3>2, <3>3, <3>4, <3>5, <4>1 DEF LeftOver
    <3>6. CASE c # e
      <4>1. missed(i, c) = missed(i - 1, c)
        BY <3>3, <3>6
      <4>2. QED
        BY <3>1, <3>2, <3>6, <4>1
    <3>7. QED
      BY <3>5, <3>6
  <2>5. QED
    BY <2>3, <2>4 DEF IsMarked
<1>10. QED
  BY <1>7, <1>8, <1>9

-----------------------------------------------------------------------------
(* Both loops together *)

LEMMA EvaluatedByOne ==
  ASSUME NEW guess, NEW answer, Words(guess, answer)
  PROVE  \E marks \in Marks(guess, answer) :
            /\ EvaluateGuess(guess, answer) = marks.states
            /\ IsMarked(guess, answer, Len(guess), marks)
<1> DEFINE n == Len(guess)
           S == Marks(guess, answer)
           base == [states |-> <<>>, left |-> Unplaced(guess, answer)]
           step == [i \in 1..n |-> [marks \in S |-> Mark(guess, answer, marks, i)]]
<1>1. /\ n \in Nat /\ DOMAIN guess = 1..n
      /\ DOMAIN Places(guess) = 1..n /\ \A i \in 1..n : Places(guess)[i] = i
  BY DEF Words, Places
<1>2. base \in S
  <2>1. <<>> \in Seq(States)
    OBVIOUS
  <2>2. QED
    BY <2>1, UnplacedCounts DEF Marks
<1>3. /\ \A i \in 1..n : step[i] \in [S -> S]
      /\ \A i \in 1..n, marks \in S : step[i][marks] = Mark(guess, answer, marks, i)
  BY MarkTyped
<1>4. EvaluateGuess(guess, answer)
        = ((CHOOSE g : Marking(guess, answer, base, g))[DOMAIN Places(guess)]).states
  BY EvaluatedIs
<1>5. IsMarked(guess, answer, 0, base)
  <2>1. \A c : /\ Misses(guess, answer, 0, c) = {}
               /\ Missed(guess, answer, 0, c) = 0
    BY FS_EmptySet DEF Misses, Missed
  <2>2. ASSUME NEW c
        PROVE  CountOf(base.left, c)
                 = LeftOver(Spare(guess, answer, c), Missed(guess, answer, 0, c))
    <3>1. /\ Spare(guess, answer, c) \in Nat
          /\ Spare(guess, answer, c) = CountOf(Unplaced(guess, answer), c)
      BY SpareIs
    <3>2. Missed(guess, answer, 0, c) = 0
      BY <2>1
    <3>3. LeftOver(Spare(guess, answer, c), 0) = Spare(guess, answer, c)
      BY <3>1 DEF LeftOver
    <3>4. QED
      BY <3>1, <3>2, <3>3
  <2>3. Len(base.states) = 0 /\ 1..0 = {}
    OBVIOUS
  <2> HIDE DEF base
  <2>4. QED
    BY <2>2, <2>3 DEF IsMarked
<1> HIDE DEF n, S, step, base
<1>6. PICK f : IsFold(f, n, base, step)
  BY <1>1, FoldExists
<1>7. \A s \in SUBSET (1..n) : f[s] \in S
  BY <1>1, <1>2, <1>3, <1>6, FoldTyped
<1>8. Marking(guess, answer, base, f)
  <2>1. ASSUME NEW s \in SUBSET (1..n), s # {}
        PROVE  step[Max(s)][f[s \ {Max(s)}]]
                 = Mark(guess, answer, f[s \ {Max(s)}], Places(guess)[Max(s)])
    <3>1. Max(s) \in 1..n /\ s \ {Max(s)} \in SUBSET (1..n)
      BY <1>1, <2>1, MaxIsIn
    <3>2. QED
      BY <1>1, <1>3, <1>7, <3>1
  <2>2. QED
    BY <1>1, <1>6, <2>1 DEF IsFold, Marking
<1> DEFINE g == CHOOSE h : Marking(guess, answer, base, h)
<1>9. Marking(guess, answer, base, g)
  BY <1>8
<1>10. EvaluateGuess(guess, answer) = g[1..n].states
  BY <1>1, <1>4
<1> HIDE DEF g
<1>11. g[{}] = base
  BY <1>1, <1>9 DEF Marking
<1>12. \A s \in SUBSET (1..n) : (s # {} /\ g[s \ {Max(s)}] \in S) =>
            g[s] = step[Max(s)][g[s \ {Max(s)}]]
  <2> SUFFICES ASSUME NEW s \in SUBSET (1..n), s # {}, g[s \ {Max(s)}] \in S
               PROVE  g[s] = step[Max(s)][g[s \ {Max(s)}]]
    OBVIOUS
  <2>1. Max(s) \in 1..n
    BY <1>1, MaxIsIn
  <2>2. g[s] = Mark(guess, answer, g[s \ {Max(s)}], Places(guess)[Max(s)])
    BY <1>1, <1>9 DEF Marking
  <2>3. QED
    BY <1>1, <1>3, <2>1, <2>2
<1>13. HasTurns(n, S, base, step, g)
  <2>1. n \in Nat /\ base \in S /\ \A i \in 1..n : step[i] \in [S -> S]
    BY <1>1, <1>2, <1>3
  <2>2. QED
    BY ONLY <1>11, <1>12, <2>1, FoldTurns
<1>14. PICK turn \in [0..n -> S] :
          /\ turn[0] = base /\ turn[n] = g[1..n]
          /\ \A i \in 1..n : turn[i] = step[i][turn[i - 1]]
  BY <1>13 DEF HasTurns
<1> DEFINE K == {k \in Nat : k <= n => IsMarked(guess, answer, k, turn[k])}
<1>15. 0 \in K
  BY <1>5, <1>14
<1>16. ASSUME NEW k \in Nat, k \in K PROVE k + 1 \in K
  <2> SUFFICES ASSUME k + 1 <= n PROVE IsMarked(guess, answer, k + 1, turn[k + 1])
    OBVIOUS
  <2> DEFINE i == k + 1
  <2>1. i \in 1..n /\ i - 1 = k /\ k \in 0..n /\ IsMarked(guess, answer, k, turn[k])
    BY <1>1, <1>16
  <2>2. turn[k] \in S /\ turn[i] = Mark(guess, answer, turn[k], i)
    BY <1>3, <1>14, <2>1
  <2> HIDE DEF i
  <2>3. IsMarked(guess, answer, i, Mark(guess, answer, turn[k], i))
    BY <2>1, <2>2, MarkedOn DEF S, n
  <2>4. QED
    BY <2>2, <2>3 DEF i
<1> HIDE DEF K
<1>17. n \in K
  BY <1>1, <1>15, <1>16, CountUp
<1>18. IsMarked(guess, answer, n, turn[n]) /\ turn[n] \in S
  BY <1>1, <1>14, <1>17 DEF K
<1>19. QED
  BY <1>10, <1>14, <1>18 DEF n, S

\* Every letter of a guess is marked by the rule.
LEMMA WordJudged ==
  ASSUME NEW guess, NEW answer, Words(guess, answer), NEW i \in DOMAIN guess
  PROVE  EvaluateGuess(guess, answer)[i] = RuleOf(guess, answer, i)
<1>1. DOMAIN guess = 1..Len(guess)
  BY DEF Words
<1>2. PICK marks \in Marks(guess, answer) :
         /\ EvaluateGuess(guess, answer) = marks.states
         /\ IsMarked(guess, answer, Len(guess), marks)
  BY EvaluatedByOne
<1>3. QED
  BY <1>1, <1>2 DEF IsMarked

-----------------------------------------------------------------------------
(* The rule of the game, and the property *)

Of(word, c) == {i \in DOMAIN word : word[i] = c}
InPlace(guess, answer, c) == Of(guess, c) \cap Of(answer, c)
Before(guess, answer, i) ==
    {j \in Of(guess, guess[i]) \ InPlace(guess, answer, guess[i]) : j < i}

\* The rule as the property states it
LEMMA RuleIs ==
  ASSUME NEW guess, NEW answer, Words(guess, answer), NEW i \in DOMAIN guess
  PROVE  RuleOf(guess, answer, i)
           = IF i \in InPlace(guess, answer, guess[i]) THEN "correct"
             ELSE IF Cardinality(Before(guess, answer, i))
                       < Cardinality(Of(answer, guess[i]) \ InPlace(guess, answer, guess[i]))
             THEN "present" ELSE "wrong"
<1>1. /\ DOMAIN guess = 1..Len(guess) /\ DOMAIN answer = 1..Len(guess)
      /\ Len(guess) \in Nat
  BY DEF Words
<1>2. i \in InPlace(guess, answer, guess[i]) <=> guess[i] = answer[i]
  BY <1>1 DEF InPlace, Of
<1>3. Before(guess, answer, i) = Misses(guess, answer, i - 1, guess[i])
  <2>1. \A j : j \in DOMAIN guess /\ j < i <=> j \in 1..(i - 1)
    BY <1>1
  <2>2. \A j \in 1..(i - 1) : j \in DOMAIN answer
    BY <1>1
  <2>3. ASSUME NEW j PROVE j \in Before(guess, answer, i)
                           <=> j \in Misses(guess, answer, i - 1, guess[i])
    BY <2>1, <2>2 DEF Before, InPlace, Of, Misses
  <2>4. QED
    BY <2>3
<1>4. Cardinality(Of(answer, guess[i]) \ InPlace(guess, answer, guess[i]))
        = Spare(guess, answer, guess[i])
  BY DEF Spare, InPlace, Of
<1>5. QED
  BY <1>2, <1>3, <1>4 DEF RuleOf, Missed

LEMMA JudgedFollows == Inv => JudgedFairly
<1> SUFFICES ASSUME Inv, game = "wordle", screen # <<>>,
                    NEW f \in DOMAIN screen.feedback,
                    NEW g \in DOMAIN screen.feedback[f].words,
                    NEW i \in DOMAIN screen.feedback[f].words[g]
             PROVE  LET guess == screen.feedback[f].words[g]
                        state == screen.feedback[f].guesses[g]
                    IN  state[i]
                          = IF i \in InPlace(guess, Solution, guess[i]) THEN "correct"
                            ELSE IF Cardinality(Before(guess, Solution, i))
                                      < Cardinality(Of(Solution, guess[i])
                                                       \ InPlace(guess, Solution, guess[i]))
                            THEN "present" ELSE "wrong"
  BY DEF JudgedFairly, InPlace, Before, Of
<1>1. Solution = puzzle /\ puzzle \in Dictionary
  BY DEF Solution, Inv, Base, TypeOK, PuzzleOK
<1>2. PICK w \in Guesses : screen.feedback[f] = Feedback(w, puzzle)
  <2>1. screen.feedback \in Maybe(Feedbacks)
    BY DEF Inv, Base, TypeOK, PhoneTypeOK, ScreenOK, WordScreens
  <2>2. screen.feedback[f] \in Feedbacks
    BY <2>1, MaybeOne
  <2>3. QED
    BY <2>2 DEF Feedbacks
<1> DEFINE guess == w[g]
<1>3. screen.feedback[f].words = w /\ g \in DOMAIN w /\ i \in DOMAIN guess
      /\ screen.feedback[f].words[g] = guess
  BY <1>2 DEF Feedback
<1>4. guess \in Dictionary
  BY <1>3 DEF Guesses
<1>5. screen.feedback[f].guesses[g] = EvaluateGuess(guess, puzzle)
  BY <1>1, <1>2, <1>3, <1>4 DEF Feedback, Judged
<1> HIDE DEF guess
<1>6. Words(guess, puzzle)
  <2>1. guess \in Seq(Range(guess)) /\ puzzle \in Seq(Range(puzzle)) /\ Len(guess) = Len(puzzle)
    BY <1>1, <1>4, DictionaryAssumption
  <2>2. Range(guess) \subseteq Letters(guess, puzzle) /\ Range(puzzle) \subseteq Letters(guess, puzzle)
    BY DEF Letters
  <2>3. guess \in Seq(Letters(guess, puzzle)) /\ puzzle \in Seq(Letters(guess, puzzle))
    BY <2>1, <2>2
  <2>4. QED
    BY <2>1, <2>3 DEF Words
<1>7. EvaluateGuess(guess, puzzle)[i]
        = IF i \in InPlace(guess, puzzle, guess[i]) THEN "correct"
          ELSE IF Cardinality(Before(guess, puzzle, i))
                    < Cardinality(Of(puzzle, guess[i]) \ InPlace(guess, puzzle, guess[i]))
          THEN "present" ELSE "wrong"
  <2>1. EvaluateGuess(guess, puzzle)[i] = RuleOf(guess, puzzle, i)
    BY ONLY <1>3, <1>6, WordJudged
  <2>2. RuleOf(guess, puzzle, i)
        = IF i \in InPlace(guess, puzzle, guess[i]) THEN "correct"
          ELSE IF Cardinality(Before(guess, puzzle, i))
                    < Cardinality(Of(puzzle, guess[i]) \ InPlace(guess, puzzle, guess[i]))
          THEN "present" ELSE "wrong"
    BY ONLY <1>3, <1>6, RuleIs
  <2>3. QED
    BY <2>1, <2>2
<1>8. QED
  BY <1>1, <1>3, <1>5, <1>7

\* evaluate_guess() marks every letter of every guess by the rule of the game, for
\* any dictionary and any guess, repeated letters included.
THEOREM JudgedFairlyCorrect == Spec => []JudgedFairly
<1>1. Inv => JudgedFairly
  BY JudgedFollows
<1>2. QED
  BY <1>1, InvCorrect, PTL

-----------------------------------------------------------------------------
(* Puzzles that can be won *)

\* Switches pressed twice change nothing: what scrambles the lights wins them.
LEMMA PressedTwice ==
  ASSUME NEW state \in SUBSET Lights, NEW wiring \in [Switches -> SUBSET Lights],
         NEW pressed \in Seq(Switches)
  PROVE  ApplyAll(ApplyAll(state, wiring, pressed), wiring, pressed) = state
<1> DEFINE n == Len(pressed)
           end == ApplyAll(state, wiring, pressed)
<1>1. n \in Nat /\ end \in SUBSET Lights
  BY AppliedTyped
<1>2. PICK a : IsApplied(a, state, wiring, pressed)
  BY AppliedByOne
<1> HIDE DEF end
<1>3. PICK b : IsApplied(b, end, wiring, pressed)
  BY <1>1, AppliedByOne
<1> DEFINE K == {k \in Nat : k <= n => SymDiff(a[k], b[k]) = SymDiff(state, end)}
<1>4. 0 \in K
  BY <1>2, <1>3 DEF IsApplied
<1>5. ASSUME NEW k \in Nat, k \in K PROVE k + 1 \in K
  <2> SUFFICES ASSUME k + 1 <= n
               PROVE  SymDiff(a[k + 1], b[k + 1]) = SymDiff(state, end)
    OBVIOUS
  <2>1. k + 1 \in 1..n /\ (k + 1) - 1 = k /\ SymDiff(a[k], b[k]) = SymDiff(state, end)
    BY <1>1, <1>5
  <2> DEFINE W == wiring[pressed[k + 1]]
  <2>2. a[k + 1] = SymDiff(a[k], W) /\ b[k + 1] = SymDiff(b[k], W)
    BY <1>2, <1>3, <2>1 DEF IsApplied, ApplySwitch
  <2> HIDE DEF W
  <2>3. \A A, B : SymDiff(SymDiff(A, W), SymDiff(B, W)) = SymDiff(A, B)
    BY DEF SymDiff
  <2>4. QED
    BY <2>1, <2>2, <2>3
<1> HIDE DEF K
<1>6. n \in K
  BY <1>1, <1>4, <1>5, CountUp
<1>7. a[n] = end /\ b[n] = ApplyAll(end, wiring, pressed)
  BY <1>2, <1>3 DEF IsApplied, end
<1>8. SymDiff(end, b[n]) = SymDiff(state, end)
  BY <1>1, <1>6, <1>7 DEF K
<1>9. \A A, B, C : SymDiff(A, B) = SymDiff(C, A) => B = C
  <2> SUFFICES ASSUME NEW A, NEW B, NEW C, SymDiff(A, B) = SymDiff(C, A)
               PROVE  B = C
    OBVIOUS
  <2>1. ASSUME NEW x PROVE x \in B <=> x \in C
    <3>1. \A S, T : x \in SymDiff(S, T) <=> ~(x \in S <=> x \in T)
      BY DEF SymDiff
    <3>2. x \in SymDiff(A, B) <=> x \in SymDiff(C, A)
      OBVIOUS
    <3>3. QED
      BY <3>1, <3>2
  <2>2. QED
    BY <2>1
<1>10. b[n] = state
  BY <1>8, <1>9
<1>11. QED
  BY <1>7, <1>10 DEF end

\* Lights that are not the fallback can all be turned on.
LEMMA LightsAreWinnable ==
  ASSUME NEW p \in LightPuzzles
  PROVE  \/ p.lights = FallbackLights
         \/ \E on \in SUBSET Switches : AllOn(ApplyAll(p.lights, p.wiring, SetToSeq(on)))
<1>1. PICK w \in Wirings : p \in [wiring : {w}, lights : Scrambles(w) \cup {FallbackLights}]
  BY DEF LightPuzzles
<1>2. p.wiring = w /\ w \in [Switches -> SUBSET Lights]
  BY <1>1 DEF Wirings
<1>3. p.lights \in Scrambles(w) \cup {FallbackLights}
  BY <1>1
<1>4. CASE p.lights # FallbackLights
  <2>1. PICK thrown \in SUBSET Switches : p.lights = ApplyAll(Lights, w, SetToSeq(thrown))
    BY <1>3, <1>4 DEF Scrambles
  <2>2. IsFiniteSet(thrown)
    <3>1. IsFiniteSet(Switches)
      BY LightAssumption, FS_Interval DEF Switches
    <3>2. QED
      BY <3>1, FS_Subset
  <2>3. SetToSeq(thrown) \in Seq(Switches)
    BY <2>2, SequenceOfSet, SeqMonotonic
  <2>4. ApplyAll(p.lights, w, SetToSeq(thrown)) = Lights
    BY <1>2, <2>1, <2>3, PressedTwice
  <2>5. QED
    BY <1>2, <2>4 DEF AllOn
<1>5. QED
  BY <1>4

\* The clues of a vault leave one code.
LEMMA VaultsHaveOneCode ==
  ASSUME NEW p \in Vaults
  PROVE  {code \in [1..DigitCount -> 0..MaxDigit] : Satisfies(code, p.clues)} = {p.code}
<1>1. PICK c \in (1..4) \X (2..8), o \in Offsets \X Offsets :
         /\ c[2] <= MaxDigit - c[1]
         /\ p.code = Code(c[1], c[2])
         /\ p.clues = <<Equation(c[1], o[1]), Equation(c[2], o[2])>>
  BY DEF Vaults
<1> DEFINE one == c[1]
           two == c[2]
<1>2. one \in 1..4 /\ two \in 2..8 /\ two <= 9 - one /\ o[1] \in 1..4 /\ o[2] \in 1..4
  BY <1>1 DEF MaxDigit, Offsets
<1>3. \A x \in 1..8, y \in 1..4 : Equation(x, y)[1] + Equation(x, y)[2] = x
  BY DEF Equation, MaxDigit
<1>4. p.clues[1][1] + p.clues[1][2] = one /\ p.clues[2][1] + p.clues[2][2] = two
  BY <1>1, <1>2, <1>3
<1>5. p.code = <<one, two, one + two, 10 - (one + two)>>
  BY <1>1 DEF Code, CodeDigitSum
<1> HIDE DEF one, two
<1>6. p.code \in [1..4 -> 0..9]
  BY <1>2, <1>5
<1>7. Satisfies(p.code, p.clues)
  BY <1>2, <1>4, <1>5 DEF Satisfies, CodeDigitSum
<1>8. ASSUME NEW code \in [1..4 -> 0..9], Satisfies(code, p.clues)
      PROVE  code = p.code
  <2>1. code[1] = one /\ code[2] = two /\ code[3] = one + two /\ code[4] = 10 - (one + two)
    BY <1>2, <1>4, <1>8 DEF Satisfies, CodeDigitSum
  <2>2. \A i \in 1..4 : code[i] = p.code[i]
    BY <1>5, <2>1
  <2>3. QED
    BY <1>6, <2>2
<1>9. QED
  BY <1>6, <1>7, <1>8 DEF DigitCount, MaxDigit

\* A round has one game and one puzzle.
LEMMA DealtOnce == [Next]_vars => UNCHANGED <<game, puzzle>>
<1> SUFFICES ASSUME [Next]_vars PROVE UNCHANGED <<game, puzzle>>
  OBVIOUS
<1>1. CASE Play
  BY <1>1 DEF Play, SlideTile, PressSwitch, EnterGuess, EnterCode, PickOption, PointerDown,
              PointerMove, FinishStroke, TakeOff, Fly, Draws, Plays
<1>2. CASE Arrive
  BY <1>2 DEF Arrive, ShowContent, TickArrives, FeedbackArrives, AckArrives, RevealArrives,
              Arrives
<1>3. CASE Serve \/ SaveFails
  BY <1>3 DEF Serve, UpdateProgress, SubmitRound, SaveRow, SaveTwice, SaveFails, Takes, Answered
<1>4. CASE Tick \/ CloseWindow \/ Drop \/ Reopen \/ Over
  BY <1>4 DEF Tick, CloseWindow, Drop, Reopen, Over, vars
<1>5. CASE UNCHANGED vars
  BY <1>5 DEF vars
<1>6. QED
  BY <1>1, <1>2, <1>3, <1>4, <1>5 DEF Next

-----------------------------------------------------------------------------
(* Every scrambled board has a way back. *)

\* A board has one open square.
LEMMA OneZero ==
  ASSUME NEW b \in Boards, NEW j \in Indexes, b[j] = 0
  PROVE  j = Zero(b)
<1>1. b \in [Indexes -> Indexes] /\ {b[k] : k \in Indexes} = Indexes
  BY DEF Boards, ValidBoard
<1>2. IsFiniteSet(Indexes)
  <2>1. IsFiniteSet(0..8)
    BY 0 \in Int, 8 \in Int, FS_Interval
  <2>2. QED
    BY <2>1, IndexesAre
<1>3. b \in Surjection(Indexes, Indexes)
  BY <1>1 DEF Surjection
<1>4. b \in Injection(Indexes, Indexes)
  BY <1>2, <1>3, FS_SurjSameCardinalityImpliesInj
<1>5. Zero(b) \in Indexes /\ b[Zero(b)] = 0
  BY ZeroIs
<1>6. QED
  BY <1>4, <1>5 DEF Injection, IsInjective

\* A step goes back as well.
LEMMA StepsAre ==
  ASSUME NEW i \in Indexes, NEW j \in Indexes
  PROVE  Steps(i, j) = Steps(j, i) /\ Steps(i, i) = 0
<1>1. /\ Row(i) \in Int /\ Row(j) \in Int /\ Column(i) \in Int /\ Column(j) \in Int
  BY IndexesAre DEF Row, Column
<1>2. QED
  BY <1>1 DEF Steps, Apart

\* The tile that was moved can be moved back.
LEMMA MovedBack ==
  ASSUME NEW b \in Boards, NEW i \in LegalTiles(b)
  PROVE  LET m == MoveTile(b, i)
         IN  m \in Boards /\ Zero(b) \in LegalTiles(m) /\ MoveTile(m, Zero(b)) = b
<1> DEFINE z == Zero(b)
           m == MoveTile(b, i)
<1>1. z \in Indexes /\ b[z] = 0 /\ i \in Indexes /\ IsAdjacent(i, z)
  BY ZeroIs DEF LegalTiles
<1>2. i # z /\ IsAdjacent(z, i)
  BY <1>1, StepsAre DEF IsAdjacent
<1>3. m = [b EXCEPT ![z] = b[i], ![i] = 0] /\ m \in Boards
  BY <1>1, MovedBoard DEF MoveTile
<1>4. b \in [Indexes -> Indexes] /\ m \in [Indexes -> Indexes]
  BY <1>3 DEF Boards
<1>5. m[i] = 0 /\ m[z] = b[i] /\ \A j \in Indexes \ {i, z} : m[j] = b[j]
  BY <1>1, <1>2, <1>3, <1>4
<1>6. Zero(m) = i
  BY <1>1, <1>3, <1>5, OneZero
<1> HIDE DEF z, m
<1>7. MoveTile(m, z) = [m EXCEPT ![i] = m[z], ![z] = 0]
  BY <1>2, <1>6 DEF MoveTile
<1>8. [m EXCEPT ![i] = m[z], ![z] = 0] = b
  <2> DEFINE w == [m EXCEPT ![i] = m[z], ![z] = 0]
  <2>1. w \in [Indexes -> Indexes]
    BY <1>1, <1>4, IndexesAre
  <2>2. \A j \in Indexes : w[j] = b[j]
    BY <1>1, <1>2, <1>4, <1>5
  <2> HIDE DEF w
  <2>3. w = b
    BY <1>4, <2>1, <2>2
  <2>4. QED
    BY <2>3 DEF w
<1>9. z \in LegalTiles(m)
  BY <1>1, <1>2, <1>6 DEF LegalTiles
<1>10. QED
  BY <1>3, <1>7, <1>8, <1>9 DEF z, m

\* A way of n moves from a board to the solved one
IsWay(way, n, board) ==
    /\ way \in [0..n -> Boards] /\ way[0] = board /\ way[n] = SolvedBoard
    /\ \A k \in 1..n : \E i \in LegalTiles(way[k - 1]) : way[k] = MoveTile(way[k - 1], i)

\* A way back from a board is one from any board a move away.
LEMMA WayGrows ==
  ASSUME NEW n \in Nat, NEW b \in Boards, NEW way, IsWay(way, n, b),
         NEW i \in LegalTiles(b)
  PROVE  \E w : IsWay(w, n + 1, MoveTile(b, i))
<1> DEFINE m == MoveTile(b, i)
           w == [k \in 0..(n + 1) |-> IF k = 0 THEN m ELSE way[k - 1]]
<1>1. m \in Boards /\ Zero(b) \in LegalTiles(m) /\ MoveTile(m, Zero(b)) = b
  BY MovedBack
<1> HIDE DEF m
<1>2. /\ way \in [0..n -> Boards] /\ way[0] = b /\ way[n] = SolvedBoard
      /\ \A k \in 1..n : \E j \in LegalTiles(way[k - 1]) : way[k] = MoveTile(way[k - 1], j)
  BY DEF IsWay
<1>3. w[0] = m /\ (\A k \in 1..(n + 1) : w[k] = way[k - 1])
  OBVIOUS
<1>4. \A k \in 1..(n + 1) : k - 1 \in 0..n
  OBVIOUS
<1>5. w \in [0..(n + 1) -> Boards]
  BY <1>1, <1>2, <1>4
<1>6. w[n + 1] = SolvedBoard
  <2>1. n + 1 \in 1..(n + 1) /\ (n + 1) - 1 = n
    OBVIOUS
  <2>2. QED
    BY <1>2, <1>3, <2>1
<1>7. ASSUME NEW k \in 1..(n + 1)
      PROVE  \E j \in LegalTiles(w[k - 1]) : w[k] = MoveTile(w[k - 1], j)
  <2>1. CASE k = 1
    <3>1. w[k - 1] = m /\ w[k] = b
      BY <1>2, <1>3, <2>1
    <3> HIDE DEF w
    <3>2. QED
      BY <1>1, <3>1
  <2>2. CASE k # 1
    <3>1. k - 1 \in 1..n /\ k - 1 \in 1..(n + 1)
      BY <2>2
    <3>2. w[k] = way[k - 1] /\ w[k - 1] = way[(k - 1) - 1]
      BY <1>3, <3>1
    <3> HIDE DEF w
    <3>3. QED
      BY <1>2, <3>1, <3>2
  <2>3. QED
    BY <2>1, <2>2
<1> HIDE DEF w
<1>8. IsWay(w, n + 1, m)
  BY <1>3, <1>5, <1>6, <1>7 DEF IsWay
<1>9. QED
  BY <1>8 DEF m

\* A scrambled board is solved by as many moves as scrambled it.
LEMMA ScrambledWay ==
  ASSUME NEW moves \in Nat, NEW board \in ScrambledBoards(moves)
  PROVE  \E way : IsWay(way, moves, board)
<1> DEFINE after == CHOOSE after : Scrambling(after, moves)
<1>1. Scrambling(after, moves)
  BY ScramblingExists
<1>2. ScrambledBoards(moves) = {b[1] : b \in after[moves]} \ {SolvedBoard}
  BY DEF ScrambledBoards, Scrambling
<1> HIDE DEF after
<1> DEFINE K == {k \in Nat : k <= moves =>
                   \A b \in after[k] : b[1] \in Boards /\ \E way : IsWay(way, k, b[1])}
<1>3. after[0] = {<<SolvedBoard, -1>>}
  BY <1>1 DEF Scrambling
<1>4. 0 \in K
  <2> DEFINE way == [k \in 0..0 |-> SolvedBoard]
  <2>1. IsWay(way, 0, SolvedBoard)
    BY SolvedTyped DEF IsWay
  <2> HIDE DEF way
  <2>2. QED
    BY <1>3, <2>1, SolvedTyped
<1>5. ASSUME NEW k \in Nat, k \in K PROVE k + 1 \in K
  <2> SUFFICES ASSUME k + 1 <= moves, NEW c \in after[k + 1]
               PROVE  c[1] \in Boards /\ \E way : IsWay(way, k + 1, c[1])
    OBVIOUS
  <2>1. after[k + 1] = ScrambleStep(after[k])
    <3>1. k + 1 \in 0..moves /\ k + 1 # 0 /\ (k + 1) - 1 = k
      OBVIOUS
    <3>2. QED
      BY <1>1, <3>1 DEF Scrambling
  <2>2. \E b \in after[k] : \E i \in LegalTiles(b[1]) :
          c = <<MoveTile(b[1], i), Zero(b[1])>>
    BY <2>1 DEF ScrambleStep
  <2>3. PICK b \in after[k] : \E i \in LegalTiles(b[1]) :
          c = <<MoveTile(b[1], i), Zero(b[1])>>
    BY <2>2
  <2>4. PICK i \in LegalTiles(b[1]) : c = <<MoveTile(b[1], i), Zero(b[1])>>
    BY <2>3
  <2>5. c[1] = MoveTile(b[1], i)
    BY <2>4
  <2>6. b[1] \in Boards /\ \E way : IsWay(way, k, b[1])
    BY <1>5, k <= moves
  <2>7. QED
    BY <2>5, <2>6, MovedBack, WayGrows
<1> HIDE DEF K
<1>6. moves \in K
  BY <1>4, <1>5, CountUp
<1>7. QED
  BY <1>2, <1>6 DEF K

\* Every board that createScrambledBoard() deals can be solved by legal moves, as many
\* as scrambled it: a tile that was moved can be moved back.
THEOREM BoardsAreSolvable ==
  Spec => [](game = "sliding-puzzle" =>
               \E moves \in ScrambleMoves : \E way : IsWay(way, moves, puzzle))
<1> DEFINE Dealt == puzzle \in Puzzles(game)
           Solvable == game = "sliding-puzzle" =>
                         \E moves \in ScrambleMoves : \E way : IsWay(way, moves, puzzle)
<1>1. Init => Dealt
  BY DEF Init, Deal
<1>2. Dealt /\ [Next]_vars => Dealt'
  BY DealtOnce
<1>3. Dealt => Solvable
  <2> SUFFICES ASSUME Dealt, game = "sliding-puzzle"
               PROVE  \E moves \in ScrambleMoves : \E way : IsWay(way, moves, puzzle)
    OBVIOUS
  <2>1. PICK m \in ScrambleMoves : puzzle \in Scrambled[m]
    BY DEF Puzzles
  <2>2. m \in 1..Max(ScrambleMoves) /\ m \in Nat
    BY RoundAssumption
  <2>3. puzzle \in ScrambledBoards(m)
    BY <2>1, <2>2 DEF Scrambled
  <2>4. QED
    BY <2>2, <2>3, ScrambledWay
<1> HIDE DEF Dealt, Solvable
<1>4. Spec => []Solvable
  BY <1>1, <1>2, <1>3, PTL DEF Spec
<1>5. QED
  BY <1>4 DEF Solvable

-----------------------------------------------------------------------------
(* The torque of a scale, item by item *)

Turns(p) == SideSign(p.side) * p.slot * Weight(p.item)

Weighing(placed, g) ==
  g = [s \in SUBSET DOMAIN placed |->
         IF s = {} THEN 0 ELSE g[s \ {Max(s)}]
                               + SideSign(placed[Max(s)].side) * placed[Max(s)].slot
                                 * Weight(placed[Max(s)].item)]

\* TotalTorque() as a fold over the items placed
LEMMA TorqueIsFold ==
  ASSUME NEW placed
  PROVE  TotalTorque(placed) = (CHOOSE g : Weighing(placed, g))[DOMAIN placed]
BY DEF TotalTorque, FoldLeft, MapThenFoldSet, Weighing

HasTorque(n, placed, pull) ==
    \E turn \in [0..n -> Int] : /\ turn[0] = 0 /\ TotalTorque(placed) = turn[n]
                                /\ \A i \in 1..n : turn[i] = turn[i - 1] + pull[i]

\* The torque is added item by item.
LEMMA TorqueByItem ==
  ASSUME NEW n \in Nat, NEW placed, DOMAIN placed = 1..n,
         NEW pull \in [1..n -> Int], \A i \in 1..n : Turns(placed[i]) = pull[i]
  PROVE  HasTorque(n, placed, pull)
<1> DEFINE step == [i \in 1..n |-> [v \in Int |-> v + pull[i]]]
<1>1. \A i \in 1..n, v \in Int : v + pull[i] \in Int
  OBVIOUS
<1>2. \A i \in 1..n : step[i] \in [Int -> Int]
  BY <1>1
<1>3. \A i \in 1..n, v \in Int : step[i][v] = v + pull[i]
  OBVIOUS
<1> HIDE DEF step
<1>4. PICK f : IsFold(f, n, 0, step)
  BY FoldExists
<1>5. \A s \in SUBSET (1..n) : f[s] \in Int
  <2>1. 0 \in Int
    OBVIOUS
  <2>2. QED
    BY <1>2, <1>4, <2>1, FoldTyped
<1>6. Weighing(placed, f)
  <2>1. ASSUME NEW s \in SUBSET (1..n), s # {}
        PROVE  step[Max(s)][f[s \ {Max(s)}]]
                 = f[s \ {Max(s)}] + SideSign(placed[Max(s)].side) * placed[Max(s)].slot
                                     * Weight(placed[Max(s)].item)
    <3>1. Max(s) \in 1..n /\ s \ {Max(s)} \in SUBSET (1..n)
      BY <2>1, MaxIsIn
    <3> DEFINE m == Max(s)
    <3> HIDE DEF m
    <3>2. m \in 1..n => pull[m] = SideSign(placed[m].side) * placed[m].slot
                                  * Weight(placed[m].item)
      BY DEF Turns
    <3>3. step[m][f[s \ {m}]] = f[s \ {m}] + pull[m]
      BY <1>3, <1>5, <3>1 DEF m
    <3>4. QED
      BY <3>1, <3>2, <3>3 DEF m
  <2>2. QED
    BY <1>4, <2>1 DEF IsFold, Weighing
<1> DEFINE g == CHOOSE h : Weighing(placed, h)
<1>7. Weighing(placed, g)
  BY <1>6
<1> HIDE DEF g
<1>8. g[{}] = 0
  BY <1>7 DEF Weighing
<1>9. \A s \in SUBSET (1..n) : (s # {} /\ g[s \ {Max(s)}] \in Int) =>
            g[s] = step[Max(s)][g[s \ {Max(s)}]]
  <2> SUFFICES ASSUME NEW s \in SUBSET (1..n), s # {}, g[s \ {Max(s)}] \in Int
               PROVE  g[s] = step[Max(s)][g[s \ {Max(s)}]]
    OBVIOUS
  <2> DEFINE m == Max(s)
  <2>1. m \in 1..n
    BY MaxIsIn
  <2>2. g[s] = g[s \ {m}] + SideSign(placed[m].side) * placed[m].slot * Weight(placed[m].item)
    BY <1>7 DEF Weighing
  <2> HIDE DEF m
  <2>3. g[s] = g[s \ {m}] + pull[m]
    BY <2>1, <2>2 DEF Turns
  <2>4. QED
    BY <1>3, <2>1, <2>3 DEF m
<1>10. HasTurns(n, Int, 0, step, g)
  <2>1. 0 \in Int
    OBVIOUS
  <2>2. QED
    BY ONLY <1>2, <1>8, <1>9, <2>1, n \in Nat, FoldTurns
<1>11. PICK turn \in [0..n -> Int] :
          /\ turn[0] = 0 /\ turn[n] = g[1..n]
          /\ \A i \in 1..n : turn[i] = step[i][turn[i - 1]]
  BY <1>10 DEF HasTurns
<1>12. \A i \in 1..n : i - 1 \in 0..n
  OBVIOUS
<1>13. \A i \in 1..n : turn[i] = turn[i - 1] + pull[i]
  BY <1>3, <1>11, <1>12
<1>14. TotalTorque(placed) = turn[n]
  BY <1>11, TorqueIsFold DEF g
<1>15. QED
  BY <1>11, <1>13, <1>14 DEF HasTorque

\* The torque of three to five items
LEMMA TorqueOfFew ==
  ASSUME NEW n \in Nat, n \in 3..5, NEW placed, DOMAIN placed = 1..n,
         NEW pull \in [1..n -> Int], \A i \in 1..n : Turns(placed[i]) = pull[i]
  PROVE  TotalTorque(placed) =
           pull[1] + pull[2] + pull[3]
           + (IF n > 3 THEN pull[4] ELSE 0) + (IF n > 4 THEN pull[5] ELSE 0)
<1>1. n = 3 \/ n = 4 \/ n = 5
  OBVIOUS
<1>2. PICK turn \in [0..n -> Int] :
           /\ turn[0] = 0 /\ TotalTorque(placed) = turn[n]
           /\ \A i \in 1..n : turn[i] = turn[i - 1] + pull[i]
  <2>1. HasTorque(n, placed, pull)
    BY TorqueByItem
  <2>2. QED
    BY <2>1 DEF HasTorque
<1>3. 1 \in 1..n /\ 2 \in 1..n /\ 3 \in 1..n
  OBVIOUS
<1>4. turn[3] = pull[1] + pull[2] + pull[3]
  <2>1. turn[1] = turn[0] + pull[1]
    BY <1>2, <1>3
  <2>2. turn[2] = turn[1] + pull[2]
    BY <1>2, <1>3
  <2>3. turn[3] = turn[2] + pull[3]
    BY <1>2, <1>3
  <2>4. pull[1] \in Int /\ pull[2] \in Int /\ pull[3] \in Int
    BY <1>3
  <2>5. QED
    BY <1>2, <2>1, <2>2, <2>3, <2>4
<1>5. n > 3 => turn[4] = turn[3] + pull[4] /\ pull[4] \in Int
  <2> SUFFICES ASSUME n > 3 PROVE turn[4] = turn[3] + pull[4] /\ pull[4] \in Int
    OBVIOUS
  <2>1. 4 \in 1..n /\ 4 - 1 = 3
    OBVIOUS
  <2>2. turn[4] = turn[4 - 1] + pull[4]
    BY <1>2, <2>1
  <2>3. pull[4] \in Int
    BY <2>1
  <2>4. QED
    BY <2>1, <2>2, <2>3
<1>6. n > 4 => turn[5] = turn[4] + pull[5] /\ pull[5] \in Int
  <2> SUFFICES ASSUME n > 4 PROVE turn[5] = turn[4] + pull[5] /\ pull[5] \in Int
    OBVIOUS
  <2>1. 5 \in 1..n /\ 5 - 1 = 4
    OBVIOUS
  <2>2. turn[5] = turn[5 - 1] + pull[5]
    BY <1>2, <2>1
  <2>3. pull[5] \in Int
    BY <2>1
  <2>4. QED
    BY <2>1, <2>2, <2>3
<1>7. pull[1] \in Int /\ pull[2] \in Int /\ pull[3] \in Int
  BY <1>3
<1>8. CASE n = 3
  <2>1. TotalTorque(placed) = pull[1] + pull[2] + pull[3]
    BY <1>2, <1>4, <1>8
  <2>2. QED
    BY <1>7, <1>8, <2>1
<1>9. CASE n = 4
  <2>1. TotalTorque(placed) = turn[4]
    BY <1>2, <1>9
  <2>2. QED
    BY <1>4, <1>5, <1>7, <1>9, <2>1
<1>10. CASE n = 5
  <2>1. TotalTorque(placed) = turn[5]
    BY <1>2, <1>10
  <2>2. QED
    BY <1>4, <1>5, <1>6, <1>7, <1>10, <2>1
<1>11. QED
  BY <1>8, <1>9, <1>10

-----------------------------------------------------------------------------
(* The layouts of a scale, and the item that levels each *)

\* The items of a layout, those on the left first
ItemAt(l, i) == IF i <= Len(l.left) THEN l.left[i] ELSE l.right[i - Len(l.left)]
SideAt(l, i) == IF i <= Len(l.left) THEN "left" ELSE "right"
Pull(l, i) == SideSign(SideAt(l, i)) * 2 * ItemAt(l, i)

\* A layout has three or four items, not all alike, and one more levels it.
Balances(difficulty, l, n, c) ==
    /\ n \in 3..4 /\ c \in Options(difficulty) /\ l.addTo \in Sides
    /\ Len(l.left) \in Nat /\ Len(l.right) \in Nat /\ Len(l.left) + Len(l.right) = n
    /\ DOMAIN l.left = 1..Len(l.left) /\ DOMAIN l.right = 1..Len(l.right)
    /\ \A i \in 1..n : ItemAt(l, i) \in Options(difficulty)
    /\ \E i, j \in 1..n : ItemAt(l, i) # ItemAt(l, j)
    /\ Pull(l, 1) + Pull(l, 2) + Pull(l, 3) + (IF n > 3 THEN Pull(l, 4) ELSE 0)
         = -(SideSign(l.addTo) * 2 * c)

\* The options of each difficulty, and the signs of the sides
LEMMA OptionsAre ==
  /\ Options("easy") = 1..3 /\ Options("hard") = 1..4
  /\ SideSign("left") = -1 /\ SideSign("right") = 1
BY DEF Options, ItemCount, SideSign

\* Each easy layout has an item that levels it,
LEMMA EasyBalances ==
  ASSUME NEW l \in Layouts("easy")
  PROVE  \E n, c : Balances("easy", l, n, c)
<1>1. CASE l = Layout(<<2, 2>>, <<1>>, "right")
  <2>1. l.left = <<2, 2>> /\ l.right = <<1>> /\ l.addTo = "right"
    BY <1>1 DEF Layout
  <2>2. /\ Len(l.left) = 2 /\ Len(l.right) = 1
        /\ DOMAIN l.left = 1..2 /\ DOMAIN l.right = 1..1
    BY <2>1
  <2>3. ItemAt(l, 1) = 2 /\ ItemAt(l, 2) = 2 /\ ItemAt(l, 3) = 1
    BY <2>1, <2>2 DEF ItemAt
  <2>4. SideAt(l, 1) = "left" /\ SideAt(l, 2) = "left" /\ SideAt(l, 3) = "right"
    BY <2>2 DEF SideAt
  <2>5. Pull(l, 1) = -4 /\ Pull(l, 2) = -4 /\ Pull(l, 3) = 2
    BY <2>3, <2>4, OptionsAre DEF Pull
  <2>6. \A i \in 1..3 : ItemAt(l, i) \in 1..3
    <3>1. \A i \in 1..3 : i = 1 \/ i = 2 \/ i = 3
      OBVIOUS
    <3>2. QED
      BY <2>3, <3>1
  <2>7. Balances("easy", l, 3, 3)
    BY <2>1, <2>2, <2>3, <2>5, <2>6, OptionsAre DEF Balances, Sides
  <2>8. QED
    BY <2>7
<1>2. CASE l = Layout(<<2, 2>>, <<3>>, "right")
  <2>1. l.left = <<2, 2>> /\ l.right = <<3>> /\ l.addTo = "right"
    BY <1>2 DEF Layout
  <2>2. /\ Len(l.left) = 2 /\ Len(l.right) = 1
        /\ DOMAIN l.left = 1..2 /\ DOMAIN l.right = 1..1
    BY <2>1
  <2>3. ItemAt(l, 1) = 2 /\ ItemAt(l, 2) = 2 /\ ItemAt(l, 3) = 3
    BY <2>1, <2>2 DEF ItemAt
  <2>4. SideAt(l, 1) = "left" /\ SideAt(l, 2) = "left" /\ SideAt(l, 3) = "right"
    BY <2>2 DEF SideAt
  <2>5. Pull(l, 1) = -4 /\ Pull(l, 2) = -4 /\ Pull(l, 3) = 6
    BY <2>3, <2>4, OptionsAre DEF Pull
  <2>6. \A i \in 1..3 : ItemAt(l, i) \in 1..3
    <3>1. \A i \in 1..3 : i = 1 \/ i = 2 \/ i = 3
      OBVIOUS
    <3>2. QED
      BY <2>3, <3>1
  <2>7. Balances("easy", l, 3, 1)
    BY <2>1, <2>2, <2>3, <2>5, <2>6, OptionsAre DEF Balances, Sides
  <2>8. QED
    BY <2>7
<1>3. CASE l = Layout(<<3, 1>>, <<3>>, "right")
  <2>1. l.left = <<3, 1>> /\ l.right = <<3>> /\ l.addTo = "right"
    BY <1>3 DEF Layout
  <2>2. /\ Len(l.left) = 2 /\ Len(l.right) = 1
        /\ DOMAIN l.left = 1..2 /\ DOMAIN l.right = 1..1
    BY <2>1
  <2>3. ItemAt(l, 1) = 3 /\ ItemAt(l, 2) = 1 /\ ItemAt(l, 3) = 3
    BY <2>1, <2>2 DEF ItemAt
  <2>4. SideAt(l, 1) = "left" /\ SideAt(l, 2) = "left" /\ SideAt(l, 3) = "right"
    BY <2>2 DEF SideAt
  <2>5. Pull(l, 1) = -6 /\ Pull(l, 2) = -2 /\ Pull(l, 3) = 6
    BY <2>3, <2>4, OptionsAre DEF Pull
  <2>6. \A i \in 1..3 : ItemAt(l, i) \in 1..3
    <3>1. \A i \in 1..3 : i = 1 \/ i = 2 \/ i = 3
      OBVIOUS
    <3>2. QED
      BY <2>3, <3>1
  <2>7. Balances("easy", l, 3, 1)
    BY <2>1, <2>2, <2>3, <2>5, <2>6, OptionsAre DEF Balances, Sides
  <2>8. QED
    BY <2>7
<1>4. CASE l = Layout(<<2, 1>>, <<1>>, "right")
  <2>1. l.left = <<2, 1>> /\ l.right = <<1>> /\ l.addTo = "right"
    BY <1>4 DEF Layout
  <2>2. /\ Len(l.left) = 2 /\ Len(l.right) = 1
        /\ DOMAIN l.left = 1..2 /\ DOMAIN l.right = 1..1
    BY <2>1
  <2>3. ItemAt(l, 1) = 2 /\ ItemAt(l, 2) = 1 /\ ItemAt(l, 3) = 1
    BY <2>1, <2>2 DEF ItemAt
  <2>4. SideAt(l, 1) = "left" /\ SideAt(l, 2) = "left" /\ SideAt(l, 3) = "right"
    BY <2>2 DEF SideAt
  <2>5. Pull(l, 1) = -4 /\ Pull(l, 2) = -2 /\ Pull(l, 3) = 2
    BY <2>3, <2>4, OptionsAre DEF Pull
  <2>6. \A i \in 1..3 : ItemAt(l, i) \in 1..3
    <3>1. \A i \in 1..3 : i = 1 \/ i = 2 \/ i = 3
      OBVIOUS
    <3>2. QED
      BY <2>3, <3>1
  <2>7. Balances("easy", l, 3, 2)
    BY <2>1, <2>2, <2>3, <2>5, <2>6, OptionsAre DEF Balances, Sides
  <2>8. QED
    BY <2>7
<1>5. QED
  BY <1>1, <1>2, <1>3, <1>4 DEF Layouts

\* ... and so has each hard one.
LEMMA HardBalances ==
  ASSUME NEW l \in Layouts("hard")
  PROVE  \E n, c : Balances("hard", l, n, c)
<1>1. CASE l = Layout(<<4, 2>>, <<3, 2>>, "right")
  <2>1. l.left = <<4, 2>> /\ l.right = <<3, 2>> /\ l.addTo = "right"
    BY <1>1 DEF Layout
  <2>2. /\ Len(l.left) = 2 /\ Len(l.right) = 2
        /\ DOMAIN l.left = 1..2 /\ DOMAIN l.right = 1..2
    BY <2>1
  <2>3. ItemAt(l, 1) = 4 /\ ItemAt(l, 2) = 2 /\ ItemAt(l, 3) = 3 /\ ItemAt(l, 4) = 2
    BY <2>1, <2>2 DEF ItemAt
  <2>4. SideAt(l, 1) = "left" /\ SideAt(l, 2) = "left" /\ SideAt(l, 3) = "right" /\ SideAt(l, 4) = "right"
    BY <2>2 DEF SideAt
  <2>5. Pull(l, 1) = -8 /\ Pull(l, 2) = -4 /\ Pull(l, 3) = 6 /\ Pull(l, 4) = 4
    BY <2>3, <2>4, OptionsAre DEF Pull
  <2>6. \A i \in 1..4 : ItemAt(l, i) \in 1..4
    <3>1. \A i \in 1..4 : i = 1 \/ i = 2 \/ i = 3 \/ i = 4
      OBVIOUS
    <3>2. QED
      BY <2>3, <3>1
  <2>7. Balances("hard", l, 4, 1)
    BY <2>1, <2>2, <2>3, <2>5, <2>6, OptionsAre DEF Balances, Sides
  <2>8. QED
    BY <2>7
<1>2. CASE l = Layout(<<4, 3>>, <<4, 1>>, "right")
  <2>1. l.left = <<4, 3>> /\ l.right = <<4, 1>> /\ l.addTo = "right"
    BY <1>2 DEF Layout
  <2>2. /\ Len(l.left) = 2 /\ Len(l.right) = 2
        /\ DOMAIN l.left = 1..2 /\ DOMAIN l.right = 1..2
    BY <2>1
  <2>3. ItemAt(l, 1) = 4 /\ ItemAt(l, 2) = 3 /\ ItemAt(l, 3) = 4 /\ ItemAt(l, 4) = 1
    BY <2>1, <2>2 DEF ItemAt
  <2>4. SideAt(l, 1) = "left" /\ SideAt(l, 2) = "left" /\ SideAt(l, 3) = "right" /\ SideAt(l, 4) = "right"
    BY <2>2 DEF SideAt
  <2>5. Pull(l, 1) = -8 /\ Pull(l, 2) = -6 /\ Pull(l, 3) = 8 /\ Pull(l, 4) = 2
    BY <2>3, <2>4, OptionsAre DEF Pull
  <2>6. \A i \in 1..4 : ItemAt(l, i) \in 1..4
    <3>1. \A i \in 1..4 : i = 1 \/ i = 2 \/ i = 3 \/ i = 4
      OBVIOUS
    <3>2. QED
      BY <2>3, <3>1
  <2>7. Balances("hard", l, 4, 2)
    BY <2>1, <2>2, <2>3, <2>5, <2>6, OptionsAre DEF Balances, Sides
  <2>8. QED
    BY <2>7
<1>3. CASE l = Layout(<<4, 2>>, <<1, 2>>, "right")
  <2>1. l.left = <<4, 2>> /\ l.right = <<1, 2>> /\ l.addTo = "right"
    BY <1>3 DEF Layout
  <2>2. /\ Len(l.left) = 2 /\ Len(l.right) = 2
        /\ DOMAIN l.left = 1..2 /\ DOMAIN l.right = 1..2
    BY <2>1
  <2>3. ItemAt(l, 1) = 4 /\ ItemAt(l, 2) = 2 /\ ItemAt(l, 3) = 1 /\ ItemAt(l, 4) = 2
    BY <2>1, <2>2 DEF ItemAt
  <2>4. SideAt(l, 1) = "left" /\ SideAt(l, 2) = "left" /\ SideAt(l, 3) = "right" /\ SideAt(l, 4) = "right"
    BY <2>2 DEF SideAt
  <2>5. Pull(l, 1) = -8 /\ Pull(l, 2) = -4 /\ Pull(l, 3) = 2 /\ Pull(l, 4) = 4
    BY <2>3, <2>4, OptionsAre DEF Pull
  <2>6. \A i \in 1..4 : ItemAt(l, i) \in 1..4
    <3>1. \A i \in 1..4 : i = 1 \/ i = 2 \/ i = 3 \/ i = 4
      OBVIOUS
    <3>2. QED
      BY <2>3, <3>1
  <2>7. Balances("hard", l, 4, 3)
    BY <2>1, <2>2, <2>3, <2>5, <2>6, OptionsAre DEF Balances, Sides
  <2>8. QED
    BY <2>7
<1>4. CASE l = Layout(<<1, 2, 3>>, <<2>>, "right")
  <2>1. l.left = <<1, 2, 3>> /\ l.right = <<2>> /\ l.addTo = "right"
    BY <1>4 DEF Layout
  <2>2. /\ Len(l.left) = 3 /\ Len(l.right) = 1
        /\ DOMAIN l.left = 1..3 /\ DOMAIN l.right = 1..1
    BY <2>1
  <2>3. ItemAt(l, 1) = 1 /\ ItemAt(l, 2) = 2 /\ ItemAt(l, 3) = 3 /\ ItemAt(l, 4) = 2
    BY <2>1, <2>2 DEF ItemAt
  <2>4. SideAt(l, 1) = "left" /\ SideAt(l, 2) = "left" /\ SideAt(l, 3) = "left" /\ SideAt(l, 4) = "right"
    BY <2>2 DEF SideAt
  <2>5. Pull(l, 1) = -2 /\ Pull(l, 2) = -4 /\ Pull(l, 3) = -6 /\ Pull(l, 4) = 4
    BY <2>3, <2>4, OptionsAre DEF Pull
  <2>6. \A i \in 1..4 : ItemAt(l, i) \in 1..4
    <3>1. \A i \in 1..4 : i = 1 \/ i = 2 \/ i = 3 \/ i = 4
      OBVIOUS
    <3>2. QED
      BY <2>3, <3>1
  <2>7. Balances("hard", l, 4, 4)
    BY <2>1, <2>2, <2>3, <2>5, <2>6, OptionsAre DEF Balances, Sides
  <2>8. QED
    BY <2>7
<1>5. CASE l = Layout(<<1, 2>>, <<1, 3>>, "left")
  <2>1. l.left = <<1, 2>> /\ l.right = <<1, 3>> /\ l.addTo = "left"
    BY <1>5 DEF Layout
  <2>2. /\ Len(l.left) = 2 /\ Len(l.right) = 2
        /\ DOMAIN l.left = 1..2 /\ DOMAIN l.right = 1..2
    BY <2>1
  <2>3. ItemAt(l, 1) = 1 /\ ItemAt(l, 2) = 2 /\ ItemAt(l, 3) = 1 /\ ItemAt(l, 4) = 3
    BY <2>1, <2>2 DEF ItemAt
  <2>4. SideAt(l, 1) = "left" /\ SideAt(l, 2) = "left" /\ SideAt(l, 3) = "right" /\ SideAt(l, 4) = "right"
    BY <2>2 DEF SideAt
  <2>5. Pull(l, 1) = -2 /\ Pull(l, 2) = -4 /\ Pull(l, 3) = 2 /\ Pull(l, 4) = 6
    BY <2>3, <2>4, OptionsAre DEF Pull
  <2>6. \A i \in 1..4 : ItemAt(l, i) \in 1..4
    <3>1. \A i \in 1..4 : i = 1 \/ i = 2 \/ i = 3 \/ i = 4
      OBVIOUS
    <3>2. QED
      BY <2>3, <3>1
  <2>7. Balances("hard", l, 4, 1)
    BY <2>1, <2>2, <2>3, <2>5, <2>6, OptionsAre DEF Balances, Sides
  <2>8. QED
    BY <2>7
<1>6. CASE l = Layout(<<1, 2>>, <<1, 4>>, "left")
  <2>1. l.left = <<1, 2>> /\ l.right = <<1, 4>> /\ l.addTo = "left"
    BY <1>6 DEF Layout
  <2>2. /\ Len(l.left) = 2 /\ Len(l.right) = 2
        /\ DOMAIN l.left = 1..2 /\ DOMAIN l.right = 1..2
    BY <2>1
  <2>3. ItemAt(l, 1) = 1 /\ ItemAt(l, 2) = 2 /\ ItemAt(l, 3) = 1 /\ ItemAt(l, 4) = 4
    BY <2>1, <2>2 DEF ItemAt
  <2>4. SideAt(l, 1) = "left" /\ SideAt(l, 2) = "left" /\ SideAt(l, 3) = "right" /\ SideAt(l, 4) = "right"
    BY <2>2 DEF SideAt
  <2>5. Pull(l, 1) = -2 /\ Pull(l, 2) = -4 /\ Pull(l, 3) = 2 /\ Pull(l, 4) = 8
    BY <2>3, <2>4, OptionsAre DEF Pull
  <2>6. \A i \in 1..4 : ItemAt(l, i) \in 1..4
    <3>1. \A i \in 1..4 : i = 1 \/ i = 2 \/ i = 3 \/ i = 4
      OBVIOUS
    <3>2. QED
      BY <2>3, <3>1
  <2>7. Balances("hard", l, 4, 2)
    BY <2>1, <2>2, <2>3, <2>5, <2>6, OptionsAre DEF Balances, Sides
  <2>8. QED
    BY <2>7
<1>7. CASE l = Layout(<<1, 1>>, <<2, 3>>, "left")
  <2>1. l.left = <<1, 1>> /\ l.right = <<2, 3>> /\ l.addTo = "left"
    BY <1>7 DEF Layout
  <2>2. /\ Len(l.left) = 2 /\ Len(l.right) = 2
        /\ DOMAIN l.left = 1..2 /\ DOMAIN l.right = 1..2
    BY <2>1
  <2>3. ItemAt(l, 1) = 1 /\ ItemAt(l, 2) = 1 /\ ItemAt(l, 3) = 2 /\ ItemAt(l, 4) = 3
    BY <2>1, <2>2 DEF ItemAt
  <2>4. SideAt(l, 1) = "left" /\ SideAt(l, 2) = "left" /\ SideAt(l, 3) = "right" /\ SideAt(l, 4) = "right"
    BY <2>2 DEF SideAt
  <2>5. Pull(l, 1) = -2 /\ Pull(l, 2) = -2 /\ Pull(l, 3) = 4 /\ Pull(l, 4) = 6
    BY <2>3, <2>4, OptionsAre DEF Pull
  <2>6. \A i \in 1..4 : ItemAt(l, i) \in 1..4
    <3>1. \A i \in 1..4 : i = 1 \/ i = 2 \/ i = 3 \/ i = 4
      OBVIOUS
    <3>2. QED
      BY <2>3, <3>1
  <2>7. Balances("hard", l, 4, 3)
    BY <2>1, <2>2, <2>3, <2>5, <2>6, OptionsAre DEF Balances, Sides
  <2>8. QED
    BY <2>7
<1>8. CASE l = Layout(<<1, 1>>, <<2, 4>>, "left")
  <2>1. l.left = <<1, 1>> /\ l.right = <<2, 4>> /\ l.addTo = "left"
    BY <1>8 DEF Layout
  <2>2. /\ Len(l.left) = 2 /\ Len(l.right) = 2
        /\ DOMAIN l.left = 1..2 /\ DOMAIN l.right = 1..2
    BY <2>1
  <2>3. ItemAt(l, 1) = 1 /\ ItemAt(l, 2) = 1 /\ ItemAt(l, 3) = 2 /\ ItemAt(l, 4) = 4
    BY <2>1, <2>2 DEF ItemAt
  <2>4. SideAt(l, 1) = "left" /\ SideAt(l, 2) = "left" /\ SideAt(l, 3) = "right" /\ SideAt(l, 4) = "right"
    BY <2>2 DEF SideAt
  <2>5. Pull(l, 1) = -2 /\ Pull(l, 2) = -2 /\ Pull(l, 3) = 4 /\ Pull(l, 4) = 8
    BY <2>3, <2>4, OptionsAre DEF Pull
  <2>6. \A i \in 1..4 : ItemAt(l, i) \in 1..4
    <3>1. \A i \in 1..4 : i = 1 \/ i = 2 \/ i = 3 \/ i = 4
      OBVIOUS
    <3>2. QED
      BY <2>3, <3>1
  <2>7. Balances("hard", l, 4, 4)
    BY <2>1, <2>2, <2>3, <2>5, <2>6, OptionsAre DEF Balances, Sides
  <2>8. QED
    BY <2>7
<1>9. QED
  BY <1>1, <1>2, <1>3, <1>4, <1>5, <1>6, <1>7, <1>8 DEF Layouts

-----------------------------------------------------------------------------

Card(l, i) == [item |-> ItemAt(l, i), side |-> SideAt(l, i), slot |-> 2]

\* The cards placed, one by one
LEMMA PlacedIs ==
  ASSUME NEW difficulty, NEW l, NEW n, NEW c, Balances(difficulty, l, n, c)
  PROVE  /\ Placed(l) = [i \in 1..n |-> Card(l, i)]
         /\ DOMAIN Placed(l) = 1..n /\ Len(Placed(l)) = n /\ n \in Nat
<1> DEFINE L == [i \in DOMAIN l.left |-> [item |-> l.left[i], side |-> "left", slot |-> 2]]
           R == [i \in DOMAIN l.right |-> [item |-> l.right[i], side |-> "right", slot |-> 2]]
           a == Len(l.left)
           b == Len(l.right)
           All == {L[i] : i \in 1..a} \cup {R[i] : i \in 1..b}
<1>1. /\ a \in Nat /\ b \in Nat /\ a + b = n /\ n \in Nat
      /\ DOMAIN l.left = 1..a /\ DOMAIN l.right = 1..b
  <2>1. /\ a \in Nat /\ b \in Nat /\ a + b = n
        /\ DOMAIN l.left = 1..a /\ DOMAIN l.right = 1..b
    BY DEF Balances
  <2> HIDE DEF a, b
  <2>2. QED
    BY <2>1
<1>2. Placed(l) = L \o R
  BY DEF Placed, GeneratedSlot
<1>3. /\ L \in [1..a -> All] /\ R \in [1..b -> All]
      /\ \A i \in 1..a : L[i] = [item |-> l.left[i], side |-> "left", slot |-> 2]
      /\ \A i \in 1..b : R[i] = [item |-> l.right[i], side |-> "right", slot |-> 2]
  BY <1>1
<1> HIDE DEF L, R, All, a, b
<1>4. L \in Seq(All) /\ R \in Seq(All) /\ Len(L) = a /\ Len(R) = b
  BY <1>1, <1>3
<1>5. /\ L \o R \in Seq(All) /\ Len(L \o R) = n
      /\ \A i \in 1..n : (L \o R)[i] = IF i <= a THEN L[i] ELSE R[i - a]
  <2>1. /\ L \o R \in Seq(All) /\ Len(L \o R) = Len(L) + Len(R)
        /\ \A i \in 1..(Len(L) + Len(R)) :
             (L \o R)[i] = IF i <= Len(L) THEN L[i] ELSE R[i - Len(L)]
    BY <1>4, ConcatProperties
  <2>2. QED
    BY <1>1, <1>4, <2>1
<1>6. ASSUME NEW i \in 1..n PROVE (L \o R)[i] = Card(l, i)
  <2>1. CASE i <= a
    <3>1. i \in 1..a /\ (L \o R)[i] = L[i]
      BY <1>1, <1>5, <2>1
    <3>2. Card(l, i) = [item |-> l.left[i], side |-> "left", slot |-> 2]
      BY <2>1 DEF Card, ItemAt, SideAt, a
    <3>3. QED
      BY <1>3, <3>1, <3>2
  <2>2. CASE ~(i <= a)
    <3>1. i - a \in 1..b /\ (L \o R)[i] = R[i - a]
      BY <1>1, <1>5, <2>2
    <3>2. Card(l, i) = [item |-> l.right[i - a], side |-> "right", slot |-> 2]
      BY <2>2 DEF Card, ItemAt, SideAt, a
    <3>3. QED
      BY <1>3, <3>1, <3>2
  <2>3. QED
    BY <2>1, <2>2
<1> DEFINE P == L \o R
<1>7. DOMAIN P = 1..n /\ P = [i \in DOMAIN P |-> P[i]]
  <2>1. P \in Seq(All) /\ Len(P) = n
    BY <1>5
  <2> HIDE DEF P
  <2>2. QED
    BY <1>1, <2>1
<1> HIDE DEF P
<1>8. P = [i \in 1..n |-> Card(l, i)]
  BY <1>6, <1>7 DEF P
<1>9. QED
  BY <1>1, <1>2, <1>5, <1>7, <1>8 DEF P

\* Each card turns the scale by its pull.
LEMMA CardTurns ==
  ASSUME NEW difficulty, NEW l, NEW n, NEW c, Balances(difficulty, l, n, c)
  PROVE  \A i \in 1..n : Pull(l, i) \in Int /\ Turns(Card(l, i)) = Pull(l, i)
<1> TAKE i \in 1..n
<1>1. ItemAt(l, i) \in Nat
  BY DEF Balances, Options
<1>2. SideSign(SideAt(l, i)) \in Int
  BY DEF SideSign
<1>3. Turns(Card(l, i)) = SideSign(SideAt(l, i)) * 2 * ItemAt(l, i)
  BY DEF Turns, Card, Weight
<1>4. SideSign(SideAt(l, i)) * 2 * ItemAt(l, i) \in Int
  BY <1>1, <1>2
<1>5. QED
  BY <1>3, <1>4 DEF Pull

\* The generated puzzle and its answer
LEMMA ScaleIs ==
  ASSUME NEW difficulty, NEW l, NEW n, NEW c, Balances(difficulty, l, n, c)
  PROVE  /\ ScalePuzzle(difficulty, l) =
              [difficulty |-> difficulty, placed |-> Placed(l), addTo |-> l.addTo,
               correct |-> c]
         /\ TotalTorque(Placed(l)) = -(SideSign(l.addTo) * 2 * c)
         /\ SideSign(l.addTo) \in {1, -1} /\ c \in Nat /\ c > 0
<1> DEFINE pull == [i \in 1..n |-> Pull(l, i)]
           s == SideSign(l.addTo)
<1>1. n \in Nat /\ n \in 3..5 /\ (n > 3 <=> n = 4) /\ ~(n > 4)
  BY DEF Balances
<1>2. /\ DOMAIN Placed(l) = 1..n
      /\ \A i \in 1..n : Placed(l)[i] = Card(l, i)
  BY PlacedIs
<1>3. pull \in [1..n -> Int] /\ \A i \in 1..n : Turns(Placed(l)[i]) = pull[i]
  BY <1>2, CardTurns
<1>4. \A i \in 1..n : pull[i] = Pull(l, i)
  OBVIOUS
<1> HIDE DEF pull
<1>5. TotalTorque(Placed(l)) =
        pull[1] + pull[2] + pull[3]
        + (IF n > 3 THEN pull[4] ELSE 0) + (IF n > 4 THEN pull[5] ELSE 0)
  BY <1>1, <1>2, <1>3, TorqueOfFew
<1>6. Pull(l, 1) + Pull(l, 2) + Pull(l, 3) + (IF n > 3 THEN Pull(l, 4) ELSE 0)
         = -(s * 2 * c)
  BY DEF Balances
<1>7. pull[1] = Pull(l, 1) /\ pull[2] = Pull(l, 2) /\ pull[3] = Pull(l, 3)
      /\ (n > 3 => pull[4] = Pull(l, 4))
  <2>1. 1 \in 1..n /\ 2 \in 1..n /\ 3 \in 1..n /\ (n > 3 => 4 \in 1..n)
    BY <1>1
  <2>2. QED
    BY <1>4, <2>1
<1>8. pull[1] \in Int /\ pull[2] \in Int /\ pull[3] \in Int /\ (n > 3 => pull[4] \in Int)
  <2>1. 1 \in 1..n /\ 2 \in 1..n /\ 3 \in 1..n /\ (n > 3 => 4 \in 1..n)
    BY <1>1
  <2>2. QED
    BY <1>3, <2>1
<1>9. TotalTorque(Placed(l)) = -(s * 2 * c)
  <2>1. CASE n > 3
    BY <1>1, <1>5, <1>6, <1>7, <1>8, <2>1
  <2>2. CASE ~(n > 3)
    BY <1>1, <1>5, <1>6, <1>7, <1>8, <2>2
  <2>3. QED
    BY <2>1, <2>2
<1>10. s \in {1, -1}
  BY DEF SideSign
<1>11. c \in Nat /\ c > 0 /\ c \in Options(difficulty)
  BY DEF Balances, Options
<1> HIDE DEF s
<1>12. RequiredWeight(Placed(l), l.addTo) = c
  <2> DEFINE T == TotalTorque(Placed(l))
  <2>1. RequiredWeight(Placed(l), l.addTo) = IF -(T * s) > 0 THEN (-(T * s)) \div 2 ELSE 0
    BY DEF RequiredWeight, GeneratedSlot, s, T
  <2> HIDE DEF T
  <2>2. -(T * s) = 2 * c
    <3>1. CASE s = 1
      BY <1>9, <1>11, <3>1 DEF T
    <3>2. CASE s = -1
      BY <1>9, <1>11, <3>2 DEF T
    <3>3. QED
      BY <1>10, <3>1, <3>2
  <2>3. 2 * c > 0 /\ (2 * c) \div 2 = c
    BY <1>11
  <2>4. QED
    BY <2>1, <2>2, <2>3
<1>13. BalancingOptions(difficulty, Placed(l), l.addTo) = {c}
  BY <1>11, <1>12 DEF BalancingOptions, Weight
<1>14. (CHOOSE o \in {c} : \A q \in {c} : o <= q) = c
  BY <1>11
<1>15. ScalePuzzle(difficulty, l) =
              [difficulty |-> difficulty, placed |-> Placed(l), addTo |-> l.addTo,
               correct |-> c]
  BY <1>13, <1>14 DEF ScalePuzzle
<1>16. QED
  BY <1>9, <1>10, <1>11, <1>15 DEF s

-----------------------------------------------------------------------------
(* Counting the item types, the equations and the cards *)

\* There are n numbers up to n.
LEMMA UpToCounts ==
  ASSUME NEW n \in Nat
  PROVE  IsFiniteSet(1..n) /\ Cardinality(1..n) = n
<1>1. IsFiniteSet(1..n) /\ Cardinality(1..n) = IF 1 > n THEN 0 ELSE n - 1 + 1
  BY FS_Interval
<1>2. QED
  BY <1>1

\* There is an equation for every item but the lightest.
LEMMA EquationsCount ==
  ASSUME NEW difficulty \in {"easy", "hard"}
  PROVE  Cardinality(Equations(difficulty)) = ItemCount(difficulty) - 1
<1> DEFINE k == ItemCount(difficulty) - 1
           right(n) == SubSeq(<<2, 3, 4>>, 1, n)
           f == [n \in 1..k |-> BalanceEquation(right(n))]
           E == Equations(difficulty)
<1>1. k \in 2..3 /\ k \in Nat
  BY DEF ItemCount
<1>2. E = {f[n] : n \in 1..k}
  BY DEF Equations
<1>3. \A n \in 1..3 : Len(right(n)) = n
  <2> TAKE n \in 1..3
  <2>1. <<2, 3, 4>> \in Seq(Nat) /\ Len(<<2, 3, 4>>) = 3
    OBVIOUS
  <2>2. QED
    BY <2>1
<1>4. \A n \in 1..k : f[n].right = right(n)
  BY DEF BalanceEquation
<1>5. f \in [1..k -> E] /\ \A e \in E : \E n \in 1..k : f[n] = e
  BY <1>2
<1> HIDE DEF f, right, E, k
<1>6. \A m, n \in 1..k : f[m] = f[n] => m = n
  <2>1. \A n \in 1..k : n \in 1..3
    BY <1>1
  <2>2. QED
    BY <1>3, <1>4, <2>1
<1>7. f \in Bijection(1..k, E)
  BY <1>5, <1>6 DEF Bijection, Injection, IsInjective, Surjection
<1>8. ExistsBijection(1..k, E)
  BY <1>7 DEF ExistsBijection
<1>9. IsFiniteSet(1..k) /\ Cardinality(1..k) = k
  BY <1>1, UpToCounts
<1>10. IsFiniteSet(E)
  BY <1>8, <1>9, FS_Bijection
<1>11. Cardinality(E) = k
  BY <1>1, <1>8, <1>10, FS_CountingElements
<1>12. QED
  BY <1>11 DEF E, k

\* Two item types at least, and no more than the difficulty has.
LEMMA ItemTypesCount ==
  ASSUME NEW difficulty, NEW l, NEW n, NEW c, Balances(difficulty, l, n, c),
         NEW p, p.placed = Placed(l), p.correct = c
  PROVE  Cardinality(ItemTypes(p)) \in 2..ItemCount(difficulty)
<1> DEFINE S == ItemTypes(p)
           k == ItemCount(difficulty)
<1>1. /\ DOMAIN Placed(l) = 1..n
      /\ \A i \in 1..n : Placed(l)[i] = Card(l, i)
  BY PlacedIs
<1>2. \A i \in 1..n : Placed(l)[i].item = ItemAt(l, i)
  BY <1>1 DEF Card
<1>3. S = {ItemAt(l, i) : i \in 1..n} \cup {c}
  BY <1>1, <1>2 DEF ItemTypes
<1>4. /\ c \in 1..k /\ \A i \in 1..n : ItemAt(l, i) \in 1..k
      /\ \E i, j \in 1..n : ItemAt(l, i) # ItemAt(l, j)
  BY DEF Balances, Options
<1>5. k \in Nat
  BY DEF ItemCount
<1> HIDE DEF S, k
<1>6. S \in SUBSET (1..k)
  BY <1>3, <1>4
<1>7. PICK x \in S, y \in S : x # y
  BY <1>3, <1>4
<1>8. IsFiniteSet(1..k) /\ Cardinality(1..k) = k
  BY <1>5, UpToCounts
<1>9. IsFiniteSet(S) /\ Cardinality(S) <= k
  BY <1>6, <1>8, FS_Subset
<1>10. Cardinality(S) \in Nat
  BY <1>9, FS_CardinalityType
<1>11. Cardinality(S) # 0
  BY <1>7, <1>9, FS_EmptySet
<1>12. Cardinality(S) # 1
  <2> SUFFICES ASSUME Cardinality(S) = 1 PROVE FALSE
    OBVIOUS
  <2>1. \E z : S = {z}
    BY <1>9, FS_Singleton
  <2>2. QED
    BY <1>7, <2>1
<1>13. Cardinality(S) \in 2..k
  BY <1>5, <1>9, <1>10, <1>11, <1>12
<1>14. QED
  BY <1>13 DEF S, k

\* The cards of one side do not cover each other.
LEMMA StacksApart ==
  ASSUME NEW n \in Nat, NEW items, NEW addTo, NEW j \in 1..n, NEW k \in 1..n, j < k,
         items[j].side = items[k].side, DOMAIN items = 1..n
  PROVE  StackOffset(items, addTo, j) # StackOffset(items, addTo, k)
<1> DEFINE side == items[k].side
           total == Cardinality({i \in DOMAIN items : items[i].side = side})
                    + IF addTo = side THEN 1 ELSE 0
           A == {i \in 1..(j - 1) : items[i].side = side}
           B == {i \in 1..(k - 1) : items[i].side = side}
<1>1. /\ StackOffset(items, addTo, j) = 2 * Cardinality(A) - (total - 1)
      /\ StackOffset(items, addTo, k) = 2 * Cardinality(B) - (total - 1)
  BY DEF StackOffset
<1>2. A \in SUBSET B /\ j \in B /\ j \notin A
  OBVIOUS
<1>3. B \in SUBSET (1..n) /\ {i \in DOMAIN items : items[i].side = side} \in SUBSET (1..n)
  OBVIOUS
<1>4. IsFiniteSet(1..n)
  BY UpToCounts
<1>5. IsFiniteSet({i \in DOMAIN items : items[i].side = side})
  BY <1>3, <1>4, FS_Subset
<1>6. total \in Int
  <2>1. Cardinality({i \in DOMAIN items : items[i].side = side}) \in Nat
    BY <1>5, FS_CardinalityType
  <2>2. QED
    BY <2>1
<1> HIDE DEF A, B, total
<1>7. IsFiniteSet(B)
  BY <1>3, <1>4, FS_Subset
<1>8. /\ IsFiniteSet(A) /\ Cardinality(A) <= Cardinality(B)
      /\ Cardinality(B) = Cardinality(A) => B = A
  BY <1>2, <1>7, FS_Subset
<1>9. Cardinality(A) # Cardinality(B)
  BY <1>2, <1>8
<1>10. Cardinality(A) \in Nat /\ Cardinality(B) \in Nat
  BY <1>7, <1>8, FS_CardinalityType
<1>11. QED
  BY <1>1, <1>6, <1>9, <1>10

-----------------------------------------------------------------------------
(* One option levels the scale. *)

\* The torque once an option is put on the scale
LEMMA TorqueWith ==
  ASSUME NEW difficulty, NEW l, NEW n, NEW c, Balances(difficulty, l, n, c),
         NEW p, p.placed = Placed(l), p.addTo = l.addTo, NEW o \in Options(difficulty)
  PROVE  TotalTorque(Displayed(p, o))
           = SideSign(l.addTo) * 2 * o - SideSign(l.addTo) * 2 * c
<1> DEFINE s == SideSign(l.addTo)
           last == [item |-> o, side |-> l.addTo, slot |-> 2]
           cards == Placed(l)
           shown == Displayed(p, o)
           pull == [i \in 1..(n + 1) |-> IF i <= n THEN Pull(l, i) ELSE s * 2 * o]
<1>1. n \in Nat /\ (n = 3 \/ n = 4) /\ c \in Nat /\ o \in Nat /\ o # 0
  BY DEF Balances, Options
<1>2. s \in {1, -1}
  BY DEF SideSign
<1>3. shown = cards \o <<last>>
  BY <1>1 DEF Displayed, GeneratedSlot
<1>4. Turns(last) = s * 2 * o /\ s * 2 * o \in Int
  <2>1. Turns(last) = s * 2 * o
    BY DEF Turns, Weight
  <2>2. s * 2 * o \in Int
    BY <1>1, <1>2
  <2>3. QED
    BY <2>1, <2>2
<1>5. cards = [i \in 1..n |-> Card(l, i)] /\ DOMAIN cards = 1..n
  BY PlacedIs
<1>6. \A i \in 1..n : Pull(l, i) \in Int /\ Turns(Card(l, i)) = Pull(l, i)
  BY CardTurns
<1> HIDE DEF s, last, cards, shown
<1>7. /\ DOMAIN shown = 1..(n + 1)
      /\ \A i \in 1..n : shown[i] = Card(l, i)
      /\ shown[n + 1] = last
  <2> DEFINE All == {Card(l, i) : i \in 1..n} \cup {last}
  <2>1. cards \in [1..n -> All] /\ last \in All
    BY <1>5
  <2> HIDE DEF All
  <2>2. cards \in Seq(All) /\ Len(cards) = n /\ <<last>> \in Seq(All)
        /\ Len(<<last>>) = 1 /\ <<last>>[1] = last
    BY <1>1, <2>1
  <2>3. /\ shown \in Seq(All) /\ Len(shown) = n + 1
        /\ \A i \in 1..(n + 1) : shown[i] = IF i <= n THEN cards[i] ELSE <<last>>[i - n]
    <3>1. /\ cards \o <<last>> \in Seq(All)
          /\ Len(cards \o <<last>>) = Len(cards) + Len(<<last>>)
          /\ \A i \in 1..(Len(cards) + Len(<<last>>)) :
               (cards \o <<last>>)[i] = IF i <= Len(cards) THEN cards[i]
                                        ELSE <<last>>[i - Len(cards)]
      BY <2>2, ConcatProperties
    <3>2. QED
      BY <1>3, <2>2, <3>1
  <2>4. DOMAIN shown = 1..(n + 1)
    BY <2>3
  <2>5. \A i \in 1..n : i \in 1..(n + 1) /\ i <= n
    BY <1>1
  <2>6. n + 1 \in 1..(n + 1) /\ ~(n + 1 <= n) /\ (n + 1) - n = 1
    BY <1>1
  <2>7. QED
    BY <1>5, <2>2, <2>3, <2>4, <2>5, <2>6
<1>8. /\ \A i \in 1..n : pull[i] = Pull(l, i)
      /\ pull[n + 1] = s * 2 * o
      /\ pull \in [1..(n + 1) -> Int]
  BY <1>1, <1>4, <1>6
<1> HIDE DEF pull
<1>9. \A i \in 1..(n + 1) : Turns(shown[i]) = pull[i]
  <2> TAKE i \in 1..(n + 1)
  <2>1. i \in 1..n \/ i = n + 1
    BY <1>1
  <2>2. QED
    BY <1>4, <1>6, <1>7, <1>8, <2>1
<1>10. n + 1 \in Nat /\ n + 1 \in 3..5 /\ n + 1 > 3
  BY <1>1
<1>11. TotalTorque(shown) =
           pull[1] + pull[2] + pull[3]
           + (IF n + 1 > 3 THEN pull[4] ELSE 0) + (IF n + 1 > 4 THEN pull[5] ELSE 0)
  BY <1>7, <1>8, <1>9, <1>10, TorqueOfFew
<1>12. Pull(l, 1) + Pull(l, 2) + Pull(l, 3) + (IF n > 3 THEN Pull(l, 4) ELSE 0)
         = -(s * 2 * c)
  BY DEF Balances, s
<1>13. s * 2 * c \in Int
  BY <1>1, <1>2
<1>14. \A i \in 1..n : pull[i] \in Int
  BY <1>6, <1>8
<1>15. CASE n = 3
  <2>1. 1 \in 1..n /\ 2 \in 1..n /\ 3 \in 1..n /\ n + 1 = 4 /\ ~(n > 3) /\ ~(n + 1 > 4)
    BY <1>15
  <2>2. TotalTorque(shown) = pull[1] + pull[2] + pull[3] + pull[4]
    <3>1. pull[1] \in Int /\ pull[2] \in Int /\ pull[3] \in Int /\ pull[4] \in Int
      BY <1>4, <1>8, <1>14, <2>1
    <3>2. QED
      BY <1>10, <1>11, <2>1, <3>1
  <2>3. pull[1] + pull[2] + pull[3] = -(s * 2 * c) /\ pull[4] = s * 2 * o
    <3>1. pull[1] = Pull(l, 1) /\ pull[2] = Pull(l, 2) /\ pull[3] = Pull(l, 3)
      BY <1>8, <2>1
    <3>2. Pull(l, 1) \in Int /\ Pull(l, 2) \in Int /\ Pull(l, 3) \in Int
      BY <1>6, <2>1
    <3>3. QED
      BY <1>8, <1>12, <2>1, <3>1, <3>2
  <2>4. QED
    BY <1>4, <1>13, <2>2, <2>3 DEF s, shown
<1>16. CASE n = 4
  <2>1. 1 \in 1..n /\ 2 \in 1..n /\ 3 \in 1..n /\ 4 \in 1..n /\ n + 1 = 5 /\ n > 3
        /\ n + 1 > 4
    BY <1>16
  <2>2. TotalTorque(shown) = pull[1] + pull[2] + pull[3] + pull[4] + pull[5]
    BY <1>10, <1>11, <2>1
  <2>3. pull[1] + pull[2] + pull[3] + pull[4] = -(s * 2 * c) /\ pull[5] = s * 2 * o
    <3>1. pull[1] = Pull(l, 1) /\ pull[2] = Pull(l, 2) /\ pull[3] = Pull(l, 3)
          /\ pull[4] = Pull(l, 4)
      BY <1>8, <2>1
    <3>2. QED
      BY <1>8, <1>12, <2>1, <3>1
  <2>4. QED
    BY <1>4, <1>13, <2>2, <2>3 DEF s, shown
<1>17. QED
  BY <1>1, <1>15, <1>16

\* One option levels the scale.
LEMMA LevelWithOne ==
  ASSUME NEW difficulty, NEW l, NEW n, NEW c, Balances(difficulty, l, n, c),
         NEW p, p.placed = Placed(l), p.addTo = l.addTo, NEW o \in Options(difficulty)
  PROVE  Angle(Displayed(p, o)) = 0 <=> o = c
<1> DEFINE s == SideSign(l.addTo)
           T == TotalTorque(Displayed(p, o))
<1>1. T = s * 2 * o - s * 2 * c
  BY TorqueWith
<1>2. s \in {1, -1} /\ o \in Nat /\ c \in Nat
  <2>1. s \in {1, -1}
    BY DEF SideSign
  <2>2. o \in Nat /\ c \in Nat
    BY DEF Balances, Options
  <2>3. QED
    BY <2>1, <2>2
<1>3. Angle(Displayed(p, o)) = IF T * 4 > 16 THEN 16 ELSE IF T * 4 < -16 THEN -16 ELSE T * 4
  BY DEF Angle, DegreesPerTorque, MaxVisualAngle
<1> HIDE DEF T, s
<1>4. T \in Int /\ (T = 0 <=> o = c)
  <2>1. CASE s = 1
    BY <1>1, <1>2, <2>1
  <2>2. CASE s = -1
    BY <1>1, <1>2, <2>2
  <2>3. QED
    BY <1>2, <2>1, <2>2
<1>5. QED
  BY <1>3, <1>4

\* Every scale that is dealt is a fair one.
LEMMA ScalesAreLevelled ==
  ASSUME NEW difficulty \in {"easy", "hard"}, NEW l \in Layouts(difficulty),
         game = "balance-scale", puzzle = ScalePuzzle(difficulty, l)
  PROVE  Fair
<1>1. PICK n, c : Balances(difficulty, l, n, c)
  BY EasyBalances, HardBalances
<1>2. /\ puzzle.difficulty = difficulty /\ puzzle.placed = Placed(l)
      /\ puzzle.addTo = l.addTo /\ puzzle.correct = c /\ c # 0
  BY <1>1, ScaleIs
<1>3. WellFormed(puzzle)
  BY <1>1, <1>2, ItemTypesCount, EquationsCount DEF WellFormed
<1>4. \A o \in Options(puzzle.difficulty) :
        (Angle(Displayed(puzzle, o)) = 0) <=> (o = puzzle.correct)
  BY <1>1, <1>2, LevelWithOne
<1>5. ASSUME NEW j \in DOMAIN puzzle.placed, NEW k \in DOMAIN puzzle.placed,
             j # k, puzzle.placed[j].side = puzzle.placed[k].side
      PROVE  StackOffset(puzzle.placed, puzzle.addTo, j)
               # StackOffset(puzzle.placed, puzzle.addTo, k)
  <2>1. DOMAIN puzzle.placed = 1..n /\ n \in Nat
    BY <1>1, <1>2, PlacedIs
  <2>2. j \in 1..n /\ k \in 1..n /\ (j < k \/ k < j)
    BY <1>5, <2>1
  <2>3. QED
    BY <1>5, <2>1, <2>2, StacksApart
<1>6. QED
  BY <1>3, <1>4, <1>5 DEF Fair

-----------------------------------------------------------------------------
(* The deals *)

\* What is dealt by a rule can be won, and in one way where it should.
LEMMA DealingIsFair ==
  ASSUME puzzle \in Puzzles(game),
         game \in {"light-switch", "vault-rush", "wordle", "balance-scale"}
  PROVE  DealtFairly
<1>1. CASE game = "light-switch"
  <2>1. puzzle \in LightPuzzles
    BY <1>1 DEF Puzzles
  <2>2. QED
    BY <1>1, <2>1, LightsAreWinnable DEF DealtFairly, Fair
<1>2. CASE game = "vault-rush"
  <2>1. puzzle \in Vaults
    BY <1>2 DEF Puzzles
  <2>2. QED
    BY <1>2, <2>1, VaultsHaveOneCode DEF DealtFairly, Fair
<1>3. CASE game = "wordle"
  <2>1. puzzle \in Dictionary
    BY <1>3 DEF Puzzles, RandomWords
  <2>2. QED
    BY <1>3, <2>1 DEF DealtFairly, Fair
<1>4. CASE game = "balance-scale"
  <2>1. puzzle \in ScalePuzzles(1..3)
    BY <1>4 DEF Puzzles
  <2>2. \A r : Difficulty(r) \in {"easy", "hard"}
    BY DEF Difficulty
  <2>3. PICK d \in {"easy", "hard"} : \E l \in Layouts(d) : puzzle = ScalePuzzle(d, l)
    BY <2>1, <2>2 DEF ScalePuzzles
  <2>4. PICK l \in Layouts(d) : puzzle = ScalePuzzle(d, l)
    BY <2>3
  <2>5. QED
    BY <1>4, <2>4, ScalesAreLevelled DEF DealtFairly
<1>5. QED
  BY <1>1, <1>2, <1>3, <1>4

\* Lights that were scrambled can be turned on, unless the fallback was dealt; the
\* clues of a vault leave one code; a word is one of the dictionary; and of the options
\* of a balance scale the one named correct is the only one that levels it, and the
\* cards of one side are apart.
THEOREM DealtFairlyByRule ==
  Spec => [](game \in {"light-switch", "vault-rush", "wordle", "balance-scale"}
             => DealtFairly)
<1> DEFINE Dealt == puzzle \in Puzzles(game)
<1>1. Init => Dealt
  BY DEF Init, Deal
<1>2. Dealt /\ [Next]_vars => Dealt'
  BY DealtOnce
<1>3. Dealt => (game \in {"light-switch", "vault-rush", "wordle", "balance-scale"}
                  => DealtFairly)
  BY DealingIsFair
<1> HIDE DEF Dealt
<1>4. QED
  BY <1>1, <1>2, <1>3, PTL DEF Spec
=============================================================================
