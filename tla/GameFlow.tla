------------------------------ MODULE GameFlow ------------------------------
(***************************************************************************)
(* A host's game flow, from the blocks it is made of to the rounds of the  *)
(* game: the editor's items (host/flow/palette.ts, flow-api.ts), what the  *)
(* server stores of them (server/flow/flow.service.ts) and what is planned *)
(* from a stored flow (server/room/game/round-builder.ts).                 *)
(*                                                                         *)
(* An item is a block with a number of questions or a time, 0 for          *)
(* undefined.  Left out are the ids of the items, by which the editor      *)
(* finds them, and their difficulty, which the editor never sets and the   *)
(* server does not store.  A random order is any order.                    *)
(***************************************************************************)
EXTENDS Integers, Sequences, SequencesExt, FiniteSetsExt

CONSTANTS
    Themes, Minigames,  \* the blocks: PALETTE, and the rows of GameBlock
    Available,          \* how many questions a theme has
    MaxQuestions, DefaultQuestions,   \* _QUESTIONS_PER_BLOCK; the least is 1
    MinTime, MaxTime, TimeStep,       \* _MINIGAME_TIME_SECONDS
    DefaultTimes,                     \* of the minigames: TIMER
    MinBlocks, MaxBlocks, DefaultSize, \* _FLOW_BLOCKS, DEFAULT_FLOW_SIZE
    DefaultSequence                    \* of a game without a flow: ROUNDS

ASSUME FlowAssumption ==
    /\ Themes \cap Minigames = {} /\ Minigames # {}
    /\ IsFiniteSet(Themes) /\ IsFiniteSet(Minigames)
    /\ Available \in [Themes -> Nat]
    /\ MaxQuestions \in Nat \ {0} /\ DefaultQuestions \in 1..MaxQuestions
    /\ TimeStep \in Nat \ {0}
    /\ MinTime \in Nat \ {0} /\ MinTime % TimeStep = 0
    /\ MaxTime \in Nat \ {0} /\ MaxTime % TimeStep = 0
    /\ DefaultTimes \in [Minigames -> MinTime..MaxTime]
    /\ MinBlocks \in Nat /\ MaxBlocks \in Nat /\ MinBlocks <= MaxBlocks
    /\ DefaultSize \in Nat
    /\ DefaultSequence \in Seq({"quiz"} \cup Minigames)

Palette == Themes \cup Minigames
Item(block, questions, time) ==
    [block |-> block, questions |-> questions, time |-> time]
Clamped(v, low, high) == Max({low, Min({high, v})})

\* Math.round(v / step) * step
Stepped(v) == ((2 * v + TimeStep) \div (2 * TimeStep)) * TimeStep

-----------------------------------------------------------------------------
(* The host's side                                                         *)

\* clampMinigameTimeSeconds() of a time that may be undefined
ClampMinigameTime(time, block) ==
    Clamped(Stepped(IF time = 0 THEN DefaultTimes[block] ELSE time),
            MinTime, MaxTime)

CreateFlowItem(block) ==
    Item(block, 0, IF block \in Minigames THEN DefaultTimes[block] ELSE 0)

\* toFlowItems()
ToFlowItems(stored) ==
    [i \in DOMAIN stored |->
        [stored[i] EXCEPT !.time =
            IF @ = 0 /\ stored[i].block \in Minigames
            THEN DefaultTimes[stored[i].block] ELSE @]]

\* randomFlowFrom() and randomize(): the blocks in any order, repeated.
Orders(blocks) ==
    {o \in [1..Cardinality(blocks) -> blocks] : IsInjective(o)}
RandomPicks(blocks, size) ==
    {[i \in 1..size |-> o[((i - 1) % Len(o)) + 1]] : o \in Orders(blocks)}
RandomFlowsFrom(blocks, size) ==
    {[i \in 1..size |-> CreateFlowItem(picks[i])] :
        picks \in RandomPicks(blocks, size)}

\* setBlockQuestions(), setBlockMinigameTime() of the item at a place
SetQuestions(flow, i, value) ==
    [flow EXCEPT ![i].questions = Clamped(value, 1, MaxQuestions)]
SetMinigameTime(flow, i, value) ==
    [flow EXCEPT ![i].time = ClampMinigameTime(value, flow[i].block)]

-----------------------------------------------------------------------------
(* The server's side                                                       *)

\* getCatalog()
Catalog == Minigames \cup {t \in Themes : Available[t] > 0}

\* Slip: the time of a minigame is not stored.
ToStoredTimeless(item) ==
    IF item.block \in Minigames
    THEN Item(item.block, 0, DefaultTimes[item.block])
    ELSE Item(item.block,
              Clamped(IF item.questions = 0 THEN DefaultQuestions
                                            ELSE item.questions,
                      1, Min({MaxQuestions, Available[item.block]})), 0)

\* toFlowItem(): settings an item of the catalog is stored with
ToStored(item) ==
    IF item.block \in Minigames
    THEN Item(item.block, 0,
              Clamped(Stepped(IF item.time = 0 THEN DefaultTimes[item.block]
                                               ELSE item.time),
                      MinTime, MaxTime))
    ELSE Item(item.block,
              Clamped(IF item.questions = 0 THEN DefaultQuestions
                                            ELSE item.questions,
                      1, Min({MaxQuestions, Available[item.block]})), 0)

\* normalizeForStorage()
StoreItem(stored, item) ==
    IF item.block \in Catalog THEN Append(stored, ToStored(item)) ELSE stored
NormalizeForStorage(flow) == FoldLeft(StoreItem, <<>>, flow)

\* randomize(): what a new room starts with
Randomized(size) ==
    LET count == Clamped(size, MinBlocks, MaxBlocks)
    IN  {[i \in 1..count |-> ToStored(Item(picks[i], 0, 0))] :
            picks \in RandomPicks(Catalog, count)}

-----------------------------------------------------------------------------
(* The rounds                                                              *)

\* A quiz round has one of its theme's questions, a minigame a time.
Round(kind, block, question, time) ==
    [kind |-> kind, block |-> block, question |-> question, time |-> time]

\* defaultProceduralRoundSeconds(), proceduralRoundSeconds()
ProceduralRoundSeconds(block, time) ==
    Clamped(Stepped(IF time = 0 THEN DefaultTimes[block] ELSE time),
            MinTime, MaxTime)

\* planThemeBlock(): the questions of a theme that are left are handed out.
PlanThemeBlock(theme, want, left) ==
    LET count == IF want = 0 THEN DefaultQuestions ELSE want
    IN  [n \in 1..Min({count, left}) |->
            Round("quiz", theme, left + 1 - n, 0)]

\* Slip: two blocks of a theme are handed the same questions.
PlanItemAnew(plan, item) ==
    IF item.block \in Themes
    THEN [plan EXCEPT !.rounds = @ \o PlanThemeBlock(item.block, item.questions,
                                                     Available[item.block])]
    ELSE [plan EXCEPT !.rounds =
            Append(@, Round("game", item.block, 0,
                            ProceduralRoundSeconds(item.block, item.time)))]

\* planMinigameBlock(), saveProceduralRound()
PlanItem(plan, item) ==
    IF item.block \in Themes
    THEN LET rounds == PlanThemeBlock(item.block, item.questions,
                                      plan.left[item.block])
         IN  [rounds |-> plan.rounds \o rounds,
              left |-> [plan.left EXCEPT ![item.block] = @ - Len(rounds)]]
    ELSE [plan EXCEPT !.rounds =
            Append(@, Round("game", item.block, 0,
                            ProceduralRoundSeconds(item.block, item.time)))]

PlanFromFlow(flow) ==
    FoldLeft(PlanItem, [rounds |-> <<>>, left |-> Available], flow).rounds

\* defaultPlan(): distinct questions of any theme, or too few of them.  Which
\* ones are drawn makes no difference.
DefaultPlan ==
    LET pool == UNION {{Round("quiz", t, n, 0) : n \in 1..Available[t]} :
                        t \in Themes}
        quizzes == {i \in DOMAIN DefaultSequence : DefaultSequence[i] = "quiz"}
        picks == {f \in [quizzes -> pool] : IsInjective(f)}
        picked == CHOOSE f \in picks : TRUE
    IN  IF picks = {} THEN <<>>
        ELSE [i \in DOMAIN DefaultSequence |->
                IF i \in quizzes THEN picked[i]
                ELSE Round("game", DefaultSequence[i], 0,
                           ProceduralRoundSeconds(DefaultSequence[i], 0))]

\* buildRounds(): the empty plan stands for NotEnoughQuestionsError.
Plan(flow) == IF flow # <<>> THEN PlanFromFlow(flow) ELSE DefaultPlan
=============================================================================
