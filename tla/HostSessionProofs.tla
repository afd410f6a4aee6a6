--------------------------- MODULE HostSessionProofs ---------------------------
(***************************************************************************)
(* The host's page and its server for every flow, every set of blocks and  *)
(* any number of edits, saves, faults and frames on their way.  First what *)
(* the operators of GameFlow and FlowEditor make of a flow; then the types *)
(* of the state; then what the page will have made of the frames under way,*)
(* from which it follows that a page in step shows the lobby, and then the *)
(* round and the phase the game is at (HostShowsGame); then what the       *)
(* editor has sent and the row has taken (EditsSettle); that the rounds of *)
(* a game are those its flow asks for (PlaysTheFlow); how a flow is drawn  *)
(* and a drop lands in it (DropsFollowTheSnake); and last what the         *)
(* standings and the roadmap tell (LeaderboardTellsTheGame).               *)
(***************************************************************************)
EXTENDS HostSession, GameScriptProofs, FiniteSetTheorems

\* Items of a flow, and rounds of a plan.
Items == [block : Palette, questions : 0..MaxQuestions, time : Nat]
PlanRounds == [kind : {"quiz", "game"}, block : Palette, question : Nat, time : Nat]
Flows == Seq(Items)

-------------------------------------------------------------------------------
(* Folds. *)

LEMMA CountUp ==
  ASSUME NEW S, 0 \in S, \A n \in Nat : n \in S => n + 1 \in S
  PROVE  Nat \subseteq S
<1> SUFFICES ASSUME NEW n \in Nat, n \notin S PROVE FALSE
  OBVIOUS
<1> DEFINE A == S \cap (0..n)
           f == [k \in A |-> k + 1]
<1>1. IsFiniteSet(A)
  <2>1. IsFiniteSet(0..n)
    BY FS_Interval
  <2>2. QED
    BY <2>1, FS_Subset
<1>2. \A k \in A : k + 1 \in A
  BY DEF A
<1>3. f \in Injection(A, A)
  BY <1>2 DEF Injection, IsInjective
<1>4. f \in Surjection(A, A)
  <2> HIDE DEF A, f
  <2>1. QED
    BY <1>1, <1>3, FS_Injection
<1>5. \A k \in A : f[k] # 0
  OBVIOUS
<1>6. 0 \in A
  OBVIOUS
<1>7. QED
  BY <1>4, <1>5, <1>6 DEF Surjection

\* What MapThenFoldSet computes of the places 1..n, where step[i] is what the
\* item at place i makes of a value.
IsFold(g, n, base, step) ==
  g = [s \in SUBSET (1..n) |->
         IF s = {} THEN base ELSE step[Max(s)][g[s \ {Max(s)}]]]

LEMMA MaxIsLast ==
  ASSUME NEW n \in Nat, NEW s \in SUBSET (1..(n + 1)), n + 1 \in s
  PROVE  Max(s) = n + 1
<1>1. \A y \in s : n + 1 >= y
  OBVIOUS
<1>2. \A x \in s : (\A y \in s : x >= y) => x = n + 1
  OBVIOUS
<1>3. QED
  BY <1>1, <1>2 DEF Max

LEMMA MaxIsIn ==
  ASSUME NEW n \in Nat
  PROVE  \A s \in SUBSET (1..n) : s # {} => Max(s) \in s
<1> DEFINE S == {k \in Nat : \A s \in SUBSET (1..k) : s # {} => Max(s) \in s}
<1>1. 0 \in S
  <2>1. \A s \in SUBSET (1..0) : s = {}
    OBVIOUS
  <2>2. QED
    BY <2>1
<1>2. ASSUME NEW k \in Nat, k \in S PROVE k + 1 \in S
  <2> SUFFICES ASSUME NEW s \in SUBSET (1..(k + 1)), s # {} PROVE Max(s) \in s
    OBVIOUS
  <2>1. CASE k + 1 \in s
    BY <2>1, MaxIsLast
  <2>2. CASE k + 1 \notin s
    <3>1. s \in SUBSET (1..k)
      BY <2>2
    <3>2. QED
      BY <1>2, <3>1
  <2>3. QED
    BY <2>1, <2>2
<1> HIDE DEF S
<1>3. n \in S
  BY <1>1, <1>2, CountUp
<1>4. QED
  BY <1>3 DEF S

LEMMA FoldExists ==
  ASSUME NEW n \in Nat, NEW base, NEW step
  PROVE  \E g : IsFold(g, n, base, step)
<1> DEFINE S == {k \in Nat : \E g : IsFold(g, k, base, step)}
<1>1. 0 \in S
  <2> DEFINE g == [s \in SUBSET (1..0) |-> base]
  <2>1. SUBSET (1..0) = {{}}
    OBVIOUS
  <2>2. IsFold(g, 0, base, step)
    BY <2>1 DEF IsFold
  <2>3. QED
    BY <2>2
<1>2. ASSUME NEW k \in Nat, k \in S PROVE k + 1 \in S
  <2>1. PICK g : IsFold(g, k, base, step)
    BY <1>2
  <2> DEFINE h == [s \in SUBSET (1..(k + 1)) |->
                     IF k + 1 \in s THEN step[k + 1][g[s \ {k + 1}]] ELSE g[s]]
  <2>2. ASSUME NEW s \in SUBSET (1..(k + 1))
        PROVE  h[s] = IF s = {} THEN base ELSE step[Max(s)][h[s \ {Max(s)}]]
    <3>1. CASE k + 1 \in s
      <4>1. Max(s) = k + 1
        BY <3>1, MaxIsLast
      <4>2. s \ {k + 1} \in SUBSET (1..(k + 1)) /\ k + 1 \notin s \ {k + 1}
        OBVIOUS
      <4>3. h[s \ {k + 1}] = g[s \ {k + 1}]
        BY <4>2
      <4>4. QED
        BY <3>1, <4>1, <4>3
    <3>2. CASE k + 1 \notin s
      <4>1. s \in SUBSET (1..k)
        BY <3>2
      <4>2. g[s] = IF s = {} THEN base ELSE step[Max(s)][g[s \ {Max(s)}]]
        BY <2>1, <4>1 DEF IsFold
      <4>3. h[s \ {Max(s)}] = g[s \ {Max(s)}]
        BY <3>2
      <4>4. h[s] = g[s]
        BY <3>2
      <4>5. QED
        BY <4>2, <4>3, <4>4
    <3>3. QED
      BY <3>1, <3>2
  <2>3. h = [s \in SUBSET (1..(k + 1)) |-> h[s]]
    OBVIOUS
  <2> HIDE DEF h
  <2>4. IsFold(h, k + 1, base, step)
    BY <2>2, <2>3 DEF IsFold
  <2>5. QED
    BY <2>4
<1> HIDE DEF S
<1>3. n \in S
  BY <1>1, <1>2, CountUp
<1>4. QED
  BY <1>3 DEF S

LEMMA MaxOfInterval ==
  ASSUME NEW n \in Nat, NEW i \in 1..n
  PROVE  /\ 1..i \in SUBSET (1..n) /\ 1..i # {} /\ (1..i) \ {i} = 1..(i - 1)
         /\ Max(1..i) = i
<1>1. 1..i \in SUBSET (1..n) /\ i \in 1..i /\ (1..i) \ {i} = 1..(i - 1)
  OBVIOUS
<1>2. i - 1 \in Nat /\ (i - 1) + 1 = i /\ 1..i \in SUBSET (1..i)
  OBVIOUS
<1>3. QED
  BY <1>1, <1>2, MaxIsLast

LEMMA FoldTyped ==
  ASSUME NEW n \in Nat, NEW S, NEW base \in S, NEW step,
         \A i \in 1..n : step[i] \in [S -> S],
         NEW g, IsFold(g, n, base, step)
  PROVE  \A s \in SUBSET (1..n) : g[s] \in S
<1> DEFINE K == {k \in Nat : k <= n => \A s \in SUBSET (1..k) : g[s] \in S}
<1>1. \A s \in SUBSET (1..n) :
        g[s] = IF s = {} THEN base ELSE step[Max(s)][g[s \ {Max(s)}]]
  BY DEF IsFold
<1>2. 0 \in K
  <2>1. \A s \in SUBSET (1..0) : s = {} /\ s \in SUBSET (1..n)
    OBVIOUS
  <2>2. QED
    BY <1>1, <2>1
<1>3. ASSUME NEW k \in Nat, k \in K PROVE k + 1 \in K
  <2> SUFFICES ASSUME k + 1 <= n, NEW s \in SUBSET (1..(k + 1)) PROVE g[s] \in S
    OBVIOUS
  <2>1. s \in SUBSET (1..n) /\ k <= n
    OBVIOUS
  <2>2. CASE k + 1 \in s
    <3>1. Max(s) = k + 1 /\ s # {} /\ k + 1 \in 1..n
      BY <2>2, MaxIsLast
    <3>2. s \ {k + 1} \in SUBSET (1..k)
      <4>1. \A x \in 1..(k + 1) : x # k + 1 => x \in 1..k
        BY ONLY k \in Nat
      <4>2. QED
        BY <4>1
    <3>3. g[s \ {k + 1}] \in S
      BY <1>3, <2>1, <3>2
    <3>4. g[s] = step[k + 1][g[s \ {k + 1}]]
      BY <1>1, <2>1, <3>1
    <3>5. QED
      BY <3>1, <3>3, <3>4
  <2>3. CASE k + 1 \notin s
    <3>1. s \in SUBSET (1..k)
      BY <2>3
    <3>2. QED
      BY <1>3, <2>1, <3>1
  <2>4. QED
    BY <2>2, <2>3
<1> HIDE DEF K
<1>4. n \in K
  BY <1>2, <1>3, CountUp
<1>5. QED
  BY <1>4 DEF K

-------------------------------------------------------------------------------
(* Items and their settings. *)

LEMMA MinOf ==
  ASSUME NEW a \in Int, NEW b \in Int
  PROVE  Min({a, b}) = IF a <= b THEN a ELSE b
BY DEF Min

LEMMA MaxOf ==
  ASSUME NEW a \in Int, NEW b \in Int
  PROVE  Max({a, b}) = IF a >= b THEN a ELSE b
BY DEF Max

LEMMA ClampedIn ==
  ASSUME NEW v \in Int, NEW low \in Int, NEW high \in Int
  PROVE  /\ Clamped(v, low, high) \in Int /\ Clamped(v, low, high) >= low
         /\ low <= high => Clamped(v, low, high) <= high
         /\ low <= v /\ v <= high => Clamped(v, low, high) = v
<1>1. Min({high, v}) = IF high <= v THEN high ELSE v
  BY MinOf
<1>2. Min({high, v}) \in Int
  BY <1>1
<1>3. Max({low, Min({high, v})}) =
        IF low >= Min({high, v}) THEN low ELSE Min({high, v})
  BY <1>2, MaxOf
<1>4. QED
  BY <1>1, <1>2, <1>3 DEF Clamped

LEMMA SteppedIn ==
  ASSUME NEW v \in Int
  PROVE  Stepped(v) \in Int
<1>1. TimeStep \in Nat /\ TimeStep > 0
  BY FlowAssumption
<1>2. 2 * TimeStep \in Nat /\ 2 * TimeStep > 0 /\ 2 * v + TimeStep \in Int
  BY <1>1
<1>3. (2 * v + TimeStep) \div (2 * TimeStep) \in Int
  BY <1>2
<1>4. QED
  BY <1>1, <1>3 DEF Stepped

LEMMA TimesIn ==
  ASSUME NEW block \in Minigames, NEW time \in Int
  PROVE  /\ ClampMinigameTime(time, block) \in Nat
         /\ ProceduralRoundSeconds(block, time) \in Nat
         /\ Clamped(Stepped(IF time = 0 THEN DefaultTimes[block] ELSE time),
                    MinTime, MaxTime) \in Nat
<1>1. MinTime \in Nat /\ MaxTime \in Nat /\ DefaultTimes[block] \in Int
  BY FlowAssumption
<1> DEFINE asked == IF time = 0 THEN DefaultTimes[block] ELSE time
           stepped == Stepped(asked)
<1>2. asked \in Int
  BY <1>1
<1> HIDE DEF asked
<1>3. stepped \in Int
  BY <1>2, SteppedIn
<1> HIDE DEF stepped
<1>4. Clamped(stepped, MinTime, MaxTime) \in Nat
  <2>1. MinTime \in Int /\ MaxTime \in Int /\ 0 <= MinTime
    BY <1>1
  <2>2. /\ Clamped(stepped, MinTime, MaxTime) \in Int
        /\ Clamped(stepped, MinTime, MaxTime) >= MinTime
    BY <1>3, <2>1, ClampedIn
  <2>3. QED
    BY <2>1, <2>2
<1>5. QED
  BY <1>4 DEF ClampMinigameTime, ProceduralRoundSeconds, stepped, asked

LEMMA BlocksAre ==
  /\ Catalog \subseteq Palette /\ Catalog # {} /\ Palette # {}
  /\ \A b \in Palette : b \in Minigames \/ (b \in Themes /\ Available[b] \in Nat)
  /\ \A b \in Minigames : b \notin Themes /\ DefaultTimes[b] \in Nat
  /\ IsFiniteSet(Catalog) /\ IsFiniteSet(Palette)
<1>1. /\ Catalog \subseteq Palette /\ Catalog # {} /\ Palette # {}
      /\ \A b \in Palette :
           b \in Minigames \/ (b \in Themes /\ Available[b] \in Nat)
      /\ \A b \in Minigames : b \notin Themes /\ DefaultTimes[b] \in Nat
  BY FlowAssumption DEF Catalog, Palette
<1>2. IsFiniteSet(Palette)
  BY FlowAssumption, FS_Union DEF Palette
<1>3. QED
  BY <1>1, <1>2, FS_Subset

LEMMA QuestionsIn ==
  ASSUME NEW v \in Int, NEW theme \in Themes
  PROVE  /\ Clamped(v, 1, MaxQuestions) \in 1..MaxQuestions
         /\ Clamped(v, 1, Min({MaxQuestions, Available[theme]})) \in 1..MaxQuestions
<1>1. MaxQuestions \in Int /\ MaxQuestions >= 1 /\ Available[theme] \in Nat
  BY FlowAssumption
<1> DEFINE most == Min({MaxQuestions, Available[theme]})
<1>2. most \in Int /\ most <= MaxQuestions
  BY <1>1, MinOf
<1> HIDE DEF most
<1>3. \A high \in Int :
        high <= MaxQuestions => Clamped(v, 1, high) \in 1..MaxQuestions
  <2> SUFFICES ASSUME NEW high \in Int, high <= MaxQuestions
               PROVE  Clamped(v, 1, high) \in 1..MaxQuestions
    OBVIOUS
  <2>1. /\ Clamped(v, 1, high) = Max({1, Min({high, v})})
        /\ Min({high, v}) \in Int /\ Min({high, v}) <= high
    BY MinOf DEF Clamped
  <2>2. Max({1, Min({high, v})}) = IF 1 >= Min({high, v}) THEN 1 ELSE Min({high, v})
    BY <2>1, MaxOf
  <2>3. QED
    BY <1>1, <2>1, <2>2
<1>4. QED
  BY <1>1, <1>2, <1>3 DEF most

LEMMA StoredItem ==
  ASSUME NEW item \in Items, item.block \in Catalog
  PROVE  ToStored(item) \in Items
<1>1. DefaultQuestions \in Nat /\ 0 \in 0..MaxQuestions
  BY FlowAssumption
<1>2. CASE item.block \in Minigames
  <2>1. item.time \in Int /\ item.block \in Palette
    BY DEF Items
  <2>2. QED
    BY <1>1, <1>2, <2>1, TimesIn DEF ToStored, Item, Items
<1>3. CASE item.block \notin Minigames
  <2>1. item.block \in Themes
    BY <1>3, BlocksAre
  <2> DEFINE asked == IF item.questions = 0 THEN DefaultQuestions
                                            ELSE item.questions
  <2>2. asked \in Int
    BY <1>1 DEF Items
  <2> HIDE DEF asked
  <2>3. Clamped(asked, 1, Min({MaxQuestions, Available[item.block]}))
          \in 1..MaxQuestions
    BY <2>1, <2>2, QuestionsIn
  <2>4. QED
    BY <1>3, <2>1, <2>3, BlocksAre DEF ToStored, Item, Items, asked, Palette
<1>4. QED
  BY <1>2, <1>3

LEMMA CreatedItem ==
  ASSUME NEW block \in Palette
  PROVE  CreateFlowItem(block) \in Items /\ Item(block, 0, 0) \in Items
BY BlocksAre, FlowAssumption DEF CreateFlowItem, Item, Items

-------------------------------------------------------------------------------
(* What is stored. *)

Storing(flow, g) ==
  g = [s \in SUBSET DOMAIN flow |->
         IF s = {} THEN <<>> ELSE StoreItem(g[s \ {Max(s)}], flow[Max(s)])]

LEMMA StoredIsFold ==
  ASSUME NEW flow
  PROVE  NormalizeForStorage(flow) = (CHOOSE g : Storing(flow, g))[DOMAIN flow]
BY DEF NormalizeForStorage, FoldLeft, MapThenFoldSet, Storing

(* The stored flow is made item by item. *)
LEMMA StoredByItem ==
  ASSUME NEW flow \in Flows
  PROVE  \E turn \in [0..Len(flow) -> Flows] :
           /\ turn[0] = <<>>
           /\ \A i \in 1..Len(flow) : turn[i] = StoreItem(turn[i - 1], flow[i])
           /\ NormalizeForStorage(flow) = turn[Len(flow)]
<1> DEFINE n == Len(flow)
           step == [i \in 1..n |-> [v \in Flows |-> StoreItem(v, flow[i])]]
<1>1. n \in Nat /\ DOMAIN flow = 1..n /\ \A i \in 1..n : flow[i] \in Items
  BY DEF Flows
<1>2. \A i \in 1..n, v \in Flows : StoreItem(v, flow[i]) \in Flows
  BY <1>1, StoredItem DEF StoreItem, Flows
<1>3. \A i \in 1..n : step[i] \in [Flows -> Flows]
  BY <1>2
<1>4. <<>> \in Flows
  BY DEF Flows
<1>5. \A i \in 1..n, v \in Flows : step[i][v] = StoreItem(v, flow[i])
  OBVIOUS
<1> HIDE DEF n, step
<1>6. PICK f : IsFold(f, n, <<>>, step)
  BY <1>1, FoldExists
<1>7. \A s \in SUBSET (1..n) : f[s] \in Flows
  BY <1>1, <1>3, <1>4, <1>6, FoldTyped
<1>8. Storing(flow, f)
  <2>1. ASSUME NEW s \in SUBSET (1..n), s # {}
        PROVE  step[Max(s)][f[s \ {Max(s)}]]
                 = StoreItem(f[s \ {Max(s)}], flow[Max(s)])
    <3>1. Max(s) \in 1..n /\ s \ {Max(s)} \in SUBSET (1..n)
      BY <1>1, <2>1, MaxIsIn
    <3>2. QED
      BY <1>5, <1>7, <3>1
  <2>2. QED
    BY <1>1, <1>6, <2>1 DEF IsFold, Storing
<1> DEFINE g == CHOOSE h : Storing(flow, h)
<1>9. Storing(flow, g)
  BY <1>8
<1> HIDE DEF g
<1>10. g[1..0] = <<>>
  <2>1. 1..0 = {} /\ 1..0 \in SUBSET (1..n)
    OBVIOUS
  <2>2. QED
    BY <1>1, <1>9, <2>1 DEF Storing
<1>11. ASSUME NEW i \in 1..n PROVE g[1..i] = StoreItem(g[1..(i - 1)], flow[i])
  <2>1. /\ 1..i \in SUBSET (1..n) /\ 1..i # {} /\ (1..i) \ {i} = 1..(i - 1)
        /\ Max(1..i) = i
    BY <1>1, MaxOfInterval
  <2>2. QED
    BY <1>1, <1>9, <2>1 DEF Storing
<1> DEFINE K == {k \in Nat : k <= n => g[1..k] \in Flows}
<1>12. 0 \in K
  BY <1>4, <1>10
<1>13. ASSUME NEW k \in Nat, k \in K PROVE k + 1 \in K
  <2> SUFFICES ASSUME k + 1 <= n PROVE g[1..(k + 1)] \in Flows
    OBVIOUS
  <2>1. k + 1 \in 1..n /\ (k + 1) - 1 = k /\ g[1..k] \in Flows
    BY <1>1, <1>13
  <2>2. QED
    BY <1>2, <1>11, <2>1
<1> HIDE DEF K
<1>14. \A k \in 0..n : g[1..k] \in Flows
  <2>1. Nat \subseteq K
    BY <1>12, <1>13, CountUp
  <2>2. QED
    BY <1>1, <2>1 DEF K
<1> DEFINE turn == [i \in 0..n |-> g[1..i]]
<1>15. /\ turn \in [0..n -> Flows] /\ turn[0] = <<>>
       /\ \A i \in 1..n : turn[i] = StoreItem(turn[i - 1], flow[i])
       /\ turn[n] = g[DOMAIN flow]
  BY <1>1, <1>10, <1>11, <1>14
<1>16. NormalizeForStorage(flow) = turn[n]
  BY <1>15, StoredIsFold DEF g
<1> HIDE DEF turn
<1>17. QED
  BY <1>15, <1>16 DEF n

LEMMA StoredFlow ==
  ASSUME NEW flow \in Flows
  PROVE  NormalizeForStorage(flow) \in Flows
<1>1. Len(flow) \in Nat
  BY DEF Flows
<1>2. QED
  BY <1>1, StoredByItem

-------------------------------------------------------------------------------
(* The editor's flows. *)

Blocks == {Catalog, Palette}

LEMMA PicksAre ==
  ASSUME NEW blocks \in Blocks, NEW size \in Int,
         NEW picks \in RandomPicks(blocks, size)
  PROVE  picks \in [1..size -> blocks]
<1>1. blocks # {} /\ IsFiniteSet(blocks)
  BY BlocksAre DEF Blocks
<1>2. Cardinality(blocks) \in Nat /\ Cardinality(blocks) # 0
  BY <1>1, FS_CardinalityType, FS_EmptySet
<1> DEFINE m == Cardinality(blocks)
<1>3. PICK o \in Orders(blocks) :
        picks = [i \in 1..size |-> o[((i - 1) % Len(o)) + 1]]
  BY DEF RandomPicks
<1>4. o \in [1..m -> blocks]
  BY <1>3 DEF Orders
<1>5. Len(o) = m
  BY <1>2, <1>4
<1> HIDE DEF m
<1>6. \A i \in 1..size : ((i - 1) % m) + 1 \in 1..m
  <2>1. m \in Nat /\ m > 0
    BY <1>2 DEF m
  <2>2. QED
    BY <2>1
<1>7. \A i \in 1..size : o[((i - 1) % Len(o)) + 1] \in blocks
  BY <1>4, <1>5, <1>6
<1>8. QED
  BY <1>3, <1>7

LEMMA RandomFlows ==
  ASSUME NEW blocks \in Blocks, NEW size \in Nat
  PROVE  RandomFlowsFrom(blocks, size) \subseteq Flows
<1> SUFFICES ASSUME NEW picks \in RandomPicks(blocks, size)
             PROVE  [i \in 1..size |-> CreateFlowItem(picks[i])] \in Flows
  BY DEF RandomFlowsFrom
<1>1. \A i \in 1..size : picks[i] \in Palette
  BY PicksAre, BlocksAre DEF Blocks
<1>2. \A i \in 1..size : CreateFlowItem(picks[i]) \in Items
  BY <1>1, CreatedItem
<1>3. QED
  BY <1>2 DEF Flows

LEMMA FirstFlows == Randomized(DefaultSize) \subseteq Flows
<1> DEFINE size == Clamped(DefaultSize, MinBlocks, MaxBlocks)
           stored(picks) == [i \in 1..size |-> ToStored(Item(picks[i], 0, 0))]
<1>0. Randomized(DefaultSize) =
        {stored(picks) : picks \in RandomPicks(Catalog, size)}
  BY DEF Randomized
<1>1. size \in Nat
  <2>1. /\ DefaultSize \in Int /\ MinBlocks \in Int /\ MaxBlocks \in Int
        /\ MinBlocks >= 0
    BY FlowAssumption
  <2>2. size \in Int /\ size >= MinBlocks
    BY <2>1, ClampedIn
  <2> HIDE DEF size
  <2>3. QED
    BY <2>1, <2>2
<1> HIDE DEF size
<1> SUFFICES ASSUME NEW picks \in RandomPicks(Catalog, size)
             PROVE  stored(picks) \in Flows
  BY <1>0
<1>2. \A i \in 1..size : picks[i] \in Catalog
  BY <1>1, PicksAre DEF Blocks
<1>3. \A i \in 1..size : ToStored(Item(picks[i], 0, 0)) \in Items
  <2> SUFFICES ASSUME NEW b \in Catalog PROVE ToStored(Item(b, 0, 0)) \in Items
    BY <1>2
  <2>1. Item(b, 0, 0) \in Items
    BY BlocksAre, CreatedItem
  <2>2. Item(b, 0, 0).block = b
    BY DEF Item
  <2>3. QED
    BY <2>1, <2>2, StoredItem
<1>4. QED
  BY <1>1, <1>3 DEF Flows

LEMMA MountedFlow ==
  ASSUME NEW stored \in Flows
  PROVE  ToFlowItems(stored) \in Flows
<1>1. /\ Len(stored) \in Nat /\ DOMAIN stored = 1..Len(stored)
      /\ \A i \in 1..Len(stored) : stored[i] \in Items
  BY DEF Flows
<1>2. \A i \in 1..Len(stored) :
        [stored[i] EXCEPT !.time =
           IF @ = 0 /\ stored[i].block \in Minigames
           THEN DefaultTimes[stored[i].block] ELSE @] \in Items
  BY <1>1, BlocksAre DEF Items
<1>3. QED
  BY <1>1, <1>2 DEF ToFlowItems, Flows

LEMMA EditedItem ==
  ASSUME NEW flow \in Flows, NEW i \in 1..Len(flow), NEW v \in Int
  PROVE  /\ flow[i].block \in Themes => SetQuestions(flow, i, v) \in Flows
         /\ flow[i].block \in Minigames => SetMinigameTime(flow, i, v) \in Flows
<1>1. flow[i] \in Items
  BY DEF Flows
<1>2. ASSUME flow[i].block \in Themes PROVE SetQuestions(flow, i, v) \in Flows
  <2>1. Clamped(v, 1, MaxQuestions) \in 1..MaxQuestions
    BY <1>2, QuestionsIn
  <2>2. [flow[i] EXCEPT !.questions = Clamped(v, 1, MaxQuestions)] \in Items
    BY <1>1, <2>1 DEF Items
  <2>3. QED
    BY <2>2 DEF SetQuestions, Flows
<1>3. ASSUME flow[i].block \in Minigames PROVE SetMinigameTime(flow, i, v) \in Flows
  <2>1. ClampMinigameTime(v, flow[i].block) \in Nat
    BY <1>3, TimesIn
  <2>2. [flow[i] EXCEPT !.time = ClampMinigameTime(v, flow[i].block)] \in Items
    BY <1>1, <2>1 DEF Items
  <2>3. QED
    BY <2>2 DEF SetMinigameTime, Flows
<1>4. QED
  BY <1>2, <1>3

LEMMA Removed ==
  ASSUME NEW S, NEW s \in Seq(S), NEW k \in 1..Len(s)
  PROVE  LET rest == RemoveAt(s, k)
         IN  /\ rest \in Seq(S) /\ Len(rest) = Len(s) - 1
             /\ \A i \in 1..(Len(s) - 1) :
                  rest[i] = IF i < k THEN s[i] ELSE s[i + 1]
<1> DEFINE n == Len(s)
           left == SubSeq(s, 1, k - 1)
           right == SubSeq(s, k + 1, n)
<1>1. n \in Nat /\ k \in 1..n
  OBVIOUS
<1>2. /\ left \in Seq(S) /\ Len(left) = k - 1
      /\ \A i \in 1..(k - 1) : left[i] = s[i]
  BY <1>1
<1>3. /\ right \in Seq(S) /\ Len(right) = n - k
      /\ \A i \in 1..(n - k) : right[i] = s[k + i]
  BY <1>1
<1>4. RemoveAt(s, k) = left \o right
  BY DEF RemoveAt
<1> HIDE DEF n, left, right
<1>5. /\ left \o right \in Seq(S) /\ Len(left \o right) = n - 1
      /\ \A i \in 1..(n - 1) :
           (left \o right)[i] = IF i < k THEN left[i] ELSE right[i - (k - 1)]
  <2>1. /\ left \o right \in Seq(S) /\ Len(left \o right) = Len(left) + Len(right)
        /\ \A i \in 1..(Len(left) + Len(right)) : (left \o right)[i] =
             IF i <= Len(left) THEN left[i] ELSE right[i - Len(left)]
    BY <1>2, <1>3, ConcatProperties
  <2>2. Len(left) + Len(right) = n - 1
    BY <1>1, <1>2, <1>3
  <2>3. \A i \in 1..(n - 1) : i <= k - 1 <=> i < k
    BY <1>1
  <2>4. QED
    BY <1>2, <2>1, <2>2, <2>3
<1>6. ASSUME NEW i \in 1..(n - 1)
      PROVE  (left \o right)[i] = IF i < k THEN s[i] ELSE s[i + 1]
  <2>1. CASE i < k
    BY <1>1, <1>2, <1>5, <2>1
  <2>2. CASE ~(i < k)
    <3>1. i - (k - 1) \in 1..(n - k) /\ k + (i - (k - 1)) = i + 1
      BY <1>1, <2>2
    <3>2. QED
      BY <1>3, <1>5, <2>2, <3>1
  <2>3. QED
    BY <2>1, <2>2
<1>7. QED
  BY <1>4, <1>5, <1>6 DEF n

IsInserted(longer, s, k, e) ==
  /\ Len(longer) = Len(s) + 1
  /\ longer[k] = e
  /\ \A i \in 1..(k - 1) : longer[i] = s[i]
  /\ \A i \in (k + 1)..(Len(s) + 1) : longer[i] = s[i - 1]

LEMMA Inserted ==
  ASSUME NEW S, NEW s \in Seq(S), NEW k \in 1..(Len(s) + 1), NEW e \in S
  PROVE  InsertAt(s, k, e) \in Seq(S) /\ IsInserted(InsertAt(s, k, e), s, k, e)
<1> DEFINE n == Len(s)
           left == SubSeq(s, 1, k - 1)
           right == SubSeq(s, k, n)
           head == left \o <<e>>
<1>1. n \in Nat /\ k \in 1..(n + 1)
  OBVIOUS
<1>2. /\ left \in Seq(S) /\ Len(left) = k - 1
      /\ \A i \in 1..(k - 1) : left[i] = s[i]
  BY <1>1
<1>3. /\ right \in Seq(S) /\ Len(right) = n + 1 - k
      /\ \A i \in 1..(n + 1 - k) : right[i] = s[k + i - 1]
  BY <1>1
<1>4. InsertAt(s, k, e) = head \o right
  BY DEF InsertAt
<1> HIDE DEF n, left, right
<1>5. /\ head \in Seq(S) /\ Len(head) = k /\ head[k] = e
      /\ \A i \in 1..(k - 1) : head[i] = s[i]
  BY <1>1, <1>2
<1> HIDE DEF head
<1>6. /\ head \o right \in Seq(S) /\ Len(head \o right) = n + 1
      /\ \A i \in 1..(n + 1) :
           (head \o right)[i] = IF i <= k THEN head[i] ELSE right[i - k]
  <2>1. /\ head \o right \in Seq(S) /\ Len(head \o right) = Len(head) + Len(right)
        /\ \A i \in 1..(Len(head) + Len(right)) : (head \o right)[i] =
             IF i <= Len(head) THEN head[i] ELSE right[i - Len(head)]
    BY <1>3, <1>5, ConcatProperties
  <2>2. Len(head) + Len(right) = n + 1
    BY <1>1, <1>3, <1>5
  <2>3. QED
    BY <1>5, <2>1, <2>2
<1>7. /\ (head \o right)[k] = e
      /\ \A i \in 1..(k - 1) : (head \o right)[i] = s[i]
  BY <1>1, <1>5, <1>6
<1>8. ASSUME NEW i \in (k + 1)..(n + 1) PROVE (head \o right)[i] = s[i - 1]
  <2>1. i - k \in 1..(n + 1 - k) /\ k + (i - k) - 1 = i - 1 /\ ~(i <= k)
        /\ i \in 1..(n + 1)
    BY <1>1
  <2>2. QED
    BY <1>3, <1>6, <2>1
<1>9. QED
  BY <1>4, <1>6, <1>7, <1>8 DEF n, IsInserted

LEMMA InsertedItem ==
  ASSUME NEW S, NEW flow \in Seq(S), NEW i \in 0..Len(flow), NEW item \in S
  PROVE  InsertBlock(flow, i, item) \in Seq(S)
<1>1. i + 1 \in 1..(Len(flow) + 1)
  OBVIOUS
<1>2. QED
  BY <1>1, Inserted DEF InsertBlock

LEMMA LeastOf ==
  ASSUME NEW n \in Nat, NEW S \in SUBSET (0..(n - 1)), S # {}
  PROVE  \E j \in S : \A k \in S : j <= k
<1> DEFINE M == {m \in Nat : m <= n => \A k \in S : ~(k < m)}
<1>1. \A k \in S : k \in Nat /\ k < n
  OBVIOUS
<1>2. SUFFICES ASSUME ~\E j \in S : \A k \in S : j <= k
               PROVE  FALSE
  OBVIOUS
<1>3. 0 \in M
  BY <1>1
<1>4. ASSUME NEW m \in Nat, m \in M PROVE m + 1 \in M
  <2>1. SUFFICES ASSUME m + 1 <= n PROVE \A k \in S : ~(k < m + 1)
    OBVIOUS
  <2>2. \A k \in S : k \in Int /\ m <= k
    BY <1>1, <1>4, <2>1
  <2>3. m \notin S
    BY <1>2, <2>2
  <2>4. QED
    BY <2>2, <2>3
<1> HIDE DEF M
<1>5. Nat \subseteq M
  BY <1>3, <1>4, CountUp
<1>6. \A k \in S : ~(k < n)
  BY <1>5 DEF M
<1>7. QED
  BY <1>1, <1>6

LEMMA DropsIn ==
  ASSUME NEW n \in Nat, NEW cursor
  PROVE  DropIndex(n, cursor) \in 0..n
<1> DEFINE before == {j \in 0..(n - 1) : IsBefore(cursor, j)}
<1>1. DropIndex(n, cursor) =
        IF before = {} THEN n ELSE CHOOSE j \in before : \A k \in before : j <= k
  BY DEF DropIndex
<1>2. before \in SUBSET (0..(n - 1))
  OBVIOUS
<1> HIDE DEF before
<1>3. CASE before = {}
  BY <1>1, <1>3
<1>4. CASE before # {}
  <2>1. \E j \in before : \A k \in before : j <= k
    BY <1>2, <1>4, LeastOf
  <2>2. DropIndex(n, cursor) = CHOOSE j \in before : \A k \in before : j <= k
    BY <1>1, <1>4
  <2>3. DropIndex(n, cursor) \in before
    BY <2>1, <2>2
  <2>4. \A j \in before : j \in 0..n
    BY <1>2
  <2>5. QED
    BY <2>3, <2>4
<1>5. QED
  BY <1>3, <1>4

LEMMA MovedItem ==
  ASSUME NEW flow \in Flows, NEW from \in 0..(Len(flow) - 1),
         NEW index \in 0..Len(flow)
  PROVE  MoveBlock(flow, from, index) \in Flows
<1> DEFINE rest == RemoveAt(flow, from + 1)
           target == IF from < index THEN index - 1 ELSE index
<1>1. from + 1 \in 1..Len(flow) /\ flow[from + 1] \in Items /\ Len(flow) \in Nat
  BY DEF Flows
<1>2. rest \in Flows /\ Len(rest) = Len(flow) - 1
  BY <1>1, Removed DEF Flows
<1>3. target \in 0..(Len(flow) - 1)
  BY <1>1
<1> HIDE DEF rest, target
<1>4. InsertBlock(rest, target, flow[from + 1]) \in Flows
  BY <1>1, <1>2, <1>3, InsertedItem DEF Flows
<1>5. QED
  BY <1>4 DEF MoveBlock, rest, target

OpenEditors ==
  [open : {TRUE}, flow : Flows, catalog : Blocks, fetch : {"none", "draft", "keep"},
   unsaved : BOOLEAN]
Editors == {NoEditor} \cup OpenEditors

LEMMA EditorsOpened ==
  ASSUME NEW stored \in Flows
  PROVE  /\ Mounted(stored) \in OpenEditors
         /\ \A e \in Editors : Rerendered(e, stored) \in Editors
<1>1. FetchFor(stored) \in {"none", "draft", "keep"}
  BY DEF FetchFor
<1>2. Mounted(stored) \in OpenEditors
  BY <1>1, MountedFlow DEF Mounted, OpenEditors, Blocks
<1>3. ASSUME NEW e \in Editors PROVE Rerendered(e, stored) \in Editors
  <2>1. CASE e = NoEditor
    BY <2>1 DEF Rerendered, Editors, NoEditor
  <2>2. CASE e \in OpenEditors
    <3>1. [e EXCEPT !.fetch = FetchFor(stored)] \in OpenEditors
      BY <1>1, <2>2 DEF OpenEditors
    <3>2. QED
      BY <2>2, <3>1 DEF Rerendered, Editors
  <2>3. QED
    BY <2>1, <2>2 DEF Editors
<1>4. QED
  BY <1>2, <1>3

LEMMA EditorsFetched ==
  ASSUME NEW e \in OpenEditors
  PROVE  Fetched(e) \subseteq OpenEditors
<1> SUFFICES ASSUME NEW f \in Fetched(e) PROVE f \in OpenEditors
  OBVIOUS
<1>1. PICK blocks \in Blocks :
        f \in LET got == [e EXCEPT !.catalog = blocks, !.fetch = "none"]
              IN  IF e.fetch = "draft"
                  THEN {Edited(got, flow) :
                          flow \in RandomFlowsFrom(blocks, DefaultSize)}
                  ELSE {got}
  BY DEF Fetched, Blocks
<1> DEFINE got == [e EXCEPT !.catalog = blocks, !.fetch = "none"]
<1>2. got \in OpenEditors
  BY DEF OpenEditors
<1>3. DefaultSize \in Nat
  BY FlowAssumption
<1>4. \A flow \in RandomFlowsFrom(blocks, DefaultSize) : flow \in Flows
  BY <1>3, RandomFlows
<1> HIDE DEF got
<1>5. \A flow \in Flows : Edited(got, flow) \in OpenEditors
  BY <1>2 DEF Edited, OpenEditors
<1>6. QED
  BY <1>1, <1>2, <1>4, <1>5 DEF got

LEMMA EditorsEdited ==
  ASSUME NEW e \in OpenEditors
  PROVE  \A flow \in Edits(e) : flow \in Flows /\ Edited(e, flow) \in OpenEditors
<1> DEFINE n == Len(e.flow)
<1>1. /\ e.flow \in Flows /\ n \in Nat /\ e.catalog \in Blocks
      /\ DOMAIN e.flow = 1..n
      /\ \A i \in 1..n : e.flow[i] \in Items
      /\ \A b \in e.catalog : b \in Palette
  BY BlocksAre DEF OpenEditors, Flows, Blocks
<1>2. ASSUME NEW flow \in Edits(e) PROVE flow \in Flows
  <2> DEFINE drops == {DropIndex(n, cursor) : cursor \in Cursors(n)}
  <2>1. drops \subseteq 0..n
    BY <1>1, DropsIn
  <2>2. ASSUME NEW i \in 1..n, NEW v \in 0..(MaxQuestions + 1),
               e.flow[i].block \in Themes
        PROVE  SetQuestions(e.flow, i, v) \in Flows
    <3>1. v \in Int
      BY FlowAssumption
    <3>2. QED
      BY <1>1, <2>2, <3>1, EditedItem
  <2>3. ASSUME NEW i \in 1..n, NEW step \in {-TimeStep, TimeStep},
               e.flow[i].block \in Minigames
        PROVE  SetMinigameTime(e.flow, i,
                 ClampMinigameTime(e.flow[i].time, e.flow[i].block) + step)
                   \in Flows
    <3>1. e.flow[i].time \in Int
      BY <1>1 DEF Items
    <3>2. ClampMinigameTime(e.flow[i].time, e.flow[i].block) \in Nat
      BY <2>3, <3>1, TimesIn
    <3>3. step \in Int
      BY FlowAssumption
    <3>4. ClampMinigameTime(e.flow[i].time, e.flow[i].block) + step \in Int
      BY <3>2, <3>3
    <3>5. QED
      BY <1>1, <2>3, <3>4, EditedItem
  <2>4. \A i \in 1..n : RemoveAt(e.flow, i) \in Flows
    BY <1>1, Removed DEF Flows
  <2>5. \A b \in e.catalog :
          CreateFlowItem(b) \in Items /\ Append(e.flow, CreateFlowItem(b)) \in Flows
    BY <1>1, CreatedItem DEF Flows
  <2>6. \A size \in MinBlocks..MaxBlocks :
          RandomFlowsFrom(e.catalog, size) \subseteq Flows
    <3>1. \A size \in MinBlocks..MaxBlocks : size \in Nat
      BY FlowAssumption
    <3>2. QED
      BY <1>1, <3>1, RandomFlows
  <2>7. \A index \in drops, b \in e.catalog :
          InsertBlock(e.flow, index, CreateFlowItem(b)) \in Flows
    BY <1>1, <2>1, <2>5, InsertedItem DEF Flows
  <2>8. \A from \in 0..(n - 1), index \in drops :
          MoveBlock(e.flow, from, index) \in Flows
    BY <1>1, <2>1, MovedItem
  <2> HIDE DEF drops
  <2>9. ASSUME flow \in GearEdits(e) PROVE flow \in Flows
    <3>1. \/ \E i \in 1..n, v \in 0..(MaxQuestions + 1) :
               e.flow[i].block \in Themes /\ flow = SetQuestions(e.flow, i, v)
          \/ \E i \in 1..n, step \in {-TimeStep, TimeStep} :
               /\ e.flow[i].block \in Minigames
               /\ flow = SetMinigameTime(e.flow, i,
                    ClampMinigameTime(e.flow[i].time, e.flow[i].block) + step)
      <4> HIDE DEF n
      <4>1. QED
        BY <1>1, <2>9 DEF GearEdits
    <3>2. QED
      BY <2>2, <2>3, <3>1
  <2>10. ASSUME flow \in ListEdits(e) PROVE flow \in Flows
    BY <2>4, <2>5, <2>6, <2>10 DEF ListEdits
  <2>11. ASSUME flow \in DropEdits(e) PROVE flow \in Flows
    <3>1. \/ \E index \in drops, b \in e.catalog :
               flow = InsertBlock(e.flow, index, CreateFlowItem(b))
          \/ \E from \in 0..(n - 1), index \in drops :
               flow = MoveBlock(e.flow, from, index)
      BY <2>11 DEF DropEdits, drops
    <3>2. QED
      BY <2>7, <2>8, <3>1
  <2>12. QED
    BY <1>2, <2>9, <2>10, <2>11 DEF Edits
<1>3. ASSUME NEW flow \in Flows PROVE Edited(e, flow) \in OpenEditors
  BY DEF Edited, OpenEditors
<1>4. QED
  BY <1>2, <1>3

-------------------------------------------------------------------------------
(* The rounds that are planned. *)

Plans == [rounds : Seq(PlanRounds), left : [Themes -> Nat]]
NoPlan == [rounds |-> <<>>, left |-> Available]

LEMMA ThemePlanned ==
  ASSUME NEW theme \in Themes, NEW want \in Nat, NEW left \in Nat
  PROVE  LET rounds == PlanThemeBlock(theme, want, left)
             count == IF want = 0 THEN DefaultQuestions ELSE want
         IN  /\ rounds \in Seq(PlanRounds) /\ Len(rounds) \in 0..left
             /\ Len(rounds) = Min({count, left})
             /\ \A n \in 1..Len(rounds) :
                  rounds[n] = Round("quiz", theme, left + 1 - n, 0)
<1> DEFINE count == IF want = 0 THEN DefaultQuestions ELSE want
           most == Min({count, left})
<1>1. most \in 0..left
  BY FlowAssumption, MinOf
<1>2. PlanThemeBlock(theme, want, left)
        = [n \in 1..most |-> Round("quiz", theme, left + 1 - n, 0)]
  BY DEF PlanThemeBlock
<1> HIDE DEF most
<1>3. \A n \in 1..most : Round("quiz", theme, left + 1 - n, 0) \in PlanRounds
  BY <1>1 DEF Round, PlanRounds, Palette
<1> DEFINE rounds == [n \in 1..most |-> Round("quiz", theme, left + 1 - n, 0)]
<1>4. most \in Nat
  BY <1>1
<1>5. rounds \in Seq(PlanRounds) /\ Len(rounds) = most
  BY <1>3, <1>4
<1>6. QED
  BY <1>1, <1>2, <1>5 DEF most

LEMMA ItemPlanned ==
  ASSUME NEW plan \in Plans, NEW item \in Items
  PROVE  PlanItem(plan, item) \in Plans
<1>1. /\ plan.rounds \in Seq(PlanRounds) /\ plan.left \in [Themes -> Nat]
      /\ item.block \in Palette /\ item.questions \in Nat /\ item.time \in Int
  BY DEF Plans, Items
<1>2. CASE item.block \in Themes
  <2> DEFINE rounds == PlanThemeBlock(item.block, item.questions,
                                      plan.left[item.block])
  <2>1. rounds \in Seq(PlanRounds) /\ Len(rounds) \in 0..plan.left[item.block]
    BY <1>1, <1>2, ThemePlanned
  <2>2. PlanItem(plan, item) =
          [rounds |-> plan.rounds \o rounds,
           left |-> [plan.left EXCEPT ![item.block] = @ - Len(rounds)]]
    BY <1>2 DEF PlanItem
  <2> HIDE DEF rounds
  <2>3. plan.rounds \o rounds \in Seq(PlanRounds)
    BY <1>1, <2>1, ConcatProperties
  <2>4. [plan.left EXCEPT ![item.block] = @ - Len(rounds)] \in [Themes -> Nat]
    BY <1>1, <1>2, <2>1
  <2>5. QED
    BY <2>2, <2>3, <2>4 DEF Plans
<1>3. CASE item.block \notin Themes
  <2> DEFINE round == Round("game", item.block, 0,
                            ProceduralRoundSeconds(item.block, item.time))
  <2>1. item.block \in Minigames
    BY <1>1, <1>3, BlocksAre
  <2>2. round \in PlanRounds
    BY <1>1, <2>1, TimesIn DEF Round, PlanRounds
  <2>3. PlanItem(plan, item) = [plan EXCEPT !.rounds = Append(@, round)]
    BY <1>3 DEF PlanItem
  <2> HIDE DEF round
  <2>4. Append(plan.rounds, round) \in Seq(PlanRounds)
    BY <1>1, <2>2
  <2>5. [plan EXCEPT !.rounds = Append(@, round)] \in Plans
    BY <2>4 DEF Plans
  <2>6. QED
    BY <2>3, <2>5
<1>4. QED
  BY <1>2, <1>3

Planning(flow, g) ==
  g = [s \in SUBSET DOMAIN flow |->
         IF s = {} THEN NoPlan ELSE PlanItem(g[s \ {Max(s)}], flow[Max(s)])]

LEMMA PlanIsFold ==
  ASSUME NEW flow
  PROVE  PlanFromFlow(flow) = (CHOOSE g : Planning(flow, g))[DOMAIN flow].rounds
BY DEF PlanFromFlow, FoldLeft, MapThenFoldSet, Planning, NoPlan

(* The plan is made item by item. *)
LEMMA PlannedByItem ==
  ASSUME NEW flow \in Flows
  PROVE  \E turn \in [0..Len(flow) -> Plans] :
           /\ turn[0] = NoPlan
           /\ \A i \in 1..Len(flow) : turn[i] = PlanItem(turn[i - 1], flow[i])
           /\ PlanFromFlow(flow) = turn[Len(flow)].rounds
<1> DEFINE n == Len(flow)
           step == [i \in 1..n |-> [v \in Plans |-> PlanItem(v, flow[i])]]
<1>1. n \in Nat /\ DOMAIN flow = 1..n /\ \A i \in 1..n : flow[i] \in Items
  BY DEF Flows
<1>2. \A i \in 1..n, v \in Plans : PlanItem(v, flow[i]) \in Plans
  BY <1>1, ItemPlanned
<1>3. \A i \in 1..n : step[i] \in [Plans -> Plans]
  BY <1>2
<1>4. NoPlan \in Plans
  BY FlowAssumption DEF NoPlan, Plans
<1>5. \A i \in 1..n, v \in Plans : step[i][v] = PlanItem(v, flow[i])
  OBVIOUS
<1> HIDE DEF n, step
<1>6. PICK f : IsFold(f, n, NoPlan, step)
  BY <1>1, FoldExists
<1>7. \A s \in SUBSET (1..n) : f[s] \in Plans
  BY <1>1, <1>3, <1>4, <1>6, FoldTyped
<1>8. Planning(flow, f)
  <2>1. ASSUME NEW s \in SUBSET (1..n), s # {}
        PROVE  step[Max(s)][f[s \ {Max(s)}]]
                 = PlanItem(f[s \ {Max(s)}], flow[Max(s)])
    <3>1. Max(s) \in 1..n /\ s \ {Max(s)} \in SUBSET (1..n)
      BY <1>1, <2>1, MaxIsIn
    <3>2. QED
      BY <1>5, <1>7, <3>1
  <2>2. QED
    BY <1>1, <1>6, <2>1 DEF IsFold, Planning
<1> DEFINE g == CHOOSE h : Planning(flow, h)
<1>9. Planning(flow, g)
  BY <1>8
<1> HIDE DEF g
<1>10. g[1..0] = NoPlan
  <2>1. 1..0 = {} /\ 1..0 \in SUBSET (1..n)
    OBVIOUS
  <2>2. QED
    BY <1>1, <1>9, <2>1 DEF Planning
<1>11. ASSUME NEW i \in 1..n PROVE g[1..i] = PlanItem(g[1..(i - 1)], flow[i])
  <2>1. /\ 1..i \in SUBSET (1..n) /\ 1..i # {} /\ (1..i) \ {i} = 1..(i - 1)
        /\ Max(1..i) = i
    BY <1>1, MaxOfInterval
  <2>2. QED
    BY <1>1, <1>9, <2>1 DEF Planning
<1> DEFINE K == {k \in Nat : k <= n => g[1..k] \in Plans}
<1>12. 0 \in K
  BY <1>4, <1>10
<1>13. ASSUME NEW k \in Nat, k \in K PROVE k + 1 \in K
  <2> SUFFICES ASSUME k + 1 <= n PROVE g[1..(k + 1)] \in Plans
    OBVIOUS
  <2>1. k + 1 \in 1..n /\ (k + 1) - 1 = k /\ g[1..k] \in Plans
    BY <1>1, <1>13
  <2>2. QED
    BY <1>2, <1>11, <2>1
<1> HIDE DEF K
<1>14. \A k \in 0..n : g[1..k] \in Plans
  <2>1. Nat \subseteq K
    BY <1>12, <1>13, CountUp
  <2>2. QED
    BY <1>1, <2>1 DEF K
<1> DEFINE turn == [i \in 0..n |-> g[1..i]]
<1>15. /\ turn \in [0..n -> Plans] /\ turn[0] = NoPlan
       /\ \A i \in 1..n : turn[i] = PlanItem(turn[i - 1], flow[i])
       /\ turn[n] = g[DOMAIN flow]
  BY <1>1, <1>10, <1>11, <1>14
<1>16. PlanFromFlow(flow) = turn[n].rounds
  BY <1>15, PlanIsFold DEF g
<1> HIDE DEF turn
<1>17. QED
  BY <1>15, <1>16 DEF n

LEMMA DefaultPlanned == DefaultPlan \in Seq(PlanRounds)
<1> DEFINE pool == UNION {{Round("quiz", t, n, 0) : n \in 1..Available[t]} :
                            t \in Themes}
           quizzes == {i \in DOMAIN DefaultSequence : DefaultSequence[i] = "quiz"}
           picks == {f \in [quizzes -> pool] : IsInjective(f)}
           picked == CHOOSE f \in picks : TRUE
           plan == [i \in DOMAIN DefaultSequence |->
                IF i \in quizzes THEN picked[i]
                ELSE Round("game", DefaultSequence[i], 0,
                           ProceduralRoundSeconds(DefaultSequence[i], 0))]
<1>1. DefaultPlan = IF picks = {} THEN <<>> ELSE plan
  BY DEF DefaultPlan
<1>2. pool \subseteq PlanRounds
  BY BlocksAre DEF Round, PlanRounds, Palette
<1>3. picks # {} => picked \in [quizzes -> pool]
  OBVIOUS
<1>4. \A i \in DOMAIN DefaultSequence \ quizzes :
        Round("game", DefaultSequence[i], 0,
              ProceduralRoundSeconds(DefaultSequence[i], 0)) \in PlanRounds
  <2> SUFFICES ASSUME NEW b \in Minigames
               PROVE  Round("game", b, 0, ProceduralRoundSeconds(b, 0))
                        \in PlanRounds
    BY FlowAssumption
  <2>1. ProceduralRoundSeconds(b, 0) \in Nat
    BY TimesIn
  <2>2. QED
    BY <2>1 DEF Round, PlanRounds, Palette
<1> HIDE DEF pool, picked, picks
<1>5. picks # {} => \A i \in DOMAIN DefaultSequence : plan[i] \in PlanRounds
  BY <1>2, <1>3, <1>4
<1>6. /\ Len(DefaultSequence) \in Nat
      /\ DOMAIN DefaultSequence = 1..Len(DefaultSequence)
  BY FlowAssumption
<1>7. picks # {} => plan \in Seq(PlanRounds)
  BY <1>5, <1>6
<1>8. QED
  BY <1>1, <1>7

LEMMA PlanTyped ==
  ASSUME NEW flow \in Flows
  PROVE  Plan(flow) \in Seq(PlanRounds)
<1>1. CASE flow = <<>>
  BY <1>1, DefaultPlanned DEF Plan
<1>2. CASE flow # <<>>
  <2>1. Len(flow) \in Nat
    BY DEF Flows
  <2>2. PlanFromFlow(flow) \in Seq(PlanRounds)
    BY <2>1, PlannedByItem DEF Plans
  <2>3. QED
    BY <1>2, <2>2 DEF Plan
<1>3. QED
  BY <1>1, <1>2

-------------------------------------------------------------------------------
(* Types. *)

Rows == [status : {"lobby", "active", "finished", "abandoned"}, flow : Flows]
Rooms == [known : BOOLEAN, phase : Phases, flow : Flows, round : Nat]
HostFrames == [name : {"ROOM_STATE_UPDATE"}, room : Rooms] \cup GameEvents
HostApps ==
  [status : {"connecting", "open", "closed"}, fatal : BOOLEAN, room : Rooms,
   round : Nat, question : Nat, reveal : Nat, content : Nat, roundReveal : Nat,
   final : BOOLEAN]
Tasks ==
  [op : {"connect", "late", "flow", "start"}, n : Nat, flow : Flows, row : Rows]
Games ==
  [at : {"none", "load", "play", "failed", "over"}, row : Rows,
   plan : Seq(PlanRounds)]

PageTypeOK ==
  /\ page \in {"room", "home"} /\ app \in HostApps
  /\ link \in {"none", "opening", "open", "closed"}
  /\ inbox \in Seq(HostFrames) /\ starts \in Nat
EditorTypeOK ==
  /\ editor \in Editors /\ saves \subseteq [n : Nat, flow : Flows]
  /\ sent \in Nat /\ edits \in Nat
ServerTypeOK ==
  /\ row \in Rows /\ token \in BOOLEAN /\ joined \in BOOLEAN
  /\ tasks \subseteq Tasks /\ game \in Games /\ cue \in Nat
  /\ raced \in BOOLEAN /\ missed \in BOOLEAN

\* A start call is one of the clicks, and the events of a game are counted.
StartsAreClicked ==
  /\ \A t, u \in tasks : t.op = "start" /\ u.op = "start" => t = u
  /\ (\E t \in tasks : t.op = "start") => starts > 0
CueInGame ==
  /\ game.at \in {"none", "load", "failed"} => cue = 0
  /\ game.at = "play" => cue < Len(Script)
  /\ game.at = "over" => cue = Len(Script)

HostTypeOK ==
  PageTypeOK /\ EditorTypeOK /\ ServerTypeOK /\ StartsAreClicked /\ CueInGame

-------------------------------------------------------------------------------
(* The script of the game, and frames. *)

LEMMA ScriptOfPlan ==
  ASSUME NEW plan \in Seq(PlanRounds), NEW kinds,
         kinds = [i \in DOMAIN plan |-> plan[i].kind]
  PROVE  IsScript(ScriptOf(kinds), kinds) /\ Len(kinds) = Len(plan)
<1> DEFINE n == Len(plan)
<1>1. n \in Nat /\ DOMAIN plan = 1..n /\ \A i \in 1..n : plan[i] \in PlanRounds
  OBVIOUS
<1>2. \A i \in 1..n : plan[i].kind \in {"quiz", "game"}
  BY <1>1 DEF PlanRounds
<1> HIDE DEF n
<1>3. kinds = [i \in 1..n |-> plan[i].kind]
  BY <1>1
<1>4. kinds \in Seq({"quiz", "game"}) /\ Len(kinds) = n
  BY <1>1, <1>2, <1>3
<1>5. QED
  BY <1>4 DEF IsScript, n

LEMMA ScriptNow ==
  ASSUME game \in Games
  PROVE  IsScript(Script, Kinds) /\ Len(Script) \in Nat
<1>1. game.plan \in Seq(PlanRounds)
  BY DEF Games
<1>2. IsScript(Script, Kinds)
  BY <1>1, ScriptOfPlan DEF Script, Kinds
<1>3. QED
  BY <1>2, KindsLength, ScriptLength

LEMMA CueNow ==
  ASSUME ServerTypeOK, CueInGame
  PROVE  /\ cue \in 0..Len(Script) /\ Len(Script) \in Nat
         /\ PhaseIn(Script, cue) \in Phases /\ RoundIn(Script, cue) \in Nat
<1>1. IsScript(Script, Kinds) /\ Len(Script) \in Nat
  BY ScriptNow DEF ServerTypeOK
<1>2. game.at \in {"none", "load", "play", "failed", "over"} /\ cue \in Nat
  BY DEF ServerTypeOK, Games
<1>3. cue \in 0..Len(Script)
  BY <1>1, <1>2 DEF CueInGame
<1>4. QED
  BY <1>1, <1>3, PhaseFacts

LEMMA SnapshotTyped ==
  ASSUME ServerTypeOK, CueInGame, NEW entity \in Rows
  PROVE  /\ Snapshot(entity) \in HostFrames
         /\ Snapshot(entity).name = "ROOM_STATE_UPDATE"
         /\ Snapshot(entity).room.known
         /\ Snapshot(entity).room.flow = entity.flow
<1> DEFINE live == IF game.at = "play" THEN PhaseIn(Script, cue) ELSE "lobby"
           phase == IF live # "lobby" THEN live
                    ELSE CASE entity.status = "lobby" -> "lobby"
                           [] entity.status = "active" -> "round-intro"
                           [] OTHER -> "game-over"
           round == IF cue = 0 THEN 1 ELSE RoundIn(Script, cue)
<1>1. Snapshot(entity) = [name |-> "ROOM_STATE_UPDATE",
                          room |-> [known |-> TRUE, flow |-> entity.flow,
                                    round |-> round, phase |-> phase]]
  BY DEF Snapshot
<1>2. phase \in Phases /\ round \in Nat
  BY CueNow DEF Phases
<1> HIDE DEF phase, round
<1>3. entity.flow \in Flows
  BY DEF Rows
<1>4. QED
  BY <1>1, <1>2, <1>3 DEF HostFrames, Rooms

LEMMA EventTyped ==
  ASSUME ServerTypeOK, CueInGame, game.at = "play"
  PROVE  /\ cue + 1 \in 1..Len(Script) /\ Script[cue + 1] \in GameEvents
         /\ Script[cue + 1].name \in ScriptNames
<1>1. IsScript(Script, Kinds) /\ Len(Script) \in Nat
  BY ScriptNow DEF ServerTypeOK
<1>2. cue + 1 \in 1..Len(Script)
  BY <1>1 DEF ServerTypeOK, CueInGame
<1>3. QED
  BY <1>1, <1>2, EventNames

LEMMA FrameFields ==
  ASSUME NEW e \in HostFrames
  PROVE  /\ e.name \in {"ROOM_STATE_UPDATE"} \cup ScriptNames
         /\ e.name = "ROOM_STATE_UPDATE" => e.room \in Rooms
         /\ e.name # "ROOM_STATE_UPDATE" => e.round \in Nat
         /\ e.name = "GAME_PHASE_CHANGE" => e.phase \in Phases
BY DEF HostFrames, GameEvents, ScriptNames, Shows, Reveals

LEMMA ReduceTyped ==
  ASSUME NEW s \in HostApps, NEW e \in HostFrames
  PROVE  ReduceHost(s, e) \in HostApps
<1>1. /\ e.name \in {"ROOM_STATE_UPDATE"} \cup ScriptNames
      /\ e.name = "ROOM_STATE_UPDATE" => e.room \in Rooms
      /\ e.name # "ROOM_STATE_UPDATE" => e.round \in Nat
      /\ e.name = "GAME_PHASE_CHANGE" => e.phase \in Phases
  BY FrameFields
<1>2. CASE e.name \in {"ROOM_STATE_UPDATE"}
  BY <1>1, <1>2 DEF ReduceHost, HostApps
<1>3. CASE e.name = "GAME_PHASE_CHANGE"
  <2>1. ReduceHost(s, e) = [s EXCEPT !.room.known = TRUE, !.room.phase = e.phase,
                                     !.room.round = e.round]
    BY <1>3 DEF ReduceHost
  <2>2. [s.room EXCEPT !.known = TRUE, !.phase = e.phase, !.round = e.round]
          \in Rooms
    BY <1>1, <1>3 DEF HostApps, Rooms
  <2>3. QED
    BY <2>1, <2>2 DEF HostApps
<1>4. CASE e.name \notin {"ROOM_STATE_UPDATE", "GAME_PHASE_CHANGE"}
  BY <1>1, <1>4 DEF ReduceHost, HostApps
<1>5. QED
  BY <1>2, <1>3, <1>4

LEMMA NoRoomTyped ==
  NoRoom \in Rooms /\ InitialHost \in HostApps /\ Connecting \in HostApps
<1>1. NoRoom \in Rooms
  BY DEF NoRoom, Rooms, Flows, Phases
<1>2. InitialHost \in HostApps
  BY <1>1 DEF InitialHost, HostApps
<1>3. QED
  BY <1>1, <1>2 DEF Connecting, HostApps

-------------------------------------------------------------------------------
(* Type correctness. *)

LEMMA ClosedTyped ==
  ASSUME app \in HostApps, HostClosed(TRUE) \/ HostClosed(FALSE)
  PROVE  /\ app' \in HostApps /\ link' = "closed"
         /\ inbox' = <<>> /\ editor' = NoEditor
BY NoRoomTyped DEF HostClosed, HostApps

LEMMA EmitTyped ==
  ASSUME PageTypeOK, NEW frame \in HostFrames, Emit(frame)
  PROVE  inbox' \in Seq(HostFrames)
BY DEF PageTypeOK, Emit

LEMMA PageTyped ==
  ASSUME HostTypeOK, Next
  PROVE  PageTypeOK'
<1> USE DEF HostTypeOK, PageTypeOK
<1>1. CASE UNCHANGED <<page, app, link, inbox, starts>>
  BY <1>1
<1>2. CASE Page
  <2>1. CASE HostConnects
    BY <2>1 DEF HostConnects
  <2>2. CASE HostOpened
    BY <2>2 DEF HostOpened, HostApps
  <2>3. CASE ClickStart
    BY <2>3 DEF ClickStart
  <2>4. CASE CloseEditor \/ FetchCatalog \/ Autosave
    BY <1>1, <2>4 DEF CloseEditor, FetchCatalog, Autosave
  <2>5. QED
    BY <1>2, <2>1, <2>2, <2>3, <2>4 DEF Page
<1>3. CASE Receive
  <2>1. inbox # <<>> /\ inbox' = Tail(inbox) /\ app' = ReduceHost(app, Head(inbox))
        /\ UNCHANGED <<page, link, starts>>
    BY <1>3 DEF Receive, HostReceives, srvVars
  <2>2. Head(inbox) \in HostFrames /\ Tail(inbox) \in Seq(HostFrames)
    BY <2>1
  <2>3. QED
    BY <2>1, <2>2, ReduceTyped
<1>4. CASE Open \/ Edit
  BY <1>1, <1>4 DEF Open, Edit, OpenEditor, EditFlow
<1>5. CASE Leave \/ Drop
  <2>1. HostClosed(FALSE) /\ page' \in {"room", "home"} /\ starts' = starts
    BY <1>5 DEF Leave, LeavePage, Drop
  <2>2. QED
    BY <2>1, ClosedTyped
<1>6. CASE LoadPage
  BY <1>6, NoRoomTyped DEF LoadPage
<1>7. CASE HandleHost
  <2>1. /\ UNCHANGED <<page, starts>>
        /\ UNCHANGED <<app, link, inbox>> \/ HostClosed(TRUE)
    BY <1>7 DEF HandleHost
  <2>2. CASE HostClosed(TRUE)
    BY <2>1, <2>2, ClosedTyped
  <2>3. CASE UNCHANGED <<app, link, inbox>>
    BY <1>1, <2>1, <2>3
  <2>4. QED
    BY <2>1, <2>2, <2>3
<1>8. CASE HandleStart
  BY <1>8 DEF HandleStart
<1>9. CASE BuildRounds \/ ExpireHost
  BY <1>1, <1>9 DEF BuildRounds, ExpireHost, hostVars
<1>10. CASE Broadcast
  <2>1. game.at = "play" /\ cue' = cue + 1 /\ Emit(Script[cue'])
        /\ UNCHANGED <<page, app, link, starts>>
    BY <1>10 DEF Broadcast
  <2>2. Script[cue'] \in HostFrames
    BY <2>1, EventTyped DEF HostFrames
  <2>3. QED
    BY <2>1, <2>2, EmitTyped
<1>11. CASE PlayersChange
  <2>1. Snapshot(row) \in HostFrames
    BY SnapshotTyped DEF ServerTypeOK
  <2>2. QED
    BY <1>11, <2>1, EmitTyped DEF PlayersChange
<1>12. ASSUME NEW s \in saves, HandleSave(s) \/ LoseSave(s) PROVE PageTypeOK'
  BY <1>1, <1>12 DEF HandleSave, LoseSave
<1>13. ASSUME NEW t \in tasks, StoreHost(t) PROVE PageTypeOK'
  <2>1. t.row \in Rows
    BY DEF ServerTypeOK, Tasks
  <2>2. Snapshot(t.row) \in HostFrames
    BY <2>1, SnapshotTyped
  <2>3. QED
    BY <1>13, <2>2 DEF StoreHost
<1>14. ASSUME NEW t \in tasks, StoreFlow(t) PROVE PageTypeOK'
  <2>1. [t.row EXCEPT !.flow = t.flow] \in Rows
    BY DEF ServerTypeOK, Tasks, Rows
  <2>2. /\ row' \in Rows /\ Emit(Snapshot(row'))
        /\ UNCHANGED <<page, app, link, starts>>
    BY <1>14, <2>1 DEF StoreFlow
  <2>3. QED
    BY <2>2, SnapshotTyped, EmitTyped
<1>15. ASSUME NEW t \in tasks, StoreStart(t) PROVE PageTypeOK'
  <2>1. [t.row EXCEPT !.status = "active"] \in Rows
    BY DEF ServerTypeOK, Tasks, Rows
  <2>2. /\ starts' = starts - 1 /\ starts > 0 /\ UNCHANGED <<page, app, link>>
        /\ \/ inbox' = inbox
           \/ row' \in Rows /\ Emit(Snapshot(row'))
    BY <1>15, <2>1 DEF StoreStart, SaveRow, StartsAreClicked
  <2>3. inbox' \in Seq(HostFrames)
    BY <2>2, SnapshotTyped, EmitTyped
  <2>4. QED
    BY <2>2, <2>3
<1>16. QED
  BY <1>2, <1>3, <1>4, <1>5, <1>6, <1>7, <1>8, <1>9, <1>10, <1>11, <1>12, <1>13,
     <1>14, <1>15 DEF Next

LEMMA EditorTyped ==
  ASSUME HostTypeOK, Next
  PROVE  EditorTypeOK'
<1> USE DEF HostTypeOK, EditorTypeOK
<1>0. app \in HostApps /\ app.room.flow \in Flows
  BY DEF PageTypeOK, HostApps, Rooms
<1>1. CASE UNCHANGED tabVars
  BY <1>1 DEF tabVars
<1>2. CASE Page
  <2>1. CASE HostConnects \/ HostOpened \/ ClickStart
    BY <1>1, <2>1 DEF HostConnects, HostOpened, ClickStart
  <2>2. CASE CloseEditor
    BY <2>2 DEF CloseEditor, Editors
  <2>3. CASE FetchCatalog
    <3>1. editor.fetch # "none" /\ editor' \in Fetched(editor)
          /\ UNCHANGED <<saves, sent, edits>>
      BY <2>3 DEF FetchCatalog
    <3>2. editor \in OpenEditors
      BY <3>1 DEF Editors, NoEditor
    <3>3. QED
      BY <3>1, <3>2, EditorsFetched DEF Editors
  <2>4. CASE Autosave
    <3>1. /\ editor.unsaved /\ editor' = [editor EXCEPT !.unsaved = FALSE]
          /\ sent' = sent + 1 /\ edits' = edits
          /\ saves' = saves \cup {[n |-> sent', flow |-> editor.flow]}
      BY <2>4 DEF Autosave
    <3>2. editor \in OpenEditors
      BY <3>1 DEF Editors, NoEditor
    <3>3. editor' \in OpenEditors /\ editor.flow \in Flows
      BY <3>1, <3>2 DEF OpenEditors
    <3>4. QED
      BY <3>1, <3>3 DEF Editors
  <2>5. QED
    BY <1>2, <2>1, <2>2, <2>3, <2>4 DEF Page
<1>3. CASE Receive
  <2>1. LobbyAfter(app') /\ UNCHANGED <<saves, sent, edits>>
    BY <1>3 DEF Receive, HostReceives
  <2>2. app' \in HostApps
    BY PageTyped DEF PageTypeOK
  <2>3. app'.room.flow \in Flows
    BY <2>2 DEF HostApps, Rooms
  <2>4. Rerendered(editor, app'.room.flow) \in Editors
    BY <2>3, EditorsOpened
  <2>5. QED
    BY <2>1, <2>4 DEF LobbyAfter, Editors
<1>4. CASE Open
  <2>1. editor' = Mounted(app.room.flow) /\ UNCHANGED <<saves, sent, edits>>
    BY <1>4 DEF Open, OpenEditor
  <2>2. QED
    BY <1>0, <2>1, EditorsOpened DEF Editors
<1>5. CASE Edit
  <2>1. /\ editor.open /\ edits' = edits + 1 /\ UNCHANGED <<saves, sent>>
        /\ editor' \in {Edited(editor, flow) : flow \in Edits(editor)}
    BY <1>5 DEF Edit, EditFlow
  <2>2. editor \in OpenEditors
    BY <2>1 DEF Editors, NoEditor
  <2>3. QED
    BY <2>1, <2>2, EditorsEdited DEF Editors
<1>6. CASE Leave \/ Drop
  BY <1>6 DEF Leave, LeavePage, Drop, HostClosed, Editors
<1>7. CASE LoadPage
  BY <1>7 DEF LoadPage, Editors
<1>8. CASE HandleHost
  BY <1>8 DEF HandleHost, HostClosed, Editors
<1>9. CASE HandleStart \/ BuildRounds \/ ExpireHost \/ Broadcast \/ PlayersChange
  BY <1>1, <1>9 DEF HandleStart, BuildRounds, ExpireHost, Broadcast, PlayersChange,
     hostVars
<1>10. ASSUME NEW s \in saves, HandleSave(s) \/ LoseSave(s) PROVE EditorTypeOK'
  BY <1>10 DEF HandleSave, LoseSave
<1>11. ASSUME NEW t \in tasks, StoreHost(t) \/ StoreFlow(t) \/ StoreStart(t)
       PROVE  EditorTypeOK'
  BY <1>1, <1>11 DEF StoreHost, StoreFlow, StoreStart
<1>12. QED
  BY <1>2, <1>3, <1>4, <1>5, <1>6, <1>7, <1>8, <1>9, <1>10, <1>11 DEF Next

LEMMA RowsTyped ==
  ASSUME ServerTypeOK, NEW t \in tasks
  PROVE  /\ t.row \in Rows /\ t.flow \in Flows
         /\ [t.row EXCEPT !.flow = t.flow] \in Rows
         /\ [t.row EXCEPT !.status = "active"] \in Rows
         /\ [game.row EXCEPT !.status = "finished"] \in Rows
         /\ [row EXCEPT !.status = "abandoned"] \in Rows
         /\ game.row \in Rows
BY DEF ServerTypeOK, Tasks, Rows, Games

LEMMA GameRowsTyped ==
  ASSUME ServerTypeOK
  PROVE  /\ [game.row EXCEPT !.status = "finished"] \in Rows
         /\ [row EXCEPT !.status = "abandoned"] \in Rows
         /\ game.row \in Rows
BY DEF ServerTypeOK, Rows, Games

LEMMA TaskTyped ==
  ASSUME ServerTypeOK, NEW op \in {"connect", "late", "flow", "start"},
         NEW n \in Nat, NEW flow \in Flows
  PROVE  Task(op, n, flow) \in Tasks
BY DEF ServerTypeOK, Tasks, Task

LEMMA ServerTyped ==
  ASSUME HostTypeOK, Next
  PROVE  ServerTypeOK'
<1> USE DEF HostTypeOK, ServerTypeOK
<1>0. <<>> \in Flows
  BY DEF Flows
<1>1. CASE UNCHANGED <<row, token, joined, tasks, game, cue, raced, missed>>
  BY <1>1
<1>2. CASE Page \/ Receive \/ Open \/ Edit
  <2>1. UNCHANGED srvVars /\ raced' \in BOOLEAN /\ missed' \in BOOLEAN
    BY <1>2 DEF Page, Receive, Open, Edit
  <2>2. QED
    BY <2>1 DEF srvVars
<1>3. CASE Leave \/ Drop \/ LoadPage
  <2>1. /\ Leaves /\ UNCHANGED <<row, token, game, cue, raced>>
    BY <1>3 DEF Leave, Drop, LoadPage
  <2>2. \A t \in tasks :
          [t EXCEPT !.op = IF @ = "connect" THEN "late" ELSE @] \in Tasks
    BY DEF Tasks
  <2>3. tasks' \subseteq Tasks /\ joined' = FALSE /\ missed' = TRUE
    BY <2>1, <2>2 DEF Leaves
  <2>4. QED
    BY <2>1, <2>3
<1>4. CASE HandleHost
  <2>1. /\ joined' \in BOOLEAN
        /\ tasks' \subseteq tasks \cup {Task("connect", 0, <<>>)}
        /\ UNCHANGED <<row, token, game, cue, raced, missed>>
    BY <1>4 DEF HandleHost, histVars
  <2>2. Task("connect", 0, <<>>) \in Tasks
    BY <1>0, TaskTyped
  <2>3. QED
    BY <2>1, <2>2
<1>5. CASE HandleStart
  <2>1. /\ tasks' \subseteq tasks \cup {Task("start", 0, <<>>)}
        /\ UNCHANGED <<row, token, joined, game, cue, raced, missed>>
    BY <1>5 DEF HandleStart, histVars
  <2>2. Task("start", 0, <<>>) \in Tasks
    BY <1>0, TaskTyped
  <2>3. QED
    BY <2>1, <2>2
<1>6. CASE BuildRounds
  <2>1. row.flow \in Flows /\ Plan(row.flow) \in Seq(PlanRounds)
    BY PlanTyped DEF Rows
  <2>2. /\ \/ game' = [game EXCEPT !.at = "failed", !.row = row]
           \/ game' = [at |-> "play", row |-> row, plan |-> Plan(row.flow)]
        /\ row' \in {row, [row EXCEPT !.status = "abandoned"]}
        /\ UNCHANGED <<token, joined, tasks, cue, raced, missed>>
    <3>1. [row EXCEPT !.status = row.status] = row
      BY DEF Rows
    <3>2. QED
      BY <1>6, <3>1 DEF BuildRounds, histVars
  <2>3. game' \in Games
    <3>1. [game EXCEPT !.at = "failed", !.row = row] \in Games
      BY DEF Games
    <3>2. [at |-> "play", row |-> row, plan |-> Plan(row.flow)] \in Games
      BY <2>1 DEF Games
    <3>3. QED
      BY <2>2, <3>1, <3>2
  <2>4. QED
    BY <2>2, <2>3, GameRowsTyped
<1>7. CASE Broadcast
  <2>1. /\ cue' = cue + 1 /\ missed' = (missed \/ ~joined)
        /\ UNCHANGED <<token, joined, tasks>>
        /\ game' \in {game, [game EXCEPT !.at = "over"]}
    BY <1>7 DEF Broadcast
  <2>2. row' \in Rows /\ raced' \in BOOLEAN
    BY <1>7, GameRowsTyped DEF Broadcast, SaveRow
  <2>3. [game EXCEPT !.at = "over"] \in Games
    BY DEF Games
  <2>4. QED
    BY <2>1, <2>2, <2>3
<1>8. CASE PlayersChange
  BY <1>8 DEF PlayersChange, srvVars, histVars
<1>9. CASE ExpireHost
  BY <1>9, GameRowsTyped DEF ExpireHost, histVars
<1>10. ASSUME NEW s \in saves, HandleSave(s) PROVE ServerTypeOK'
  <2>1. /\ \/ tasks' = tasks
           \/ tasks' = tasks \cup {Task("flow", s.n, NormalizeForStorage(s.flow))}
        /\ raced' \in BOOLEAN
        /\ UNCHANGED <<row, token, joined, game, cue, missed>>
    BY <1>10 DEF HandleSave
  <2>2. s.n \in Nat /\ NormalizeForStorage(s.flow) \in Flows
    BY StoredFlow DEF EditorTypeOK
  <2>3. Task("flow", s.n, NormalizeForStorage(s.flow)) \in Tasks
    BY <2>2, TaskTyped
  <2>4. QED
    BY <2>1, <2>3
<1>11. ASSUME NEW s \in saves, LoseSave(s) PROVE ServerTypeOK'
  BY <1>11 DEF LoseSave, srvVars
<1>12. ASSUME NEW t \in tasks, StoreHost(t) \/ StoreFlow(t) PROVE ServerTypeOK'
  <2>1. row' \in Rows /\ raced' \in BOOLEAN
    BY <1>12, RowsTyped DEF StoreHost, StoreFlow, SaveRow
  <2>2. tasks' \subseteq tasks /\ UNCHANGED <<token, joined, game, cue, missed>>
    BY <1>12 DEF StoreHost, StoreFlow
  <2>3. QED
    BY <2>1, <2>2
<1>13. ASSUME NEW t \in tasks, StoreStart(t) PROVE ServerTypeOK'
  <2>1. row' \in Rows /\ raced' \in BOOLEAN
    BY <1>13, RowsTyped DEF StoreStart, SaveRow
  <2>2. /\ tasks' \subseteq tasks /\ UNCHANGED <<token, joined, missed>>
        /\ \/ UNCHANGED <<game, cue>>
           \/ game' = [game EXCEPT !.at = "load"] /\ cue' = 0
    BY <1>13 DEF StoreStart
  <2>3. [game EXCEPT !.at = "load"] \in Games
    BY DEF Games
  <2>4. QED
    BY <2>1, <2>2, <2>3
<1>14. QED
  BY <1>1, <1>2, <1>3, <1>4, <1>5, <1>6, <1>7, <1>8, <1>9, <1>10, <1>11, <1>12,
     <1>13 DEF Next

LEMMA StartsStayClicked ==
  ASSUME HostTypeOK, Next
  PROVE  StartsAreClicked'
<1> USE DEF HostTypeOK, StartsAreClicked
<1>0. \A t \in tasks : t.op \in {"connect", "late", "flow", "start"} /\ t \in Tasks
  BY DEF ServerTypeOK, Tasks
<1>1. ASSUME starts' = starts,
             \A t \in tasks' : t.op = "start" => t \in tasks
      PROVE  StartsAreClicked'
  BY <1>1
<1>2. CASE Page \/ Receive \/ Open \/ Edit
  <2>1. tasks' = tasks /\ starts' \in {starts, starts + 1}
    BY <1>2 DEF Page, Receive, Open, Edit, srvVars, HostConnects, HostOpened,
       CloseEditor, FetchCatalog, Autosave, ClickStart, HostReceives, OpenEditor,
       EditFlow
  <2>2. QED
    BY <2>1 DEF PageTypeOK
<1>3. CASE Leave \/ Drop \/ LoadPage
  <2>1. starts' = starts /\ Leaves
    BY <1>3 DEF Leave, LeavePage, Drop, LoadPage
  <2>2. \A t \in tasks :
          LET u == [t EXCEPT !.op = IF @ = "connect" THEN "late" ELSE @]
          IN  u.op = "start" => u = t
    BY <1>0 DEF Tasks
  <2>3. \A t \in tasks' : t.op = "start" => t \in tasks
    BY <2>1, <2>2 DEF Leaves
  <2>4. QED
    BY <1>1, <2>1, <2>3
<1>4. CASE HandleHost
  <2>1. starts' = starts /\ tasks' \subseteq tasks \cup {Task("connect", 0, <<>>)}
    BY <1>4 DEF HandleHost
  <2>2. QED
    BY <1>1, <2>1 DEF Task
<1>5. CASE HandleStart
  <2>1. starts > 0 /\ ~\E t \in tasks : t.op = "start"
    BY <1>5 DEF HandleStart
  <2>2. \/ tasks' = tasks
        \/ tasks' = tasks \cup {Task("start", 0, <<>>)} /\ starts' = starts
    BY <1>5 DEF HandleStart
  <2>3. QED
    BY <2>1, <2>2
<1>6. CASE BuildRounds \/ Broadcast \/ PlayersChange \/ ExpireHost
  <2>1. UNCHANGED <<tasks, starts>>
    BY <1>6 DEF BuildRounds, Broadcast, PlayersChange, ExpireHost, hostVars, srvVars
  <2>2. QED
    BY <2>1
<1>7. ASSUME NEW s \in saves, HandleSave(s) \/ LoseSave(s) PROVE StartsAreClicked'
  <2>1. /\ starts' = starts
        /\ tasks' \subseteq tasks \cup
             {Task("flow", s.n, NormalizeForStorage(s.flow))}
    BY <1>7 DEF HandleSave, LoseSave, srvVars
  <2>2. QED
    BY <1>1, <2>1 DEF Task
<1>8. ASSUME NEW t \in tasks, StoreHost(t) \/ StoreFlow(t) PROVE StartsAreClicked'
  BY <1>1, <1>8 DEF StoreHost, StoreFlow
<1>9. ASSUME NEW t \in tasks, StoreStart(t) PROVE StartsAreClicked'
  <2>1. t.op = "start" /\ tasks' = tasks \ {t}
    BY <1>9 DEF StoreStart
  <2>2. ~\E u \in tasks' : u.op = "start"
    BY <2>1
  <2>3. QED
    BY <2>2
<1>10. QED
  BY <1>2, <1>3, <1>4, <1>5, <1>6, <1>7, <1>8, <1>9 DEF Next

LEMMA CueStaysInGame ==
  ASSUME HostTypeOK, Next
  PROVE  CueInGame'
<1> USE DEF HostTypeOK
<1>0. game \in Games /\ cue \in Nat
  BY DEF ServerTypeOK
<1>1. CASE UNCHANGED <<game, cue>>
  BY <1>1 DEF CueInGame, Script, Kinds
<1>2. CASE BuildRounds
  <2>1. /\ game.at = "load" /\ cue' = cue
        /\ \/ game'.at = "failed"
           \/ /\ game'.at = "play" /\ game'.plan = Plan(row.flow)
              /\ Plan(row.flow) # <<>>
    BY <1>0, <1>2 DEF BuildRounds, Games
  <2>2. cue = 0
    BY <2>1 DEF CueInGame
  <2>3. Plan(row.flow) \in Seq(PlanRounds)
    BY PlanTyped DEF ServerTypeOK, Rows
  <2>4. game' \in Games
    BY ServerTyped DEF ServerTypeOK
  <2>5. game'.at = "play" => Len(game'.plan) > 0
    BY <2>1, <2>3
  <2> DEFINE plan == Plan(row.flow)
             kinds == [i \in DOMAIN plan |-> plan[i].kind]
  <2>6. game'.at = "play" => Script' = ScriptOf(kinds)
    BY <2>1 DEF Kinds, Script
  <2>7. /\ IsScript(ScriptOf(kinds), kinds)
        /\ Len(kinds) = Len(plan) /\ Len(plan) \in Nat
    BY <2>3, ScriptOfPlan
  <2>8. game'.at = "play" => Len(Script') > 0
    BY <2>1, <2>5, <2>6, <2>7, ScriptLength
  <2>9. QED
    BY <2>1, <2>2, <2>8 DEF CueInGame
<1>3. CASE Broadcast
  <2>1. /\ game.at = "play" /\ cue' = cue + 1
        /\ game' = IF Script[cue + 1].name = "GAME_OVER"
                   THEN [game EXCEPT !.at = "over"] ELSE game
    BY <1>3 DEF Broadcast
  <2>2. Script' = Script
    BY <1>0, <2>1 DEF Script, Kinds, Games
  <2>3. IsScript(Script, Kinds) /\ Len(Script) \in Nat
    BY <1>0, ScriptNow
  <2>4. cue < Len(Script)
    BY <2>1 DEF CueInGame
  <2>5. Script[cue + 1].name = "GAME_OVER" <=> cue + 1 = Len(Script)
    BY <1>0, <2>3, <2>4, OverIsLast
  <2>6. game'.at = IF cue + 1 = Len(Script) THEN "over" ELSE "play"
    BY <1>0, <2>1, <2>5 DEF Games
  <2>7. QED
    BY <1>0, <2>1, <2>2, <2>3, <2>4, <2>6 DEF CueInGame
<1>4. ASSUME NEW t \in tasks, StoreStart(t) PROVE CueInGame'
  <2>1. \/ UNCHANGED <<game, cue>>
        \/ game'.at = "load" /\ cue' = 0
    BY <1>0, <1>4 DEF StoreStart, Games
  <2>2. QED
    BY <1>1, <2>1 DEF CueInGame
<1>5. CASE Page \/ Receive \/ Open \/ Edit \/ PlayersChange
  BY <1>1, <1>5 DEF Page, Receive, Open, Edit, PlayersChange, srvVars
<1>6. CASE Leave \/ Drop \/ LoadPage \/ HandleHost \/ HandleStart \/ ExpireHost
  BY <1>1, <1>6 DEF Leave, Drop, LoadPage, HandleHost, HandleStart, ExpireHost
<1>7. ASSUME NEW s \in saves, HandleSave(s) \/ LoseSave(s) PROVE CueInGame'
  BY <1>1, <1>7 DEF HandleSave, LoseSave, srvVars
<1>8. ASSUME NEW t \in tasks, StoreHost(t) \/ StoreFlow(t) PROVE CueInGame'
  BY <1>1, <1>8 DEF StoreHost, StoreFlow
<1>9. QED
  BY <1>2, <1>3, <1>4, <1>5, <1>6, <1>7, <1>8 DEF Next

LEMMA HostTypeStep ==
  ASSUME HostTypeOK, [Next]_vars
  PROVE  HostTypeOK'
<1>1. CASE Next
  BY <1>1, PageTyped, EditorTyped, ServerTyped, StartsStayClicked, CueStaysInGame
     DEF HostTypeOK
<1>2. CASE UNCHANGED vars
  BY <1>2 DEF vars, hostVars, tabVars, srvVars, histVars, HostTypeOK, PageTypeOK,
     EditorTypeOK, ServerTypeOK, StartsAreClicked, CueInGame, Script, Kinds
<1>3. QED
  BY <1>1, <1>2

LEMMA HostTypeInit == Init => HostTypeOK
<1> SUFFICES ASSUME Init PROVE HostTypeOK
  OBVIOUS
<1>1. PageTypeOK
  BY NoRoomTyped DEF Init, HostInit, PageTypeOK
<1>2. EditorTypeOK
  BY DEF Init, HostInit, EditorTypeOK, Editors
<1>3. row \in Rows
  BY FirstFlows DEF Init, Rows
<1>4. /\ game = [at |-> "none", row |-> row, plan |-> <<>>] /\ cue = 0
      /\ token = TRUE /\ joined = FALSE /\ tasks = {}
      /\ raced = FALSE /\ missed = FALSE
  BY DEF Init, Idle
<1>5. <<>> \in Seq(PlanRounds)
  OBVIOUS
<1>6. game \in Games /\ game.at = "none"
  BY <1>3, <1>4, <1>5 DEF Games
<1>7. ServerTypeOK
  BY <1>3, <1>4, <1>6 DEF ServerTypeOK
<1>8. StartsAreClicked /\ CueInGame
  BY <1>4, <1>6 DEF StartsAreClicked, CueInGame
<1>9. QED
  BY <1>1, <1>2, <1>7, <1>8 DEF HostTypeOK

\* The page, the room's row and the game hold what they may hold.
THEOREM HostTypeCorrect == Spec => []HostTypeOK
BY HostTypeInit, HostTypeStep, PTL DEF Spec

-------------------------------------------------------------------------------
(* Only an open socket hears of the room. *)

Calling == \E t \in tasks : t.op = "connect"

\* Only an open socket can be the host's, and only the host's has frames under
\* way.
HostIsLinked ==
  /\ link # "closed" => ~app.fatal
  /\ link = "open" => app.status = "open"
  /\ joined => link = "open" /\ token
  /\ ~joined => inbox = <<>> /\ ~Calling
  /\ ~joined => app.room = NoRoom
  /\ ~joined /\ ~missed => cue = 0

\* Before the first start nothing makes of the room anything but a lobby, but
\* for its end, after which no page hears of it.
LobbyUntilStart ==
  game.at = "none" =>
    /\ token => row.status = "lobby"
    /\ \A t \in tasks : t.row.status = "lobby"

LEMMA ReduceKeeps ==
  ASSUME NEW s \in HostApps, NEW e
  PROVE  ReduceHost(s, e).status = s.status /\ ReduceHost(s, e).fatal = s.fatal
BY DEF ReduceHost, HostApps

LEMMA LeavesAlone ==
  ASSUME HostTypeOK, Leaves
  PROVE  joined' = FALSE /\ missed' = TRUE /\ ~Calling'
<1>1. \A t \in tasks :
        [t EXCEPT !.op = IF @ = "connect" THEN "late" ELSE @].op # "connect"
  BY DEF HostTypeOK, ServerTypeOK, Tasks
<1>2. QED
  BY <1>1 DEF Leaves, Calling

LEMMA LinkStep ==
  ASSUME HostTypeOK, HostIsLinked, Next
  PROVE  HostIsLinked'
<1> USE DEF HostIsLinked
<1>0. app \in HostApps /\ cue \in Nat /\ app.fatal \in BOOLEAN
  BY DEF HostTypeOK, PageTypeOK, ServerTypeOK, HostApps
<1>1. ASSUME UNCHANGED <<app, link, inbox, joined, token>>,
             ~joined => UNCHANGED <<missed, cue>> /\ ~Calling'
      PROVE  HostIsLinked'
  BY <1>1
<1>2. CASE Page
  <2>1. UNCHANGED <<joined, token, missed, cue, tasks>> /\ Calling' = Calling
    BY <1>2 DEF Page, srvVars, Calling
  <2>2. CASE HostConnects
    BY <2>1, <2>2 DEF HostConnects
  <2>3. CASE HostOpened
    BY <1>0, <2>1, <2>3 DEF HostOpened, HostApps
  <2>4. CASE CloseEditor \/ FetchCatalog \/ Autosave \/ ClickStart
    BY <1>1, <2>1, <2>4 DEF CloseEditor, FetchCatalog, Autosave, ClickStart
  <2>5. QED
    BY <1>2, <2>2, <2>3, <2>4 DEF Page
<1>3. CASE Receive
  <2>1. inbox # <<>> /\ app' = ReduceHost(app, Head(inbox))
        /\ UNCHANGED <<link, joined, token, cue, tasks>>
    BY <1>3 DEF Receive, HostReceives, srvVars
  <2>2. app'.status = app.status /\ app'.fatal = app.fatal
    BY <1>0, <2>1, ReduceKeeps
  <2>3. joined
    BY <2>1
  <2>4. QED
    BY <2>1, <2>2, <2>3
<1>4. CASE Open \/ Edit \/ (PlayersChange /\ ~joined)
  <2>1. UNCHANGED <<joined, token, missed, cue, tasks>> /\ Calling' = Calling
    BY <1>4 DEF Open, Edit, PlayersChange, srvVars, histVars, Calling
  <2>2. UNCHANGED <<app, link, inbox>>
    BY <1>4 DEF Open, Edit, PlayersChange, OpenEditor, EditFlow, Emit
  <2>3. QED
    BY <1>1, <2>1, <2>2
<1>5. CASE Leave \/ Drop
  <2>1. Leaves /\ HostClosed(FALSE)
    BY <1>5 DEF Leave, LeavePage, Drop
  <2>2. link' = "closed" /\ inbox' = <<>> /\ app'.room = NoRoom
    BY <1>0, <2>1 DEF HostClosed, HostApps
  <2>3. QED
    BY <2>1, <2>2, LeavesAlone
<1>6. CASE LoadPage
  <2>1. Leaves /\ app' = Connecting /\ link' = "none" /\ inbox' = <<>>
    BY <1>6 DEF LoadPage
  <2>2. Connecting.fatal = FALSE /\ Connecting.room = NoRoom
    BY DEF Connecting, InitialHost
  <2>3. QED
    BY <2>1, <2>2, LeavesAlone
<1>7. CASE HandleHost
  <2>1. ~joined /\ UNCHANGED <<token, cue, missed>>
    BY <1>7 DEF HandleHost, histVars
  <2>2. CASE joined' = TRUE
    <3>1. link = "open" /\ token /\ UNCHANGED <<app, link, inbox>>
      BY <1>7, <2>1, <2>2 DEF HandleHost
    <3>2. QED
      BY <2>1, <2>2, <3>1
  <2>3. CASE joined' = joined
    <3>1. link' = "closed" /\ inbox' = <<>> /\ tasks' = tasks
          /\ app'.room = NoRoom
      BY <1>0, <1>7, <2>1, <2>3 DEF HandleHost, HostClosed, HostApps
    <3>2. QED
      BY <2>1, <2>3, <3>1 DEF Calling
  <2>4. QED
    BY <1>7, <2>2, <2>3 DEF HandleHost
<1>8. CASE HandleStart \/ BuildRounds
  <2>1. UNCHANGED <<app, link, inbox, joined, token, missed, cue>>
    BY <1>8 DEF HandleStart, BuildRounds, hostVars, histVars
  <2>2. Calling' = Calling
    <3>1. tasks' \in {tasks, tasks \cup {Task("start", 0, <<>>)}}
      BY <1>8 DEF HandleStart, BuildRounds
    <3>2. Task("start", 0, <<>>).op # "connect"
      BY DEF Task
    <3>3. QED
      BY <3>1, <3>2 DEF Calling
  <2>3. QED
    BY <1>1, <2>1, <2>2
<1>9. CASE Broadcast
  <2>1. /\ UNCHANGED <<app, link, joined, token, tasks>>
        /\ missed' = (missed \/ ~joined)
        /\ inbox' = inbox \/ joined
    BY <1>9 DEF Broadcast, Emit
  <2>2. QED
    BY <2>1 DEF Calling
<1>10. CASE PlayersChange /\ joined
  BY <1>10 DEF PlayersChange, srvVars, histVars
<1>11. CASE ExpireHost
  <2>1. ~joined /\ UNCHANGED <<app, link, inbox, joined, tasks, cue, missed>>
    BY <1>11 DEF ExpireHost, hostVars, histVars
  <2>2. QED
    BY <2>1 DEF Calling
<1>12. ASSUME NEW s \in saves, HandleSave(s) \/ LoseSave(s) PROVE HostIsLinked'
  <2>1. UNCHANGED <<app, link, inbox, joined, token, missed, cue>>
    BY <1>12 DEF HandleSave, LoseSave, srvVars
  <2>2. tasks' \subseteq tasks \cup {Task("flow", s.n, NormalizeForStorage(s.flow))}
    BY <1>12 DEF HandleSave, LoseSave, srvVars
  <2>3. ~joined => ~Calling'
    BY <2>2 DEF Calling, Task
  <2>4. QED
    BY <1>1, <2>1, <2>3
<1>13. ASSUME NEW t \in tasks, StoreHost(t) \/ StoreFlow(t) \/ StoreStart(t)
       PROVE  HostIsLinked'
  <2>1. UNCHANGED <<app, link, joined, token, missed>> /\ tasks' \subseteq tasks
    BY <1>13 DEF StoreHost, StoreFlow, StoreStart
  <2>2. ~joined => inbox' = inbox
    BY <1>13 DEF StoreHost, StoreFlow, StoreStart, Emit, Calling
  <2>3. cue' = cue \/ cue' = 0
    BY <1>13 DEF StoreHost, StoreFlow, StoreStart
  <2>4. ~joined => ~Calling'
    BY <2>1 DEF Calling
  <2>5. QED
    BY <2>1, <2>2, <2>3, <2>4
<1>14. QED
  BY <1>2, <1>3, <1>4, <1>5, <1>6, <1>7, <1>8, <1>9, <1>10, <1>11, <1>12, <1>13
     DEF Next

LEMMA LobbyStep ==
  ASSUME HostTypeOK, LobbyUntilStart, Next
  PROVE  LobbyUntilStart'
<1> USE DEF HostTypeOK, LobbyUntilStart
<1>0. row \in Rows /\ tasks \subseteq Tasks /\ game \in Games
  BY DEF ServerTypeOK
<1>1. ASSUME UNCHANGED <<row, token, tasks, game>>
      PROVE  LobbyUntilStart'
  BY <1>1
<1>2. CASE Page \/ Receive \/ Open \/ Edit \/ PlayersChange
  BY <1>1, <1>2 DEF Page, Receive, Open, Edit, PlayersChange, srvVars
<1>3. CASE Leave \/ Drop \/ LoadPage
  <2>1. Leaves /\ UNCHANGED <<row, token, game>>
    BY <1>3 DEF Leave, Drop, LoadPage
  <2>2. \A t \in tasks :
          [t EXCEPT !.op = IF @ = "connect" THEN "late" ELSE @].row = t.row
    BY <1>0 DEF Tasks
  <2>3. \A u \in tasks' : \E t \in tasks : u.row = t.row
    BY <2>1, <2>2 DEF Leaves
  <2>4. QED
    BY <2>1, <2>3
<1>4. CASE HandleHost
  <2>1. /\ UNCHANGED <<row, token, game>>
        /\ \/ tasks' = tasks
           \/ token /\ tasks' = tasks \cup {Task("connect", 0, <<>>)}
    BY <1>4 DEF HandleHost
  <2>2. QED
    BY <2>1 DEF Task
<1>5. CASE HandleStart
  <2>1. /\ UNCHANGED <<row, token, game>>
        /\ \/ tasks' = tasks
           \/ token /\ tasks' = tasks \cup {Task("start", 0, <<>>)}
    BY <1>5 DEF HandleStart
  <2>2. QED
    BY <2>1 DEF Task
<1>6. CASE BuildRounds
  <2>1. game'.at = "failed" \/ game'.at = "play"
    BY <1>0, <1>6 DEF BuildRounds, Games
  <2>2. QED
    BY <2>1
<1>7. CASE ExpireHost
  BY <1>7 DEF ExpireHost
<1>8. ASSUME NEW s \in saves, HandleSave(s) PROVE LobbyUntilStart'
  <2>1. /\ UNCHANGED <<row, token, game>>
        /\ \/ tasks' = tasks
           \/ token /\ tasks' = tasks \cup
                {Task("flow", s.n, NormalizeForStorage(s.flow))}
    BY <1>8 DEF HandleSave
  <2>2. QED
    BY <2>1 DEF Task
<1>9. ASSUME NEW s \in saves, LoseSave(s) PROVE LobbyUntilStart'
  BY <1>1, <1>9 DEF LoseSave, srvVars
<1>10. ASSUME NEW t \in tasks, StoreHost(t) \/ StoreFlow(t) PROVE LobbyUntilStart'
  <2>1. UNCHANGED <<token, game>> /\ tasks' \subseteq tasks
        /\ row' \in {t.row, [t.row EXCEPT !.flow = t.flow]}
    BY <1>10 DEF StoreHost, StoreFlow, SaveRow
  <2>2. row'.status = t.row.status
    BY <1>0, <2>1 DEF Tasks, Rows
  <2>3. QED
    BY <2>1, <2>2
<1>11. ASSUME NEW t \in tasks, StoreStart(t) PROVE LobbyUntilStart'
  <2>1. \/ t.row.status # "lobby" /\ game' = game
        \/ game' = game /\ game.at \in {"load", "play"}
        \/ game' = [game EXCEPT !.at = "load"]
    BY <1>11 DEF StoreStart
  <2>2. game'.at # "none"
    BY <1>0, <2>1 DEF Games
  <2>3. QED
    BY <2>2
<1>12. CASE Broadcast
  <2>1. game.at = "play" /\ game' \in {game, [game EXCEPT !.at = "over"]}
    BY <1>12 DEF Broadcast
  <2>2. game'.at # "none"
    BY <1>0, <2>1 DEF Games
  <2>3. QED
    BY <2>2
<1>13. QED
  BY <1>2, <1>3, <1>4, <1>5, <1>6, <1>7, <1>8, <1>9, <1>10, <1>11, <1>12 DEF Next

-------------------------------------------------------------------------------
(* What the page will have made of the frames under way. *)

\* The last frame of some names under way is one of S, or there is none.
IsLast(q, i, names) ==
  /\ i \in DOMAIN q /\ q[i].name \in names
  /\ \A j \in DOMAIN q : q[j].name \in names => j <= i
EndsIn(q, names, S) == \A i \in DOMAIN q : IsLast(q, i, names) => q[i] \in S
HasNone(q, names) == \A i \in DOMAIN q : q[i].name \notin names

Snapshots == {"ROOM_STATE_UPDATE"}
PhaseNames == Snapshots \cup {"GAME_PHASE_CHANGE"}
Starts == {"ROUND_START"}
ContentNames == Starts \cup Shows
RevealNames == ContentNames \cup Reveals

InPhase(p) ==
  {f \in HostFrames :
     \/ f.name \in Snapshots /\ f.room.known /\ f.room.phase = p
     \/ f.name = "GAME_PHASE_CHANGE" /\ f.phase = p}
OfFlow(flow) == {f \in HostFrames : f.name \in Snapshots /\ f.room.flow = flow}
OfRound(name, r) == {f \in HostFrames : f.name = name /\ f.round = r}

PhaseNow == PhaseIn(Script, cue)
RoundNow == RoundIn(Script, cue)
ShowsRound(s, kind, r) ==
  IF kind = "quiz" THEN s.content = 0 /\ s.question = r ELSE s.content = r
ShowsReveal(s, kind, r) ==
  IF kind = "quiz" THEN s.reveal = r ELSE s.roundReveal = r

LobbyComes ==
  joined /\ game.at = "none" =>
    /\ \A i \in DOMAIN inbox :
         /\ inbox[i].name \in Snapshots
         /\ inbox[i].room.known /\ inbox[i].room.phase = "lobby"
    /\ app.room.phase = "lobby"
    /\ ~Calling /\ inbox = <<>> => app.room.known

FlowComes ==
  joined /\ ~Calling /\ ~raced =>
    /\ EndsIn(inbox, Snapshots, OfFlow(row.flow))
    /\ HasNone(inbox, Snapshots) => app.room.flow = row.flow

PhaseComes ==
  joined /\ ~Calling /\ game.at = "play" /\ cue >= 2 =>
    /\ EndsIn(inbox, PhaseNames, InPhase(PhaseNow))
    /\ HasNone(inbox, PhaseNames) => app.room.known /\ app.room.phase = PhaseNow

\* Nothing of the round was missed, or the next one is under way.
Fresh == ~missed \/ ~HasNone(inbox, Starts)
Follows == joined /\ game.at = "play" /\ Fresh /\ cue >= 1

RoundComes ==
  Follows =>
    /\ EndsIn(inbox, Starts, OfRound("ROUND_START", RoundNow))
    /\ HasNone(inbox, Starts) => app.round = RoundNow
ContentComes ==
  Follows /\ ShownIn(Script, RoundNow, cue) =>
    /\ EndsIn(inbox, ContentNames, OfRound(ShowEvent(Kinds[RoundNow]), RoundNow))
    /\ HasNone(inbox, ContentNames) => ShowsRound(app, Kinds[RoundNow], RoundNow)
RevealComes ==
  Follows /\ RevealedIn(Script, RoundNow, cue) =>
    /\ EndsIn(inbox, RevealNames, OfRound(RevealEvent(Kinds[RoundNow]), RoundNow))
    /\ HasNone(inbox, RevealNames) => ShowsReveal(app, Kinds[RoundNow], RoundNow)

GameComes == PhaseComes /\ RoundComes /\ ContentComes /\ RevealComes
HostFollows ==
  /\ HostTypeOK /\ HostIsLinked /\ LobbyUntilStart
  /\ LobbyComes /\ FlowComes /\ GameComes

-------------------------------------------------------------------------------
(* Frames that are sent and received. *)

LEMMA NothingUnderWay ==
  ASSUME NEW names, NEW S
  PROVE  EndsIn(<<>>, names, S) /\ HasNone(<<>>, names)
BY DEF EndsIn, HasNone

LEMMA FrameSent ==
  ASSUME NEW q \in Seq(HostFrames), NEW f \in HostFrames, NEW names
  PROVE  /\ f.name \in names => ~HasNone(Append(q, f), names)
         /\ f.name \notin names =>
              (HasNone(Append(q, f), names) <=> HasNone(q, names))
         /\ \A S : f.name \in names /\ f \in S => EndsIn(Append(q, f), names, S)
         /\ \A S : f.name \notin names /\ EndsIn(q, names, S) =>
                     EndsIn(Append(q, f), names, S)
<1> DEFINE w == Append(q, f)
           n == Len(q)
<1>1. /\ n \in Nat /\ DOMAIN q = 1..n /\ DOMAIN w = 1..n + 1
      /\ w[n + 1] = f /\ \A i \in 1..n : w[i] = q[i]
  OBVIOUS
<1> HIDE DEF w, n
<1>2. f.name \in names => ~HasNone(w, names)
  BY <1>1 DEF HasNone
<1>3. f.name \notin names => (HasNone(w, names) <=> HasNone(q, names))
  BY <1>1 DEF HasNone
<1>4. ASSUME NEW S, f.name \in names, f \in S PROVE EndsIn(w, names, S)
  <2> SUFFICES ASSUME NEW i \in DOMAIN w, IsLast(w, i, names) PROVE w[i] \in S
    BY DEF EndsIn
  <2>1. n + 1 <= i
    BY <1>1, <1>4 DEF IsLast
  <2>2. i = n + 1
    BY <1>1, <2>1
  <2>3. QED
    BY <1>1, <1>4, <2>2
<1>5. ASSUME NEW S, f.name \notin names, EndsIn(q, names, S)
      PROVE  EndsIn(w, names, S)
  <2> SUFFICES ASSUME NEW i \in DOMAIN w, IsLast(w, i, names) PROVE w[i] \in S
    BY DEF EndsIn
  <2>1. i \in 1..n
    BY <1>1, <1>5 DEF IsLast
  <2>2. IsLast(q, i, names)
    BY <1>1, <2>1 DEF IsLast
  <2>3. QED
    BY <1>1, <1>5, <2>1, <2>2 DEF EndsIn
<1>6. QED
  BY <1>2, <1>3, <1>4, <1>5 DEF w

LEMMA FrameTaken ==
  ASSUME NEW q \in Seq(HostFrames), q # <<>>, NEW names
  PROVE  /\ Head(q).name \notin names =>
              (HasNone(Tail(q), names) <=> HasNone(q, names))
         /\ ~HasNone(Tail(q), names) => ~HasNone(q, names)
         /\ Head(q).name \in names => ~HasNone(q, names)
         /\ \A S : EndsIn(q, names, S) => EndsIn(Tail(q), names, S)
         /\ \A S : EndsIn(q, names, S) /\ Head(q).name \in names
                     /\ HasNone(Tail(q), names) => Head(q) \in S
<1> DEFINE w == Tail(q)
           n == Len(q)
           f == Head(q)
<1>1. /\ n \in Nat /\ n > 0 /\ DOMAIN q = 1..n /\ DOMAIN w = 1..n - 1
      /\ q[1] = f /\ \A i \in 1..n - 1 : w[i] = q[i + 1]
  OBVIOUS
<1> HIDE DEF w, n, f
<1>2. /\ \A i \in 2..n : i - 1 \in 1..n - 1 /\ w[i - 1] = q[i]
      /\ \A i \in 1..n - 1 : i + 1 \in 1..n
  BY <1>1
<1>3. f.name \notin names => (HasNone(w, names) <=> HasNone(q, names))
  <2>1. ASSUME f.name \notin names, HasNone(w, names), NEW i \in 1..n
        PROVE  q[i].name \notin names
    <3>1. CASE i = 1
      BY <1>1, <2>1, <3>1
    <3>2. CASE i \in 2..n
      BY <1>1, <1>2, <2>1, <3>2 DEF HasNone
    <3>3. QED
      BY <1>1, <3>1, <3>2
  <2>2. HasNone(q, names) => HasNone(w, names)
    BY <1>1, <1>2 DEF HasNone
  <2>3. QED
    BY <1>1, <2>1, <2>2 DEF HasNone
<1>4. /\ ~HasNone(w, names) => ~HasNone(q, names)
      /\ f.name \in names => ~HasNone(q, names)
  BY <1>1 DEF HasNone
<1>5. ASSUME NEW S, EndsIn(q, names, S) PROVE EndsIn(w, names, S)
  <2> SUFFICES ASSUME NEW i \in DOMAIN w, IsLast(w, i, names) PROVE w[i] \in S
    BY DEF EndsIn
  <2>1. i \in 1..n - 1 /\ i + 1 \in DOMAIN q /\ w[i] = q[i + 1]
    BY <1>1
  <2>2. ASSUME NEW j \in DOMAIN q, q[j].name \in names PROVE j <= i + 1
    <3>1. CASE j = 1
      BY <2>1, <3>1, <1>1
    <3>2. CASE j \in 2..n
      <4>1. j - 1 \in DOMAIN w /\ w[j - 1].name \in names
        BY <1>1, <1>2, <2>2, <3>2
      <4>2. j - 1 <= i
        BY <4>1 DEF IsLast
      <4>3. QED
        BY <2>1, <3>2, <4>2
    <3>3. QED
      BY <1>1, <3>1, <3>2
  <2>3. IsLast(q, i + 1, names)
    BY <2>1, <2>2 DEF IsLast
  <2>4. QED
    BY <1>5, <2>1, <2>3 DEF EndsIn
<1>6. ASSUME NEW S, EndsIn(q, names, S), f.name \in names, HasNone(w, names)
      PROVE  f \in S
  <2>1. \A j \in DOMAIN q : q[j].name \in names => j <= 1
    <3>1. \A j \in 2..n : q[j].name \notin names
      BY <1>1, <1>2, <1>6 DEF HasNone
    <3>2. QED
      BY <1>1, <3>1
  <2>2. IsLast(q, 1, names)
    BY <1>1, <1>6, <2>1 DEF IsLast
  <2>3. QED
    BY <1>1, <1>6, <2>2 DEF EndsIn
<1>7. QED
  BY <1>3, <1>4, <1>5, <1>6 DEF w, f

-------------------------------------------------------------------------------
(* Steps that leave the game's frames alone, and those that send or take one. *)

LEMMA ScriptKept ==
  ASSUME game' = game \/ (game \in Games /\ game' = [game EXCEPT !.at = "over"])
  PROVE  Script' = Script /\ Kinds' = Kinds
<1>1. game'.plan = game.plan
  BY DEF Games
<1>2. QED
  BY <1>1 DEF Script, Kinds

LEMMA GameKept ==
  ASSUME GameComes, UNCHANGED <<app, inbox, joined, missed, cue, game>>,
         Calling => Calling'
  PROVE  GameComes'
<1> USE DEF GameComes
<1>1. /\ Script' = Script /\ Kinds' = Kinds /\ RoundNow' = RoundNow
      /\ PhaseNow' = PhaseNow
  BY ScriptKept DEF RoundNow, PhaseNow
<1>2. PhaseComes'
  BY <1>1 DEF PhaseComes
<1>3. Follows' <=> Follows
  BY DEF Follows, Fresh
<1>4. RoundComes' /\ ContentComes' /\ RevealComes'
  BY <1>1, <1>3 DEF RoundComes, ContentComes, RevealComes
<1>5. QED
  BY <1>2, <1>4

LEMMA SnapshotIn ==
  ASSUME HostTypeOK, NEW entity \in Rows
  PROVE  LET f == Snapshot(entity)
         IN  /\ f \in HostFrames /\ f.name \in Snapshots
             /\ f.name \notin RevealNames /\ f.name \notin ContentNames
             /\ f.name \notin Starts
             /\ f.room.known /\ f.room.flow = entity.flow
             /\ f \in OfFlow(entity.flow)
             /\ game.at = "play" /\ cue >= 2 => f \in InPhase(PhaseNow)
             /\ game.at = "none" /\ entity.status = "lobby" =>
                  f.room.phase = "lobby"
<1> DEFINE f == Snapshot(entity)
<1>1. /\ f \in HostFrames /\ f.name = "ROOM_STATE_UPDATE"
      /\ f.room.known /\ f.room.flow = entity.flow
  BY SnapshotTyped DEF HostTypeOK
<1>2. ASSUME game.at = "play", cue >= 2 PROVE f.room.phase = PhaseNow
  <2>1. PhaseNow # "lobby"
    <3>1. IsScript(Script, Kinds) /\ cue \in 0..Len(Script)
      BY ScriptNow, CueNow DEF HostTypeOK, ServerTypeOK
    <3>2. QED
      BY <1>2, <3>1, PhaseAfterTwo DEF PhaseNow
  <2>2. QED
    BY <1>2, <2>1 DEF Snapshot, PhaseNow
<1>3. game.at = "none" /\ entity.status = "lobby" => f.room.phase = "lobby"
  BY DEF Snapshot
<1> HIDE DEF f
<1>4. QED
  BY <1>1, <1>2, <1>3
     DEF f, Snapshots, RevealNames, ContentNames, Starts, Shows, Reveals, OfFlow,
         InPhase

LEMMA SnapshotSent ==
  ASSUME HostTypeOK, GameComes, NEW entity \in Rows,
         UNCHANGED <<app, joined, missed, cue, game>>,
         inbox' = Append(inbox, Snapshot(entity))
  PROVE  GameComes'
<1> DEFINE f == Snapshot(entity)
<1> USE DEF GameComes
<1>1. /\ Script' = Script /\ Kinds' = Kinds /\ RoundNow' = RoundNow
      /\ PhaseNow' = PhaseNow
  BY ScriptKept DEF RoundNow, PhaseNow
<1>2. /\ f \in HostFrames /\ f.name \in Snapshots
      /\ f.name \notin RevealNames /\ f.name \notin ContentNames
      /\ f.name \notin Starts
      /\ game.at = "play" /\ cue >= 2 => f \in InPhase(PhaseNow)
  BY SnapshotIn
<1>3. inbox \in Seq(HostFrames) /\ inbox' = Append(inbox, f)
  BY DEF HostTypeOK, PageTypeOK
<1> HIDE DEF f
<1>4. PhaseComes'
  <2>1. f.name \in PhaseNames
    BY <1>2 DEF PhaseNames
  <2>2. ~HasNone(inbox', PhaseNames)
    BY <1>2, <1>3, <2>1, FrameSent
  <2>3. game.at = "play" /\ cue >= 2 =>
          EndsIn(inbox', PhaseNames, InPhase(PhaseNow))
    BY <1>2, <1>3, <2>1, FrameSent
  <2>4. QED
    BY <1>1, <2>2, <2>3 DEF PhaseComes
<1>5. /\ \A names \in {Starts, ContentNames, RevealNames} :
           /\ HasNone(inbox', names) <=> HasNone(inbox, names)
           /\ \A S : EndsIn(inbox, names, S) => EndsIn(inbox', names, S)
  BY <1>2, <1>3, FrameSent
<1>6. Follows' <=> Follows
  BY <1>5 DEF Follows, Fresh
<1>7. RoundComes'
  BY <1>1, <1>5, <1>6 DEF RoundComes
<1>8. ContentComes'
  BY <1>1, <1>5, <1>6 DEF ContentComes
<1>9. RevealComes'
  BY <1>1, <1>5, <1>6 DEF RevealComes
<1>10. QED
  BY <1>4, <1>7, <1>8, <1>9

LEMMA EventSent ==
  ASSUME HostTypeOK, GameComes, game.at = "play",
         cue' = cue + 1, inbox' = Append(inbox, Script[cue + 1]),
         game' = game \/ game' = [game EXCEPT !.at = "over"],
         UNCHANGED <<app, joined, missed, tasks>>
  PROVE  GameComes'
<1> DEFINE e == Script[cue + 1]
<1>1. game \in Games /\ cue \in Nat /\ inbox \in Seq(HostFrames)
  BY DEF HostTypeOK, ServerTypeOK, PageTypeOK
<1>2. Script' = Script /\ Kinds' = Kinds
  BY <1>1, ScriptKept
<1>3. IsScript(Script, Kinds) /\ cue < Len(Script)
  BY <1>1, ScriptNow DEF HostTypeOK, CueInGame
<1>4. /\ e \in HostFrames /\ e.name \notin Snapshots /\ e.name \in ScriptNames
      /\ e.name = "GAME_PHASE_CHANGE" => e.phase \in Phases
  BY EventTyped, FrameFields
     DEF HostTypeOK, HostFrames, ScriptNames, Snapshots, Shows, Reveals
<1>5. LET r == RoundNow'
      IN  /\ e.round = r /\ r \in 1..Len(Kinds)
          /\ cue = 0 => e.name = "ROUND_START"
          /\ cue = 1 => e.name = "GAME_PHASE_CHANGE"
          /\ e.name = "ROUND_START" => ~ShownIn(Script, r, cue + 1)
                                       /\ ~RevealedIn(Script, r, cue + 1)
          /\ e.name # "ROUND_START" => r = RoundNow
          /\ e.name \in Shows => e.name = ShowEvent(Kinds[r])
                                 /\ ~RevealedIn(Script, r, cue + 1)
          /\ e.name \notin Shows =>
               (ShownIn(Script, r, cue + 1) => ShownIn(Script, r, cue))
          /\ e.name \in Reveals => e.name = RevealEvent(Kinds[r])
          /\ e.name \notin Reveals =>
               (RevealedIn(Script, r, cue + 1) => RevealedIn(Script, r, cue))
  BY <1>1, <1>2, <1>3, NextEvent DEF RoundNow
<1>6. PhaseNow' = IF e.name = "GAME_PHASE_CHANGE" THEN e.phase ELSE PhaseNow
  BY <1>1, <1>2, PhaseNext DEF PhaseNow
<1> DEFINE r == RoundNow'
<1> HIDE DEF e, r
<1>7. \A names :
        /\ e.name \in names => ~HasNone(inbox', names)
        /\ e.name \notin names => (HasNone(inbox', names) <=> HasNone(inbox, names))
        /\ \A S : e.name \in names /\ e \in S => EndsIn(inbox', names, S)
        /\ \A S : e.name \notin names /\ EndsIn(inbox, names, S) =>
                    EndsIn(inbox', names, S)
  BY <1>1, <1>4, FrameSent DEF e
<1>8. SUFFICES ASSUME game' = game PROVE GameComes'
  <2>1. game'.at = "over" => GameComes'
    BY DEF GameComes, PhaseComes, RoundComes, ContentComes, RevealComes, Follows
  <2>2. CASE game' = [game EXCEPT !.at = "over"]
    BY <1>1, <2>1, <2>2 DEF Games
  <2>3. QED
    BY <1>8, <2>2
<1>9. PhaseComes'
  <2> SUFFICES ASSUME joined, ~Calling, cue + 1 >= 2
               PROVE  /\ EndsIn(inbox', PhaseNames, InPhase(PhaseNow'))
                      /\ HasNone(inbox', PhaseNames) =>
                           app.room.known /\ app.room.phase = PhaseNow'
    BY <1>8 DEF PhaseComes, Calling
  <2>1. CASE e.name = "GAME_PHASE_CHANGE"
    <3>1. e.name \in PhaseNames /\ e \in InPhase(PhaseNow')
      BY <1>4, <1>6, <2>1 DEF PhaseNames, InPhase
    <3>2. QED
      BY <1>7, <3>1
  <2>2. CASE e.name # "GAME_PHASE_CHANGE"
    <3>1. cue >= 2
      BY <1>1, <1>5, <2>2
    <3>2. e.name \notin PhaseNames /\ PhaseNow' = PhaseNow
      BY <1>4, <1>6, <2>2 DEF PhaseNames
    <3>3. QED
      BY <1>7, <3>1, <3>2 DEF GameComes, PhaseComes
  <2>3. QED
    BY <2>1, <2>2
<1>10. ASSUME e.name # "ROUND_START", Follows' PROVE Follows /\ r = RoundNow
  <2>1. e.name \notin Starts
    BY <1>10 DEF Starts
  <2>2. Fresh
    BY <1>7, <1>10, <2>1 DEF Follows, Fresh
  <2>3. QED
    BY <1>1, <1>5, <1>10, <2>2 DEF Follows, r
<1>11. e.name \in ContentNames \ Starts <=> e.name \in Shows
  BY DEF ContentNames, Starts, Shows
<1>12. e.name \in RevealNames \ ContentNames <=> e.name \in Reveals
  BY DEF RevealNames, ContentNames, Starts, Shows, Reveals
<1>13. RoundComes'
  <2> SUFFICES ASSUME Follows'
               PROVE  /\ EndsIn(inbox', Starts, OfRound("ROUND_START", r))
                      /\ HasNone(inbox', Starts) => app.round = r
    BY DEF RoundComes, r
  <2>1. CASE e.name = "ROUND_START"
    <3>1. e.name \in Starts /\ e \in OfRound("ROUND_START", r)
      BY <1>4, <1>5, <2>1 DEF Starts, OfRound, r
    <3>2. QED
      BY <1>7, <3>1
  <2>2. CASE e.name # "ROUND_START"
    <3>1. e.name \notin Starts
      BY <2>2 DEF Starts
    <3>2. QED
      BY <1>7, <1>10, <2>2, <3>1 DEF GameComes, RoundComes
  <2>3. QED
    BY <2>1, <2>2
<1>14. ContentComes'
  <2> SUFFICES ASSUME Follows', ShownIn(Script, r, cue + 1)
               PROVE  /\ EndsIn(inbox', ContentNames,
                                OfRound(ShowEvent(Kinds[r]), r))
                      /\ HasNone(inbox', ContentNames) =>
                           ShowsRound(app, Kinds[r], r)
    BY <1>2 DEF ContentComes, r
  <2>1. e.name # "ROUND_START" /\ e.name \notin Starts
    BY <1>5 DEF Starts, r
  <2>2. CASE e.name \in Shows
    <3>1. e.name \in ContentNames /\ e \in OfRound(ShowEvent(Kinds[r]), r)
      BY <1>4, <1>5, <2>2 DEF ContentNames, OfRound, r
    <3>2. QED
      BY <1>7, <3>1
  <2>3. CASE e.name \notin Shows
    <3>1. e.name \notin ContentNames
      BY <1>11, <2>1, <2>3
    <3>2. Follows /\ r = RoundNow /\ ShownIn(Script, RoundNow, cue)
      BY <1>5, <1>10, <2>1, <2>3 DEF r
    <3>3. QED
      BY <1>7, <3>1, <3>2 DEF GameComes, ContentComes
  <2>4. QED
    BY <2>2, <2>3
<1>15. RevealComes'
  <2> SUFFICES ASSUME Follows', RevealedIn(Script, r, cue + 1)
               PROVE  /\ EndsIn(inbox', RevealNames,
                                OfRound(RevealEvent(Kinds[r]), r))
                      /\ HasNone(inbox', RevealNames) =>
                           ShowsReveal(app, Kinds[r], r)
    BY <1>2 DEF RevealComes, r
  <2>1. e.name # "ROUND_START" /\ e.name \notin Starts /\ e.name \notin Shows
    BY <1>5 DEF Starts, r
  <2>2. CASE e.name \in Reveals
    <3>1. e.name \in RevealNames /\ e \in OfRound(RevealEvent(Kinds[r]), r)
      BY <1>4, <1>5, <2>2 DEF RevealNames, OfRound, r
    <3>2. QED
      BY <1>7, <3>1
  <2>3. CASE e.name \notin Reveals
    <3>1. e.name \notin RevealNames
      BY <1>11, <1>12, <2>1, <2>3
    <3>2. Follows /\ r = RoundNow /\ RevealedIn(Script, RoundNow, cue)
      BY <1>5, <1>10, <2>1, <2>3 DEF r
    <3>3. QED
      BY <1>7, <3>1, <3>2 DEF GameComes, RevealComes
  <2>4. QED
    BY <2>2, <2>3
<1>16. QED
  BY <1>9, <1>13, <1>14, <1>15 DEF GameComes

LEMMA ReduceEffects ==
  ASSUME NEW s \in HostApps, NEW e \in HostFrames
  PROVE  LET t == ReduceHost(s, e)
         IN  /\ \A p : e \in InPhase(p) => t.room.known /\ t.room.phase = p
             /\ e.name \in Snapshots => t.room = e.room
             /\ e.name \notin PhaseNames => t.room = s.room
             /\ \A r : e \in OfRound("ROUND_START", r) => t.round = r
             /\ e.name \notin Starts => t.round = s.round
             /\ \A k, r : e \in OfRound(ShowEvent(k), r) => ShowsRound(t, k, r)
             /\ e.name \notin ContentNames =>
                  t.content = s.content /\ t.question = s.question
             /\ \A k, r : e \in OfRound(RevealEvent(k), r) => ShowsReveal(t, k, r)
             /\ e.name \notin RevealNames =>
                  t.reveal = s.reveal /\ t.roundReveal = s.roundReveal
<1> DEFINE t == ReduceHost(s, e)
<1>1. /\ e.name \in {"ROOM_STATE_UPDATE"} \cup ScriptNames
      /\ e.name = "GAME_PHASE_CHANGE" => e.phase \in Phases
  BY FrameFields
<1>2. e.name = "ROOM_STATE_UPDATE" => t = [s EXCEPT !.room = e.room]
  BY DEF ReduceHost
<1>3. e.name = "GAME_PHASE_CHANGE" =>
        t = [s EXCEPT !.room.known = TRUE, !.room.phase = e.phase,
                      !.room.round = e.round]
  BY DEF ReduceHost
<1>4. e.name = "ROUND_START" =>
        t = [s EXCEPT !.round = e.round, !.content = 0, !.roundReveal = 0]
  BY DEF ReduceHost
<1>5. e.name = "QUESTION_SHOW" =>
        t = [s EXCEPT !.content = 0, !.roundReveal = 0, !.question = e.round,
                      !.reveal = 0]
  BY DEF ReduceHost
<1>6. e.name = "ROUND_CONTENT_SHOW" =>
        t = [s EXCEPT !.content = e.round, !.roundReveal = 0]
  BY DEF ReduceHost
<1>7. e.name = "QUESTION_REVEAL" => t = [s EXCEPT !.reveal = e.round]
  BY DEF ReduceHost
<1>8. e.name = "ROUND_REVEAL" => t = [s EXCEPT !.roundReveal = e.round]
  BY DEF ReduceHost
<1>9. e.name = "GAME_OVER" => t = [s EXCEPT !.final = TRUE]
  BY DEF ReduceHost
<1> HIDE DEF t
<1>10. e.name = "ROOM_STATE_UPDATE" => t.room = e.room
  BY <1>2 DEF HostApps
<1>11. e.name = "GAME_PHASE_CHANGE" => t.room.known /\ t.room.phase = e.phase
  <2>1. s.room \in Rooms /\ DOMAIN s.room = {"known", "phase", "flow", "round"}
        /\ "room" \in DOMAIN s
    BY DEF HostApps, Rooms
  <2>2. e.name = "GAME_PHASE_CHANGE" =>
          t.room = [s.room EXCEPT !.known = TRUE, !.phase = e.phase,
                                  !.round = e.round]
    BY <1>3, <2>1
  <2>3. QED
    BY <2>1, <2>2
<1>12. \A p : e \in InPhase(p) => t.room.known /\ t.room.phase = p
  BY <1>10, <1>11 DEF InPhase, Snapshots
<1>13. e.name \notin PhaseNames => t.room = s.room
  BY <1>1, <1>4, <1>5, <1>6, <1>7, <1>8, <1>9
     DEF PhaseNames, Snapshots, ScriptNames, Shows, Reveals, HostApps
<1>14. /\ \A r : e \in OfRound("ROUND_START", r) => t.round = r
       /\ \A k, r : e \in OfRound(ShowEvent(k), r) => ShowsRound(t, k, r)
       /\ \A k, r : e \in OfRound(RevealEvent(k), r) => ShowsReveal(t, k, r)
  <2>1. \A r : e \in OfRound("ROUND_START", r) => t.round = r
    BY <1>4 DEF OfRound, HostApps
  <2>2. ASSUME NEW k, NEW r, e \in OfRound(ShowEvent(k), r)
        PROVE  ShowsRound(t, k, r)
    <3>1. CASE k = "quiz"
      BY <1>5, <2>2, <3>1 DEF OfRound, ShowEvent, ShowsRound, HostApps
    <3>2. CASE k # "quiz"
      BY <1>6, <2>2, <3>2 DEF OfRound, ShowEvent, ShowsRound, HostApps
    <3>3. QED
      BY <3>1, <3>2
  <2>3. ASSUME NEW k, NEW r, e \in OfRound(RevealEvent(k), r)
        PROVE  ShowsReveal(t, k, r)
    <3>1. CASE k = "quiz"
      BY <1>7, <2>3, <3>1 DEF OfRound, RevealEvent, ShowsReveal, HostApps
    <3>2. CASE k # "quiz"
      BY <1>8, <2>3, <3>2 DEF OfRound, RevealEvent, ShowsReveal, HostApps
    <3>3. QED
      BY <3>1, <3>2
  <2>4. QED
    BY <2>1, <2>2, <2>3
<1>15. e.name \notin Starts => t.round = s.round
  BY <1>1, <1>2, <1>3, <1>5, <1>6, <1>7, <1>8, <1>9
     DEF Starts, ScriptNames, Shows, Reveals, HostApps
<1>16. e.name \notin ContentNames =>
         t.content = s.content /\ t.question = s.question
  BY <1>1, <1>2, <1>3, <1>7, <1>8, <1>9
     DEF ContentNames, Starts, ScriptNames, Shows, Reveals, HostApps
<1>17. e.name \notin RevealNames =>
         t.reveal = s.reveal /\ t.roundReveal = s.roundReveal
  BY <1>1, <1>2, <1>3, <1>9
     DEF RevealNames, ContentNames, Starts, ScriptNames, Shows, Reveals, HostApps
<1>18. QED
  BY <1>10, <1>12, <1>13, <1>14, <1>15, <1>16, <1>17 DEF t, Snapshots

LEMMA FrameReceived ==
  ASSUME HostTypeOK, GameComes, Receive
  PROVE  GameComes'
<1> DEFINE e == Head(inbox)
<1>1. /\ inbox # <<>> /\ app' = ReduceHost(app, e) /\ inbox' = Tail(inbox)
      /\ missed' = (missed /\ e.name # "ROUND_START")
      /\ UNCHANGED <<row, joined, tasks, game, cue>>
  BY DEF Receive, HostReceives, srvVars
<1>2. app \in HostApps /\ inbox \in Seq(HostFrames)
  BY DEF HostTypeOK, PageTypeOK
<1>3. e \in HostFrames
  BY <1>1, <1>2
<1>4. /\ Script' = Script /\ Kinds' = Kinds /\ RoundNow' = RoundNow
      /\ PhaseNow' = PhaseNow
  BY <1>1, ScriptKept DEF RoundNow, PhaseNow
<1> HIDE DEF e
<1>5. \A names :
        /\ e.name \notin names => (HasNone(inbox', names) <=> HasNone(inbox, names))
        /\ ~HasNone(inbox', names) => ~HasNone(inbox, names)
        /\ e.name \in names => ~HasNone(inbox, names)
        /\ \A S : EndsIn(inbox, names, S) => EndsIn(inbox', names, S)
        /\ \A S : EndsIn(inbox, names, S) /\ e.name \in names
                    /\ HasNone(inbox', names) => e \in S
  BY <1>1, <1>2, FrameTaken DEF e
<1>6. /\ \A p : e \in InPhase(p) => app'.room.known /\ app'.room.phase = p
      /\ e.name \notin PhaseNames => app'.room = app.room
      /\ \A r : e \in OfRound("ROUND_START", r) => app'.round = r
      /\ e.name \notin Starts => app'.round = app.round
      /\ \A k, r : e \in OfRound(ShowEvent(k), r) => ShowsRound(app', k, r)
      /\ e.name \notin ContentNames =>
           app'.content = app.content /\ app'.question = app.question
      /\ \A k, r : e \in OfRound(RevealEvent(k), r) => ShowsReveal(app', k, r)
      /\ e.name \notin RevealNames =>
           app'.reveal = app.reveal /\ app'.roundReveal = app.roundReveal
  BY <1>1, <1>2, <1>3, ReduceEffects
<1>7. PhaseComes'
  <2>1. Calling' <=> Calling
    BY <1>1 DEF Calling
  <2>2. CASE e.name \in PhaseNames
    BY <1>1, <1>4, <1>5, <1>6, <2>1, <2>2 DEF GameComes, PhaseComes
  <2>3. CASE e.name \notin PhaseNames
    BY <1>1, <1>4, <1>5, <1>6, <2>1, <2>3 DEF GameComes, PhaseComes
  <2>4. QED
    BY <2>2, <2>3
<1>8. Follows' => Follows
  <2>1. e.name = "ROUND_START" <=> e.name \in Starts
    BY DEF Starts
  <2>2. QED
    BY <1>1, <1>5, <2>1 DEF Follows, Fresh
<1>9. RoundComes'
  <2>1. CASE e.name \in Starts
    BY <1>1, <1>4, <1>5, <1>6, <1>8, <2>1 DEF GameComes, RoundComes
  <2>2. CASE e.name \notin Starts
    BY <1>1, <1>4, <1>5, <1>6, <1>8, <2>2 DEF GameComes, RoundComes
  <2>3. QED
    BY <2>1, <2>2
<1>10. ContentComes'
  <2>1. CASE e.name \in ContentNames
    BY <1>1, <1>4, <1>5, <1>6, <1>8, <2>1 DEF GameComes, ContentComes
  <2>2. CASE e.name \notin ContentNames
    <3>1. \A k, r : ShowsRound(app, k, r) => ShowsRound(app', k, r)
      BY <1>6, <2>2 DEF ShowsRound
    <3>2. QED
      BY <1>1, <1>4, <1>5, <1>8, <2>2, <3>1 DEF GameComes, ContentComes
  <2>3. QED
    BY <2>1, <2>2
<1>11. RevealComes'
  <2>1. CASE e.name \in RevealNames
    BY <1>1, <1>4, <1>5, <1>6, <1>8, <2>1 DEF GameComes, RevealComes
  <2>2. CASE e.name \notin RevealNames
    <3>1. \A k, r : ShowsReveal(app, k, r) => ShowsReveal(app', k, r)
      BY <1>6, <2>2 DEF ShowsReveal
    <3>2. QED
      BY <1>1, <1>4, <1>5, <1>8, <2>2, <3>1 DEF GameComes, RevealComes
  <2>3. QED
    BY <2>1, <2>2
<1>12. QED
  BY <1>7, <1>9, <1>10, <1>11 DEF GameComes

-------------------------------------------------------------------------------
(* Every step. *)

LEMMA AppAlone ==
  ASSUME Page, joined, HostIsLinked
  PROVE  app' = app /\ inbox' = inbox
BY DEF Page, HostConnects, HostOpened, CloseEditor, FetchCatalog, Autosave,
   ClickStart, HostIsLinked

LEMMA GameStep ==
  ASSUME HostFollows, Next
  PROVE  GameComes'
<1> USE DEF HostFollows
<1>1. ASSUME ~joined' PROVE GameComes'
  BY <1>1 DEF GameComes, PhaseComes, RoundComes, ContentComes, RevealComes, Follows
<1>2. CASE Page \/ Open \/ Edit
  <2>1. UNCHANGED <<joined, missed, cue, game, tasks>>
    BY <1>2 DEF Page, Open, Edit, srvVars
  <2>2. joined => UNCHANGED <<app, inbox>>
    BY <1>2, AppAlone DEF Open, Edit, OpenEditor, EditFlow
  <2>3. QED
    BY <1>1, <2>1, <2>2, GameKept DEF Calling
<1>3. CASE Receive
  BY <1>3, FrameReceived
<1>4. CASE Leave \/ Drop \/ LoadPage
  <2>1. ~joined'
    BY <1>4 DEF Leave, Drop, LoadPage, Leaves
  <2>2. QED
    BY <1>1, <2>1
<1>5. CASE HandleHost
  <2>1. CASE joined'
    <3>1. ~joined /\ inbox' = inbox /\ UNCHANGED <<cue, missed>>
          /\ Task("connect", 0, <<>>) \in tasks'
      BY <1>5, <2>1 DEF HandleHost, histVars
    <3>2. Calling'
      BY <3>1 DEF Calling, Task
    <3>3. ~Follows'
      <4>1. cue \in Nat
        BY DEF HostTypeOK, ServerTypeOK
      <4>2. ~missed => cue = 0
        BY <3>1 DEF HostIsLinked
      <4>3. HasNone(inbox', Starts)
        BY <3>1 DEF HostIsLinked, HasNone
      <4>4. QED
        BY <3>1, <4>1, <4>2, <4>3 DEF Follows, Fresh
    <3>4. QED
      BY <3>2, <3>3 DEF GameComes, PhaseComes, RoundComes, ContentComes, RevealComes
  <2>2. QED
    BY <1>1, <2>1
<1>6. CASE HandleStart
  <2>1. /\ UNCHANGED <<app, inbox, joined, missed, cue, game>>
        /\ tasks \subseteq tasks'
    BY <1>6 DEF HandleStart, histVars
  <2>2. QED
    BY <2>1, GameKept DEF Calling
<1>7. CASE BuildRounds
  <2>1. cue' = 0
    BY <1>7 DEF BuildRounds, HostTypeOK, CueInGame
  <2>2. QED
    BY <2>1 DEF GameComes, PhaseComes, RoundComes, ContentComes, RevealComes,
       Follows
<1>8. CASE Broadcast
  <2>1. CASE joined
    <3>1. /\ game.at = "play" /\ cue' = cue + 1
          /\ inbox' = Append(inbox, Script[cue + 1])
          /\ game' = game \/ game' = [game EXCEPT !.at = "over"]
          /\ UNCHANGED <<app, joined, tasks>> /\ missed' = (missed \/ ~joined)
      BY <1>8, <2>1 DEF Broadcast, Emit
    <3>2. missed' = missed
      BY <2>1, <3>1 DEF HostTypeOK, ServerTypeOK
    <3>3. QED
      BY <3>1, <3>2, EventSent
  <2>2. CASE ~joined
    BY <1>1, <1>8, <2>2 DEF Broadcast
  <2>3. QED
    BY <2>1, <2>2
<1>9. CASE PlayersChange
  <2>1. game.at = "none" /\ UNCHANGED game
    BY <1>9 DEF PlayersChange, srvVars
  <2>2. QED
    BY <2>1 DEF GameComes, PhaseComes, RoundComes, ContentComes, RevealComes,
       Follows
<1>10. CASE ExpireHost
  BY <1>1, <1>10 DEF ExpireHost
<1>11. ASSUME NEW s \in saves, HandleSave(s) \/ LoseSave(s) PROVE GameComes'
  <2>1. /\ UNCHANGED <<app, inbox, joined, missed, cue, game>>
        /\ tasks \subseteq tasks'
    BY <1>11 DEF HandleSave, LoseSave, srvVars
  <2>2. QED
    BY <2>1, GameKept DEF Calling
<1>12. ASSUME NEW t \in tasks, StoreHost(t) PROVE GameComes'
  <2>1. UNCHANGED <<app, joined, missed, cue, game>> /\ t.row \in Rows
    BY <1>12 DEF StoreHost, HostTypeOK, ServerTypeOK, Tasks
  <2>2. CASE t.op = "late"
    <3>1. Calling => Calling'
      BY <1>12, <2>2 DEF StoreHost, Calling
    <3>2. inbox' = inbox
      BY <1>12, <2>2 DEF StoreHost
    <3>3. QED
      BY <2>1, <3>1, <3>2, GameKept
  <2>3. CASE t.op # "late"
    <3>1. inbox' = Append(inbox, Snapshot(t.row))
      BY <1>12, <2>3 DEF StoreHost
    <3>2. QED
      BY <2>1, <3>1, SnapshotSent
  <2>4. QED
    BY <2>2, <2>3
<1>13. ASSUME NEW t \in tasks, StoreFlow(t) PROVE GameComes'
  <2>1. UNCHANGED <<app, joined, missed, cue, game>>
        /\ row' = [t.row EXCEPT !.flow = t.flow]
    BY <1>13 DEF StoreFlow
  <2>2. row' \in Rows
    BY <2>1, RowsTyped DEF HostTypeOK
  <2>3. joined => inbox' = Append(inbox, Snapshot(row'))
    BY <1>13 DEF StoreFlow, Emit
  <2>4. QED
    BY <1>1, <2>1, <2>2, <2>3, SnapshotSent
<1>14. ASSUME NEW t \in tasks, StoreStart(t) PROVE GameComes'
  <2>1. UNCHANGED <<app, joined, missed>>
    BY <1>14 DEF StoreStart
  <2>2. CASE t.row.status # "lobby"
    <3>1. UNCHANGED <<inbox, cue, game>>
      BY <1>14, <2>2 DEF StoreStart
    <3>2. Calling => Calling'
      BY <1>14 DEF StoreStart, Calling
    <3>3. QED
      BY <2>1, <3>1, <3>2, GameKept
  <2>3. CASE t.row.status = "lobby"
    <3>1. /\ row' = [t.row EXCEPT !.status = "active"] /\ Emit(Snapshot(row'))
          /\ UNCHANGED <<game, cue>> \/ game' = [game EXCEPT !.at = "load"]
      BY <1>14, <2>3 DEF StoreStart, SaveRow
    <3>2. CASE UNCHANGED <<game, cue>>
      <4>1. row' \in Rows
        BY <3>1, RowsTyped DEF HostTypeOK
      <4>2. joined => inbox' = Append(inbox, Snapshot(row'))
        BY <3>1 DEF Emit
      <4>3. QED
        BY <1>1, <2>1, <3>2, <4>1, <4>2, SnapshotSent
    <3>3. CASE game' = [game EXCEPT !.at = "load"]
      <4>1. game'.at = "load"
        BY <3>3 DEF HostTypeOK, ServerTypeOK, Games
      <4>2. QED
        BY <4>1 DEF GameComes, PhaseComes, RoundComes, ContentComes, RevealComes,
           Follows
    <3>4. QED
      BY <3>1, <3>2, <3>3
  <2>4. QED
    BY <2>2, <2>3
<1>15. QED
  BY <1>2, <1>3, <1>4, <1>5, <1>6, <1>7, <1>8, <1>9, <1>10, <1>11, <1>12, <1>13,
     <1>14 DEF Next

LEMMA LobbyKept ==
  ASSUME LobbyComes, UNCHANGED <<app, inbox, joined, game>>, Calling => Calling'
  PROVE  LobbyComes'
BY DEF LobbyComes

LEMMA LobbySnapshotSent ==
  ASSUME HostFollows, NEW entity \in Rows, entity.status = "lobby",
         inbox' = Append(inbox, Snapshot(entity)), UNCHANGED <<app, joined, game>>
  PROVE  LobbyComes'
<1> SUFFICES ASSUME joined, game.at = "none" PROVE LobbyComes'
  BY DEF LobbyComes
<1> DEFINE f == Snapshot(entity)
           n == Len(inbox)
<1>1. /\ f \in HostFrames /\ f.name \in Snapshots /\ f.room.known
      /\ f.room.phase = "lobby"
  BY SnapshotIn DEF HostFollows
<1>2. inbox \in Seq(HostFrames)
  BY DEF HostFollows, HostTypeOK, PageTypeOK
<1>3. /\ n \in Nat /\ DOMAIN inbox = 1..n /\ DOMAIN inbox' = 1..n + 1
      /\ inbox'[n + 1] = f /\ \A i \in 1..n : inbox'[i] = inbox[i]
      /\ inbox' # <<>>
  BY <1>1, <1>2
<1> HIDE DEF f, n
<1>4. ASSUME NEW i \in DOMAIN inbox'
      PROVE  /\ inbox'[i].name \in Snapshots
             /\ inbox'[i].room.known /\ inbox'[i].room.phase = "lobby"
  <2>1. CASE i = n + 1
    BY <1>1, <1>3, <2>1
  <2>2. CASE i # n + 1
    <3>1. i \in 1..n
      BY <1>3, <2>2
    <3>2. QED
      BY <1>3, <3>1 DEF HostFollows, LobbyComes
  <2>3. QED
    BY <2>1, <2>2
<1>5. app'.room.phase = "lobby"
  BY DEF HostFollows, LobbyComes
<1>6. QED
  BY <1>3, <1>4, <1>5 DEF LobbyComes

LEMMA LobbyFrameReceived ==
  ASSUME HostFollows, Receive
  PROVE  LobbyComes'
<1> DEFINE e == Head(inbox)
           n == Len(inbox)
<1>1. /\ inbox # <<>> /\ app' = ReduceHost(app, e) /\ inbox' = Tail(inbox)
      /\ UNCHANGED <<row, joined, tasks, game, raced>>
  BY DEF Receive, HostReceives, srvVars
<1> SUFFICES ASSUME joined, game.at = "none" PROVE LobbyComes'
  BY <1>1 DEF LobbyComes
<1>2. app \in HostApps /\ inbox \in Seq(HostFrames)
  BY DEF HostFollows, HostTypeOK, PageTypeOK
<1>3. /\ n \in Nat /\ n > 0 /\ DOMAIN inbox = 1..n /\ DOMAIN inbox' = 1..n - 1
      /\ e = inbox[1]
      /\ \A i \in 1..n - 1 : i + 1 \in 1..n /\ inbox'[i] = inbox[i + 1]
  BY <1>1, <1>2
<1>4. e \in HostFrames
  BY <1>1, <1>2
<1> HIDE DEF e, n
<1>5. e.name \in Snapshots /\ e.room.known /\ e.room.phase = "lobby"
  BY <1>3 DEF HostFollows, LobbyComes
<1>6. app'.room = e.room
  BY <1>1, <1>2, <1>4, <1>5, ReduceEffects
<1>7. \A i \in DOMAIN inbox' :
        /\ inbox'[i].name \in Snapshots
        /\ inbox'[i].room.known /\ inbox'[i].room.phase = "lobby"
  BY <1>3 DEF HostFollows, LobbyComes
<1>8. QED
  BY <1>1, <1>5, <1>6, <1>7 DEF LobbyComes

LEMMA LobbyComesStep ==
  ASSUME HostFollows, Next
  PROVE  LobbyComes'
<1>0. /\ row \in Rows /\ tasks \subseteq Tasks /\ game \in Games /\ LobbyComes
  BY DEF HostFollows, HostTypeOK, ServerTypeOK
<1>1. ASSUME ~joined' \/ game'.at # "none" PROVE LobbyComes'
  BY <1>1 DEF LobbyComes
<1>2. CASE Page \/ Edit
  <2>1. UNCHANGED <<joined, game, tasks>>
    BY <1>2 DEF Page, Edit, srvVars
  <2>2. joined => UNCHANGED <<app, inbox>>
    BY <1>2, AppAlone DEF HostFollows, Edit, EditFlow
  <2>3. QED
    BY <1>0, <1>1, <2>1, <2>2, LobbyKept DEF Calling
<1>3. CASE Receive
  BY <1>3, LobbyFrameReceived
<1>4. CASE Open
  BY <1>0, <1>4, LobbyKept DEF Open, OpenEditor, srvVars, Calling
<1>5. CASE Leave \/ Drop \/ LoadPage
  <2>1. ~joined'
    BY <1>5 DEF Leave, Drop, LoadPage, Leaves
  <2>2. QED
    BY <1>1, <2>1
<1>6. CASE HandleHost
  <2>1. CASE joined'
    <3>1. ~joined /\ link = "open" /\ UNCHANGED <<inbox, app>>
          /\ Task("connect", 0, <<>>) \in tasks'
      BY <1>6, <2>1 DEF HandleHost
    <3>2. Calling'
      BY <3>1 DEF Calling, Task
    <3>3. inbox' = <<>> /\ app'.room.phase = "lobby"
      BY <3>1 DEF HostFollows, HostIsLinked, NoRoom
    <3>4. QED
      BY <3>2, <3>3 DEF LobbyComes
  <2>2. QED
    BY <1>1, <2>1
<1>7. CASE HandleStart
  <2>1. UNCHANGED <<app, inbox, joined, game>> /\ tasks \subseteq tasks'
    BY <1>7 DEF HandleStart
  <2>2. QED
    BY <1>0, <2>1, LobbyKept DEF Calling
<1>8. CASE BuildRounds
  <2>1. game'.at = "failed" \/ game'.at = "play"
    BY <1>0, <1>8 DEF BuildRounds, Games
  <2>2. QED
    BY <1>1, <2>1
<1>9. CASE Broadcast
  <2>1. game.at = "play" /\ game' \in {game, [game EXCEPT !.at = "over"]}
    BY <1>9 DEF Broadcast
  <2>2. QED
    BY <1>0, <1>1, <2>1 DEF Games
<1>10. CASE PlayersChange
  <2>1. game.at = "none" /\ UNCHANGED <<app, joined, game, row>>
        /\ Emit(Snapshot(row))
    BY <1>10 DEF PlayersChange, srvVars
  <2>2. joined => row.status = "lobby" /\ inbox' = Append(inbox, Snapshot(row))
    BY <2>1 DEF HostFollows, HostIsLinked, LobbyUntilStart, Emit
  <2>3. QED
    BY <1>0, <1>1, <2>1, <2>2, LobbySnapshotSent
<1>11. CASE ExpireHost
  BY <1>1, <1>11 DEF ExpireHost
<1>12. ASSUME NEW s \in saves, HandleSave(s) \/ LoseSave(s) PROVE LobbyComes'
  <2>1. UNCHANGED <<app, inbox, joined, game>> /\ tasks \subseteq tasks'
    BY <1>12 DEF HandleSave, LoseSave, srvVars
  <2>2. QED
    BY <1>0, <2>1, LobbyKept DEF Calling
<1>13. ASSUME NEW t \in tasks, StoreHost(t) PROVE LobbyComes'
  <2>1. UNCHANGED <<app, joined, game>> /\ t.row \in Rows
    BY <1>0, <1>13 DEF StoreHost, Tasks
  <2>2. CASE t.op = "late"
    <3>1. Calling => Calling'
      BY <1>13, <2>2 DEF StoreHost, Calling
    <3>2. inbox' = inbox
      BY <1>13, <2>2 DEF StoreHost
    <3>3. QED
      BY <1>0, <2>1, <3>1, <3>2, LobbyKept
  <2>3. CASE t.op # "late"
    <3>1. inbox' = Append(inbox, Snapshot(t.row))
      BY <1>13, <2>3 DEF StoreHost
    <3>2. game.at = "none" => t.row.status = "lobby"
      BY DEF HostFollows, LobbyUntilStart
    <3>3. QED
      BY <1>1, <2>1, <3>1, <3>2, LobbySnapshotSent
  <2>4. QED
    BY <2>2, <2>3
<1>14. ASSUME NEW t \in tasks, StoreFlow(t) PROVE LobbyComes'
  <2>1. UNCHANGED <<app, joined, game>> /\ row' = [t.row EXCEPT !.flow = t.flow]
    BY <1>14 DEF StoreFlow
  <2>2. row' \in Rows
    BY <2>1, RowsTyped DEF HostFollows, HostTypeOK
  <2>3. joined => inbox' = Append(inbox, Snapshot(row'))
    BY <1>14 DEF StoreFlow, Emit
  <2>4. game.at = "none" => row'.status = "lobby"
    BY <1>0, <2>1 DEF HostFollows, LobbyUntilStart, Tasks, Rows
  <2>5. QED
    BY <1>1, <2>1, <2>2, <2>3, <2>4, LobbySnapshotSent
<1>15. ASSUME NEW t \in tasks, StoreStart(t) PROVE LobbyComes'
  <2>1. CASE t.row.status # "lobby"
    <3>1. game' = game /\ game.at # "none"
      BY <1>15, <2>1 DEF StoreStart, HostFollows, LobbyUntilStart
    <3>2. QED
      BY <1>1, <3>1
  <2>2. CASE t.row.status = "lobby"
    <3>1. \/ game' = game /\ game.at \in {"load", "play"}
          \/ game' = [game EXCEPT !.at = "load"]
      BY <1>15, <2>2 DEF StoreStart
    <3>2. game'.at # "none"
      BY <1>0, <3>1 DEF Games
    <3>3. QED
      BY <1>1, <3>2
  <2>3. QED
    BY <2>1, <2>2
<1>16. QED
  BY <1>2, <1>3, <1>4, <1>5, <1>6, <1>7, <1>8, <1>9, <1>10, <1>11, <1>12, <1>13,
     <1>14, <1>15 DEF Next

LEMMA FlowKept ==
  ASSUME FlowComes, UNCHANGED <<app, inbox, joined>>, Calling => Calling',
         ~raced' => ~raced /\ row'.flow = row.flow
  PROVE  FlowComes'
BY DEF FlowComes

LEMMA FlowSnapshotSent ==
  ASSUME HostTypeOK, NEW entity \in Rows, row'.flow = entity.flow,
         inbox' = Append(inbox, Snapshot(entity))
  PROVE  FlowComes'
<1>1. Snapshot(entity) \in HostFrames /\ Snapshot(entity).name \in Snapshots
      /\ Snapshot(entity) \in OfFlow(entity.flow)
  BY SnapshotIn
<1>2. ~HasNone(inbox', Snapshots)
      /\ EndsIn(inbox', Snapshots, OfFlow(entity.flow))
  BY <1>1, FrameSent DEF HostTypeOK, PageTypeOK
<1>3. QED
  BY <1>2 DEF FlowComes

LEMMA FlowFrameReceived ==
  ASSUME HostTypeOK, FlowComes, Receive
  PROVE  FlowComes'
<1> DEFINE e == Head(inbox)
<1>1. /\ inbox # <<>> /\ app' = ReduceHost(app, e) /\ inbox' = Tail(inbox)
      /\ UNCHANGED <<row, joined, tasks, raced>>
  BY DEF Receive, HostReceives, srvVars
<1> SUFFICES ASSUME joined, ~Calling, ~raced PROVE FlowComes'
  BY <1>1 DEF FlowComes, Calling
<1>2. app \in HostApps /\ inbox \in Seq(HostFrames) /\ e \in HostFrames
  BY <1>1 DEF HostTypeOK, PageTypeOK
<1>3. EndsIn(inbox, Snapshots, OfFlow(row.flow))
      /\ (HasNone(inbox, Snapshots) => app.room.flow = row.flow)
  BY DEF FlowComes
<1>4. EndsIn(inbox', Snapshots, OfFlow(row.flow))
  BY <1>1, <1>2, <1>3, FrameTaken
<1>5. CASE e.name \in Snapshots
  <2>1. app'.room = e.room
    BY <1>1, <1>2, <1>5, ReduceEffects
  <2>2. HasNone(inbox', Snapshots) => e \in OfFlow(row.flow)
    BY <1>1, <1>2, <1>3, <1>5, FrameTaken
  <2>3. QED
    BY <1>1, <1>4, <2>1, <2>2 DEF FlowComes, OfFlow
<1>6. CASE e.name \notin Snapshots
  <2>1. app'.room.flow = app.room.flow
    BY <1>1, <1>2, <1>6 DEF ReduceHost, Snapshots, HostApps, Rooms
  <2>2. HasNone(inbox', Snapshots) => HasNone(inbox, Snapshots)
    BY <1>1, <1>2, <1>6, FrameTaken
  <2>3. QED
    BY <1>1, <1>3, <1>4, <2>1, <2>2 DEF FlowComes
<1>7. QED
  BY <1>5, <1>6

LEMMA FlowEventSent ==
  ASSUME HostTypeOK, FlowComes, Broadcast
  PROVE  FlowComes'
<1> DEFINE e == Script[cue + 1]
<1>1. /\ game.at = "play" /\ UNCHANGED <<app, joined, tasks>>
      /\ inbox' = IF joined THEN Append(inbox, e) ELSE inbox
  BY DEF Broadcast, Emit
<1>2. ~raced' => ~raced /\ row'.flow = row.flow
  BY DEF Broadcast, SaveRow
<1>3. e \in HostFrames /\ e.name \notin Snapshots
  BY <1>1, EventTyped
     DEF HostTypeOK, HostFrames, ScriptNames, Snapshots, Shows, Reveals
<1> HIDE DEF e
<1>4. /\ HasNone(inbox', Snapshots) => HasNone(inbox, Snapshots)
      /\ \A S : EndsIn(inbox, Snapshots, S) => EndsIn(inbox', Snapshots, S)
  BY <1>1, <1>3, FrameSent DEF HostTypeOK, PageTypeOK
<1>5. Calling' <=> Calling
  BY <1>1 DEF Calling
<1>6. QED
  BY <1>1, <1>2, <1>4, <1>5 DEF FlowComes

LEMMA FlowComesStep ==
  ASSUME HostFollows, Next
  PROVE  FlowComes'
<1>0. /\ HostTypeOK /\ ServerTypeOK /\ FlowComes
      /\ row \in Rows /\ tasks \subseteq Tasks /\ raced \in BOOLEAN
  BY DEF HostFollows, HostTypeOK, ServerTypeOK
<1>1. ASSUME ~joined' PROVE FlowComes'
  BY <1>1 DEF FlowComes
<1>2. CASE Page \/ Edit
  <2>1. UNCHANGED <<joined, row, tasks, raced>>
    BY <1>2 DEF Page, Edit, srvVars
  <2>2. joined => UNCHANGED <<app, inbox>>
    BY <1>2, AppAlone DEF HostFollows, Edit, EditFlow
  <2>3. QED
    BY <1>0, <1>1, <2>1, <2>2, FlowKept DEF Calling
<1>3. CASE Receive
  BY <1>0, <1>3, FlowFrameReceived
<1>4. CASE Open
  <2>1. UNCHANGED <<app, inbox, joined, row, tasks>>
        /\ raced' = (raced /\ (app.room.flow # row.flow \/ inbox # <<>>))
    BY <1>4 DEF Open, OpenEditor, srvVars
  <2>2. CASE raced' = raced
    BY <1>0, <2>1, <2>2, FlowKept DEF Calling
  <2>3. CASE raced' # raced
    <3>1. app.room.flow = row.flow /\ inbox = <<>>
      BY <1>0, <2>1, <2>3
    <3>2. QED
      BY <2>1, <3>1, NothingUnderWay DEF FlowComes
  <2>4. QED
    BY <2>2, <2>3
<1>5. CASE Leave \/ Drop \/ LoadPage
  BY <1>1, <1>5 DEF Leave, Drop, LoadPage, Leaves
<1>6. CASE HandleHost
  <2>1. ~joined' \/ Task("connect", 0, <<>>) \in tasks'
    BY <1>6 DEF HandleHost
  <2>2. ~joined' \/ Calling'
    BY <2>1 DEF Calling, Task
  <2>3. QED
    BY <2>2 DEF FlowComes
<1>7. CASE HandleStart
  <2>1. UNCHANGED <<app, inbox, joined, row, raced>> /\ tasks \subseteq tasks'
    BY <1>7 DEF HandleStart, histVars
  <2>2. QED
    BY <1>0, <2>1, FlowKept DEF Calling
<1>8. CASE BuildRounds \/ ExpireHost
  <2>1. UNCHANGED <<app, inbox, joined, raced, tasks>> /\ row'.flow = row.flow
    BY <1>0, <1>8 DEF BuildRounds, ExpireHost, hostVars, histVars, Rows
  <2>2. QED
    BY <1>0, <2>1, FlowKept DEF Calling
<1>9. CASE Broadcast
  BY <1>0, <1>9, FlowEventSent
<1>10. CASE PlayersChange
  <2>1. UNCHANGED <<joined, row>>
        /\ (joined => inbox' = Append(inbox, Snapshot(row)))
    BY <1>10 DEF PlayersChange, srvVars, Emit
  <2>2. QED
    BY <1>0, <1>1, <2>1, FlowSnapshotSent
<1>11. ASSUME NEW s \in saves, HandleSave(s) \/ LoseSave(s) PROVE FlowComes'
  <2>1. UNCHANGED <<app, inbox, joined, row>> /\ tasks \subseteq tasks'
    BY <1>11 DEF HandleSave, LoseSave, srvVars
  <2>2. ~raced' => ~raced
    BY <1>11 DEF HandleSave, LoseSave
  <2>3. Calling => Calling'
    BY <2>1 DEF Calling
  <2>4. QED
    BY <1>0, <2>1, <2>2, <2>3, FlowKept
<1>12. ASSUME NEW t \in tasks, StoreHost(t) PROVE FlowComes'
  <2>1. UNCHANGED <<app, joined>> /\ t.row \in Rows /\ row' = t.row
        /\ raced' = (raced \/ t.row.flow # row.flow)
    BY <1>0, <1>12 DEF StoreHost, SaveRow, Tasks
  <2>2. CASE t.op = "late"
    <3>1. inbox' = inbox /\ (Calling => Calling')
      BY <1>12, <2>2 DEF StoreHost, Calling
    <3>2. QED
      BY <1>0, <2>1, <3>1, FlowKept
  <2>3. CASE t.op # "late"
    <3>1. inbox' = Append(inbox, Snapshot(t.row))
      BY <1>12, <2>3 DEF StoreHost
    <3>2. QED
      BY <1>0, <2>1, <3>1, FlowSnapshotSent
  <2>4. QED
    BY <2>2, <2>3
<1>13. ASSUME NEW t \in tasks, StoreFlow(t) PROVE FlowComes'
  <2>1. row' = [t.row EXCEPT !.flow = t.flow]
        /\ [t.row EXCEPT !.flow = t.flow] \in Rows
    BY <1>0, <1>13, RowsTyped DEF StoreFlow
  <2>2. ~joined' \/ inbox' = Append(inbox, Snapshot(row'))
    BY <1>13 DEF StoreFlow, Emit
  <2>3. QED
    BY <1>0, <1>1, <2>1, <2>2, FlowSnapshotSent
<1>14. ASSUME NEW t \in tasks, StoreStart(t) PROVE FlowComes'
  <2>1. UNCHANGED <<app, joined>> /\ t.row \in Rows /\ (Calling => Calling')
    BY <1>0, <1>14 DEF StoreStart, Tasks, Calling
  <2>2. CASE t.row.status # "lobby"
    <3>1. UNCHANGED <<inbox, row, raced>>
      BY <1>14, <2>2 DEF StoreStart
    <3>2. QED
      BY <1>0, <2>1, <3>1, FlowKept
  <2>3. CASE t.row.status = "lobby"
    <3>1. row' = [t.row EXCEPT !.status = "active"]
          /\ (joined => inbox' = Append(inbox, Snapshot(row')))
      BY <1>14, <2>3 DEF StoreStart, SaveRow, Emit
    <3>2. row' \in Rows
      BY <2>1, <3>1 DEF Rows
    <3>3. QED
      BY <1>0, <1>1, <2>1, <3>1, <3>2, FlowSnapshotSent
  <2>4. QED
    BY <2>2, <2>3
<1>15. QED
  BY <1>2, <1>3, <1>4, <1>5, <1>6, <1>7, <1>8, <1>9, <1>10, <1>11, <1>12, <1>13,
     <1>14 DEF Next

LEMMA HostFollowsStep ==
  ASSUME HostFollows, [Next]_vars
  PROVE  HostFollows'
<1>1. CASE Next
  <2>1. HostTypeOK'
    BY <1>1, HostTypeStep DEF HostFollows
  <2>2. HostIsLinked' /\ LobbyUntilStart'
    BY <1>1, LinkStep, LobbyStep DEF HostFollows
  <2>3. QED
    BY <1>1, <2>1, <2>2, LobbyComesStep, FlowComesStep, GameStep
       DEF HostFollows
<1>2. CASE UNCHANGED vars
  <2>1. /\ UNCHANGED <<app, link, inbox, row, token, joined, tasks, game, cue>>
        /\ UNCHANGED <<raced, missed>>
    BY <1>2 DEF vars, hostVars, srvVars, histVars
  <2>2. HostTypeOK'
    BY <1>2, HostTypeStep DEF HostFollows
  <2>3. HostIsLinked' /\ LobbyUntilStart'
    BY <2>1 DEF HostFollows, HostIsLinked, LobbyUntilStart, Calling
  <2>4. LobbyComes' /\ FlowComes'
    BY <2>1, LobbyKept, FlowKept DEF HostFollows, Calling
  <2>5. GameComes'
    BY <2>1, GameKept DEF HostFollows, Calling
  <2>6. QED
    BY <2>2, <2>3, <2>4, <2>5 DEF HostFollows
<1>3. QED
  BY <1>1, <1>2

LEMMA HostFollowsInit == Init => HostFollows
<1> SUFFICES ASSUME Init PROVE HostFollows
  OBVIOUS
<1>1. /\ app = Connecting /\ link = "none" /\ inbox = <<>> /\ joined = FALSE
      /\ token = TRUE /\ tasks = {} /\ game.at = "none" /\ cue = 0
      /\ row.status = "lobby"
  BY DEF Init, HostInit, Idle
<1>2. HostIsLinked
  BY <1>1 DEF HostIsLinked, Calling, Connecting, InitialHost
<1>3. LobbyUntilStart
  BY <1>1 DEF LobbyUntilStart
<1>4. LobbyComes /\ FlowComes /\ GameComes
  BY <1>1 DEF LobbyComes, FlowComes, GameComes, PhaseComes, RoundComes,
     ContentComes, RevealComes, Follows
<1>5. QED
  BY <1>2, <1>3, <1>4, HostTypeInit DEF HostFollows

-------------------------------------------------------------------------------
(* A room has one game: while it is played, its page has not heard of its end. *)

OverNames == {"GAME_OVER"}
OverOnce ==
  /\ game.at = "play" => game.plan # <<>>
  /\ game.at = "play" \/ game.plan = <<>> =>
        ~app.final /\ HasNone(inbox, OverNames)

LEMMA NotOverSent ==
  ASSUME HostTypeOK, HasNone(inbox, OverNames), NEW f, f.name # "GAME_OVER"
  PROVE  HasNone(Append(inbox, f), OverNames)
<1> DEFINE w == Append(inbox, f)
           n == Len(inbox)
<1>1. inbox \in Seq(HostFrames)
  BY DEF HostTypeOK, PageTypeOK
<1>2. /\ n \in Nat /\ DOMAIN inbox = 1..n /\ DOMAIN w = 1..n + 1
      /\ w[n + 1] = f /\ \A i \in 1..n : w[i] = inbox[i]
  BY <1>1
<1> HIDE DEF w, n
<1>3. HasNone(w, OverNames)
  BY <1>2 DEF HasNone, OverNames
<1>4. QED
  BY <1>3 DEF w

LEMMA NotOverReceived ==
  ASSUME HostTypeOK, ~app.final, HasNone(inbox, OverNames), HostReceives
  PROVE  ~app'.final /\ HasNone(inbox', OverNames)
<1>1. inbox \in Seq(HostFrames) /\ inbox # <<>> /\ inbox' = Tail(inbox)
      /\ app' = ReduceHost(app, Head(inbox))
  BY DEF HostTypeOK, PageTypeOK, HostReceives
<1>2. Head(inbox).name # "GAME_OVER"
  BY <1>1 DEF HasNone, OverNames
<1>3. app \in HostApps
  BY DEF HostTypeOK, PageTypeOK
<1>4. ReduceHost(app, Head(inbox)).final = app.final
  BY <1>2, <1>3 DEF ReduceHost, HostApps
<1>5. HasNone(Tail(inbox), OverNames)
  BY <1>1, FrameTaken
<1>6. QED
  BY <1>1, <1>4, <1>5

LEMMA OverOnceStep ==
  ASSUME HostTypeOK, OverOnce, [Next]_vars
  PROVE  OverOnce'
<1> USE DEF OverOnce
<1>0. app \in HostApps /\ game \in Games
  BY DEF HostTypeOK, PageTypeOK, ServerTypeOK
<1>1. ASSUME game' = game,
             app'.final = app.final \/ ~app'.final,
             inbox' = inbox \/ inbox' = <<>>
      PROVE  OverOnce'
  BY <1>1 DEF HasNone
<1>2. ASSUME UNCHANGED <<app, game>>, NEW f, f.name # "GAME_OVER", Emit(f)
      PROVE  OverOnce'
  <2>1. HasNone(inbox, OverNames) => HasNone(inbox', OverNames)
    BY <1>2, NotOverSent DEF Emit
  <2>2. QED
    BY <1>2, <2>1
<1>3. CASE Page
  <2>1. game' = game /\ inbox' = inbox /\ (app'.final = app.final \/ ~app'.final)
    BY <1>0, <1>3 DEF Page, srvVars, HostConnects, HostOpened, CloseEditor,
       FetchCatalog, Autosave, ClickStart, HostApps
  <2>2. QED
    BY <1>1, <2>1
<1>4. CASE Receive
  <2>1. game' = game /\ HostReceives
    BY <1>4 DEF Receive, srvVars
  <2>2. QED
    BY <2>1, NotOverReceived
<1>5. CASE Open \/ Edit \/ HandleStart \/ ExpireHost
  BY <1>1, <1>5 DEF Open, Edit, HandleStart, ExpireHost, OpenEditor, EditFlow,
     srvVars, hostVars
<1>6. ASSUME game' = game, NEW unauthorized, HostClosed(unauthorized)
      PROVE  OverOnce'
  <2>1. inbox' = <<>> /\ app'.final = app.final
    BY <1>0, <1>6 DEF HostClosed, HostApps
  <2>2. QED
    BY <1>1, <1>6, <2>1
<1>7. CASE Leave \/ Drop
  BY <1>6, <1>7 DEF Leave, LeavePage, Drop
<1>8. CASE LoadPage
  BY <1>1, <1>8 DEF LoadPage, Connecting, InitialHost
<1>9. CASE HandleHost
  BY <1>1, <1>6, <1>9 DEF HandleHost
<1>10. CASE BuildRounds
  <2>1. UNCHANGED <<app, inbox>>
    BY <1>10 DEF BuildRounds, hostVars
  <2>2. \/ game'.at = "failed" /\ game'.plan = game.plan
        \/ game'.at = "play" /\ game'.plan # <<>> /\ game.plan = <<>>
    BY <1>0, <1>10 DEF BuildRounds, Games
  <2>3. QED
    BY <2>1, <2>2
<1>11. CASE Broadcast
  <2> DEFINE event == Script[cue']
  <2>1. game.at = "play" /\ app' = app /\ Emit(event)
        /\ game' = IF event.name = "GAME_OVER" THEN [game EXCEPT !.at = "over"]
                   ELSE game
    BY <1>11 DEF Broadcast
  <2> HIDE DEF event
  <2>2. CASE event.name = "GAME_OVER"
    <3>1. game'.at = "over" /\ game'.plan # <<>>
      BY <1>0, <2>1, <2>2 DEF Games
    <3>2. QED
      BY <3>1
  <2>3. CASE event.name # "GAME_OVER"
    BY <1>2, <2>1, <2>3
  <2>4. QED
    BY <2>2, <2>3
<1>12. ASSUME NEW entity PROVE Snapshot(entity).name # "GAME_OVER"
  BY DEF Snapshot
<1>13. CASE PlayersChange
  <2>1. UNCHANGED <<app, game>> /\ Emit(Snapshot(row))
    BY <1>13 DEF PlayersChange, srvVars
  <2>2. QED
    BY <1>2, <1>12, <2>1
<1>14. ASSUME NEW s \in saves, HandleSave(s) \/ LoseSave(s) PROVE OverOnce'
  BY <1>1, <1>14 DEF HandleSave, LoseSave, srvVars
<1>15. ASSUME NEW t \in tasks, StoreHost(t) PROVE OverOnce'
  <2>1. /\ UNCHANGED <<app, game>>
        /\ inbox' = inbox \/ inbox' = Append(inbox, Snapshot(t.row))
    BY <1>15 DEF StoreHost
  <2>2. HasNone(inbox, OverNames) => HasNone(inbox', OverNames)
    BY <1>12, <2>1, NotOverSent
  <2>3. QED
    BY <2>1, <2>2
<1>16. ASSUME NEW t \in tasks, StoreFlow(t) PROVE OverOnce'
  <2>1. UNCHANGED <<app, game>> /\ Emit(Snapshot(row'))
    BY <1>16 DEF StoreFlow
  <2>2. QED
    BY <1>2, <1>12, <2>1
<1>17. ASSUME NEW t \in tasks, StoreStart(t) PROVE OverOnce'
  <2>1. /\ app' = app
        /\ inbox' = inbox \/ Emit(Snapshot(row'))
        /\ game' = game \/ game' = [game EXCEPT !.at = "load"]
    BY <1>17 DEF StoreStart
  <2>2. HasNone(inbox, OverNames) => HasNone(inbox', OverNames)
    BY <1>12, <2>1, NotOverSent DEF Emit
  <2>3. game' = game \/ (game'.at = "load" /\ game'.plan = game.plan)
    BY <1>0, <2>1 DEF Games
  <2>4. QED
    BY <2>1, <2>2, <2>3
<1>18. CASE UNCHANGED vars
  BY <1>1, <1>18 DEF vars, hostVars, srvVars
<1>19. QED
  BY <1>3, <1>4, <1>5, <1>7, <1>8, <1>9, <1>10, <1>11, <1>13, <1>14, <1>15,
     <1>16, <1>17, <1>18 DEF Next

LEMMA OverOnceInit == Init => OverOnce
BY DEF Init, HostInit, Idle, Connecting, InitialHost, OverOnce, HasNone

-------------------------------------------------------------------------------
(* What the page shows. *)

LEMMA ShowsLobby ==
  ASSUME HostFollows, InStep, game.at = "none"
  PROVE  InLobby(app) /\ (raced \/ app.room.flow = row.flow)
<1>1. link = "open" /\ joined /\ inbox = <<>> /\ ~Calling
  BY DEF InStep, Calling
<1>2. ~app.fatal /\ app.status = "open"
  BY <1>1 DEF HostFollows, HostIsLinked
<1>3. app.room.known /\ app.room.phase = "lobby"
  BY <1>1 DEF HostFollows, LobbyComes
<1>4. HostScreen(app) = HostShow("lobby", 0, FALSE)
  BY <1>2, <1>3 DEF HostScreen
<1>5. InLobby(app)
  BY <1>4 DEF InLobby, HostShow
<1>6. HasNone(inbox, Snapshots)
  BY <1>1, NothingUnderWay
<1>7. raced \/ app.room.flow = row.flow
  BY <1>1, <1>6 DEF HostFollows, FlowComes
<1>8. QED
  BY <1>5, <1>7

LEMMA ShowsGame ==
  ASSUME HostFollows, OverOnce, InStep, ~missed, game.at = "play", cue >= 2
  PROVE  \/ HostScreen(app) = ExpectedOnHost(cue)
         \/ /\ PhaseIn(Script, cue) = "playing"
            /\ ~ShownIn(Script, RoundIn(Script, cue), cue)
<1> DEFINE r == RoundNow
           p == PhaseNow
<1>1. link = "open" /\ joined /\ inbox = <<>> /\ ~Calling
  BY DEF InStep, Calling
<1>2. ~app.fatal /\ app.status = "open"
  BY <1>1 DEF HostFollows, HostIsLinked
<1>3. IsScript(Script, Kinds) /\ cue \in 0..Len(Script) /\ cue \in Nat
  BY ScriptNow, CueNow DEF HostFollows, HostTypeOK, ServerTypeOK
<1>4. /\ p # "lobby" /\ p \in Phases /\ r \in 1..Len(Kinds)
      /\ p = "reveal" => RevealedIn(Script, r, cue) /\ ShownIn(Script, r, cue)
  BY <1>3, PhaseAfterTwo, PhaseFacts DEF PhaseNow, RoundNow
<1>5. r \in Nat /\ r # 0
  BY <1>3, <1>4, KindsLength
<1>6. \A names : HasNone(inbox, names)
  BY <1>1, NothingUnderWay
<1>7. Follows
  BY <1>1, <1>3 DEF Follows, Fresh
<1>8. app.room.known /\ app.room.phase = p
  BY <1>1, <1>6 DEF HostFollows, GameComes, PhaseComes
<1>9. app.round = r
  BY <1>6, <1>7 DEF HostFollows, GameComes, RoundComes
<1>10. ShownIn(Script, r, cue) => ShowsRound(app, Kinds[r], r)
  BY <1>6, <1>7 DEF HostFollows, GameComes, ContentComes
<1>11. RevealedIn(Script, r, cue) => ShowsReveal(app, Kinds[r], r)
  BY <1>6, <1>7 DEF HostFollows, GameComes, RevealComes
<1>12. PhaseIn(Script, cue) = p /\ RoundIn(Script, cue) = r
  BY DEF PhaseNow, RoundNow
<1> HIDE DEF r, p
<1>13. CASE p = "round-intro"
  <2>1. HostScreen(app) = HostShow("intro", r, FALSE)
    BY <1>2, <1>5, <1>8, <1>9, <1>13 DEF HostScreen
  <2>2. ExpectedOnHost(cue) = HostShow("intro", r, FALSE)
    BY <1>12, <1>13 DEF ExpectedOnHost
  <2>3. QED
    BY <2>1, <2>2
<1>14. ASSUME p = "playing" \/ p = "reveal", ShownIn(Script, r, cue)
       PROVE  HostScreen(app) = ExpectedOnHost(cue)
  <2>1. HostScreen(app) = HostGameplay(app)
    BY <1>2, <1>8, <1>14 DEF HostScreen
  <2>2. ExpectedOnHost(cue) =
          HostShow(IF Kinds[r] = "quiz" THEN "quiz" ELSE "game", r, p = "reveal")
    BY <1>12, <1>14 DEF ExpectedOnHost
  <2>3. CASE Kinds[r] = "quiz"
    <3>1. app.content = 0 /\ app.question = r
      BY <1>10, <1>14, <2>3 DEF ShowsRound
    <3>2. p = "reveal" => app.reveal = r
      BY <1>4, <1>11, <2>3 DEF ShowsReveal
    <3>3. HostGameplay(app) =
            HostShow("quiz", r, app.room.phase = "reveal" /\ app.reveal = r)
      BY <1>5, <3>1 DEF HostGameplay
    <3>4. QED
      BY <1>8, <2>1, <2>2, <2>3, <3>2, <3>3
  <2>4. CASE Kinds[r] # "quiz"
    <3>1. app.content = r
      BY <1>10, <1>14, <2>4 DEF ShowsRound
    <3>2. p = "reveal" => app.roundReveal = r
      BY <1>4, <1>11, <2>4 DEF ShowsReveal
    <3>3. HostGameplay(app) =
            HostShow("game", r, app.room.phase = "reveal" /\ app.roundReveal = r)
      BY <1>5, <3>1 DEF HostGameplay
    <3>4. QED
      BY <1>8, <2>1, <2>2, <2>4, <3>2, <3>3
  <2>5. QED
    BY <2>3, <2>4
<1>15. CASE p = "leaderboard"
  <2>1. ExpectedOnHost(cue) = HostShow("board", 0, FALSE)
    BY <1>12, <1>15 DEF ExpectedOnHost
  <2>2. HostScreen(app) = HostShow("board", 0, FALSE)
    BY <1>2, <1>8, <1>15 DEF HostScreen, OverOnce
  <2>3. QED
    BY <1>12, <1>15, <2>1, <2>2
<1>16. CASE p = "game-over"
  <2>1. ExpectedOnHost(cue) = HostShow("over", 0, FALSE)
    BY <1>12, <1>16 DEF ExpectedOnHost
  <2>2. HostScreen(app) = HostShow("over", 0, FALSE)
    BY <1>2, <1>8, <1>16 DEF HostScreen
  <2>3. QED
    BY <2>1, <2>2
<1>17. QED
  BY <1>4, <1>12, <1>13, <1>14, <1>15, <1>16 DEF Phases

\* A host that has heard all there is shows the lobby with the room's flow, and
\* then the round and the phase the game is at (hostSocketReducer, App).
THEOREM HostShows == Spec => []HostShowsGame
<1>1. HostFollows /\ OverOnce => HostShowsGame
  BY ShowsLobby, ShowsGame DEF HostShowsGame
<1>2. HostFollows => HostTypeOK
  BY DEF HostFollows
<1>3. QED
  BY <1>1, <1>2, HostFollowsInit, HostFollowsStep, OverOnceInit, OverOnceStep,
     PTL DEF Spec

-------------------------------------------------------------------------------
(* A stored flow is what an edited one comes to, and comes to itself. *)

LEMMA StepsStay ==
  ASSUME NEW k \in Nat
  PROVE  Stepped(k * TimeStep) = k * TimeStep
<1>1. TimeStep \in Nat /\ TimeStep > 0
  BY FlowAssumption
<1> DEFINE v == 2 * (k * TimeStep) + TimeStep
           d == 2 * TimeStep
<1>2. v = d * k + TimeStep /\ v \in Nat /\ d \in Nat /\ d > 0
  BY <1>1
<1>3. v \div d = k
  <2>1. TimeStep < d
    BY <1>1
  <2> HIDE DEF v, d
  <2>2. \A q \in Int : d * q <= v /\ v < d * (q + 1) => q = k
    BY <1>1, <1>2, <2>1
  <2>3. QED
    BY <1>1, <1>2, <2>1, <2>2
<1>4. QED
  BY <1>3 DEF Stepped

LEMMA BoundsAreSteps ==
  /\ \E k \in Nat : MinTime = k * TimeStep
  /\ \E k \in Nat : MaxTime = k * TimeStep
  /\ MinTime \in Nat /\ MaxTime \in Nat /\ 0 < MinTime /\ MinTime <= MaxTime
<1>1. TimeStep \in Nat /\ TimeStep > 0
  BY FlowAssumption
<1>2. /\ MinTime \in Nat /\ 0 < MinTime /\ MinTime % TimeStep = 0
      /\ MaxTime \in Nat /\ MaxTime % TimeStep = 0
  BY FlowAssumption
<1>3. MinTime = (MinTime \div TimeStep) * TimeStep /\ MinTime \div TimeStep \in Nat
  BY <1>1, <1>2
<1>4. MaxTime = (MaxTime \div TimeStep) * TimeStep /\ MaxTime \div TimeStep \in Nat
  BY <1>1, <1>2
<1>5. MinTime <= MaxTime
  <2>1. PICK b \in Minigames : TRUE
    BY FlowAssumption
  <2>2. DefaultTimes[b] \in MinTime..MaxTime
    BY FlowAssumption
  <2>3. QED
    BY <1>2, <2>2
<1>6. QED
  BY <1>2, <1>3, <1>4, <1>5

LEMMA TimesSettle ==
  ASSUME NEW v \in Nat, NEW time, time = Clamped(Stepped(v), MinTime, MaxTime)
  PROVE  time \in Nat /\ time > 0 /\ Clamped(Stepped(time), MinTime, MaxTime) = time
<1>1. /\ MinTime \in Int /\ MaxTime \in Int /\ 0 < MinTime /\ MinTime <= MaxTime
  BY BoundsAreSteps
<1>2. \E k \in Nat : Stepped(v) = k * TimeStep
  <2>1. TimeStep \in Nat /\ TimeStep > 0
    BY FlowAssumption
  <2>2. (2 * v + TimeStep) \div (2 * TimeStep) \in Nat
    BY <2>1
  <2>3. QED
    BY <2>2 DEF Stepped
<1>3. Stepped(v) \in Int
  BY SteppedIn
<1>4. time = Max({MinTime, Min({MaxTime, Stepped(v)})})
  BY DEF Clamped
<1>5. Min({MaxTime, Stepped(v)}) \in {MaxTime, Stepped(v)}
  BY <1>1, <1>3, MinOf
<1>6. time \in {MinTime, MaxTime, Stepped(v)}
  BY <1>1, <1>3, <1>4, <1>5, MaxOf
<1>7. time \in Int /\ MinTime <= time /\ time <= MaxTime
  BY <1>1, <1>3, ClampedIn
<1>8. PICK k \in Nat : time = k * TimeStep
  BY <1>2, <1>6, BoundsAreSteps
<1>9. Stepped(time) = time
  BY <1>8, StepsStay
<1>10. Clamped(time, MinTime, MaxTime) = time
  BY <1>1, <1>7, ClampedIn
<1>11. QED
  BY <1>1, <1>7, <1>9, <1>10

LEMMA ItemIsStoredAs ==
  ASSUME NEW item \in Items, item.block \in Catalog
  PROVE  IsItemStoredAs(item, ToStored(item))
<1>1. CASE item.block \in Minigames
  BY <1>1 DEF IsItemStoredAs, ToStored, Item, ClampMinigameTime
<1>2. CASE item.block \notin Minigames
  <2> DEFINE shown == IF item.questions = 0 THEN DefaultQuestions ELSE item.questions
             there == Available[item.block]
  <2>1. item.block \in Themes /\ there \in Nat /\ there > 0
    BY <1>2, BlocksAre DEF Catalog
  <2>2. shown \in 1..MaxQuestions /\ MaxQuestions \in Nat
    BY FlowAssumption DEF Items
  <2>3. ToStored(item).block = item.block
        /\ ToStored(item).questions = Clamped(shown, 1, Min({MaxQuestions, there}))
    BY <1>2 DEF ToStored, Item
  <2> HIDE DEF shown, there
  <2>4. Clamped(shown, 1, Min({MaxQuestions, there})) = Min({shown, there})
    <3> DEFINE most == Min({MaxQuestions, there})
    <3>1. most = (IF MaxQuestions <= there THEN MaxQuestions ELSE there)
      BY <2>1, <2>2, MinOf
    <3>2. most \in Int
      BY <2>1, <2>2, <3>1
    <3> HIDE DEF most
    <3>3. Min({most, shown}) = (IF most <= shown THEN most ELSE shown)
          /\ Min({most, shown}) \in Int
      BY <2>2, <3>2, MinOf
    <3>4. Min({shown, there}) = IF shown <= there THEN shown ELSE there
      BY <2>1, <2>2, MinOf
    <3>5. Min({most, shown}) = Min({shown, there}) /\ Min({most, shown}) >= 1
      BY <2>1, <2>2, <3>1, <3>3, <3>4
    <3>6. Clamped(shown, 1, most) = Max({1, Min({most, shown})})
      BY DEF Clamped
    <3>7. Max({1, Min({most, shown})}) = Min({most, shown})
      BY <3>3, <3>5, MaxOf
    <3>8. QED
      BY <3>5, <3>6, <3>7 DEF most
  <2>5. QED
    BY <1>2, <2>3, <2>4 DEF IsItemStoredAs, Wanted, shown, there
<1>3. QED
  BY <1>1, <1>2

LEMMA NormalizedIsStoredAs ==
  ASSUME NEW flow \in Flows
  PROVE  IsStoredAs(flow, NormalizeForStorage(flow))
<1> DEFINE n == Len(flow)
           playable(k) == {i \in 1..k : flow[i].block \in Catalog}
           count(k) == Cardinality(playable(k))
<1>1. n \in Nat /\ \A i \in 1..n : flow[i] \in Items
  BY DEF Flows
<1>2. PICK turn \in [0..n -> Flows] :
        /\ turn[0] = <<>>
        /\ \A i \in 1..n : turn[i] = StoreItem(turn[i - 1], flow[i])
        /\ NormalizeForStorage(flow) = turn[n]
  BY StoredByItem
<1>3. ASSUME NEW k \in Nat
      PROVE  /\ IsFiniteSet(playable(k)) /\ count(k) \in Nat
             /\ \A i \in playable(k) : count(i) \in 1..count(k)
  <2>1. \A j \in Nat : IsFiniteSet(playable(j)) /\ count(j) \in Nat
    <3> TAKE j \in Nat
    <3>1. IsFiniteSet(1..j) /\ playable(j) \subseteq 1..j
      BY FS_Interval
    <3>2. IsFiniteSet(playable(j))
      BY <3>1, FS_Subset
    <3>3. QED
      BY <3>2, FS_CardinalityType
  <2>2. ASSUME NEW i \in playable(k) PROVE count(i) \in 1..count(k)
    <3>1. i \in Nat /\ playable(i) \subseteq playable(k) /\ i \in playable(i)
      OBVIOUS
    <3>2. count(i) <= count(k)
      BY <2>1, <3>1, FS_Subset
    <3>3. count(i) # 0
      BY <2>1, <3>1, FS_EmptySet
    <3>4. count(i) \in Nat /\ count(k) \in Nat
      BY <2>1, <3>1
    <3> HIDE DEF count
    <3>5. QED
      BY <3>2, <3>3, <3>4
  <2>3. QED
    BY <2>1, <2>2
<1>4. ASSUME NEW k \in Nat
      PROVE  /\ flow[k + 1].block \in Catalog =>
                  /\ playable(k + 1) = playable(k) \cup {k + 1}
                  /\ count(k + 1) = count(k) + 1
             /\ flow[k + 1].block \notin Catalog => playable(k + 1) = playable(k)
  <2>1. flow[k + 1].block \in Catalog =>
          playable(k + 1) = playable(k) \cup {k + 1}
    OBVIOUS
  <2>2. flow[k + 1].block \notin Catalog => playable(k + 1) = playable(k)
    OBVIOUS
  <2>3. k + 1 \notin playable(k)
    OBVIOUS
  <2>4. Cardinality(playable(k) \cup {k + 1}) = count(k) + 1
    BY <1>3, <2>3, FS_AddElement
  <2>5. QED
    BY <2>1, <2>2, <2>4
<1>5. playable(0) = {} /\ count(0) = 0
  BY FS_EmptySet
<1> DEFINE stored(k) ==
             /\ Len(turn[k]) = count(k)
             /\ \A i \in playable(k) : IsItemStoredAs(flow[i], turn[k][count(i)])
           K == {k \in Nat : k <= n => stored(k)}
<1>6. 0 \in K
  BY <1>2, <1>5
<1>7. ASSUME NEW k \in Nat, k \in K PROVE k + 1 \in K
  <2> HIDE DEF playable
  <2> SUFFICES ASSUME k + 1 <= n PROVE stored(k + 1)
    OBVIOUS
  <2>1. stored(k) /\ k + 1 \in 1..n /\ turn[k + 1] = StoreItem(turn[k], flow[k + 1])
        /\ turn[k] \in Flows /\ flow[k + 1] \in Items
    BY <1>1, <1>2, <1>7
  <2>2. CASE flow[k + 1].block \notin Catalog
    <3>1. turn[k + 1] = turn[k] /\ playable(k + 1) = playable(k)
      BY <1>4, <2>1, <2>2 DEF StoreItem
    <3>2. QED
      BY <2>1, <3>1
  <2>3. CASE flow[k + 1].block \in Catalog
    <3>1. turn[k + 1] = Append(turn[k], ToStored(flow[k + 1]))
      BY <2>1, <2>3 DEF StoreItem
    <3>2. /\ playable(k + 1) = playable(k) \cup {k + 1}
          /\ count(k + 1) = count(k) + 1
      BY <1>4, <2>3
    <3>3. count(k) \in Nat /\ Len(turn[k]) = count(k)
          /\ \A i \in playable(k) : count(i) \in 1..count(k)
      BY <1>3, <2>1
    <3>4. /\ Len(turn[k + 1]) = count(k) + 1
          /\ \A c \in 1..count(k) : turn[k + 1][c] = turn[k][c]
          /\ turn[k + 1][count(k) + 1] = ToStored(flow[k + 1])
      BY <2>1, <3>1, <3>3 DEF Flows
    <3>5. IsItemStoredAs(flow[k + 1], turn[k + 1][count(k + 1)])
      BY <2>1, <2>3, <3>2, <3>4, ItemIsStoredAs
    <3>6. ASSUME NEW i \in playable(k)
          PROVE  IsItemStoredAs(flow[i], turn[k + 1][count(i)])
      BY <2>1, <3>3, <3>4
    <3>7. QED
      BY <3>2, <3>4, <3>5, <3>6
  <2>4. QED
    BY <2>2, <2>3
<1> HIDE DEF K
<1>8. n \in K
  BY <1>1, <1>6, <1>7, CountUp
<1>9. stored(n)
  BY <1>1, <1>8 DEF K
<1>10. QED
  BY <1>2, <1>9 DEF IsStoredAs

\* What a row may hold: items of the catalog as they are stored.
StoredItems == {ToStored(item) : item \in {i \in Items : i.block \in Catalog}}
StoredFlows == Seq(StoredItems)

LEMMA StoredTyped == StoredItems \subseteq Items /\ StoredFlows \subseteq Flows
<1>1. StoredItems \subseteq Items
  BY StoredItem DEF StoredItems
<1>2. QED
  BY <1>1 DEF StoredFlows, Flows

LEMMA NormalizedIsStored ==
  ASSUME NEW flow \in Flows
  PROVE  NormalizeForStorage(flow) \in StoredFlows
<1> DEFINE n == Len(flow)
<1>1. n \in Nat /\ \A i \in 1..n : flow[i] \in Items
  BY DEF Flows
<1>2. PICK turn \in [0..n -> Flows] :
        /\ turn[0] = <<>>
        /\ \A i \in 1..n : turn[i] = StoreItem(turn[i - 1], flow[i])
        /\ NormalizeForStorage(flow) = turn[n]
  BY StoredByItem
<1> DEFINE K == {k \in Nat : k <= n => turn[k] \in StoredFlows}
<1>3. 0 \in K
  <2>1. <<>> \in StoredFlows
    BY DEF StoredFlows
  <2>2. QED
    BY <1>2, <2>1
<1>4. ASSUME NEW k \in Nat, k \in K PROVE k + 1 \in K
  <2> SUFFICES ASSUME k + 1 <= n PROVE turn[k + 1] \in StoredFlows
    OBVIOUS
  <2>1. /\ turn[k] \in StoredFlows /\ turn[k + 1] = StoreItem(turn[k], flow[k + 1])
        /\ flow[k + 1] \in Items
    BY <1>1, <1>2, <1>4
  <2>2. flow[k + 1].block \in Catalog => ToStored(flow[k + 1]) \in StoredItems
    BY <2>1 DEF StoredItems
  <2>3. QED
    BY <2>1, <2>2 DEF StoreItem, StoredFlows
<1> HIDE DEF K
<1>5. n \in K
  BY <1>1, <1>3, <1>4, CountUp
<1>6. QED
  BY <1>1, <1>2, <1>5 DEF K

LEMMA RandomizedIsStored == Randomized(DefaultSize) \subseteq StoredFlows
<1> DEFINE size == Clamped(DefaultSize, MinBlocks, MaxBlocks)
           stored(picks) == [i \in 1..size |-> ToStored(Item(picks[i], 0, 0))]
<1>1. Randomized(DefaultSize) =
        {stored(picks) : picks \in RandomPicks(Catalog, size)}
  BY DEF Randomized
<1>2. size \in Nat
  <2>1. /\ DefaultSize \in Int /\ MinBlocks \in Int /\ MaxBlocks \in Int
        /\ MinBlocks >= 0
    BY FlowAssumption
  <2>2. size \in Int /\ size >= MinBlocks
    BY <2>1, ClampedIn
  <2> HIDE DEF size
  <2>3. QED
    BY <2>1, <2>2
<1> HIDE DEF size
<1> SUFFICES ASSUME NEW picks \in RandomPicks(Catalog, size)
             PROVE  stored(picks) \in StoredFlows
  BY <1>1
<1>3. \A i \in 1..size : picks[i] \in Catalog
  BY <1>2, PicksAre DEF Blocks
<1>4. \A b \in Catalog : ToStored(Item(b, 0, 0)) \in StoredItems
  <2>1. \A b \in Catalog : Item(b, 0, 0) \in Items /\ Item(b, 0, 0).block = b
    BY BlocksAre, CreatedItem DEF Item
  <2>2. QED
    BY <2>1 DEF StoredItems
<1>5. QED
  BY <1>2, <1>3, <1>4 DEF StoredFlows

(* An item of a row, shown by the editor and stored again, is the same item. *)
LEMMA StoredAgain ==
  ASSUME NEW stored \in StoredItems
  PROVE  LET shown == [stored EXCEPT !.time =
                         IF @ = 0 /\ stored.block \in Minigames
                         THEN DefaultTimes[stored.block] ELSE @]
         IN  /\ shown \in Items /\ shown.block \in Catalog
             /\ ToStored(shown) = stored
<1>1. PICK item \in Items : item.block \in Catalog /\ stored = ToStored(item)
  BY DEF StoredItems
<1>2. CASE item.block \in Minigames
  <2> DEFINE asked == IF item.time = 0 THEN DefaultTimes[item.block] ELSE item.time
             time == Clamped(Stepped(asked), MinTime, MaxTime)
  <2>1. asked \in Nat
    BY <1>2, BlocksAre DEF Items
  <2>2. time \in Nat /\ time > 0 /\ Clamped(Stepped(time), MinTime, MaxTime) = time
    BY <2>1, TimesSettle
  <2>3. stored = Item(item.block, 0, time)
    BY <1>1, <1>2 DEF ToStored
  <2> HIDE DEF time, asked
  <2>4. stored = [block |-> item.block, questions |-> 0, time |-> time]
    BY <2>3 DEF Item
  <2>5. stored \in Items
    BY StoredTyped
  <2>6. [stored EXCEPT !.time = IF @ = 0 /\ stored.block \in Minigames
                                THEN DefaultTimes[stored.block] ELSE @] = stored
    BY <2>2, <2>4
  <2>7. ToStored(stored) = stored
    BY <1>2, <2>2, <2>4 DEF ToStored, Item
  <2>8. QED
    BY <1>1, <2>4, <2>5, <2>6, <2>7
<1>3. CASE item.block \notin Minigames
  <2> DEFINE asked == IF item.questions = 0 THEN DefaultQuestions
                                            ELSE item.questions
             most == Min({MaxQuestions, Available[item.block]})
             count == Clamped(asked, 1, most)
  <2>1. /\ item.block \in Themes /\ Available[item.block] \in Nat
        /\ Available[item.block] > 0
    BY <1>1, <1>3, BlocksAre DEF Catalog
  <2>2. asked \in Int /\ MaxQuestions \in Nat /\ MaxQuestions > 0
    BY FlowAssumption DEF Items
  <2>3. most \in Int /\ 1 <= most
    BY <2>1, <2>2, MinOf
  <2>4. stored = Item(item.block, count, 0)
    BY <1>1, <1>3 DEF ToStored
  <2> HIDE DEF asked, most
  <2>5. count \in Int /\ 1 <= count /\ count <= most
    BY <2>2, <2>3, ClampedIn
  <2> HIDE DEF count
  <2>6. Clamped(count, 1, most) = count
    BY <2>3, <2>5, ClampedIn
  <2>7. stored = [block |-> item.block, questions |-> count, time |-> 0]
    BY <2>4 DEF Item
  <2>8. stored \in Items
    BY StoredTyped
  <2>9. [stored EXCEPT !.time = IF @ = 0 /\ stored.block \in Minigames
                                THEN DefaultTimes[stored.block] ELSE @] = stored
    BY <1>3, <2>7
  <2>10. ToStored(stored) = Item(item.block, Clamped(count, 1, most), 0)
    BY <1>3, <2>5, <2>7 DEF ToStored, most
  <2>11. QED
    BY <1>1, <2>4, <2>6, <2>7, <2>8, <2>9, <2>10
<1>4. QED
  BY <1>2, <1>3

(* What a row holds is what it would be stored as. *)
LEMMA StoredFlowsAreFixed ==
  ASSUME NEW stored \in StoredFlows
  PROVE  /\ ToFlowItems(stored) \in Flows
         /\ NormalizeForStorage(ToFlowItems(stored)) = stored
<1> DEFINE flow == ToFlowItems(stored)
           n == Len(stored)
<1>1. n \in Nat /\ DOMAIN stored = 1..n /\ \A i \in 1..n : stored[i] \in StoredItems
  BY DEF StoredFlows
<1>2. flow \in Flows
  BY StoredTyped, MountedFlow
<1>3. DOMAIN flow = 1..n /\ Len(flow) = n
  BY <1>1 DEF ToFlowItems
<1>4. \A i \in 1..n : flow[i].block \in Catalog /\ ToStored(flow[i]) = stored[i]
  BY <1>1, StoredAgain DEF ToFlowItems
<1> HIDE DEF flow
<1>5. PICK turn \in [0..n -> Flows] :
        /\ turn[0] = <<>>
        /\ \A i \in 1..n : turn[i] = StoreItem(turn[i - 1], flow[i])
        /\ NormalizeForStorage(flow) = turn[n]
  BY <1>2, <1>3, StoredByItem
<1> DEFINE K == {k \in Nat : k <= n => Len(turn[k]) = k
                                       /\ \A i \in 1..k : turn[k][i] = stored[i]}
<1>6. 0 \in K
  BY <1>5
<1>7. ASSUME NEW k \in Nat, k \in K PROVE k + 1 \in K
  <2> SUFFICES ASSUME k + 1 <= n
               PROVE  /\ Len(turn[k + 1]) = k + 1
                      /\ \A i \in 1..(k + 1) : turn[k + 1][i] = stored[i]
    OBVIOUS
  <2>1. /\ k + 1 \in 1..n /\ turn[k] \in Flows /\ Len(turn[k]) = k
        /\ \A i \in 1..k : turn[k][i] = stored[i]
    BY <1>5, <1>7
  <2>2. turn[k + 1] = StoreItem(turn[k], flow[k + 1])
    BY <1>5, <2>1
  <2>3. turn[k + 1] = Append(turn[k], stored[k + 1])
    BY <1>4, <2>1, <2>2 DEF StoreItem
  <2>4. QED
    BY <2>1, <2>3 DEF Flows
<1> HIDE DEF K
<1>8. n \in K
  BY <1>1, <1>6, <1>7, CountUp
<1>9. /\ turn[n] \in Flows /\ Len(turn[n]) = n
      /\ \A i \in 1..n : turn[n][i] = stored[i]
  BY <1>1, <1>5, <1>8 DEF K
<1>10. turn[n] = stored
  <2>1. turn[n] \in Seq(Items) /\ stored \in Seq(Items)
    BY <1>9, StoredTyped DEF Flows
  <2>2. /\ Len(turn[n]) = Len(stored)
        /\ \A i \in 1..Len(stored) : turn[n][i] = stored[i]
    BY <1>9
  <2>3. QED
    BY <2>1, <2>2
<1>11. QED
  BY <1>2, <1>5, <1>10 DEF flow

\* Once opened the editor shows what is stored.
LEMMA MountedIsStoredAs ==
  ASSUME NEW stored \in StoredFlows
  PROVE  IsStoredAs(ToFlowItems(stored), stored)
BY StoredFlowsAreFixed, NormalizedIsStoredAs

-------------------------------------------------------------------------------
(* The last save. *)

RowsAreStored ==
  /\ row.flow \in StoredFlows /\ game.row.flow \in StoredFlows
  /\ \A t \in tasks : t.flow \in StoredFlows /\ t.row.flow \in StoredFlows
SavesAreSent ==
  /\ \A s \in saves : s.n <= sent
  /\ \A t \in tasks : t.n <= sent

\* The editor shows what it has sent last, or what it was opened with; and that
\* is what comes to be in the row.
IsQuiet == editor.open /\ ~editor.unsaved /\ ~behind
LastSave(s) == s.n = sent
LastTask(t) == t.op = "flow" /\ t.n = sent
LastIsShown ==
  IsQuiet =>
    /\ \A s \in saves : LastSave(s) => s.flow = editor.flow
    /\ \A t \in tasks : LastTask(t) => t.flow = NormalizeForStorage(editor.flow)
LastArrives ==
  IsQuiet /\ ~raced =>
    \/ \E s \in saves : LastSave(s)
    \/ \E t \in tasks : LastTask(t)
    \/ IsStoredAs(editor.flow, row.flow)
EditsArrive ==
  HostTypeOK /\ RowsAreStored /\ SavesAreSent /\ LastIsShown /\ LastArrives

LEMMA RowsStayStored ==
  ASSUME HostTypeOK, RowsAreStored, Next
  PROVE  RowsAreStored'
<1> USE DEF RowsAreStored
<1>0. /\ <<>> \in StoredFlows /\ row \in Rows /\ game \in Games /\ game.row \in Rows
      /\ \A t \in tasks : t \in Tasks /\ t.row \in Rows
  BY DEF StoredFlows, HostTypeOK, ServerTypeOK, Games, Tasks
<1>1. CASE UNCHANGED <<row, game, tasks>>
  BY <1>1
<1>2. CASE Page \/ Receive \/ Open \/ Edit \/ PlayersChange
  BY <1>1, <1>2 DEF Page, Receive, Open, Edit, PlayersChange, srvVars
<1>3. CASE Leave \/ Drop \/ LoadPage
  <2>1. Leaves /\ UNCHANGED <<row, game>>
    BY <1>3 DEF Leave, Drop, LoadPage
  <2>2. \A t \in tasks :
          LET u == [t EXCEPT !.op = IF @ = "connect" THEN "late" ELSE @]
          IN  u.flow = t.flow /\ u.row = t.row
    BY <1>0 DEF Tasks
  <2>3. \A u \in tasks' : \E t \in tasks : u.flow = t.flow /\ u.row = t.row
    BY <2>1, <2>2 DEF Leaves
  <2>4. QED
    BY <2>1, <2>3
<1>4. CASE HandleHost \/ HandleStart
  <2>1. /\ UNCHANGED <<row, game>>
        /\ tasks' \subseteq
             tasks \cup {Task("connect", 0, <<>>), Task("start", 0, <<>>)}
    BY <1>4 DEF HandleHost, HandleStart
  <2>2. QED
    BY <1>0, <2>1 DEF Task
<1>5. CASE BuildRounds
  <2>1. /\ game'.row = row /\ row'.flow = row.flow /\ tasks' = tasks
    BY <1>0, <1>5 DEF BuildRounds, Rows, Games
  <2>2. QED
    BY <2>1
<1>6. CASE Broadcast
  <2>1. /\ tasks' = tasks
        /\ row' \in {row, game.row, [game.row EXCEPT !.status = "finished"]}
        /\ game' \in {game, [game EXCEPT !.at = "over"]}
    BY <1>6 DEF Broadcast, SaveRow
  <2>2. row'.flow \in {row.flow, game.row.flow} /\ game'.row = game.row
    BY <1>0, <2>1 DEF Rows, Games
  <2>3. QED
    BY <2>1, <2>2
<1>7. CASE ExpireHost
  BY <1>0, <1>7 DEF ExpireHost, Rows
<1>8. ASSUME NEW s \in saves, HandleSave(s) PROVE RowsAreStored'
  <2>1. /\ UNCHANGED <<row, game>>
        /\ tasks' \subseteq tasks \cup
             {Task("flow", s.n, NormalizeForStorage(s.flow))}
    BY <1>8 DEF HandleSave
  <2>2. NormalizeForStorage(s.flow) \in StoredFlows
    BY NormalizedIsStored DEF HostTypeOK, EditorTypeOK
  <2>3. QED
    BY <2>1, <2>2 DEF Task
<1>9. ASSUME NEW s \in saves, LoseSave(s) PROVE RowsAreStored'
  BY <1>1, <1>9 DEF LoseSave, srvVars
<1>10. ASSUME NEW t \in tasks, StoreHost(t) \/ StoreFlow(t) PROVE RowsAreStored'
  <2>1. /\ tasks' \subseteq tasks /\ game' = game
        /\ row' \in {t.row, [t.row EXCEPT !.flow = t.flow]}
    BY <1>10 DEF StoreHost, StoreFlow, SaveRow
  <2>2. row'.flow \in {t.row.flow, t.flow}
    BY <1>0, <2>1 DEF Rows
  <2>3. QED
    BY <2>1, <2>2
<1>11. ASSUME NEW t \in tasks, StoreStart(t) PROVE RowsAreStored'
  <2>1. /\ tasks' \subseteq tasks
        /\ row' \in {row, [t.row EXCEPT !.status = "active"]}
        /\ game' = game \/ game' = [game EXCEPT !.at = "load"]
    BY <1>11 DEF StoreStart, SaveRow
  <2>2. row'.flow \in {row.flow, t.row.flow}
    BY <1>0, <2>1 DEF Rows
  <2>3. game'.row = game.row
    BY <1>0, <2>1 DEF Games
  <2>4. QED
    BY <2>1, <2>2, <2>3
<1>12. QED
  BY <1>2, <1>3, <1>4, <1>5, <1>6, <1>7, <1>8, <1>9, <1>10, <1>11 DEF Next

LEMMA SavesStaySent ==
  ASSUME HostTypeOK, SavesAreSent, Next
  PROVE  SavesAreSent'
<1> USE DEF SavesAreSent
<1>0. sent \in Nat /\ (\A t \in tasks : t \in Tasks /\ t.n \in Nat)
      /\ (\A s \in saves : s.n \in Nat)
  BY DEF HostTypeOK, EditorTypeOK, ServerTypeOK, Tasks
<1>1. ASSUME sent' = sent, saves' \subseteq saves,
             \A t \in tasks' : t.n = 0 \/ \E u \in tasks \cup saves : t.n = u.n
      PROVE  SavesAreSent'
  BY <1>0, <1>1
<1>2. CASE Autosave /\ tasks' = tasks
  BY <1>0, <1>2 DEF Autosave
<1>3. CASE Page \/ Receive \/ Open \/ Edit \/ PlayersChange
  <2>1. tasks' = tasks
    BY <1>3 DEF Page, Receive, Open, Edit, PlayersChange, srvVars
  <2>2. CASE ~Autosave
    <3>1. UNCHANGED <<saves, sent>>
      BY <1>3, <2>2 DEF Page, Receive, Open, Edit, PlayersChange, HostConnects,
         HostOpened, CloseEditor, FetchCatalog, ClickStart, HostReceives,
         OpenEditor, EditFlow, tabVars
    <3>2. QED
      BY <1>1, <2>1, <3>1
  <2>3. QED
    BY <1>2, <2>1, <2>2
<1>4. CASE Leave \/ Drop \/ LoadPage
  <2>1. Leaves /\ UNCHANGED <<saves, sent>>
    BY <1>4 DEF Leave, LeavePage, Drop, LoadPage
  <2>2. \A t \in tasks :
          [t EXCEPT !.op = IF @ = "connect" THEN "late" ELSE @].n = t.n
    BY <1>0 DEF Tasks
  <2>3. QED
    BY <1>1, <2>1, <2>2 DEF Leaves
<1>5. CASE HandleHost \/ HandleStart
  <2>1. /\ UNCHANGED <<saves, sent>>
        /\ tasks' \subseteq
             tasks \cup {Task("connect", 0, <<>>), Task("start", 0, <<>>)}
    BY <1>5 DEF HandleHost, HandleStart, tabVars
  <2>2. QED
    BY <1>1, <2>1 DEF Task
<1>6. CASE BuildRounds \/ Broadcast \/ ExpireHost
  BY <1>1, <1>6 DEF BuildRounds, Broadcast, ExpireHost, hostVars, tabVars
<1>7. ASSUME NEW s \in saves, HandleSave(s) \/ LoseSave(s) PROVE SavesAreSent'
  <2>1. /\ sent' = sent /\ saves' \subseteq saves
        /\ tasks' \subseteq tasks \cup
             {Task("flow", s.n, NormalizeForStorage(s.flow))}
    BY <1>7 DEF HandleSave, LoseSave, srvVars
  <2>2. QED
    BY <1>1, <2>1 DEF Task
<1>8. ASSUME NEW t \in tasks, StoreHost(t) \/ StoreFlow(t) \/ StoreStart(t)
      PROVE  SavesAreSent'
  BY <1>1, <1>8 DEF StoreHost, StoreFlow, StoreStart, tabVars
<1>9. QED
  BY <1>3, <1>4, <1>5, <1>6, <1>7, <1>8 DEF Next

\* What the editor shows, what is under way and what is stored are left alone,
\* or a task of no save is begun.
LEMMA SavesLeftAlone ==
  ASSUME EditsArrive, sent' = sent, saves' = saves,
         \A t : LastTask(t)' /\ t \in tasks' <=> LastTask(t) /\ t \in tasks,
         IsQuiet' => IsQuiet /\ editor'.flow = editor.flow,
         ~raced' => ~raced /\ row'.flow = row.flow
  PROVE  LastIsShown' /\ LastArrives'
<1>1. LastIsShown'
  BY DEF EditsArrive, LastIsShown, LastSave
<1>2. (IsStoredAs(editor.flow, row.flow))' =
        IsStoredAs(editor'.flow, row'.flow)
  BY DEF IsStoredAs, IsItemStoredAs
<1>3. LastArrives'
  BY <1>2 DEF EditsArrive, LastArrives, LastSave
<1>4. QED
  BY <1>1, <1>3

LEMMA NotQuiet ==
  ASSUME ~IsQuiet'
  PROVE  LastIsShown' /\ LastArrives'
BY DEF LastIsShown, LastArrives

\* The page's own steps.
LEMMA EditorStays ==
  ASSUME EditsArrive, ~Autosave,
         Page \/ Receive \/ Edit \/ Leave \/ Drop \/ LoadPage
  PROVE  LastIsShown' /\ LastArrives'
<1>1. editor \in Editors
  BY DEF EditsArrive, HostTypeOK, EditorTypeOK
<1>2. CASE Leave \/ Drop \/ LoadPage
  <2>1. editor' = NoEditor
    BY <1>2 DEF Leave, LeavePage, Drop, LoadPage, HostClosed
  <2>2. QED
    BY <2>1, NotQuiet DEF IsQuiet, NoEditor
<1>3. CASE Edit
  <2>1. editor.open /\ editor' \in {Edited(editor, flow) : flow \in Edits(editor)}
    BY <1>3 DEF Edit, EditFlow
  <2>2. editor \in OpenEditors
    BY <1>1, <2>1 DEF Editors, NoEditor
  <2>3. editor'.unsaved
    BY <2>1, <2>2 DEF Edited, OpenEditors
  <2>4. QED
    BY <2>3, NotQuiet DEF IsQuiet
<1>4. CASE Page \/ Receive
  <2>1. /\ UNCHANGED <<row, tasks, raced, saves, sent>>
        /\ behind' = (behind /\ editor'.open)
    BY <1>4 DEF Page, Receive, srvVars, HostConnects, HostOpened, CloseEditor,
       FetchCatalog, ClickStart, HostReceives, tabVars
  <2>2. IsQuiet' => editor.open /\ ~editor.unsaved /\ editor'.flow = editor.flow
    <3>1. CASE editor' \in {editor, NoEditor}
      BY <3>1 DEF IsQuiet, NoEditor
    <3>2. CASE FetchCatalog
      <4>1. editor \in OpenEditors
        BY <1>1, <3>2 DEF FetchCatalog, Editors, NoEditor
      <4>2. PICK blocks \in {Catalog, Palette} :
              LET got == [editor EXCEPT !.catalog = blocks, !.fetch = "none"]
              IN  \/ editor' = got
                  \/ \E flow : editor' = Edited(got, flow)
        BY <3>2 DEF FetchCatalog, Fetched
      <4>3. \/ editor'.unsaved = editor.unsaved /\ editor'.flow = editor.flow
            \/ editor'.unsaved
        BY <4>1, <4>2 DEF OpenEditors, Edited
      <4>4. QED
        BY <4>1, <4>3 DEF IsQuiet, OpenEditors
    <3>3. CASE Receive
      <4>1. editor' \in {NoEditor, Rerendered(editor, app'.room.flow)}
        BY <3>3 DEF Receive, HostReceives, LobbyAfter
      <4>2. CASE editor \in OpenEditors
        BY <4>1, <4>2 DEF Rerendered, IsQuiet, OpenEditors, NoEditor
      <4>3. CASE editor = NoEditor
        BY <4>1, <4>3 DEF Rerendered, IsQuiet, NoEditor
      <4>4. QED
        BY <1>1, <4>2, <4>3 DEF Editors
    <3>4. CASE HostConnects \/ HostOpened \/ ClickStart \/ CloseEditor
      BY <3>1, <3>4 DEF HostConnects, HostOpened, ClickStart, CloseEditor, tabVars
    <3>5. QED
      BY <1>4, <3>2, <3>3, <3>4 DEF Page
  <2>3. IsQuiet' => IsQuiet /\ editor'.flow = editor.flow
    BY <2>1, <2>2 DEF IsQuiet
  <2>4. QED
    BY <2>1, <2>3, SavesLeftAlone DEF LastTask
<1>5. QED
  BY <1>2, <1>3, <1>4

\* The editor is opened on what the row holds, or on what is not yet heard.
LEMMA OpenedIsStored ==
  ASSUME HostFollows, EditsArrive, Open
  PROVE  LastIsShown' /\ LastArrives'
<1>1. /\ editor' = Mounted(app.room.flow) /\ behind' = UnderWay
      /\ InLobby(app) /\ UNCHANGED <<row, tasks, saves>>
      /\ ~raced' => ~raced \/ app.room.flow = row.flow
  BY DEF Open, OpenEditor, srvVars
<1>2. CASE UnderWay
  BY <1>1, <1>2, NotQuiet DEF IsQuiet
<1>3. CASE ~UnderWay
  <2>1. saves = {} /\ tasks = {} /\ inbox = <<>> /\ ~Calling
    BY <1>3 DEF UnderWay, Calling
  <2>2. joined
    <3>1. HostScreen(app).what = "lobby"
      BY <1>1 DEF InLobby
    <3>2. app.room.known
      BY <3>1 DEF HostScreen, HostShow
    <3>3. QED
      BY <3>2 DEF HostFollows, HostIsLinked, NoRoom
  <2>3. ~raced => app.room.flow = row.flow
    BY <2>1, <2>2, NothingUnderWay DEF HostFollows, FlowComes
  <2>4. ~raced' => editor'.flow = ToFlowItems(row.flow)
    BY <1>1, <2>3 DEF Mounted
  <2>5. IsStoredAs(ToFlowItems(row.flow), row.flow)
    BY MountedIsStoredAs DEF EditsArrive, RowsAreStored
  <2>6. ~raced' => IsStoredAs(editor.flow, row.flow)'
    BY <1>1, <2>4, <2>5 DEF IsStoredAs, IsItemStoredAs
  <2>7. QED
    BY <1>1, <2>1, <2>6 DEF LastIsShown, LastArrives
<1>4. QED
  BY <1>2, <1>3

LEMMA SentIsLast ==
  ASSUME EditsArrive, Page, Autosave
  PROVE  LastIsShown' /\ LastArrives'
<1>1. /\ editor.unsaved /\ editor' = [editor EXCEPT !.unsaved = FALSE]
      /\ sent' = sent + 1
      /\ saves' = saves \cup {[n |-> sent', flow |-> editor.flow]}
      /\ tasks' = tasks
  BY DEF Autosave, Page, srvVars
<1>2. editor \in OpenEditors
  BY <1>1 DEF EditsArrive, HostTypeOK, EditorTypeOK, Editors, NoEditor
<1>3. editor'.flow = editor.flow
  BY <1>1, <1>2 DEF OpenEditors
<1>4. /\ sent \in Nat /\ (\A s \in saves : s.n \in Nat /\ s.n <= sent)
      /\ \A t \in tasks : t.n \in Nat /\ t.n <= sent
  BY DEF EditsArrive, SavesAreSent, HostTypeOK, EditorTypeOK, ServerTypeOK, Tasks
<1>5. /\ \A s \in saves : s.n # sent'
      /\ \A t \in tasks : t.n # sent'
  BY <1>1, <1>4
<1>6. LastIsShown'
  BY <1>1, <1>3, <1>5 DEF LastIsShown, LastSave, LastTask
<1>7. LastArrives'
  <2>1. [n |-> sent', flow |-> editor.flow] \in saves'
    BY <1>1
  <2>2. \E s \in saves' : s.n = sent'
    BY <2>1
  <2>3. QED
    BY <2>2 DEF LastArrives, LastSave
<1>8. QED
  BY <1>6, <1>7

LEMMA HandledIsLast ==
  ASSUME EditsArrive, NEW s \in saves, HandleSave(s)
  PROVE  LastIsShown' /\ LastArrives'
<1> DEFINE task == Task("flow", s.n, NormalizeForStorage(s.flow))
<1>1. /\ saves' = saves \ {s} /\ UNCHANGED <<editor, behind, row, sent>>
      /\ \/ tasks' = tasks \cup {task} /\ raced' = raced
         \/ tasks' = tasks /\ raced' = TRUE
  BY DEF HandleSave
<1>2. task.op = "flow" /\ task.n = s.n /\ task.flow = NormalizeForStorage(s.flow)
  BY DEF Task
<1> HIDE DEF task
<1>3. IsQuiet' <=> IsQuiet
  BY <1>1 DEF IsQuiet
<1>4. LastIsShown'
  BY <1>1, <1>2, <1>3 DEF EditsArrive, LastIsShown, LastSave, LastTask
<1>5. IsStoredAs(editor.flow, row.flow)' <=> IsStoredAs(editor.flow, row.flow)
  BY <1>1 DEF IsStoredAs, IsItemStoredAs
<1>6. LastArrives'
  BY <1>1, <1>2, <1>3, <1>5 DEF EditsArrive, LastArrives, LastSave, LastTask
<1>7. QED
  BY <1>4, <1>6

LEMMA LostIsRaced ==
  ASSUME EditsArrive, NEW s \in saves, LoseSave(s)
  PROVE  LastIsShown' /\ LastArrives'
<1>1. /\ saves' = saves \ {s} /\ UNCHANGED <<editor, behind, row, tasks, sent>>
      /\ raced' = (raced \/ s.n = sent)
  BY DEF LoseSave, srvVars
<1>2. IsQuiet' <=> IsQuiet
  BY <1>1 DEF IsQuiet
<1>3. LastIsShown'
  BY <1>1, <1>2 DEF EditsArrive, LastIsShown, LastSave, LastTask
<1>4. IsStoredAs(editor.flow, row.flow)' <=> IsStoredAs(editor.flow, row.flow)
  BY <1>1 DEF IsStoredAs, IsItemStoredAs
<1>5. LastArrives'
  BY <1>1, <1>2, <1>4 DEF EditsArrive, LastArrives, LastSave, LastTask
<1>6. QED
  BY <1>3, <1>5

LEMMA StoredIsShown ==
  ASSUME EditsArrive, NEW t \in tasks, StoreFlow(t)
  PROVE  LastIsShown' /\ LastArrives'
<1>1. /\ t.op = "flow" /\ row' = [t.row EXCEPT !.flow = t.flow]
      /\ raced' = (t.n # sent) /\ tasks' = tasks \ {t}
      /\ UNCHANGED <<editor, behind, saves, sent>>
  BY DEF StoreFlow, tabVars
<1>2. IsQuiet' <=> IsQuiet
  BY <1>1 DEF IsQuiet
<1>3. LastIsShown'
  BY <1>1, <1>2 DEF EditsArrive, LastIsShown, LastSave, LastTask
<1>4. row'.flow = t.flow
  <2>1. t.row \in Rows
    BY DEF EditsArrive, HostTypeOK, ServerTypeOK, Tasks
  <2>2. QED
    BY <1>1, <2>1 DEF Rows
<1>5. ASSUME IsQuiet', ~raced' PROVE IsStoredAs(editor.flow, row.flow)'
  <2>1. t.flow = NormalizeForStorage(editor.flow)
    BY <1>1, <1>2, <1>5 DEF EditsArrive, LastIsShown, LastTask
  <2>2. editor.flow \in Flows
    <3>1. editor \in Editors /\ editor.open
      BY <1>2, <1>5 DEF IsQuiet, EditsArrive, HostTypeOK, EditorTypeOK
    <3>2. editor \in OpenEditors
      BY <3>1 DEF Editors, NoEditor
    <3>3. QED
      BY <3>2 DEF OpenEditors
  <2>3. IsStoredAs(editor.flow, t.flow)
    BY <2>1, <2>2, NormalizedIsStoredAs
  <2>4. QED
    BY <1>1, <1>4, <2>3 DEF IsStoredAs, IsItemStoredAs
<1>6. QED
  BY <1>3, <1>5 DEF LastArrives

LEMMA ServerLeavesSaves ==
  ASSUME EditsArrive,
         \/ HandleHost \/ HandleStart \/ BuildRounds \/ Broadcast
         \/ PlayersChange \/ ExpireHost
         \/ \E t \in tasks : StoreHost(t) \/ StoreStart(t)
  PROVE  LastIsShown' /\ LastArrives'
<1>0. /\ row \in Rows /\ game.row \in Rows
      /\ \A t \in tasks : t \in Tasks /\ t.row \in Rows
  BY DEF EditsArrive, HostTypeOK, ServerTypeOK, Games, Tasks
<1>1. /\ UNCHANGED <<saves, sent>> /\ behind' = behind
      /\ editor' \in {editor, NoEditor}
  BY DEF HandleHost, HostClosed, HandleStart, BuildRounds, Broadcast, PlayersChange,
     ExpireHost, StoreHost, StoreStart, hostVars, tabVars, histVars
<1>2. IsQuiet' => IsQuiet /\ editor'.flow = editor.flow
  BY <1>1 DEF IsQuiet, NoEditor
<1>3. \A t : LastTask(t)' /\ t \in tasks' <=> LastTask(t) /\ t \in tasks
  <2>1. CASE HandleHost \/ HandleStart
    <3>1. tasks' \in {tasks, tasks \cup {Task("connect", 0, <<>>)},
                      tasks \cup {Task("start", 0, <<>>)}}
      BY <2>1 DEF HandleHost, HandleStart
    <3>2. QED
      BY <1>1, <3>1 DEF LastTask, Task
  <2>2. CASE BuildRounds \/ Broadcast \/ PlayersChange \/ ExpireHost
    <3>1. tasks' = tasks
      BY <2>2 DEF BuildRounds, Broadcast, PlayersChange, ExpireHost, srvVars
    <3>2. QED
      BY <1>1, <3>1 DEF LastTask
  <2>3. ASSUME NEW t \in tasks, StoreHost(t) \/ StoreStart(t)
        PROVE  \A u : LastTask(u)' /\ u \in tasks' <=> LastTask(u) /\ u \in tasks
    <3>1. tasks' = tasks \ {t} /\ t.op # "flow"
      BY <2>3 DEF StoreHost, StoreStart
    <3>2. QED
      BY <1>1, <3>1 DEF LastTask
  <2>4. QED
    BY <2>1, <2>2, <2>3
<1>4. ~raced' => ~raced /\ row'.flow = row.flow
  <2>1. CASE HandleHost \/ HandleStart \/ PlayersChange
    BY <2>1 DEF HandleHost, HandleStart, PlayersChange, srvVars, histVars
  <2>2. CASE BuildRounds \/ ExpireHost
    BY <1>0, <2>2 DEF BuildRounds, ExpireHost, histVars, Rows
  <2>3. CASE Broadcast
    BY <2>3 DEF Broadcast, SaveRow
  <2>4. ASSUME NEW t \in tasks, StoreHost(t) \/ StoreStart(t)
        PROVE  ~raced' => ~raced /\ row'.flow = row.flow
    BY <2>4 DEF StoreHost, StoreStart, SaveRow
  <2>5. QED
    BY <2>1, <2>2, <2>3, <2>4
<1>5. QED
  BY <1>1, <1>2, <1>3, <1>4, SavesLeftAlone

LEMMA EditsArriveStep ==
  ASSUME HostFollows, EditsArrive, [Next]_vars
  PROVE  EditsArrive'
<1>1. HostTypeOK'
  BY HostTypeStep DEF EditsArrive
<1>2. CASE Next
  <2>1. RowsAreStored' /\ SavesAreSent'
    BY <1>2, RowsStayStored, SavesStaySent DEF EditsArrive
  <2>2. LastIsShown' /\ LastArrives'
    <3>1. CASE Page \/ Receive \/ Edit \/ Leave \/ Drop \/ LoadPage
      <4>1. CASE Autosave /\ ~Page
        <5>1. editor.unsaved /\ ~editor'.unsaved /\ sent' # sent
          BY <4>1 DEF Autosave, EditsArrive, HostTypeOK, EditorTypeOK, Editors,
             OpenEditors, NoEditor
        <5>2. sent' = sent
          BY <3>1, <4>1 DEF Receive, HostReceives, Edit, EditFlow, Leave, LeavePage,
             Drop, LoadPage
        <5>3. QED
          BY <5>1, <5>2
      <4>2. QED
        BY <3>1, <4>1, EditorStays, SentIsLast
    <3>2. QED
      BY <1>2, <3>1, OpenedIsStored, HandledIsLast, LostIsRaced, StoredIsShown,
         ServerLeavesSaves DEF Next
  <2>3. QED
    BY <1>1, <2>1, <2>2 DEF EditsArrive
<1>3. CASE UNCHANGED vars
  <2>1. UNCHANGED <<editor, saves, sent, row, game, tasks, raced, behind>>
    BY <1>3 DEF vars, hostVars, tabVars, srvVars, histVars
  <2>2. RowsAreStored' /\ SavesAreSent'
    BY <2>1 DEF EditsArrive, RowsAreStored, SavesAreSent
  <2>3. LastIsShown' /\ LastArrives'
    BY <2>1, SavesLeftAlone DEF IsQuiet, LastTask
  <2>4. QED
    BY <1>1, <2>2, <2>3 DEF EditsArrive
<1>4. QED
  BY <1>2, <1>3

LEMMA EditsArriveInit == Init => EditsArrive
<1> SUFFICES ASSUME Init PROVE EditsArrive
  OBVIOUS
<1>1. /\ saves = {} /\ tasks = {} /\ editor = NoEditor /\ game.row = row
  BY DEF Init, HostInit, Idle
<1>2. row.flow \in StoredFlows
  BY RandomizedIsStored DEF Init
<1>3. RowsAreStored /\ SavesAreSent
  BY <1>1, <1>2 DEF RowsAreStored, SavesAreSent
<1>4. LastIsShown /\ LastArrives
  BY <1>1 DEF LastIsShown, LastArrives, IsQuiet, NoEditor
<1>5. QED
  BY <1>3, <1>4, HostTypeInit DEF EditsArrive

\* When nothing is under way, the room's flow is the one the editor shows, unless
\* the last save was lost, overtaken or reverted, or the editor was opened on one
\* under way.
THEOREM EditsAreStored == Spec => []EditsSettle
<1>1. EditsArrive => EditsSettle
  BY DEF EditsArrive, LastArrives, EditsSettle, IsQuiet, UnderWay
<1>2. QED
  BY <1>1, HostFollowsInit, HostFollowsStep, EditsArriveInit, EditsArriveStep, PTL
     DEF Spec

-------------------------------------------------------------------------------
(* The rounds of a game are those its flow asks for. *)

\* An item adds rounds of its block to a plan, as many as it asks for and are
\* left, or the one of a minigame.
Adds(plan, item, q) ==
  LET next == PlanItem(plan, item)
      left == plan.left
  IN  /\ next.rounds = plan.rounds \o q
      /\ \A j \in 1..Len(q) : q[j].block = item.block
      /\ item.block \in Themes =>
           /\ Len(q) = Min({Wanted(item), left[item.block]})
           /\ \A j \in 1..Len(q) : /\ q[j].kind = "quiz"
                                   /\ q[j].question = left[item.block] + 1 - j
           /\ next.left = [left EXCEPT ![item.block] = @ - Len(q)]
      /\ item.block \notin Themes =>
           /\ Len(q) = 1 /\ next.left = left
           /\ q[1].time = ClampMinigameTime(item.time, item.block)

LEMMA ItemAdds ==
  ASSUME NEW plan \in Plans, NEW item \in Items
  PROVE  \E q \in Seq(PlanRounds) : Adds(plan, item, q)
<1>1. /\ plan.rounds \in Seq(PlanRounds) /\ plan.left \in [Themes -> Nat]
      /\ item.block \in Palette /\ item.questions \in Nat /\ item.time \in Nat
  BY FlowAssumption DEF Plans, Items
<1>2. CASE item.block \in Themes
  <2> DEFINE q == PlanThemeBlock(item.block, item.questions,
                                 plan.left[item.block])
  <2>0. plan.left[item.block] \in Nat
    BY <1>1, <1>2
  <2>1. /\ q \in Seq(PlanRounds)
        /\ Len(q) = Min({Wanted(item), plan.left[item.block]})
        /\ \A j \in 1..Len(q) :
             q[j] = Round("quiz", item.block, plan.left[item.block] + 1 - j, 0)
    <3> DEFINE theme == item.block
               left == plan.left[item.block]
               want == item.questions
    <3>1. theme \in Themes /\ left \in Nat /\ want \in Nat
      BY <1>1, <1>2, <2>0
    <3>2. Wanted(item) = IF want = 0 THEN DefaultQuestions ELSE want
      BY DEF Wanted
    <3> HIDE DEF theme, left, want
    <3>3. LET rounds == PlanThemeBlock(theme, want, left)
          IN  /\ rounds \in Seq(PlanRounds)
              /\ Len(rounds) = Min({Wanted(item), left})
              /\ \A j \in 1..Len(rounds) :
                   rounds[j] = Round("quiz", theme, left + 1 - j, 0)
      BY <3>1, <3>2, ThemePlanned
    <3>4. QED
      BY <3>3 DEF theme, left, want
  <2>2. PlanItem(plan, item) =
          [rounds |-> plan.rounds \o q,
           left |-> [plan.left EXCEPT ![item.block] = @ - Len(q)]]
    BY <1>2 DEF PlanItem
  <2> HIDE DEF q
  <2>3. \A j \in 1..Len(q) :
          /\ q[j].block = item.block /\ q[j].kind = "quiz"
          /\ q[j].question = plan.left[item.block] + 1 - j
    BY <2>1 DEF Round
  <2>4. /\ PlanItem(plan, item).rounds = plan.rounds \o q
        /\ PlanItem(plan, item).left =
             [plan.left EXCEPT ![item.block] = @ - Len(q)]
    BY <2>2
  <2>5. Adds(plan, item, q)
    BY <1>2, <2>1, <2>3, <2>4 DEF Adds
  <2>6. QED
    BY <2>1, <2>5
<1>3. CASE item.block \notin Themes
  <2> DEFINE round == Round("game", item.block, 0,
                            ProceduralRoundSeconds(item.block, item.time))
             q == <<round>>
  <2>1. item.block \in Minigames
    BY <1>1, <1>3, BlocksAre
  <2>2. round \in PlanRounds
    <3>1. ProceduralRoundSeconds(item.block, item.time) \in Nat
      <4>1. item.time \in Int
        BY <1>1
      <4>2. QED
        BY <2>1, <4>1, TimesIn
    <3>2. QED
      BY <1>1, <3>1 DEF Round, PlanRounds
  <2>3. PlanItem(plan, item) = [plan EXCEPT !.rounds = Append(@, round)]
    BY <1>3 DEF PlanItem
  <2>4. round.block = item.block
        /\ round.time = ClampMinigameTime(item.time, item.block)
    BY DEF Round, ProceduralRoundSeconds, ClampMinigameTime
  <2> HIDE DEF round
  <2>5. /\ q \in Seq(PlanRounds) /\ Len(q) = 1 /\ q[1] = round
        /\ Append(plan.rounds, round) = plan.rounds \o q
    BY <1>1, <2>2
  <2>6. PlanItem(plan, item).rounds = plan.rounds \o q
        /\ PlanItem(plan, item).left = plan.left
    BY <2>3, <2>5 DEF Plans
  <2>7. \A j \in 1..Len(q) : q[j].block = item.block
    BY <2>4, <2>5
  <2> HIDE DEF q
  <2>8. Adds(plan, item, q)
    BY <1>3, <2>4, <2>5, <2>6, <2>7 DEF Adds
  <2>9. QED
    BY <2>5, <2>8
<1>4. QED
  BY <1>2, <1>3

LEMMA RoundsAdded ==
  ASSUME NEW p \in Seq(PlanRounds), NEW q \in Seq(PlanRounds), NEW block,
         \A j \in 1..Len(q) : q[j].block = block
  PROVE  /\ RoundsOf(p \o q, block) =
              RoundsOf(p, block) \cup ((Len(p) + 1)..(Len(p) + Len(q)))
         /\ Cardinality(RoundsOf(p \o q, block)) =
              Cardinality(RoundsOf(p, block)) + Len(q)
<1> DEFINE m == Len(p)
           l == Len(q)
           w == p \o q
<1>1. /\ m \in Nat /\ l \in Nat /\ DOMAIN p = 1..m /\ DOMAIN w = 1..(m + l)
      /\ \A i \in 1..m : w[i] = p[i]
      /\ \A i \in (m + 1)..(m + l) : w[i] = q[i - m] /\ i - m \in 1..l
  OBVIOUS
<1> HIDE DEF m, l, w
<1>2. \A i \in (m + 1)..(m + l) : w[i].block = block
  BY <1>1 DEF l
<1>3. RoundsOf(w, block) = RoundsOf(p, block) \cup ((m + 1)..(m + l))
  BY <1>1, <1>2 DEF RoundsOf
<1>5. IsFiniteSet(RoundsOf(p, block)) /\ IsFiniteSet((m + 1)..(m + l))
  <2>1. RoundsOf(p, block) \subseteq 1..m
    BY <1>1 DEF RoundsOf
  <2>2. \A i, j \in Int : IsFiniteSet(i..j)
    BY FS_Interval
  <2>3. m \in Int /\ m + 1 \in Int /\ m + l \in Int
    BY <1>1
  <2>4. IsFiniteSet(1..m) /\ IsFiniteSet((m + 1)..(m + l))
    BY <2>2, <2>3
  <2>5. QED
    BY <2>1, <2>4, FS_Subset
<1>6. Cardinality((m + 1)..(m + l)) = l
  BY <1>1, FS_Interval
<1>7. RoundsOf(p, block) \cap ((m + 1)..(m + l)) = {}
  BY <1>1 DEF RoundsOf
<1>8. Cardinality(RoundsOf(w, block)) = Cardinality(RoundsOf(p, block)) + l
  <2>1. /\ Cardinality(RoundsOf(p, block) \cup ((m + 1)..(m + l))) =
             Cardinality(RoundsOf(p, block)) + Cardinality((m + 1)..(m + l))
               - Cardinality(RoundsOf(p, block) \cap ((m + 1)..(m + l)))
        /\ Cardinality(RoundsOf(p, block)) \in Nat
    BY <1>5, FS_Union, FS_CardinalityType
  <2>2. Cardinality(RoundsOf(p, block) \cap ((m + 1)..(m + l))) = 0
    BY <1>7, FS_EmptySet
  <2>3. QED
    BY <1>1, <1>3, <1>6, <2>1, <2>2
<1>9. QED
  BY <1>3, <1>8 DEF m, l, w

LEMMA OthersKept ==
  ASSUME NEW p \in Seq(PlanRounds), NEW q \in Seq(PlanRounds), NEW block,
         \A j \in 1..Len(q) : q[j].block # block
  PROVE  RoundsOf(p \o q, block) = RoundsOf(p, block)
<1> DEFINE m == Len(p)
           l == Len(q)
           w == p \o q
<1>1. /\ m \in Nat /\ l \in Nat /\ DOMAIN p = 1..m /\ DOMAIN w = 1..(m + l)
      /\ \A i \in 1..m : w[i] = p[i]
      /\ \A i \in (m + 1)..(m + l) : w[i] = q[i - m] /\ i - m \in 1..l
  OBVIOUS
<1> HIDE DEF m, l, w
<1>2. \A i \in (m + 1)..(m + l) : w[i].block # block
  BY <1>1 DEF l
<1>3. RoundsOf(w, block) = RoundsOf(p, block)
  BY <1>1, <1>2 DEF RoundsOf
<1>4. QED
  BY <1>3 DEF w

\* The rounds that are added are of the next item.
LEMMA OrderKept ==
  ASSUME NEW flow \in Flows, NEW k \in Nat, k + 1 \in 1..Len(flow),
         NEW plan \in Plans, NEW q \in Seq(PlanRounds), Adds(plan, flow[k + 1], q),
         NEW f \in [DOMAIN plan.rounds -> 1..k], ComesFrom(plan.rounds, flow, f)
  PROVE  \E g \in [DOMAIN (plan.rounds \o q) -> 1..(k + 1)] :
            ComesFrom(plan.rounds \o q, flow, g)
<1> DEFINE p == plan.rounds
           m == Len(p)
           l == Len(q)
           w == p \o q
           g == [i \in 1..(m + l) |-> IF i <= m THEN f[i] ELSE k + 1]
<1>1. p \in Seq(PlanRounds)
  BY DEF Plans
<1>2. /\ m \in Nat /\ l \in Nat /\ DOMAIN p = 1..m /\ DOMAIN w = 1..(m + l)
      /\ \A i \in 1..m : w[i] = p[i]
      /\ \A i \in (m + 1)..(m + l) : w[i] = q[i - m] /\ i - m \in 1..l
  BY <1>1
<1> HIDE DEF p, m, l, w
<1>3. f \in [1..m -> 1..k] /\ ComesFrom(p, flow, f)
  BY <1>2 DEF p
<1>4. /\ \A j \in 1..l : q[j].block = flow[k + 1].block
      /\ \A j \in 1..l : q[j].kind = "game" =>
           l = 1 /\ q[j].time = ClampMinigameTime(flow[k + 1].time,
                                                  flow[k + 1].block)
  <2>1. CASE flow[k + 1].block \in Themes
    BY <2>1 DEF Adds, l
  <2>2. CASE flow[k + 1].block \notin Themes
    BY <1>2, <2>2 DEF Adds, l
  <2>3. QED
    BY <2>1, <2>2
<1>5. /\ g \in [1..(m + l) -> 1..(k + 1)]
      /\ \A i \in 1..m : g[i] = f[i] /\ g[i] \in 1..k
      /\ \A i \in (m + 1)..(m + l) : g[i] = k + 1
  BY <1>2, <1>3
<1> HIDE DEF g
<1>6. \A i \in 1..(m + l) : i \in 1..m \/ i \in (m + 1)..(m + l)
  BY <1>2
<1>7. \A i \in 1..(m + l) : flow[g[i]].block = w[i].block
  <2>1. \A i \in 1..m : flow[g[i]].block = w[i].block
    <3>1. \A i \in 1..m : flow[f[i]].block = p[i].block
      BY <1>2, <1>3 DEF ComesFrom
    <3>2. QED
      BY <1>2, <1>5, <3>1
  <2>2. ASSUME NEW i \in (m + 1)..(m + l) PROVE flow[g[i]].block = w[i].block
    <3>1. w[i] = q[i - m] /\ i - m \in 1..l /\ g[i] = k + 1
      BY <1>2, <1>5
    <3>2. q[i - m].block = flow[k + 1].block
      BY <1>4, <3>1
    <3>3. QED
      BY <3>1, <3>2
  <2>3. QED
    BY <1>6, <2>1, <2>2
<1>8. \A i \in 1..(m + l) \ {1} : g[i - 1] <= g[i]
  <2>1. ASSUME NEW i \in 1..m, i # 1 PROVE g[i - 1] <= g[i]
    <3>1. i - 1 \in 1..m
      BY <1>2, <2>1
    <3>2. f[i - 1] <= f[i]
      BY <1>2, <1>3, <2>1 DEF ComesFrom
    <3>3. QED
      BY <1>5, <3>1, <3>2
  <2>2. ASSUME NEW i \in (m + 1)..(m + l), i # 1 PROVE g[i - 1] <= g[i]
    <3>1. i - 1 \in 1..(m + l)
      BY <1>2, <2>2
    <3>2. g[i - 1] \in 1..(k + 1) /\ g[i] = k + 1
      BY <1>5, <3>1
    <3>3. QED
      BY <3>2
  <2>3. QED
    BY <1>6, <2>1, <2>2
<1>9. ASSUME NEW i \in 1..(m + l), w[i].kind = "game"
      PROVE  /\ w[i].time = ClampMinigameTime(flow[g[i]].time, w[i].block)
             /\ \A j \in 1..(m + l) \ {i} : g[j] # g[i]
  <2>1. CASE i \in 1..m
    <3>1. /\ p[i].time = ClampMinigameTime(flow[f[i]].time, p[i].block)
          /\ \A j \in 1..m \ {i} : f[j] # f[i]
      BY <1>2, <1>3, <1>9, <2>1 DEF ComesFrom
    <3>2. \A j \in (m + 1)..(m + l) : g[j] # g[i]
      BY <1>5, <2>1
    <3>3. \A j \in 1..m \ {i} : g[j] # g[i]
      BY <1>5, <2>1, <3>1
    <3>4. QED
      BY <1>2, <1>5, <1>6, <2>1, <3>1, <3>2, <3>3
  <2>2. CASE i \in (m + 1)..(m + l)
    <3>1. l = 1 /\ i = m + 1
      BY <1>2, <1>4, <1>9, <2>2
    <3>2. w[i].time = ClampMinigameTime(flow[g[i]].time, w[i].block)
      BY <1>2, <1>4, <1>5, <1>9, <2>2
    <3>3. \A j \in 1..(m + l) \ {i} : j \in 1..m
      BY <1>2, <3>1
    <3>4. QED
      BY <1>5, <2>2, <3>2, <3>3
  <2>3. QED
    BY <1>6, <2>1, <2>2
<1>10. ComesFrom(w, flow, g)
  BY <1>2, <1>7, <1>8, <1>9 DEF ComesFrom
<1>11. QED
  BY <1>2, <1>5, <1>10 DEF w, p

\* What the first k items of a flow ask for.
ItemsIn(flow, k, block) == {i \in 1..k : flow[i].block = block}
AskedIn(flow, k, theme) ==
  UNION {{i} \X (1..Wanted(flow[i])) : i \in ItemsIn(flow, k, theme)}

LEMMA ItemCounted ==
  ASSUME NEW flow, NEW k \in Nat, NEW block
  PROVE  /\ IsFiniteSet(ItemsIn(flow, k, block))
         /\ Cardinality(ItemsIn(flow, k, block)) \in Nat
         /\ Cardinality(ItemsIn(flow, k + 1, block)) =
              Cardinality(ItemsIn(flow, k, block))
                + IF flow[k + 1].block = block THEN 1 ELSE 0
<1>1. IsFiniteSet(1..k) /\ ItemsIn(flow, k, block) \subseteq 1..k
  BY FS_Interval DEF ItemsIn
<1>2. /\ IsFiniteSet(ItemsIn(flow, k, block))
      /\ Cardinality(ItemsIn(flow, k, block)) \in Nat
  BY <1>1, FS_Subset, FS_CardinalityType
<1>3. CASE flow[k + 1].block = block
  <2>1. ItemsIn(flow, k + 1, block) = ItemsIn(flow, k, block) \cup {k + 1}
    BY <1>3 DEF ItemsIn
  <2>2. k + 1 \notin ItemsIn(flow, k, block)
    BY DEF ItemsIn
  <2>3. QED
    BY <1>2, <1>3, <2>1, <2>2, FS_AddElement
<1>4. CASE flow[k + 1].block # block
  <2>1. ItemsIn(flow, k + 1, block) = ItemsIn(flow, k, block)
    BY <1>4 DEF ItemsIn
  <2>2. QED
    BY <1>2, <1>4, <2>1
<1>5. QED
  BY <1>3, <1>4

LEMMA QuestionsAsked ==
  ASSUME NEW flow \in Flows, NEW k \in Nat, k + 1 \in 1..Len(flow), NEW theme,
         IsFiniteSet(AskedIn(flow, k, theme))
  PROVE  /\ IsFiniteSet(AskedIn(flow, k + 1, theme))
         /\ Cardinality(AskedIn(flow, k, theme)) \in Nat
         /\ Wanted(flow[k + 1]) \in Nat
         /\ Cardinality(AskedIn(flow, k + 1, theme)) =
              Cardinality(AskedIn(flow, k, theme))
                + IF flow[k + 1].block = theme THEN Wanted(flow[k + 1]) ELSE 0
<1> DEFINE w == Wanted(flow[k + 1])
           new == {k + 1} \X (1..w)
           old == AskedIn(flow, k, theme)
<1>1. w \in Nat
  <2>1. flow[k + 1] \in Items
    BY DEF Flows
  <2>2. QED
    BY <2>1, FlowAssumption DEF Items, Wanted
<1> HIDE DEF w
<1>2. IsFiniteSet(new) /\ Cardinality(new) = w
  <2>1. IsFiniteSet(1..w) /\ Cardinality(1..w) = w
    <3>1. /\ IsFiniteSet(1..w)
          /\ Cardinality(1..w) = IF 1 > w THEN 0 ELSE w - 1 + 1
      <4>1. w \in Int /\ 1 \in Int
        BY <1>1
      <4>2. QED
        BY <4>1, FS_Interval
    <3>2. QED
      BY <1>1, <3>1
  <2>2. IsFiniteSet({k + 1}) /\ Cardinality({k + 1}) = 1
    BY FS_Singleton
  <2>3. IsFiniteSet(new) /\ Cardinality(new) = 1 * w
    BY <2>1, <2>2, FS_Product
  <2>4. QED
    BY <1>1, <2>3
<1>3. Cardinality(old) \in Nat
  BY FS_CardinalityType
<1>4. CASE flow[k + 1].block = theme
  <2>1. ItemsIn(flow, k + 1, theme) = ItemsIn(flow, k, theme) \cup {k + 1}
    BY <1>4 DEF ItemsIn
  <2>2. AskedIn(flow, k + 1, theme) = old \cup new
    BY <2>1 DEF AskedIn, w
  <2>3. old \cap new = {}
    <3>1. k + 1 \notin ItemsIn(flow, k, theme)
      BY DEF ItemsIn
    <3>2. QED
      BY <3>1 DEF AskedIn
  <2> HIDE DEF new, old
  <2>4. /\ IsFiniteSet(old \cup new)
        /\ Cardinality(old \cup new) =
             Cardinality(old) + Cardinality(new) - Cardinality(old \cap new)
    BY <1>2, FS_Union DEF old
  <2>5. Cardinality(old \cap new) = 0
    BY <2>3, FS_EmptySet
  <2>6. /\ IsFiniteSet(AskedIn(flow, k + 1, theme))
        /\ Cardinality(AskedIn(flow, k + 1, theme)) = Cardinality(old) + w
    <3>1. Cardinality(old \cup new) = Cardinality(old) + w
      <4>1. Cardinality(old \cup new) = Cardinality(old) + w - 0
        BY <1>2, <2>4, <2>5
      <4>2. QED
        BY <1>1, <1>3, <4>1
    <3>2. QED
      BY <2>2, <2>4, <3>1
  <2>7. QED
    BY <1>1, <1>3, <1>4, <2>6 DEF w, old
<1>5. CASE flow[k + 1].block # theme
  <2>1. ItemsIn(flow, k + 1, theme) = ItemsIn(flow, k, theme)
    BY <1>5 DEF ItemsIn
  <2>2. AskedIn(flow, k + 1, theme) = old
    BY <2>1 DEF AskedIn
  <2>3. QED
    BY <1>1, <1>3, <1>5, <2>2 DEF w
<1>6. QED
  BY <1>4, <1>5

\* The plan of the first k items: of a theme's questions, those above "left" have
\* been handed out, each to one round.
HandedOut(flow, k, plan, theme) ==
  LET rounds == RoundsOf(plan.rounds, theme)
      asked == AskedIn(flow, k, theme)
      left == plan.left[theme]
  IN  /\ IsFiniteSet(asked)
      /\ left = Available[theme] - Min({Available[theme], Cardinality(asked)})
      /\ Cardinality(rounds) = Available[theme] - left
      /\ \A i \in rounds : plan.rounds[i].question > left
      /\ \A i, j \in rounds :
           plan.rounds[i].question = plan.rounds[j].question => i = j
PlannedSoFar(flow, k, plan) ==
  /\ \E f \in [DOMAIN plan.rounds -> 1..k] : ComesFrom(plan.rounds, flow, f)
  /\ \A t \in Themes : HandedOut(flow, k, plan, t)
  /\ \A b \in Minigames :
       Cardinality(RoundsOf(plan.rounds, b)) = Cardinality(ItemsIn(flow, k, b))

LEMMA NothingPlanned ==
  ASSUME NEW flow
  PROVE  PlannedSoFar(flow, 0, NoPlan)
<1>1. \A b : RoundsOf(<<>>, b) = {} /\ ItemsIn(flow, 0, b) = {}
  BY DEF RoundsOf, ItemsIn
<1>2. \A t : AskedIn(flow, 0, t) = {}
  BY <1>1 DEF AskedIn
<1>3. IsFiniteSet({}) /\ Cardinality({}) = 0
  BY FS_EmptySet
<1>4. \E f \in [DOMAIN <<>> -> 1..0] : ComesFrom(<<>>, flow, f)
  <2> DEFINE f == [i \in {} |-> 0]
  <2>1. DOMAIN <<>> = {} /\ f \in [DOMAIN <<>> -> 1..0]
    OBVIOUS
  <2>2. ComesFrom(<<>>, flow, f)
    BY <2>1 DEF ComesFrom
  <2>3. QED
    BY <2>1, <2>2
<1>5. ASSUME NEW t \in Themes PROVE HandedOut(flow, 0, NoPlan, t)
  <2>1. Available[t] \in Nat
    BY FlowAssumption
  <2>2. Min({Available[t], 0}) = 0
    BY <2>1, MinOf
  <2>3. /\ NoPlan.rounds = <<>> /\ NoPlan.left[t] = Available[t]
        /\ RoundsOf(<<>>, t) = {} /\ AskedIn(flow, 0, t) = {}
    BY <1>1, <1>2 DEF NoPlan
  <2>4. Available[t] = Available[t] - 0 /\ 0 = Available[t] - Available[t]
    BY <2>1
  <2>5. QED
    BY <1>3, <2>2, <2>3, <2>4 DEF HandedOut
<1>6. QED
  BY <1>1, <1>4, <1>5 DEF PlannedSoFar, NoPlan

LEMMA OtherThemesKept ==
  ASSUME NEW flow \in Flows, NEW k \in Nat, k + 1 \in 1..Len(flow),
         NEW plan \in Plans, NEW q \in Seq(PlanRounds), Adds(plan, flow[k + 1], q),
         NEW t \in Themes, t # flow[k + 1].block, HandedOut(flow, k, plan, t)
  PROVE  HandedOut(flow, k + 1, PlanItem(plan, flow[k + 1]), t)
<1> DEFINE next == PlanItem(plan, flow[k + 1])
           p == plan.rounds
           w == p \o q
<1>1. p \in Seq(PlanRounds) /\ plan.left \in [Themes -> Nat]
  BY DEF Plans
<1>2. next.rounds = w /\ \A j \in 1..Len(q) : q[j].block = flow[k + 1].block
  BY DEF Adds
<1>3. RoundsOf(w, t) = RoundsOf(p, t)
  <2>1. \A j \in 1..Len(q) : q[j].block # t
    BY <1>2
  <2> HIDE DEF p
  <2>2. QED
    BY <1>1, <2>1, OthersKept
<1>4. \A i \in RoundsOf(p, t) : w[i] = p[i]
  BY <1>1 DEF RoundsOf
<1>5. AskedIn(flow, k + 1, t) = AskedIn(flow, k, t)
  <2>1. ItemsIn(flow, k + 1, t) = ItemsIn(flow, k, t)
    BY DEF ItemsIn
  <2>2. QED
    BY <2>1 DEF AskedIn
<1>6. next.left[t] = plan.left[t]
  BY <1>1 DEF Adds
<1> HIDE DEF next, w
<1>7. QED
  BY <1>2, <1>3, <1>4, <1>5, <1>6 DEF HandedOut, next

LEMMA ThemeHandedOut ==
  ASSUME NEW flow \in Flows, NEW k \in Nat, k + 1 \in 1..Len(flow),
         NEW plan \in Plans, NEW q \in Seq(PlanRounds), Adds(plan, flow[k + 1], q),
         NEW t \in Themes, t = flow[k + 1].block, HandedOut(flow, k, plan, t)
  PROVE  HandedOut(flow, k + 1, PlanItem(plan, flow[k + 1]), t)
<1> DEFINE next == PlanItem(plan, flow[k + 1])
           p == plan.rounds
           m == Len(p)
           l == Len(q)
           w == p \o q
           left == plan.left[t]
           want == Wanted(flow[k + 1])
           asked == Cardinality(AskedIn(flow, k, t))
           all == Available[t]
<1>1. p \in Seq(PlanRounds) /\ plan.left \in [Themes -> Nat] /\ all \in Nat
  BY FlowAssumption DEF Plans
<1>2. /\ m \in Nat /\ l \in Nat
      /\ \A i \in 1..m : w[i] = p[i]
      /\ \A i \in (m + 1)..(m + l) : w[i] = q[i - m] /\ i - m \in 1..l
      /\ RoundsOf(p, t) \subseteq 1..m
  BY <1>1 DEF RoundsOf
<1>3. /\ next.rounds = w /\ next.left = [plan.left EXCEPT ![t] = @ - l]
      /\ l = Min({want, left})
      /\ \A j \in 1..l : q[j].block = t /\ q[j].question = left + 1 - j
  BY DEF Adds
<1>4. /\ RoundsOf(w, t) = RoundsOf(p, t) \cup ((m + 1)..(m + l))
      /\ Cardinality(RoundsOf(w, t)) = Cardinality(RoundsOf(p, t)) + l
  <2>1. \A j \in 1..Len(q) : q[j].block = t
    BY <1>3
  <2> HIDE DEF p
  <2>2. QED
    BY <1>1, <2>1, RoundsAdded
<1>5. /\ IsFiniteSet(AskedIn(flow, k + 1, t))
      /\ asked \in Nat /\ want \in Nat
      /\ Cardinality(AskedIn(flow, k + 1, t)) = asked + want
  BY QuestionsAsked DEF HandedOut
<1>6. /\ left = all - Min({all, asked})
      /\ Cardinality(RoundsOf(p, t)) = all - left
      /\ \A i \in RoundsOf(p, t) : p[i].question > left
      /\ \A i, j \in RoundsOf(p, t) : p[i].question = p[j].question => i = j
  BY DEF HandedOut
<1>7. next.left[t] = left - l
  BY <1>1, <1>3
<1> HIDE DEF next, p, m, l, w, left, want, asked, all
<1>8. left \in Nat /\ l <= left
  <2>1. left \in Nat
    BY <1>1 DEF left
  <2>2. QED
    BY <1>3, <1>5, <2>1, MinOf
<1>9. left - l = all - Min({all, asked + want})
  <2>1. /\ Min({all, asked}) = IF all <= asked THEN all ELSE asked
        /\ Min({want, left}) = IF want <= left THEN want ELSE left
        /\ Min({all, asked + want}) =
             IF all <= asked + want THEN all ELSE asked + want
    BY <1>1, <1>5, <1>8, MinOf
  <2>2. /\ all \in Nat /\ asked \in Nat /\ want \in Nat /\ left \in Nat
    BY <1>1, <1>5, <1>8
  <2>3. left = IF all <= asked THEN 0 ELSE all - asked
    BY <1>6, <2>1, <2>2
  <2>4. l = IF want <= left THEN want ELSE left
    BY <1>3, <2>1
  <2>5. QED
    BY <2>1, <2>2, <2>3, <2>4
<1>10. Cardinality(RoundsOf(w, t)) = all - (left - l)
  BY <1>1, <1>2, <1>4, <1>6, <1>8
<1>11. /\ \A i \in RoundsOf(p, t) : w[i].question = p[i].question
       /\ \A i \in (m + 1)..(m + l) : w[i].question = left + 1 - (i - m)
  BY <1>2, <1>3
<1>12. \A i \in RoundsOf(p, t) : w[i].question \in Nat
  <2>1. \A i \in 1..m : p[i] \in PlanRounds
    BY <1>1 DEF m
  <2>2. \A i \in 1..m : p[i].question \in Nat
    BY <2>1 DEF PlanRounds
  <2>3. QED
    BY <1>2, <1>11, <2>2
<1>13. \A i \in RoundsOf(w, t) : w[i].question > left - l
  <2>1. /\ left \in Nat /\ l \in Nat /\ m \in Nat
    BY <1>2, <1>8
  <2>2. ASSUME NEW i \in RoundsOf(p, t) PROVE w[i].question > left - l
    <3>1. w[i].question \in Nat /\ w[i].question > left
      BY <1>6, <1>11, <1>12
    <3>2. QED
      BY <2>1, <3>1
  <2>3. ASSUME NEW i \in (m + 1)..(m + l) PROVE w[i].question > left - l
    <3>1. w[i].question = left + 1 - (i - m)
      BY <1>11
    <3>2. QED
      BY <2>1, <3>1
  <2>4. QED
    BY <1>4, <2>2, <2>3
<1>14. \A i, j \in RoundsOf(w, t) : w[i].question = w[j].question => i = j
  <2>1. \A i \in (m + 1)..(m + l) : w[i].question <= left
    <3>1. /\ left \in Nat /\ l \in Nat /\ m \in Nat
      BY <1>2, <1>8
    <3>2. \A i \in (m + 1)..(m + l) : left + 1 - (i - m) <= left
      BY <3>1
    <3>3. QED
      BY <1>11, <3>2
  <2>2. \A i, j \in (m + 1)..(m + l) : w[i].question = w[j].question => i = j
    <3>1. /\ left \in Nat /\ l \in Nat /\ m \in Nat
      BY <1>2, <1>8
    <3>2. \A i, j \in (m + 1)..(m + l) :
            left + 1 - (i - m) = left + 1 - (j - m) => i = j
      BY <3>1
    <3>3. QED
      BY <1>11, <3>2
  <2>3. \A i \in RoundsOf(p, t), j \in (m + 1)..(m + l) :
          w[i].question # w[j].question
    <3> TAKE i \in RoundsOf(p, t), j \in (m + 1)..(m + l)
    <3>1. w[i].question \in Nat /\ w[i].question > left
      BY <1>6, <1>11, <1>12
    <3>2. w[j].question <= left /\ left \in Nat
      BY <1>8, <2>1
    <3>3. QED
      BY <3>1, <3>2
  <2>4. \A i, j \in RoundsOf(p, t) : w[i].question = w[j].question => i = j
    BY <1>6, <1>11
  <2>5. QED
    BY <1>4, <2>2, <2>3, <2>4
<1>15. /\ IsFiniteSet(AskedIn(flow, k + 1, t))
       /\ next.left[t] =
            all - Min({all, Cardinality(AskedIn(flow, k + 1, t))})
       /\ Cardinality(RoundsOf(next.rounds, t)) = all - next.left[t]
       /\ \A i \in RoundsOf(next.rounds, t) :
            next.rounds[i].question > next.left[t]
       /\ \A i, j \in RoundsOf(next.rounds, t) :
            next.rounds[i].question = next.rounds[j].question => i = j
  <2>1. next.rounds = w
    BY <1>3
  <2>2. /\ IsFiniteSet(AskedIn(flow, k + 1, t))
        /\ next.left[t] =
             all - Min({all, Cardinality(AskedIn(flow, k + 1, t))})
    BY <1>5, <1>7, <1>9
  <2>3. Cardinality(RoundsOf(w, t)) = all - next.left[t]
    BY <1>7, <1>10
  <2>4. \A i \in RoundsOf(w, t) : w[i].question > next.left[t]
    BY <1>7, <1>13
  <2>5. QED
    BY <1>14, <2>1, <2>2, <2>3, <2>4
<1>16. QED
  BY <1>15 DEF HandedOut, next, all

LEMMA MinigamesPlanned ==
  ASSUME NEW flow \in Flows, NEW k \in Nat, k + 1 \in 1..Len(flow),
         NEW plan \in Plans, NEW q \in Seq(PlanRounds), Adds(plan, flow[k + 1], q),
         NEW b \in Minigames,
         Cardinality(RoundsOf(plan.rounds, b)) = Cardinality(ItemsIn(flow, k, b))
  PROVE  Cardinality(RoundsOf(plan.rounds \o q, b)) =
           Cardinality(ItemsIn(flow, k + 1, b))
<1>1. plan.rounds \in Seq(PlanRounds) /\ b \notin Themes
  BY BlocksAre DEF Plans
<1>2. \A j \in 1..Len(q) : q[j].block = flow[k + 1].block
  BY DEF Adds
<1>3. CASE flow[k + 1].block = b
  <2>1. Len(q) = 1
    BY <1>1, <1>3 DEF Adds
  <2>2. Cardinality(RoundsOf(plan.rounds \o q, b)) =
          Cardinality(RoundsOf(plan.rounds, b)) + 1
    <3> DEFINE p == plan.rounds
    <3>1. p \in Seq(PlanRounds) /\ \A j \in 1..Len(q) : q[j].block = b
      BY <1>1, <1>2, <1>3
    <3> HIDE DEF p
    <3>2. Cardinality(RoundsOf(p \o q, b)) = Cardinality(RoundsOf(p, b)) + Len(q)
      BY <3>1, RoundsAdded
    <3>3. QED
      BY <2>1, <3>2 DEF p
  <2>3. Cardinality(ItemsIn(flow, k + 1, b)) = Cardinality(ItemsIn(flow, k, b)) + 1
    BY <1>3, ItemCounted
  <2>4. QED
    BY <2>2, <2>3
<1>4. CASE flow[k + 1].block # b
  <2>1. RoundsOf(plan.rounds \o q, b) = RoundsOf(plan.rounds, b)
    <3> DEFINE p == plan.rounds
    <3>1. p \in Seq(PlanRounds) /\ \A j \in 1..Len(q) : q[j].block # b
      BY <1>1, <1>2, <1>4
    <3> HIDE DEF p
    <3>2. RoundsOf(p \o q, b) = RoundsOf(p, b)
      BY <3>1, OthersKept
    <3>3. QED
      BY <3>2 DEF p
  <2>2. ItemsIn(flow, k + 1, b) = ItemsIn(flow, k, b)
    BY <1>4 DEF ItemsIn
  <2>3. QED
    BY <2>1, <2>2
<1>5. QED
  BY <1>3, <1>4

(* The plan of a flow has the rounds it asks for. *)
LEMMA FlowIsPlanned ==
  ASSUME NEW flow \in Flows
  PROVE  /\ IsPlanOf(PlanFromFlow(flow), flow)
         /\ \A t \in Themes : IsFiniteSet(AskedFor(flow, t))
<1> DEFINE n == Len(flow)
<1>1. n \in Nat /\ DOMAIN flow = 1..n /\ \A i \in 1..n : flow[i] \in Items
  BY DEF Flows
<1>2. PICK turn \in [0..n -> Plans] :
        /\ turn[0] = NoPlan
        /\ \A i \in 1..n : turn[i] = PlanItem(turn[i - 1], flow[i])
        /\ PlanFromFlow(flow) = turn[n].rounds
  BY PlannedByItem
<1> DEFINE K == {k \in Nat : k <= n => PlannedSoFar(flow, k, turn[k])}
<1>3. 0 \in K
  BY <1>2, NothingPlanned
<1>4. ASSUME NEW k \in Nat, k \in K PROVE k + 1 \in K
  <2> SUFFICES ASSUME k + 1 <= n PROVE PlannedSoFar(flow, k + 1, turn[k + 1])
    OBVIOUS
  <2>1. /\ turn[k] \in Plans /\ PlannedSoFar(flow, k, turn[k])
        /\ turn[k + 1] = PlanItem(turn[k], flow[k + 1])
        /\ k + 1 \in 1..n /\ flow[k + 1] \in Items
    BY <1>1, <1>2, <1>4
  <2>2. PICK q \in Seq(PlanRounds) : Adds(turn[k], flow[k + 1], q)
    BY <2>1, ItemAdds
  <2>3. turn[k + 1].rounds = turn[k].rounds \o q
    BY <2>1, <2>2 DEF Adds
  <2>4. \E f \in [DOMAIN turn[k + 1].rounds -> 1..(k + 1)] :
          ComesFrom(turn[k + 1].rounds, flow, f)
    <3>1. PICK f \in [DOMAIN turn[k].rounds -> 1..k] :
            ComesFrom(turn[k].rounds, flow, f)
      BY <2>1 DEF PlannedSoFar
    <3> DEFINE plan == turn[k]
    <3>2. /\ plan \in Plans /\ Adds(plan, flow[k + 1], q)
          /\ f \in [DOMAIN plan.rounds -> 1..k]
          /\ ComesFrom(plan.rounds, flow, f) /\ k + 1 \in 1..Len(flow)
      BY <2>1, <2>2, <3>1
    <3> HIDE DEF plan
    <3>3. \E g \in [DOMAIN (plan.rounds \o q) -> 1..(k + 1)] :
             ComesFrom(plan.rounds \o q, flow, g)
      BY <3>2, OrderKept
    <3>4. QED
      BY <2>3, <3>3 DEF plan
  <2>5. ASSUME NEW t \in Themes PROVE HandedOut(flow, k + 1, turn[k + 1], t)
    BY <2>1, <2>2, OtherThemesKept, ThemeHandedOut DEF PlannedSoFar
  <2>6. ASSUME NEW b \in Minigames
        PROVE  Cardinality(RoundsOf(turn[k + 1].rounds, b)) =
                 Cardinality(ItemsIn(flow, k + 1, b))
    BY <2>1, <2>2, <2>3, MinigamesPlanned DEF PlannedSoFar
  <2>7. QED
    BY <2>4, <2>5, <2>6 DEF PlannedSoFar
<1> HIDE DEF K
<1>5. n \in K
  BY <1>1, <1>3, <1>4, CountUp
<1>6. PlannedSoFar(flow, n, turn[n])
  BY <1>1, <1>5 DEF K
<1>7. /\ \A b : ItemsOf(flow, b) = ItemsIn(flow, n, b)
      /\ \A t : AskedFor(flow, t) = AskedIn(flow, n, t)
  BY <1>1 DEF ItemsOf, ItemsIn, AskedFor, AskedIn
<1>8. ASSUME NEW t \in Themes
      PROVE  /\ Cardinality(RoundsOf(turn[n].rounds, t)) =
                  Min({Available[t], Cardinality(AskedFor(flow, t))})
             /\ \A i, j \in RoundsOf(turn[n].rounds, t) :
                  turn[n].rounds[i].question = turn[n].rounds[j].question => i = j
  <2>1. HandedOut(flow, n, turn[n], t)
    BY <1>6 DEF PlannedSoFar
  <2>2. Available[t] \in Nat /\ Cardinality(AskedIn(flow, n, t)) \in Nat
    BY <2>1, FlowAssumption, FS_CardinalityType DEF HandedOut
  <2>3. Min({Available[t], Cardinality(AskedIn(flow, n, t))}) \in Int
    BY <2>2, MinOf
  <2>4. \A a \in Nat, m \in Int : a - (a - m) = m
    OBVIOUS
  <2>5. /\ Cardinality(RoundsOf(turn[n].rounds, t)) =
             Available[t] - turn[n].left[t]
        /\ turn[n].left[t] = Available[t]
             - Min({Available[t], Cardinality(AskedIn(flow, n, t))})
        /\ \A i, j \in RoundsOf(turn[n].rounds, t) :
             turn[n].rounds[i].question = turn[n].rounds[j].question => i = j
    BY <2>1 DEF HandedOut
  <2>6. Cardinality(RoundsOf(turn[n].rounds, t)) =
          Min({Available[t], Cardinality(AskedIn(flow, n, t))})
    BY <2>2, <2>3, <2>4, <2>5
  <2>7. QED
    BY <1>7, <2>5, <2>6
<1>9. IsPlanOf(PlanFromFlow(flow), flow)
  BY <1>1, <1>2, <1>6, <1>7, <1>8 DEF PlannedSoFar, IsPlanOf
<1>10. QED
  BY <1>6, <1>7, <1>9 DEF PlannedSoFar, HandedOut

\* A stored flow that is not empty never plans no round: every block it has is
\* of the catalog, and asks for a round at least.
LEMMA SomethingPlanned ==
  ASSUME NEW flow \in StoredFlows, flow # <<>>
  PROVE  PlanFromFlow(flow) # <<>>
<1> DEFINE block == flow[1].block
<1>1. flow \in Flows
  BY StoredTyped
<1>2. 1 \in DOMAIN flow /\ flow[1] \in StoredItems
  BY DEF StoredFlows
<1>3. PICK item \in Items : item.block \in Catalog /\ flow[1] = ToStored(item)
  BY <1>2 DEF StoredItems
<1>4. block \in Catalog
  BY <1>3 DEF ToStored, Item
<1>5. 1 \in ItemsOf(flow, block)
  BY <1>2 DEF ItemsOf
<1> HIDE DEF block
<1> SUFFICES ASSUME IsPlanOf(<<>>, flow) PROVE FALSE
  BY <1>1, FlowIsPlanned
<1>6. \A b : Cardinality(RoundsOf(<<>>, b)) = 0
  <2>1. \A b : RoundsOf(<<>>, b) = {}
    BY DEF RoundsOf
  <2>2. QED
    BY <2>1, FS_EmptySet
<1>7. CASE block \in Minigames
  <2>1. Cardinality(ItemsOf(flow, block)) = 0
    BY <1>6, <1>7 DEF IsPlanOf
  <2>2. IsFiniteSet(ItemsOf(flow, block))
    <3>1. IsFiniteSet(1..Len(flow)) /\ DOMAIN flow = 1..Len(flow)
      BY <1>1, FS_Interval DEF Flows
    <3>2. ItemsOf(flow, block) \subseteq 1..Len(flow)
      BY <3>1 DEF ItemsOf
    <3>3. QED
      BY <3>1, <3>2, FS_Subset
  <2>3. QED
    BY <1>5, <2>1, <2>2, FS_EmptySet
<1>8. CASE block \notin Minigames
  <2>1. block \in Themes /\ Available[block] \in Nat /\ Available[block] > 0
    BY <1>4, <1>8, FlowAssumption DEF Catalog
  <2>2. <<1, 1>> \in AskedFor(flow, block)
    <3>1. flow[1] \in Items
      BY <1>2, StoredTyped
    <3>2. Wanted(flow[1]) \in Nat /\ Wanted(flow[1]) >= 1
      BY <3>1, FlowAssumption DEF Wanted, Items
    <3>3. QED
      BY <1>5, <3>2 DEF AskedFor
  <2>3. IsFiniteSet(AskedFor(flow, block))
    BY <1>1, <2>1, FlowIsPlanned
  <2>4. /\ Cardinality(AskedFor(flow, block)) \in Nat
        /\ Cardinality(AskedFor(flow, block)) # 0
    BY <2>2, <2>3, FS_CardinalityType, FS_EmptySet
  <2>5. Min({Available[block], Cardinality(AskedFor(flow, block))}) = 0
    BY <1>6, <2>1 DEF IsPlanOf
  <2>6. QED
    BY <2>1, <2>4, <2>5, MinOf
<1>9. QED
  BY <1>7, <1>8

-------------------------------------------------------------------------------
(* A game plays the plan of the flow it has read. *)

PlanIsKept ==
  /\ game.at = "play" => game.plan = Plan(game.row.flow)
  /\ game.at = "failed" => Plan(game.row.flow) = <<>> \/ game.plan # <<>>

LEMMA PlanIsKeptStep ==
  ASSUME HostTypeOK, PlanIsKept, [Next]_vars
  PROVE  PlanIsKept'
<1> USE DEF PlanIsKept
<1>0. game \in Games
  BY DEF HostTypeOK, ServerTypeOK
<1>1. CASE game' = game
  BY <1>1
<1>2. CASE BuildRounds
  <2> DEFINE plan == Plan(row.flow)
  <2>1. \/ /\ game' = [game EXCEPT !.at = "failed", !.row = row]
           /\ plan = <<>> \/ game.plan # <<>>
        \/ game' = [at |-> "play", row |-> row, plan |-> plan]
    BY <1>2 DEF BuildRounds
  <2> HIDE DEF plan
  <2>2. CASE /\ game' = [game EXCEPT !.at = "failed", !.row = row]
             /\ plan = <<>> \/ game.plan # <<>>
    <3>1. game'.at = "failed" /\ game'.row = row /\ game'.plan = game.plan
      BY <1>0, <2>2 DEF Games
    <3>2. QED
      BY <2>2, <3>1 DEF plan
  <2>3. CASE game' = [at |-> "play", row |-> row, plan |-> plan]
    <3>1. game'.at = "play" /\ game'.row = row /\ game'.plan = plan
      BY <2>3
    <3>2. QED
      BY <3>1 DEF plan
  <2>4. QED
    BY <2>1, <2>2, <2>3
<1>3. CASE game'.at \in {"over", "load"}
  BY <1>3
<1>4. \/ game' = game \/ BuildRounds \/ game'.at \in {"over", "load"}
  <2>1. CASE UNCHANGED vars
    BY <2>1 DEF vars, srvVars
  <2>2. CASE Page \/ Receive \/ Open \/ Edit \/ Leave \/ Drop \/ LoadPage
    BY <2>2 DEF Page, Receive, Open, Edit, Leave, Drop, LoadPage, srvVars
  <2>3. CASE HandleHost \/ HandleStart \/ PlayersChange \/ ExpireHost
    BY <2>3 DEF HandleHost, HandleStart, PlayersChange, ExpireHost, srvVars
  <2>4. CASE Broadcast
    <3>1. game' = game \/ game' = [game EXCEPT !.at = "over"]
      BY <2>4 DEF Broadcast
    <3>2. QED
      BY <1>0, <3>1 DEF Games
  <2>5. ASSUME NEW s \in saves, HandleSave(s) \/ LoseSave(s)
        PROVE  game' = game
    BY <2>5 DEF HandleSave, LoseSave, srvVars
  <2>6. ASSUME NEW t \in tasks, StoreHost(t) \/ StoreFlow(t) \/ StoreStart(t)
        PROVE  game' = game \/ game'.at = "load"
    BY <1>0, <2>6 DEF StoreHost, StoreFlow, StoreStart, Games
  <2>7. QED
    BY <2>1, <2>2, <2>3, <2>4, <2>5, <2>6 DEF Next
<1>5. QED
  BY <1>1, <1>2, <1>3, <1>4

LEMMA PlanIsKeptInit == Init => PlanIsKept
BY DEF Init, Idle, PlanIsKept

\* The rounds of a game are those its flow asks for, in its order and with no
\* question twice, and a flow that is not empty always gives some, unless the room
\* has had a game before (buildRounds, planFromFlow).
THEOREM GamesPlayTheFlow == Spec => []PlaysTheFlow
<1>1. ASSUME EditsArrive, PlanIsKept PROVE PlaysTheFlow
  <2> DEFINE flow == game.row.flow
  <2>1. flow \in StoredFlows /\ flow \in Flows
    BY <1>1, StoredTyped DEF EditsArrive, RowsAreStored
  <2>2. flow # <<>> => Plan(flow) = PlanFromFlow(flow)
    BY DEF Plan
  <2> HIDE DEF flow
  <2>3. CASE game.at = "failed"
    <3>1. Plan(flow) = <<>> \/ game.plan # <<>>
      BY <1>1, <2>3 DEF PlanIsKept, flow
    <3>2. flow = <<>> \/ game.plan # <<>>
      BY <2>1, <2>2, <3>1, SomethingPlanned
    <3>3. QED
      BY <2>3, <3>2 DEF PlaysTheFlow, flow
  <2>4. CASE game.at = "play"
    <3>1. game.plan = Plan(flow)
      BY <1>1, <2>4 DEF PlanIsKept, flow
    <3>2. flow # <<>> => IsPlanOf(game.plan, flow)
      BY <2>1, <2>2, <3>1, FlowIsPlanned
    <3>3. QED
      BY <2>4, <3>2 DEF PlaysTheFlow, flow
  <2>5. QED
    BY <2>3, <2>4 DEF PlaysTheFlow
<1>2. EditsArrive => HostTypeOK
  BY DEF EditsArrive
<1>3. QED
  BY <1>1, <1>2, HostFollowsInit, HostFollowsStep, EditsArriveInit,
     EditsArriveStep, PlanIsKeptInit, PlanIsKeptStep, PTL DEF Spec

-------------------------------------------------------------------------------
(* The snake: a place in a flow and its cell determine each other. *)

LEMMA Products ==
  ASSUME NEW c \in Nat, NEW a \in Int, NEW b \in Int, a <= b
  PROVE  c * a <= c * b
<1>1. b - a \in Nat
  OBVIOUS
<1>2. c * (b - a) >= 0 /\ c * (b - a) = c * b - c * a
  BY <1>1
<1>3. c * a \in Int /\ c * b \in Int
  OBVIOUS
<1>4. QED
  BY <1>2, <1>3

LEMMA Division ==
  ASSUME NEW c \in Nat, c > 0, NEW j \in Nat
  PROVE  \E q \in Nat, k \in 0..(c - 1) :
            q = j \div c /\ k = j % c /\ j = c * q + k
<1>1. j \div c \in Nat /\ j % c \in 0..(c - 1)
  <2>1. j \div c \in Int /\ j \div c >= 0
    OBVIOUS
  <2>2. j % c \in 0..(c - 1)
    OBVIOUS
  <2>3. QED
    BY <2>1, <2>2
<1>2. ASSUME NEW q \in Int, NEW k \in Int, q = j \div c, k = j % c
      PROVE  j = c * q + k
  BY <1>2
<1>3. QED
  BY <1>1, <1>2

LEMMA PlaceOf ==
  ASSUME NEW r \in Nat, NEW m \in 0..(Columns - 1), NEW j, j = Columns * r + m
  PROVE  Row(j) = r /\ j % Columns = m
<1>1. Columns \in Nat /\ Columns > 0
  BY ColumnsAssumption
<1>2. j \in Nat
  BY <1>1
<1>3. PICK q \in Nat, k \in 0..(Columns - 1) :
        q = j \div Columns /\ k = j % Columns /\ Columns * q + k = Columns * r + m
  BY <1>1, <1>2, Division
<1>4. q = r
  <2>1. CASE q < r
    <3>1. Columns * (q + 1) <= Columns * r
      BY <1>1, <1>3, <2>1, Products
    <3>2. Columns * (q + 1) = Columns * q + Columns
          /\ Columns * q \in Nat /\ Columns * r \in Nat
      BY <1>1, <1>3
    <3>3. QED
      BY <1>1, <1>3, <3>1, <3>2
  <2>2. CASE r < q
    <3>1. Columns * (r + 1) <= Columns * q
      BY <1>1, <1>3, <2>2, Products
    <3>2. Columns * (r + 1) = Columns * r + Columns
          /\ Columns * q \in Nat /\ Columns * r \in Nat
      BY <1>1, <1>3
    <3>3. QED
      BY <1>1, <1>3, <3>1, <3>2
  <2>3. QED
    BY <1>3, <2>1, <2>2
<1>5. Columns * r \in Nat
  BY <1>1
<1>6. k = m
  BY <1>3, <1>4, <1>5
<1>7. QED
  BY <1>3, <1>4, <1>6 DEF Row

LEMMA PlacesAre ==
  ASSUME NEW j \in Nat
  PROVE  \E r \in Nat, m \in 0..(Columns - 1) :
            j = Columns * r + m /\ Row(j) = r /\ j % Columns = m
<1>1. Columns \in Nat /\ Columns > 0
  BY ColumnsAssumption
<1>2. PICK q \in Nat, k \in 0..(Columns - 1) :
        q = j \div Columns /\ k = j % Columns /\ j = Columns * q + k
  BY <1>1, Division
<1>3. QED
  BY <1>2 DEF Row

LEMMA ParityOf ==
  ASSUME NEW y \in Nat
  PROVE  \E h \in Nat : y = 2 * h \/ y = 2 * h + 1
<1>1. PICK q \in Nat, k \in 0..1 : y = 2 * q + k
  BY Division
<1>2. QED
  BY <1>1

\* The cursor drops a block before those that it has not passed.
LEMMA BeforeIsNotPast ==
  ASSUME NEW n \in Nat, NEW cursor \in Cursors(n), NEW j \in 0..(n - 1)
  PROVE  IsBefore(cursor, j) <=> ~IsPast(cursor, j)
<1> DEFINE x == cursor.x
           y == cursor.y
           C == Columns
<1>1. C \in Nat /\ C > 0
  BY ColumnsAssumption
<1>2. PICK r \in Nat, m \in 0..(C - 1) :
        j = C * r + m /\ Row(j) = r /\ j % C = m
  <2>1. j \in Nat
    OBVIOUS
  <2>2. QED
    BY <2>1, PlacesAre
<1>3. x \in 1..(2 * C) /\ y \in Nat
  <2>1. x \in 1..(2 * C) /\ y \in 0..(2 * Row(n) + 2)
    BY DEF Cursors
  <2>2. QED
    BY <2>1
<1>4. PICK h \in Nat : y = 2 * h \/ y = 2 * h + 1
  BY <1>3, ParityOf
<1>5. IsBefore(cursor, j) <=>
        \/ y < 2 * r + 1
        \/ /\ y = 2 * r + 1
           /\ IF r % 2 = 0 THEN x < 2 * (m + 1) ELSE x >= 2 * (C - m)
  BY <1>2 DEF IsBefore, IsEvenRow, Col
<1>6. IsPast(cursor, j) <=> Travelled(cursor) > 2 * (C * r + m) + 1
  BY <1>2 DEF IsPast
<1> HIDE DEF x, y, C
<1>7. C * r \in Nat /\ C * h \in Nat
  BY <1>1
<1>8. /\ h <= r => C * h <= C * r
      /\ h < r => C * h + C <= C * r
      /\ h > r => C * h >= C * r + C
  <2>1. h <= r => C * h <= C * r
    BY <1>1, Products
  <2>2. h + 1 <= r => C * (h + 1) <= C * r
    BY <1>1, Products
  <2>3. r + 1 <= h => C * (r + 1) <= C * h
    BY <1>1, Products
  <2>4. C * (h + 1) = C * h + C /\ C * (r + 1) = C * r + C
    BY <1>1
  <2>5. QED
    BY <2>1, <2>2, <2>3, <2>4
<1>9. CASE y = 2 * h
  <2>1. Travelled(cursor) = C * y
    BY <1>9 DEF Travelled, y, C
  <2>2. C * y = 2 * (C * h)
    BY <1>1, <1>9
  <2>3. y < 2 * r + 1 <=> h <= r
    BY <1>9
  <2>4. y # 2 * r + 1
    BY <1>9
  <2>5. h <= r <=> ~(2 * (C * h) > 2 * (C * r + m) + 1)
    BY <1>1, <1>7, <1>8
  <2>6. QED
    BY <1>5, <1>6, <2>1, <2>2, <2>3, <2>4, <2>5
<1>10. CASE y = 2 * h + 1
  <2> DEFINE along == IF h % 2 = 0 THEN x ELSE 2 * C + 1 - x
  <2>1. Travelled(cursor) = 2 * C * h + along
    <3>1. (y - 1) \div 2 = h /\ y % 2 # 0
      BY <1>10
    <3>2. QED
      BY <3>1 DEF Travelled, x, y, C
  <2>2. 2 * C * h = 2 * (C * h)
    BY <1>1
  <2>3. along \in 1..(2 * C)
    BY <1>1, <1>3
  <2>4. CASE h < r
    <3>1. y < 2 * r + 1
      BY <1>10, <2>4
    <3> HIDE DEF along
    <3>2. ~(2 * (C * h) + along > 2 * (C * r + m) + 1)
      BY <1>1, <1>7, <1>8, <2>3, <2>4
    <3>3. QED
      BY <1>5, <1>6, <2>1, <2>2, <3>1, <3>2
  <2>5. CASE h > r
    <3>1. ~(y < 2 * r + 1) /\ y # 2 * r + 1
      BY <1>10, <2>5
    <3> HIDE DEF along
    <3>2. 2 * (C * h) + along > 2 * (C * r + m) + 1
      BY <1>1, <1>7, <1>8, <2>3, <2>5
    <3>3. QED
      BY <1>5, <1>6, <2>1, <2>2, <3>1, <3>2
  <2>6. CASE h = r
    <3>1. y = 2 * r + 1
      BY <1>10, <2>6
    <3>2. CASE r % 2 = 0
      <4>1. along = x
        BY <2>6, <3>2
      <4>2. x < 2 * (m + 1) <=> ~(2 * (C * r) + x > 2 * (C * r + m) + 1)
        BY <1>1, <1>3, <1>7
      <4>3. QED
        BY <1>5, <1>6, <2>1, <2>2, <2>6, <3>1, <3>2, <4>1, <4>2
    <3>3. CASE r % 2 # 0
      <4>1. along = 2 * C + 1 - x
        BY <2>6, <3>3
      <4>2. x >= 2 * (C - m) <=>
              ~(2 * (C * r) + (2 * C + 1 - x) > 2 * (C * r + m) + 1)
        BY <1>1, <1>3, <1>7
      <4>3. QED
        BY <1>5, <1>6, <2>1, <2>2, <2>6, <3>1, <3>3, <4>1, <4>2
    <3>4. QED
      BY <3>2, <3>3
  <2>7. QED
    BY <2>4, <2>5, <2>6
<1>11. QED
  BY <1>4, <1>9, <1>10

\* Up to the place of a drop the cursor has passed the blocks, then none.
LEMMA DropsAtCursor ==
  ASSUME NEW n \in Nat, NEW cursor \in Cursors(n)
  PROVE  LET d == DropIndex(n, cursor)
         IN  /\ d \in 0..n
             /\ \A j \in 0..(n - 1) : IsPast(cursor, j) <=> j < d
<1> DEFINE before == {j \in 0..(n - 1) : IsBefore(cursor, j)}
           d == DropIndex(n, cursor)
<1>1. \A j \in 0..(n - 1) : j \in before <=> ~IsPast(cursor, j)
  BY BeforeIsNotPast
<1>2. Travelled(cursor) \in Int
  <2>1. Columns \in Nat /\ cursor.x \in Int /\ cursor.y \in Nat
    <3>1. Columns \in Nat /\ Columns > 0
      BY ColumnsAssumption
    <3>2. cursor.x \in 1..(2 * Columns) /\ cursor.y \in 0..(2 * Row(n) + 2)
      BY DEF Cursors
    <3>3. QED
      BY <3>1, <3>2
  <2>2. (cursor.y - 1) \div 2 \in Int
    BY <2>1
  <2>3. QED
    BY <2>1, <2>2 DEF Travelled
<1>3. \A j, k \in 0..(n - 1) : j <= k /\ IsPast(cursor, k) => IsPast(cursor, j)
  BY <1>2 DEF IsPast
<1>4. d = IF before = {} THEN n
          ELSE CHOOSE j \in before : \A k \in before : j <= k
  BY DEF DropIndex
<1>5. d \in 0..n
  BY DropsIn
<1> HIDE DEF d, before
<1>6. CASE before = {}
  <2>1. d = n
    BY <1>4, <1>6
  <2>2. \A j \in 0..(n - 1) : IsPast(cursor, j) /\ j < n
    BY <1>1, <1>6
  <2>3. QED
    BY <2>1, <2>2 DEF d
<1>7. CASE before # {}
  <2>1. before \in SUBSET (0..(n - 1))
    BY DEF before
  <2>2. d \in before /\ \A k \in before : d <= k
    BY <1>4, <1>7, <2>1, LeastOf
  <2>3. ASSUME NEW j \in 0..(n - 1), j < d PROVE IsPast(cursor, j)
    BY <1>1, <1>5, <2>2, <2>3
  <2>4. ASSUME NEW j \in 0..(n - 1), ~(j < d) PROVE ~IsPast(cursor, j)
    <3>1. d \in 0..(n - 1) /\ d <= j
      BY <2>2, <2>4 DEF before
    <3>2. ~IsPast(cursor, d)
      BY <1>1, <2>2, <3>1
    <3>3. QED
      BY <1>3, <3>1, <3>2
  <2>5. QED
    BY <1>5, <2>3, <2>4 DEF d
<1>8. QED
  BY <1>5, <1>6, <1>7 DEF d

PlacesOf(n) == [i \in 1..n |-> i - 1]

IsMoved(n, from, at, moved) ==
  /\ moved \in [1..n -> 0..(n - 1)] /\ at \in 1..n
  /\ moved[at] = from
  /\ \A i \in 1..(at - 1) : moved[i] = IF i <= from THEN i - 1 ELSE i
  /\ \A i \in (at + 1)..n : moved[i] = IF i <= from + 1 THEN i - 2 ELSE i - 1

\* A block that is moved, among the places of a flow: at the index of the drop,
\* less the place it has left if that is before it.
LEMMA MovedTo ==
  ASSUME NEW n \in Nat, NEW from \in 0..(n - 1), NEW index \in 0..n, NEW moved,
         moved = MoveBlock(PlacesOf(n), from, index),
         NEW at, at = IF from < index THEN index ELSE index + 1
  PROVE  IsMoved(n, from, at, moved)
<1> DEFINE S == 0..(n - 1)
           places == PlacesOf(n)
           rest == RemoveAt(places, from + 1)
<1>1. places \in Seq(S) /\ Len(places) = n /\ from + 1 \in 1..n /\ at \in 1..n
      /\ from \in S
  BY DEF PlacesOf
<1> DEFINE k == from + 1
<1>2. k \in 1..Len(places) /\ places \in Seq(S) /\ Len(places) - 1 = n - 1
  BY <1>1
<1> HIDE DEF S, places, k
<1> DEFINE short == RemoveAt(places, k)
<1>3. /\ short \in Seq(S) /\ Len(short) = n - 1
      /\ \A i \in 1..(n - 1) : short[i] = IF i < k THEN places[i] ELSE places[i + 1]
  BY <1>2, Removed
<1>4. short = rest
  BY DEF k
<1>5. /\ rest \in Seq(S) /\ Len(rest) = n - 1
      /\ \A i \in 1..(n - 1) : rest[i] = IF i <= from THEN i - 1 ELSE i
  <2> HIDE DEF short, rest
  <2>1. \A i \in 1..(n - 1) : rest[i] = IF i < from + 1 THEN places[i] ELSE places[i + 1]
    BY <1>3, <1>4 DEF k
  <2>2. \A i \in 1..(n - 1) : /\ i < from + 1 <=> i <= from
                             /\ places[i] = i - 1 /\ places[i + 1] = i
    BY DEF places, PlacesOf
  <2>3. QED
    BY <1>3, <1>4, <2>1, <2>2
<1>6. moved = InsertAt(rest, at, from)
  <2>1. places[from + 1] = from
    BY <1>1 DEF places, PlacesOf
  <2>2. (IF from < index THEN index - 1 ELSE index) + 1 = at
    OBVIOUS
  <2>3. moved = MoveBlock(places, from, index)
    BY DEF places
  <2>4. QED
    BY <2>1, <2>2, <2>3 DEF MoveBlock, InsertBlock
<1> HIDE DEF rest
<1>7. /\ moved \in Seq(S) /\ Len(moved) = n /\ moved[at] = from
      /\ \A i \in 1..(at - 1) : moved[i] = rest[i]
      /\ \A i \in (at + 1)..n : moved[i] = rest[i - 1]
  <2>1. /\ Len(rest) + 1 = n /\ at \in 1..(Len(rest) + 1)
        /\ rest \in Seq(S) /\ from \in S
    BY <1>1, <1>5
  <2>2. moved \in Seq(S) /\ IsInserted(moved, rest, at, from)
    BY <1>6, <2>1, Inserted
  <2>3. QED
    BY <2>1, <2>2 DEF IsInserted
<1>8. moved \in [1..n -> S]
  BY <1>7
<1>9. ASSUME NEW i \in 1..(at - 1)
      PROVE  moved[i] = IF i <= from THEN i - 1 ELSE i
  <2>1. i \in 1..(n - 1)
    BY <1>1
  <2>2. QED
    BY <1>5, <1>7, <2>1
<1>10. ASSUME NEW i \in (at + 1)..n
      PROVE  moved[i] = IF i <= from + 1 THEN i - 2 ELSE i - 1
  <2>1. i - 1 \in 1..(n - 1)
    BY <1>1
  <2>2. moved[i] = IF i - 1 <= from THEN i - 1 - 1 ELSE i - 1
    BY <1>5, <1>7, <2>1
  <2>3. i - 1 <= from <=> i <= from + 1
    BY <1>1
  <2>4. QED
    BY <2>2, <2>3
<1>11. QED
  BY <1>1, <1>7, <1>8, <1>9, <1>10 DEF S, IsMoved

(* A drop lands where the cursor is. *)
LEMMA DropLands ==
  ASSUME NEW n \in Nat
  PROVE  DropsLand(n)
<1> SUFFICES ASSUME NEW cursor \in Cursors(n), NEW from \in 0..(n - 1)
             PROVE  LET moved == MoveBlock(PlacesOf(n), from, DropIndex(n, cursor))
                    IN  /\ moved \in [1..n -> 0..(n - 1)]
                        /\ IsDropped(moved, n, from, cursor)
  BY DEF DropsLand, PlacesOf
<1> DEFINE d == DropIndex(n, cursor)
           moved == MoveBlock(PlacesOf(n), from, d)
           at == IF from < d THEN d ELSE d + 1
<1>1. d \in 0..n /\ \A j \in 0..(n - 1) : IsPast(cursor, j) <=> j < d
  BY DropsAtCursor
<1> HIDE DEF d
<1>2. /\ moved \in [1..n -> 0..(n - 1)] /\ at \in 1..n
      /\ moved[at] = from
      /\ \A i \in 1..(at - 1) : moved[i] = IF i <= from THEN i - 1 ELSE i
      /\ \A i \in (at + 1)..n : moved[i] = IF i <= from + 1 THEN i - 2 ELSE i - 1
  <2>1. d \in 0..n
    BY <1>1
  <2>2. d \in Int /\ at = IF from < d THEN d ELSE d + 1
    BY <2>1
  <2> HIDE DEF moved, at
  <2>3. moved = MoveBlock(PlacesOf(n), from, d)
    BY DEF moved
  <2>4. IsMoved(n, from, at, moved)
    BY <2>1, <2>2, <2>3, MovedTo
  <2>5. QED
    BY <2>4 DEF IsMoved
<1> HIDE DEF moved
<1> DEFINE others == (1..n) \ {at}
<1>3. \A i \in others : i \in 1..(at - 1) \/ i \in (at + 1)..n
  BY <1>2
<1>4. ASSUME NEW i \in others
      PROVE  moved[i] # from /\ (IsPast(cursor, moved[i]) <=> i < at)
  <2>1. CASE i \in 1..(at - 1)
    <3>1. moved[i] = IF i <= from THEN i - 1 ELSE i
      BY <1>2, <2>1
    <3>2. moved[i] # from /\ moved[i] < d /\ i < at
      BY <1>1, <2>1, <3>1
    <3>3. moved[i] \in 0..(n - 1)
      BY <1>2
    <3>4. QED
      BY <1>1, <3>2, <3>3
  <2>2. CASE i \in (at + 1)..n
    <3>1. moved[i] = IF i <= from + 1 THEN i - 2 ELSE i - 1
      BY <1>2, <2>2
    <3>2. moved[i] # from /\ ~(moved[i] < d) /\ ~(i < at)
      BY <1>1, <2>2, <3>1
    <3>3. moved[i] \in 0..(n - 1)
      BY <1>2
    <3>4. QED
      BY <1>1, <3>2, <3>3
  <2>3. QED
    BY <1>3, <2>1, <2>2
<1>5. ASSUME NEW i \in others, NEW k \in others, i < k
      PROVE  moved[i] < moved[k]
  <2>1. CASE i \in 1..(at - 1) /\ k \in 1..(at - 1)
    <3>1. /\ moved[i] = IF i <= from THEN i - 1 ELSE i
          /\ moved[k] = IF k <= from THEN k - 1 ELSE k
      BY <1>2, <2>1
    <3>2. QED
      BY <1>5, <3>1
  <2>2. CASE i \in 1..(at - 1) /\ k \in (at + 1)..n
    <3>1. /\ moved[i] = IF i <= from THEN i - 1 ELSE i
          /\ moved[k] = IF k <= from + 1 THEN k - 2 ELSE k - 1
      BY <1>2, <2>2
    <3>2. QED
      BY <1>1, <2>2, <3>1
  <2>3. CASE i \in (at + 1)..n /\ k \in (at + 1)..n
    <3>1. /\ moved[i] = IF i <= from + 1 THEN i - 2 ELSE i - 1
          /\ moved[k] = IF k <= from + 1 THEN k - 2 ELSE k - 1
      BY <1>2, <2>3
    <3>2. QED
      BY <1>5, <3>1
  <2>4. ~(i \in (at + 1)..n /\ k \in 1..(at - 1))
    BY <1>1, <1>5
  <2>5. QED
    BY <1>3, <2>1, <2>2, <2>3, <2>4
<1> HIDE DEF others
<1>6. IsDropped(moved, n, from, cursor)
  <2>1. \A i \in others : /\ moved[i] # from
                          /\ IsPast(cursor, moved[i]) <=> i < at
    BY <1>4
  <2>2. \A i, k \in others : i < k => moved[i] < moved[k]
    BY <1>5
  <2> HIDE DEF at
  <2>3. QED
    BY <1>2, <2>1, <2>2 DEF IsDropped, others
<1>7. QED
  BY <1>2, <1>6 DEF moved, d

LEMMA ArrowsFollow ==
  ASSUME NEW n \in Nat
  PROVE  ArrowsLead(n)
<1> SUFFICES ASSUME NEW i \in 0..(n - 2)
             PROVE  LET step == Arrow(i, n)
                    IN  /\ Row(i + 1) = Row(i) + (IF step = "down" THEN 1 ELSE 0)
                        /\ Col(i + 1) = Col(i) + (CASE step = "right" -> 1
                                                    [] step = "left" -> -1
                                                    [] OTHER -> 0)
  BY DEF ArrowsLead
<1> DEFINE C == Columns
<1>1. C \in Nat /\ C > 0 /\ i \in Nat /\ ~(i >= n - 1) /\ i < n - 1
  BY ColumnsAssumption
<1>2. PICK r \in Nat, m \in 0..(C - 1) : i = C * r + m /\ Row(i) = r /\ i % C = m
  BY <1>1, PlacesAre
<1>3. C * r \in Nat /\ C * (r + 1) = C * r + C
  BY <1>1
<1>4. Col(i) = IF r % 2 = 0 THEN m + 1 ELSE C - m
  BY <1>2 DEF Col, IsEvenRow
<1>5. CASE m + 1 < C
  <2>1. Row(i + 1) = r /\ (i + 1) % C = m + 1
    <3>1. m + 1 \in 0..(C - 1) /\ i + 1 = C * r + (m + 1)
      BY <1>1, <1>2, <1>3, <1>5
    <3>2. QED
      BY <3>1, PlaceOf
  <2>2. Col(i + 1) = IF r % 2 = 0 THEN m + 2 ELSE C - (m + 1)
    BY <2>1, <1>1 DEF Col, IsEvenRow
  <2>3. Arrow(i, n) = IF r % 2 = 0 THEN "right" ELSE "left"
    BY <1>1, <1>2, <2>1 DEF Arrow, IsEvenRow
  <2>4. QED
    BY <1>1, <1>2, <1>4, <2>1, <2>2, <2>3
<1>6. CASE ~(m + 1 < C)
  <2>1. m = C - 1
    BY <1>1, <1>6
  <2>2. Row(i + 1) = r + 1 /\ (i + 1) % C = 0
    <3>1. r + 1 \in Nat /\ 0 \in 0..(C - 1) /\ i + 1 = C * (r + 1) + 0
      BY <1>1, <1>2, <1>3, <2>1
    <3>2. QED
      BY <3>1, PlaceOf
  <2>3. (r + 1) % 2 = 0 <=> r % 2 # 0
    OBVIOUS
  <2>4. Col(i + 1) = IF r % 2 = 0 THEN C ELSE 1
    BY <1>1, <2>2, <2>3 DEF Col, IsEvenRow
  <2>5. Arrow(i, n) = "down"
    BY <1>1, <1>2, <2>2 DEF Arrow
  <2>6. Col(i + 1) = Col(i) + 0
    BY <1>1, <1>4, <2>1, <2>4
  <2>7. QED
    BY <1>2, <2>2, <2>5, <2>6
<1>7. QED
  BY <1>5, <1>6

\* A block dropped on the snake lands where the cursor is on its path, and the
\* arrows lead along it, whatever the size of a flow and the number of columns
\* (computeDropIndex, moveBlock, buildSerpentine).
THEOREM DropsFollow == Spec => []DropsFollowTheSnake
<1>1. \A n \in Nat : SnakeLeads(n)
  BY DropLands, ArrowsFollow DEF SnakeLeads
<1>2. ASSUME HostTypeOK PROVE DropsFollowTheSnake
  <2>1. editor.open => Len(editor.flow) \in Nat
    BY <1>2 DEF HostTypeOK, EditorTypeOK, Editors, OpenEditors, NoEditor, Flows
  <2>2. QED
    BY <1>1, <2>1 DEF DropsFollowTheSnake
<1>3. QED
  BY <1>2, HostTypeCorrect, PTL

-------------------------------------------------------------------------------
(* What sort() makes of a set in a strict order. *)

IsOrder(S, R) ==
    /\ \A x \in S : <<x, x>> \notin R
    /\ \A x, y \in S : x # y => <<x, y>> \in R \/ <<y, x>> \in R
    /\ \A x, y, z \in S : <<x, y>> \in R /\ <<y, z>> \in R => <<x, z>> \in R

\* The more come before, the more come before those after.
LEMMA AheadGrows ==
  ASSUME NEW S, IsFiniteSet(S), NEW R, IsOrder(S, R), NEW d \in S, NEW e \in S
  PROVE  /\ Cardinality(Ahead(S, R, e)) \in 0..(Cardinality(S) - 1)
         /\ Cardinality(S) \in Nat
         /\ <<d, e>> \in R => Cardinality(Ahead(S, R, d)) < Cardinality(Ahead(S, R, e))
<1> DEFINE D == Ahead(S, R, d)
           E == Ahead(S, R, e)
<1>1. D \in SUBSET S /\ E \in SUBSET S /\ e \notin E /\ d \notin D
  BY DEF Ahead, IsOrder
<1>2. <<d, e>> \in R => D \in SUBSET E /\ d \in E
  BY DEF Ahead, IsOrder
<1> HIDE DEF D, E
<1>3. /\ IsFiniteSet(E) /\ Cardinality(E) <= Cardinality(S)
      /\ Cardinality(S) = Cardinality(E) => S = E
  BY <1>1, FS_Subset
<1>4. Cardinality(S) \in Nat /\ Cardinality(E) \in Nat
  BY <1>3, FS_CardinalityType
<1>5. Cardinality(E) # Cardinality(S)
  BY <1>1, <1>3
<1>6. <<d, e>> \in R => /\ IsFiniteSet(D) /\ Cardinality(D) <= Cardinality(E)
                        /\ Cardinality(E) = Cardinality(D) => E = D
  BY <1>2, <1>3, FS_Subset
<1>7. <<d, e>> \in R => Cardinality(D) \in Nat /\ E # D
  BY <1>1, <1>2, <1>6, FS_CardinalityType
<1>8. <<d, e>> \in R => Cardinality(D) < Cardinality(E)
  BY <1>4, <1>6, <1>7
<1>9. Cardinality(E) \in 0..(Cardinality(S) - 1)
  BY <1>3, <1>4, <1>5
<1>10. QED
  BY <1>4, <1>8, <1>9 DEF D, E

LEMMA SortedIs ==
  ASSUME NEW S, IsFiniteSet(S), NEW R, IsOrder(S, R)
  PROVE  /\ Cardinality(S) \in Nat
         /\ Sorted(S, R) \in [1..Cardinality(S) -> S]
         /\ Range(Sorted(S, R)) = S
         /\ \A i, j \in 1..Cardinality(S) :
                i < j <=> <<Sorted(S, R)[i], Sorted(S, R)[j]>> \in R
<1> DEFINE n == Cardinality(S)
           rank == [e \in S |-> Cardinality(Ahead(S, R, e))]
           s == Sorted(S, R)
<1>1. n \in Nat
  BY FS_CardinalityType
<1>2. rank \in [S -> 0..(n - 1)]
  BY AheadGrows
<1>3. \A d, e \in S : <<d, e>> \in R => rank[d] < rank[e]
  BY AheadGrows
<1>4. s = [i \in 1..n |-> CHOOSE e \in S : Cardinality(Ahead(S, R, e)) = i - 1]
  BY DEF Sorted
<1>4a. \A e \in S : rank[e] = Cardinality(Ahead(S, R, e))
  OBVIOUS
<1>5. DOMAIN s = 1..n /\ s = [i \in DOMAIN s |-> s[i]]
  BY DEF Sorted
<1> HIDE DEF rank, s, n
<1>6. rank \in Injection(S, 0..(n - 1))
  <2>1. ASSUME NEW d \in S, NEW e \in S, rank[d] = rank[e] PROVE d = e
    <3>1. rank[d] \in Int /\ ~(rank[d] < rank[e]) /\ ~(rank[e] < rank[d])
      BY <1>1, <1>2, <2>1
    <3>2. QED
      BY <1>3, <3>1 DEF IsOrder
  <2>2. QED
    BY <1>2, <2>1 DEF Injection, IsInjective
<1>7. rank \in Surjection(S, 0..(n - 1))
  <2>1. IsFiniteSet(0..(n - 1)) /\ Cardinality(0..(n - 1)) = n
    BY <1>1, FS_Interval
  <2>2. QED
    BY <1>6, <2>1, FS_Injection DEF n
<1>8. ASSUME NEW i \in 1..n PROVE s[i] \in S /\ rank[s[i]] = i - 1
  <2>1. i - 1 \in 0..(n - 1)
    BY <1>1
  <2>2. \E e \in S : rank[e] = i - 1
    BY <1>7, <2>1 DEF Surjection
  <2>3. QED
    BY <1>4, <1>4a, <2>2
<1>9. s \in [1..n -> S]
  BY <1>5, <1>8
<1>10. ASSUME NEW e \in S PROVE rank[e] + 1 \in 1..n /\ s[rank[e] + 1] = e
  <2>1. rank[e] + 1 \in 1..n /\ (rank[e] + 1) - 1 = rank[e]
    BY <1>1, <1>2
  <2>2. s[rank[e] + 1] \in S /\ rank[s[rank[e] + 1]] = rank[e]
    BY <1>8, <2>1
  <2>3. QED
    BY <1>6, <2>1, <2>2 DEF Injection, IsInjective
<1>11. Range(s) = S
  <2>1. \A x \in DOMAIN s : s[x] \in S
    BY <1>9
  <2>2. \A e \in S : \E x \in DOMAIN s : s[x] = e
    BY <1>5, <1>10
  <2>3. QED
    BY <2>1, <2>2 DEF Range
<1>12. ASSUME NEW i \in 1..n, NEW j \in 1..n PROVE i < j <=> <<s[i], s[j]>> \in R
  <2>1. /\ s[i] \in S /\ s[j] \in S /\ i \in Int /\ j \in Int
        /\ rank[s[i]] = i - 1 /\ rank[s[j]] = j - 1
    BY <1>1, <1>8
  <2>2. <<s[i], s[j]>> \in R => i < j
    BY <1>3, <2>1
  <2>3. <<s[j], s[i]>> \in R => j < i
    BY <1>3, <2>1
  <2>4. s[i] = s[j] => i = j
    BY <2>1
  <2>5. QED
    BY <2>1, <2>2, <2>3, <2>4 DEF IsOrder
<1>13. QED
  BY <1>1, <1>9, <1>11, <1>12 DEF n, s

-------------------------------------------------------------------------------
(* The standings: who passes whom from a board to the next. *)

\* Every player has one place on a board.
IsBoard(o, m) ==
    /\ m \in Nat /\ o \in [1..m -> Nat]
    /\ \A i, j \in 1..m : o[i] = o[j] => i = j

LEMMA PositionIs ==
  ASSUME NEW m, NEW o, IsBoard(o, m)
  PROVE  /\ Range(o) = {o[i] : i \in 1..m}
         /\ \A p : PreviousPosition(o, p) \in Nat
         /\ \A p \in Range(o) : /\ PreviousPosition(o, p) \in 1..m
                                /\ o[PreviousPosition(o, p)] = p
         /\ \A i \in 1..m : PreviousPosition(o, o[i]) = i
<1>1. /\ DOMAIN o = 1..m /\ m \in Nat
      /\ \A i, j \in 1..m : o[i] = o[j] => i = j
  BY DEF IsBoard
<1>2. Range(o) = {o[i] : i \in 1..m}
  BY <1>1 DEF Range
<1>3. ASSUME NEW p \in Range(o)
      PROVE  PreviousPosition(o, p) \in 1..m /\ o[PreviousPosition(o, p)] = p
  <2>1. \E i \in 1..m : o[i] = p
    BY <1>2
  <2>2. PreviousPosition(o, p) = CHOOSE i \in 1..m : o[i] = p
    BY <1>1 DEF PreviousPosition
  <2>3. QED
    BY <2>1, <2>2
<1>4. ASSUME NEW p PROVE PreviousPosition(o, p) \in Nat
  <2>1. CASE p \in Range(o)
    BY <1>1, <1>3, <2>1
  <2>2. CASE p \notin Range(o)
    BY <2>2 DEF PreviousPosition, NewPlayerPosition
  <2>3. QED
    BY <2>1, <2>2
<1>5. ASSUME NEW i \in 1..m PROVE PreviousPosition(o, o[i]) = i
  <2>1. o[i] \in Range(o)
    BY <1>2
  <2>2. QED
    BY <1>1, <1>3, <2>1
<1>6. QED
  BY <1>2, <1>3, <1>4, <1>5

\* compareLeaderboardPlayers() is a strict order, whatever the last board was.
LEMMA StandingsOrdered ==
  ASSUME NEW before, \A p : PreviousPosition(before, p) \in Nat,
         NEW here \in SUBSET Nat, NEW score \in [here -> Nat]
  PROVE  IsOrder(here, {pq \in here \X here : ComesFirst(before, score, pq[1], pq[2])})
<1> DEFINE R == {pq \in here \X here : ComesFirst(before, score, pq[1], pq[2])}
<1>1. \A p, q \in here : <<p, q>> \in R <=> ComesFirst(before, score, p, q)
  OBVIOUS
<1> HIDE DEF R
<1>2. \A p \in here : p \in Nat /\ score[p] \in Nat /\ PreviousPosition(before, p) \in Nat
  OBVIOUS
<1>3. \A p \in here : ~ComesFirst(before, score, p, p)
  BY <1>2 DEF ComesFirst
<1>4. \A p, q \in here : p # q => \/ ComesFirst(before, score, p, q)
                                  \/ ComesFirst(before, score, q, p)
  BY <1>2 DEF ComesFirst
<1>5. \A p, q, r \in here :
        ComesFirst(before, score, p, q) /\ ComesFirst(before, score, q, r)
          => ComesFirst(before, score, p, r)
  BY <1>2 DEF ComesFirst
<1>6. IsOrder(here, R)
  BY <1>1, <1>3, <1>4, <1>5 DEF IsOrder
<1>7. QED
  BY <1>6 DEF R

LEMMA StandingsAre ==
  ASSUME NEW before, \A p : PreviousPosition(before, p) \in Nat,
         NEW here \in SUBSET Nat, IsFiniteSet(here), NEW score \in [here -> Nat]
  PROVE  LET o == LeaderboardOrder(before, score)
             m == Cardinality(here)
         IN  /\ IsBoard(o, m) /\ Range(o) = here /\ Len(o) = m
             /\ \A i, j \in 1..m : i < j <=> ComesFirst(before, score, o[i], o[j])
<1> DEFINE o == LeaderboardOrder(before, score)
           m == Cardinality(here)
           R == {pq \in here \X here : ComesFirst(before, score, pq[1], pq[2])}
<1>1. DOMAIN score = here
  OBVIOUS
<1>2. o = Sorted(here, R)
  BY <1>1 DEF LeaderboardOrder
<1>3. IsOrder(here, R)
  BY StandingsOrdered
<1>4. \A p, q \in here : <<p, q>> \in R <=> ComesFirst(before, score, p, q)
  OBVIOUS
<1> HIDE DEF o, m, R
<1>5. /\ m \in Nat /\ o \in [1..m -> here] /\ Range(o) = here
      /\ \A i, j \in 1..m : i < j <=> <<o[i], o[j]>> \in R
  BY <1>2, <1>3, SortedIs DEF m
<1>6. \A i, j \in 1..m : o[i] = o[j] => i = j
  <2>1. \A x \in here : <<x, x>> \notin R
    BY <1>3 DEF IsOrder
  <2>2. \A i, j \in 1..m : o[i] = o[j] => ~(i < j) /\ ~(j < i)
    BY <1>5, <2>1
  <2>3. QED
    BY <1>5, <2>2
<1>7. o \in [1..m -> Nat] /\ Len(o) = m
  <2>1. DOMAIN o = 1..m /\ o = [i \in 1..m |-> o[i]] /\ m \in Nat
    BY <1>5
  <2>2. \A i \in 1..m : o[i] \in Nat
    BY <1>5
  <2>3. Len(o) = m
    BY <2>1
  <2>4. QED
    BY <2>1, <2>2, <2>3
<1>8. \A i, j \in 1..m : i < j <=> ComesFirst(before, score, o[i], o[j])
  BY <1>4, <1>5
<1>9. QED
  BY <1>5, <1>6, <1>7, <1>8 DEF IsBoard, o, m

Leading(o, k) == {o[i] : i \in 1..k}

LEMMA LeadingCounts ==
  ASSUME NEW m, NEW o, IsBoard(o, m), NEW k \in 0..m
  PROVE  IsFiniteSet(Leading(o, k)) /\ Cardinality(Leading(o, k)) = k
<1> DEFINE S == Leading(o, k)
           f == [i \in 1..k |-> o[i]]
<1>1. k \in Nat /\ \A i \in 1..k : i \in 1..m
  BY DEF IsBoard
<1>2. f \in [1..k -> S] /\ (\A e \in S : \E i \in 1..k : f[i] = e)
      /\ \A i, j \in 1..k : f[i] = f[j] => i = j
  BY <1>1 DEF IsBoard, Leading
<1> HIDE DEF S, f
<1>3. f \in Bijection(1..k, S)
  BY <1>2 DEF Bijection, Injection, IsInjective, Surjection
<1>4. ExistsBijection(1..k, S)
  BY <1>3 DEF ExistsBijection
<1>5. IsFiniteSet(1..k) /\ IsFiniteSet(S)
  BY <1>1, <1>4, FS_Interval, FS_Bijection
<1>6. QED
  BY <1>1, <1>4, <1>5, FS_CountingElements DEF S

\* Who is ahead of a player stands before, and comes first.
LEMMA LeadingIs ==
  ASSUME NEW m, NEW o, IsBoard(o, m), NEW p \in Range(o), NEW q
  PROVE  q \in Leading(o, PreviousPosition(o, p) - 1)
           <=> q \in Range(o) /\ PreviousPosition(o, q) < PreviousPosition(o, p)
<1> DEFINE k == PreviousPosition(o, p)
<1>1. k \in 1..m /\ m \in Nat /\ Range(o) = {o[i] : i \in 1..m}
  BY PositionIs DEF IsBoard
<1>2. ASSUME q \in Leading(o, k - 1)
      PROVE  q \in Range(o) /\ PreviousPosition(o, q) < k
  <2>1. PICK i \in 1..(k - 1) : o[i] = q
    BY <1>2 DEF Leading
  <2>2. i \in 1..m /\ i < k
    BY <1>1, <2>1
  <2>3. PreviousPosition(o, q) = i
    BY <2>1, <2>2, PositionIs
  <2>4. QED
    BY <1>1, <2>1, <2>2, <2>3
<1>3. ASSUME q \in Range(o), PreviousPosition(o, q) < k
      PROVE  q \in Leading(o, k - 1)
  <2>1. PreviousPosition(o, q) \in 1..m /\ o[PreviousPosition(o, q)] = q
    BY <1>3, PositionIs
  <2>2. PreviousPosition(o, q) \in 1..(k - 1)
    BY <1>1, <1>3, <2>1
  <2>3. QED
    BY <2>1, <2>2 DEF Leading
<1>4. QED
  BY <1>2, <1>3

LEMMA PassingFollows ==
  ASSUME NEW m, NEW before, IsBoard(before, m), NEW n, NEW order, IsBoard(order, n),
         NEW score \in [Range(order) -> Nat],
         \A i, j \in 1..n : i < j <=> ComesFirst(before, score, order[i], order[j])
  PROVE  PassingIsEarned(before, order, score)
<1> SUFFICES ASSUME NEW p \in Range(order), p \in Range(before)
             PROVE  LET ahead(o) == Leading(o, PreviousPosition(o, p) - 1)
                        passed == {q \in ahead(before) : q \notin ahead(order)}
                        passedBy == {q \in ahead(order) : q \notin ahead(before)}
                        stayed == passed \cap Range(order)
                    IN  /\ \A q \in stayed : score[p] > score[q]
                        /\ RankChange(before, order, p)
                             = Cardinality(passed) - Cardinality(passedBy)
  BY DEF PassingIsEarned, Leading
<1> DEFINE x == PreviousPosition(before, p)
           y == PreviousPosition(order, p)
           A == Leading(before, x - 1)
           B == Leading(order, y - 1)
<1>1. x \in 1..m /\ y \in 1..n /\ m \in Nat /\ n \in Nat
  BY PositionIs DEF IsBoard
<1>2. /\ IsFiniteSet(A) /\ Cardinality(A) = x - 1
      /\ IsFiniteSet(B) /\ Cardinality(B) = y - 1
  <2>1. x - 1 \in 0..m /\ y - 1 \in 0..n
    BY <1>1
  <2>2. QED
    BY <2>1, LeadingCounts
<1>3. ASSUME NEW q \in A, q \notin B, q \in Range(order) PROVE score[p] > score[q]
  <2>1. PreviousPosition(before, q) < x /\ PreviousPosition(before, q) \in Nat
    BY <1>3, LeadingIs, PositionIs
  <2>2. ~(PreviousPosition(order, q) < y) /\ PreviousPosition(order, q) \in 1..n
        /\ order[PreviousPosition(order, q)] = q /\ order[y] = p
    BY <1>3, LeadingIs, PositionIs
  <2>3. p # q
    BY <1>1, <2>1
  <2>4. y < PreviousPosition(order, q)
    BY <1>1, <2>2, <2>3
  <2>5. ComesFirst(before, score, p, q)
    BY <1>1, <2>2, <2>4
  <2>6. score[p] \in Nat /\ score[q] \in Nat
    BY <1>3
  <2>7. QED
    BY <1>1, <2>1, <2>5, <2>6 DEF ComesFirst
<1> HIDE DEF A, B, x, y
<1> DEFINE passed == {q \in A : q \notin B}
           passedBy == {q \in B : q \notin A}
<1>4. passed = A \ B /\ passedBy = B \ A /\ A \cap B = B \cap A
  OBVIOUS
<1> HIDE DEF passed, passedBy
<1>5. Cardinality(A \cap B) \in Nat
  BY <1>2, FS_Intersection, FS_CardinalityType
<1>6. /\ Cardinality(A \ B) = Cardinality(A) - Cardinality(A \cap B)
      /\ Cardinality(B \ A) = Cardinality(B) - Cardinality(B \cap A)
  BY <1>2, FS_Difference
<1>7. Cardinality(passed) - Cardinality(passedBy) = x - y
  <2>1. PICK c \in Nat : /\ Cardinality(A \cap B) = c
                         /\ Cardinality(B \cap A) = c
    BY <1>4, <1>5
  <2>2. Cardinality(passed) = (x - 1) - c /\ Cardinality(passedBy) = (y - 1) - c
    BY <1>2, <1>4, <1>6, <2>1
  <2>3. x \in Int /\ y \in Int
    BY <1>1
  <2>4. QED
    BY <2>2, <2>3
<1>8. RankChange(before, order, p) = x - y
  BY DEF RankChange, x, y
<1>9. QED
  BY <1>3, <1>7, <1>8 DEF A, B, x, y, passed, passedBy

\* For any players, numbered as they joined, and any points.
LEMMA StandingsFollow ==
  ASSUME NEW players \in SUBSET Nat, IsFiniteSet(players), NEW most \in Nat
  PROVE  StandingsLead(players, most)
<1> DEFINE scores == UNION {[here -> 0..most] : here \in SUBSET players}
<1> SUFFICES ASSUME NEW before \in {LeaderboardOrder(<<>>, score) : score \in scores},
                    NEW score \in scores
             PROVE  LET order == LeaderboardOrder(before, score)
                    IN  /\ Range(order) = DOMAIN score
                        /\ \A i \in 2..Len(order) : score[order[i - 1]] >= score[order[i]]
                        /\ PassingIsEarned(before, order, score)
  BY DEF StandingsLead
<1>11. PICK first \in scores : before = LeaderboardOrder(<<>>, first)
  OBVIOUS
<1>0. PICK here \in SUBSET players, there \in SUBSET players :
        score \in [here -> 0..most] /\ first \in [there -> 0..most]
  OBVIOUS
<1> HIDE DEF scores
<1> DEFINE order == LeaderboardOrder(before, score)
           m == Cardinality(there)
           n == Cardinality(here)
<1>1. /\ here \in SUBSET Nat /\ there \in SUBSET Nat
      /\ IsFiniteSet(here) /\ IsFiniteSet(there)
      /\ score \in [here -> Nat] /\ first \in [there -> Nat]
  <2>1. IsFiniteSet(here) /\ IsFiniteSet(there)
    BY FS_Subset
  <2>2. 0..most \subseteq Nat
    OBVIOUS
  <2>3. score \in [here -> Nat] /\ first \in [there -> Nat]
    BY <1>0, <2>2
  <2>4. QED
    BY <2>1, <2>3
<1>2. \A p : PreviousPosition(<<>>, p) \in Nat
  <2>1. IsBoard(<<>>, 0)
    BY DEF IsBoard
  <2>2. QED
    BY <2>1, PositionIs
<1>3. IsBoard(before, m)
  BY <1>11, <1>1, <1>2, StandingsAre
<1>4. \A p : PreviousPosition(before, p) \in Nat
  BY <1>3, PositionIs
<1>5. /\ IsBoard(order, n) /\ Range(order) = here /\ Len(order) = n
      /\ \A i, j \in 1..n : i < j <=> ComesFirst(before, score, order[i], order[j])
  BY <1>1, <1>4, StandingsAre
<1> HIDE DEF order, m, n
<1>6. PassingIsEarned(before, order, score)
  <2>1. score \in [Range(order) -> Nat]
    BY <1>1, <1>5
  <2>2. QED
    BY <1>3, <1>5, <2>1, PassingFollows
<1>7. ASSUME NEW i \in 2..n PROVE score[order[i - 1]] >= score[order[i]]
  <2>0. n \in Nat
    BY <1>5 DEF IsBoard
  <2>1. n \in Nat /\ Range(order) = {order[k] : k \in 1..n}
    BY <1>5, <2>0, PositionIs
  <2>2. i - 1 \in 1..n /\ i \in 1..n /\ i - 1 < i
    BY <2>1
  <2>3. ComesFirst(before, score, order[i - 1], order[i])
    BY <1>5, <2>2
  <2>4. order[i - 1] \in here /\ order[i] \in here
    BY <1>5, <2>1, <2>2
  <2>5. score[order[i - 1]] \in Nat /\ score[order[i]] \in Nat
    BY <1>1, <2>4
  <2>6. QED
    BY <2>3, <2>5 DEF ComesFirst
<1>8. Range(order) = DOMAIN score
  BY <1>1, <1>5
<1>9. QED
  BY <1>5, <1>6, <1>7, <1>8 DEF order

-------------------------------------------------------------------------------
(* The roadmap: where the names of the themes stand. *)

\* The rounds of the first k themes
IsNew(blocks, i) == \A j \in 1..(i - 1) : blocks[j] # blocks[i]
NewOnes(blocks) == {i \in DOMAIN blocks : IsNew(blocks, i)}
Earlier(blocks) == {ij \in (DOMAIN blocks) \X (DOMAIN blocks) : ij[1] < ij[2]}
Firsts(blocks) == Sorted(NewOnes(blocks), Earlier(blocks))
OfTheme(blocks, i) == {j \in DOMAIN blocks : blocks[j] = blocks[i]}
Covered(blocks, k) ==
    {i \in DOMAIN blocks : \E n \in 1..k : blocks[i] = blocks[Firsts(blocks)[n]]}

ThemesOf(blocks) ==
    [n \in DOMAIN Firsts(blocks) |->
        [theme |-> blocks[Firsts(blocks)[n]],
         questions |-> Cardinality(OfTheme(blocks, Firsts(blocks)[n]))]]

LEMMA ThemesAre ==
  ASSUME NEW blocks
  PROVE  RoadmapThemes(blocks) = ThemesOf(blocks)
BY DEF RoadmapThemes, ThemesOf, OfTheme, Firsts, NewOnes, IsNew, Earlier

LEMMA FirstsAre ==
  ASSUME NEW T, NEW blocks \in Seq(T)
  PROVE  LET k == Cardinality(NewOnes(blocks))
         IN  /\ k \in Nat /\ Firsts(blocks) \in [1..k -> NewOnes(blocks)]
             /\ Range(Firsts(blocks)) = NewOnes(blocks)
             /\ NewOnes(blocks) \subseteq 1..Len(blocks)
             /\ \A i, j \in 1..k : i < j <=> Firsts(blocks)[i] < Firsts(blocks)[j]
             /\ \A i, j \in 1..k :
                  i # j => blocks[Firsts(blocks)[i]] # blocks[Firsts(blocks)[j]]
<1> DEFINE F == NewOnes(blocks)
           R == Earlier(blocks)
           k == Cardinality(F)
           f == Firsts(blocks)
<1>1. DOMAIN blocks = 1..Len(blocks) /\ Len(blocks) \in Nat
  OBVIOUS
<1>2. F \in SUBSET (1..Len(blocks))
  BY <1>1 DEF NewOnes
<1>3. IsFiniteSet(F)
  <2> HIDE DEF F
  <2>1. IsFiniteSet(1..Len(blocks))
    BY <1>1, FS_Interval
  <2>2. QED
    BY <1>2, <2>1, FS_Subset
<1>4. \A x, y \in F : <<x, y>> \in R <=> x < y
  BY <1>1, <1>2 DEF Earlier
<1>5. \A x \in F : x \in Nat /\ IsNew(blocks, x)
  BY <1>1, <1>2 DEF NewOnes
<1> HIDE DEF F, R
<1>6. IsOrder(F, R)
  BY <1>4, <1>5 DEF IsOrder
<1>7. /\ k \in Nat /\ f \in [1..k -> F] /\ Range(f) = F
      /\ \A i, j \in 1..k : i < j <=> <<f[i], f[j]>> \in R
  BY <1>3, <1>6, SortedIs DEF Firsts, F, R
<1> HIDE DEF k, f
<1>8. \A i, j \in 1..k : i < j <=> f[i] < f[j]
  BY <1>4, <1>7
<1>9. \A i, j \in 1..k : i < j => blocks[f[i]] # blocks[f[j]]
  <2> SUFFICES ASSUME NEW i \in 1..k, NEW j \in 1..k, i < j
               PROVE  blocks[f[i]] # blocks[f[j]]
    OBVIOUS
  <2>1. f[i] \in F /\ f[j] \in F
    BY <1>7
  <2>2. f[i] < f[j]
    BY <1>8
  <2>3. f[i] \in 1..Len(blocks) /\ f[j] \in Nat /\ IsNew(blocks, f[j])
    BY <1>2, <1>5, <2>1
  <2>4. f[i] \in 1..(f[j] - 1)
    BY <1>1, <2>2, <2>3
  <2>5. QED
    BY <2>3, <2>4 DEF IsNew
<1>10. \A i, j \in 1..k : i # j => blocks[f[i]] # blocks[f[j]]
  BY <1>7, <1>9
<1>11. QED
  BY <1>2, <1>7, <1>8, <1>10 DEF k, f, F

\* Every round is of a theme that was new once.
LEMMA FirstOf ==
  ASSUME NEW T, NEW blocks \in Seq(T), NEW i \in 1..Len(blocks)
  PROVE  \E j \in NewOnes(blocks) : j <= i /\ blocks[j] = blocks[i]
<1> DEFINE Found(x) == \E j \in NewOnes(blocks) : j <= x /\ blocks[j] = blocks[x]
           K == {k \in Nat : \A x \in 1..Len(blocks) : x <= k => Found(x)}
<1>1. DOMAIN blocks = 1..Len(blocks) /\ Len(blocks) \in Nat
  OBVIOUS
<1>2. 0 \in K
  OBVIOUS
<1>3. ASSUME NEW k \in Nat, k \in K PROVE k + 1 \in K
  <2> SUFFICES ASSUME NEW x \in 1..Len(blocks), x <= k + 1 PROVE Found(x)
    OBVIOUS
  <2>1. CASE IsNew(blocks, x)
    BY <1>1, <2>1 DEF NewOnes
  <2>2. CASE ~IsNew(blocks, x)
    <3>1. PICK y \in 1..(x - 1) : blocks[y] = blocks[x]
      BY <2>2 DEF IsNew
    <3>2. y \in 1..Len(blocks) /\ y <= k /\ y < x
      BY <1>1, <3>1
    <3>3. PICK j \in NewOnes(blocks) : j <= y /\ blocks[j] = blocks[y]
      BY <1>3, <3>2
    <3>4. j \in Nat
      BY <1>1 DEF NewOnes
    <3>5. QED
      BY <3>1, <3>2, <3>3, <3>4
  <2>3. QED
    BY <2>1, <2>2
<1> HIDE DEF K
<1>4. i \in K
  BY <1>1, <1>2, <1>3, CountUp
<1>5. QED
  BY <1>1, <1>4 DEF K

Adding(themes, g) ==
  g = [s \in SUBSET DOMAIN themes |->
         IF s = {} THEN 0 ELSE g[s \ {Max(s)}] + themes[Max(s)].questions]

Sum(themes) == FoldLeft(LAMBDA sum, t : sum + t.questions, 0, themes)

LEMMA SumIsFold ==
  ASSUME NEW themes
  PROVE  Sum(themes) = (CHOOSE g : Adding(themes, g))[DOMAIN themes]
BY DEF Sum, FoldLeft, MapThenFoldSet, Adding

\* The questions of the themes are added theme by theme.
LEMMA SumByTheme ==
  ASSUME NEW n \in Nat, NEW themes, DOMAIN themes = 1..n,
         \A i \in 1..n : themes[i].questions \in Nat
  PROVE  \E turn \in [0..n -> Nat] :
           /\ turn[0] = 0
           /\ \A i \in 1..n : turn[i] = turn[i - 1] + themes[i].questions
           /\ Sum(themes) = turn[n]
<1> DEFINE step == [i \in 1..n |-> [v \in Nat |-> v + themes[i].questions]]
<1>1. \A i \in 1..n, v \in Nat : v + themes[i].questions \in Nat
  OBVIOUS
<1>2. \A i \in 1..n : step[i] \in [Nat -> Nat]
  BY <1>1
<1>3. \A i \in 1..n, v \in Nat : step[i][v] = v + themes[i].questions
  OBVIOUS
<1> HIDE DEF step
<1>4. PICK f : IsFold(f, n, 0, step)
  BY FoldExists
<1>5. \A s \in SUBSET (1..n) : f[s] \in Nat
  BY <1>2, <1>4, FoldTyped
<1>6. Adding(themes, f)
  <2>1. ASSUME NEW s \in SUBSET (1..n), s # {}
        PROVE  step[Max(s)][f[s \ {Max(s)}]]
                 = f[s \ {Max(s)}] + themes[Max(s)].questions
    <3>1. Max(s) \in 1..n /\ s \ {Max(s)} \in SUBSET (1..n)
      BY <2>1, MaxIsIn
    <3>2. QED
      BY <1>3, <1>5, <3>1
  <2>2. QED
    BY <1>4, <2>1 DEF IsFold, Adding
<1> DEFINE g == CHOOSE h : Adding(themes, h)
<1>7. Adding(themes, g)
  BY <1>6
<1> HIDE DEF g
<1>8. g[1..0] = 0
  <2>1. 1..0 = {} /\ 1..0 \in SUBSET (1..n)
    OBVIOUS
  <2>2. QED
    BY <1>7, <2>1 DEF Adding
<1>9. ASSUME NEW i \in 1..n PROVE g[1..i] = g[1..(i - 1)] + themes[i].questions
  <2>1. /\ 1..i \in SUBSET (1..n) /\ 1..i # {} /\ (1..i) \ {i} = 1..(i - 1)
        /\ Max(1..i) = i
    BY MaxOfInterval
  <2>2. QED
    BY <1>7, <2>1 DEF Adding
<1> DEFINE K == {k \in Nat : k <= n => g[1..k] \in Nat}
<1>10. 0 \in K
  BY <1>8
<1>11. ASSUME NEW k \in Nat, k \in K PROVE k + 1 \in K
  <2> SUFFICES ASSUME k + 1 <= n PROVE g[1..(k + 1)] \in Nat
    OBVIOUS
  <2>1. k + 1 \in 1..n /\ (k + 1) - 1 = k /\ g[1..k] \in Nat
    BY <1>11
  <2>2. QED
    BY <1>1, <1>9, <2>1
<1> HIDE DEF K
<1>12. \A k \in 0..n : g[1..k] \in Nat
  <2>1. Nat \subseteq K
    BY <1>10, <1>11, CountUp
  <2>2. QED
    BY <2>1 DEF K
<1> DEFINE turn == [i \in 0..n |-> g[1..i]]
<1>13. /\ turn \in [0..n -> Nat] /\ turn[0] = 0
       /\ \A i \in 1..n : turn[i] = turn[i - 1] + themes[i].questions
       /\ turn[n] = g[DOMAIN themes]
  BY <1>8, <1>9, <1>12
<1>14. Sum(themes) = turn[n]
  BY <1>13, SumIsFold DEF g
<1> HIDE DEF turn
<1>15. QED
  BY <1>13, <1>14

\* A theme adds its rounds to those of the themes before it.
LEMMA CoveredGrows ==
  ASSUME NEW T, NEW blocks \in Seq(T), NEW k \in Nat,
         k + 1 <= Cardinality(NewOnes(blocks))
  PROVE  LET i == Firsts(blocks)[k + 1]
         IN  /\ Covered(blocks, k + 1) = Covered(blocks, k) \cup OfTheme(blocks, i)
             /\ Covered(blocks, k) \cap OfTheme(blocks, i) = {}
             /\ i \in 1..Len(blocks) /\ i \notin Covered(blocks, k)
<1> DEFINE K == Cardinality(NewOnes(blocks))
           f == Firsts(blocks)
           i == f[k + 1]
<1>1. /\ K \in Nat /\ f \in [1..K -> NewOnes(blocks)]
      /\ NewOnes(blocks) \subseteq 1..Len(blocks)
      /\ \A a, b \in 1..K : a # b => blocks[f[a]] # blocks[f[b]]
  BY FirstsAre
<1>2. k + 1 \in 1..K /\ (\A n \in 1..k : n \in 1..K /\ n # k + 1)
  BY <1>1
<1>3. \A n : n \in 1..(k + 1) <=> n \in 1..k \/ n = k + 1
  OBVIOUS
<1> HIDE DEF f, K
<1>4. i \in 1..Len(blocks)
  BY <1>1, <1>2
<1>5. \A n \in 1..k : blocks[f[n]] # blocks[i]
  BY <1>1, <1>2
<1> HIDE DEF i
<1>6. \A x : x \in Covered(blocks, k) <=>
               x \in DOMAIN blocks /\ \E n \in 1..k : blocks[x] = blocks[f[n]]
  BY DEF Covered, f
<1>7. \A x : x \in Covered(blocks, k + 1) <=>
               /\ x \in DOMAIN blocks
               /\ (\E n \in 1..k : blocks[x] = blocks[f[n]]) \/ blocks[x] = blocks[i]
  BY <1>3 DEF Covered, f, i
<1>8. \A x : x \in OfTheme(blocks, i) <=> x \in DOMAIN blocks /\ blocks[x] = blocks[i]
  BY DEF OfTheme
<1>9. Covered(blocks, k + 1) = Covered(blocks, k) \cup OfTheme(blocks, i)
  BY <1>6, <1>7, <1>8
<1>10. Covered(blocks, k) \cap OfTheme(blocks, i) = {} /\ i \notin Covered(blocks, k)
  BY <1>5, <1>6, <1>8
<1>11. QED
  BY <1>4, <1>9, <1>10 DEF i, f

LEMMA Beginning ==
  ASSUME NEW k \in Nat, NEW S, NEW s \in [1..k -> S], NEW n \in 1..k
  PROVE  /\ n - 1 \in Nat /\ DOMAIN SubSeq(s, 1, n - 1) = 1..(n - 1)
         /\ \A i \in 1..(n - 1) : i \in 1..k /\ SubSeq(s, 1, n - 1)[i] = s[i]
<1> DEFINE some == SubSeq(s, 1, n - 1)
<1>1. s \in Seq(S) /\ Len(s) = k
  OBVIOUS
<1>2. n - 1 \in Nat /\ \A i \in 1..(n - 1) : i \in 1..k
  OBVIOUS
<1>3. some \in Seq(S) /\ Len(some) = n - 1 /\ \A i \in 1..(n - 1) : some[i] = s[i]
  BY <1>1
<1> HIDE DEF some
<1>4. DOMAIN some = 1..(n - 1)
  BY <1>2, <1>3
<1>5. QED
  BY <1>2, <1>3, <1>4 DEF some

LEMMA ThemeStartIs ==
  ASSUME NEW T, NEW blocks \in Seq(T), NEW round,
         NEW n \in 1..Cardinality(NewOnes(blocks))
  PROVE  /\ IsFiniteSet(Covered(blocks, n - 1))
         /\ ThemeStart(RoadmapAt(blocks, round), n)
              = 1 + Cardinality(Covered(blocks, n - 1))
<1> DEFINE K == Cardinality(NewOnes(blocks))
           f == Firsts(blocks)
           themes == ThemesOf(blocks)
           some == SubSeq(themes, 1, n - 1)
<1>1. K \in Nat /\ f \in [1..K -> NewOnes(blocks)] /\ NewOnes(blocks) \subseteq 1..Len(blocks)
  BY FirstsAre
<1>2. DOMAIN blocks = 1..Len(blocks) /\ Len(blocks) \in Nat /\ IsFiniteSet(1..Len(blocks))
  BY FS_Interval
<1>3. \A i : /\ IsFiniteSet(OfTheme(blocks, i))
             /\ Cardinality(OfTheme(blocks, i)) \in Nat
  <2> TAKE i
  <2>1. OfTheme(blocks, i) \in SUBSET (1..Len(blocks))
    BY <1>2 DEF OfTheme
  <2>2. IsFiniteSet(OfTheme(blocks, i))
    BY <1>2, <2>1, FS_Subset
  <2>3. QED
    BY <2>2, FS_CardinalityType
<1>4. /\ n - 1 \in Nat
      /\ DOMAIN some = 1..(n - 1)
      /\ \A i \in 1..(n - 1) :
           some[i].questions = Cardinality(OfTheme(blocks, f[i]))
  <2>1. DOMAIN f = 1..K
    BY <1>1
  <2>2. \A i \in 1..K : themes[i].questions = Cardinality(OfTheme(blocks, f[i]))
    BY <2>1 DEF ThemesOf
  <2> DEFINE S == {themes[i] : i \in 1..K}
  <2>3. themes \in [1..K -> S] /\ n \in 1..K
    BY <2>1 DEF ThemesOf
  <2> HIDE DEF themes, K, f, S
  <2>4. /\ n - 1 \in Nat /\ DOMAIN some = 1..(n - 1)
        /\ \A i \in 1..(n - 1) : i \in 1..K /\ some[i] = themes[i]
    BY <1>1, <2>3, Beginning
  <2> HIDE DEF some
  <2>5. QED
    BY <2>2, <2>4
<1>5. ThemeStart(RoadmapAt(blocks, round), n) = 1 + Sum(some)
  BY ThemesAre DEF ThemeStart, RoadmapAt, Sum
<1> HIDE DEF f, themes, some
<1>6. PICK turn \in [0..(n - 1) -> Nat] :
        /\ turn[0] = 0
        /\ \A i \in 1..(n - 1) : turn[i] = turn[i - 1] + some[i].questions
        /\ Sum(some) = turn[n - 1]
  <2>1. \A i \in 1..(n - 1) : some[i].questions \in Nat
    BY <1>3, <1>4
  <2>2. QED
    BY <1>4, <2>1, SumByTheme
<1> DEFINE C(k) == Covered(blocks, k)
           S == {k \in Nat : k <= n - 1 =>
                   IsFiniteSet(C(k)) /\ Cardinality(C(k)) = turn[k]}
<1>7. 0 \in S
  <2>1. C(0) = {}
    BY DEF Covered
  <2>2. QED
    BY <1>6, <2>1, FS_EmptySet
<1>8. ASSUME NEW k \in Nat, k \in S PROVE k + 1 \in S
  <2> SUFFICES ASSUME k + 1 <= n - 1
               PROVE  IsFiniteSet(C(k + 1)) /\ Cardinality(C(k + 1)) = turn[k + 1]
    OBVIOUS
  <2> DEFINE R == OfTheme(blocks, f[k + 1])
  <2>1. /\ k + 1 <= K /\ k <= n - 1 /\ k \in 0..(n - 1)
        /\ k + 1 \in 1..(n - 1) /\ (k + 1) - 1 = k
    BY <1>1, <1>4
  <2>2. C(k + 1) = C(k) \cup R /\ C(k) \cap R = {}
    BY <2>1, CoveredGrows DEF f
  <2>3. IsFiniteSet(C(k)) /\ Cardinality(C(k)) = turn[k] /\ turn[k] \in Nat
    BY <1>6, <1>8, <2>1
  <2>4. IsFiniteSet(R) /\ Cardinality(R) \in Nat
    BY <1>3
  <2>5. turn[k + 1] = turn[k] + Cardinality(R)
    <3>1. turn[k + 1] = turn[k] + some[k + 1].questions
      BY <1>6, <2>1
    <3>2. some[k + 1].questions = Cardinality(R)
      BY <1>4, <2>1
    <3>3. QED
      BY <3>1, <3>2
  <2> HIDE DEF C, R
  <2>6. /\ IsFiniteSet(C(k) \cup R)
        /\ Cardinality(C(k) \cup R)
             = Cardinality(C(k)) + Cardinality(R) - Cardinality(C(k) \cap R)
    BY <2>3, <2>4, FS_Union
  <2>7. Cardinality(C(k) \cap R) = 0
    BY <2>2, FS_EmptySet
  <2>8. QED
    BY <2>2, <2>3, <2>4, <2>5, <2>6, <2>7
<1> HIDE DEF S
<1>9. n - 1 \in S
  BY <1>4, <1>7, <1>8, CountUp
<1>10. QED
  BY <1>4, <1>5, <1>6, <1>9 DEF S

\* The rounds of a theme follow each other.
IsTogether(blocks) ==
    \A i, j, k \in DOMAIN blocks :
        i < j /\ j < k /\ blocks[i] = blocks[k] => blocks[j] = blocks[i]

\* The rounds of the themes before a new one are those before its first round.
LEMMA CoveredBefore ==
  ASSUME NEW T, NEW blocks \in Seq(T), IsTogether(blocks),
         NEW n \in 1..Cardinality(NewOnes(blocks))
  PROVE  Covered(blocks, n - 1) = 1..(Firsts(blocks)[n] - 1)
<1> DEFINE K == Cardinality(NewOnes(blocks))
           f == Firsts(blocks)
           i == f[n]
<1>1. /\ K \in Nat /\ f \in [1..K -> NewOnes(blocks)] /\ Range(f) = NewOnes(blocks)
      /\ NewOnes(blocks) \subseteq 1..Len(blocks)
      /\ \A a, b \in 1..K : a < b <=> f[a] < f[b]
      /\ \A a, b \in 1..K : a # b => blocks[f[a]] # blocks[f[b]]
  BY FirstsAre
<1>2. DOMAIN blocks = 1..Len(blocks) /\ Len(blocks) \in Nat
  OBVIOUS
<1>3. \A x : x \in Covered(blocks, n - 1) <=>
               x \in DOMAIN blocks /\ \E m \in 1..(n - 1) : blocks[x] = blocks[f[m]]
  BY DEF Covered
<1>4. n \in 1..K /\ (\A m : m \in 1..(n - 1) <=> m \in 1..K /\ m < n)
  BY <1>1
<1> HIDE DEF f, K
<1>5. \A m \in 1..K : f[m] \in 1..Len(blocks)
  BY <1>1
<1>6. \A e \in NewOnes(blocks) : \E m \in 1..K : f[m] = e
  BY <1>1 DEF Range
<1>7. i \in 1..Len(blocks)
  BY <1>4, <1>5
<1>8. ASSUME NEW x \in 1..(i - 1) PROVE x \in Covered(blocks, n - 1)
  <2>1. x \in 1..Len(blocks) /\ x < i
    BY <1>2, <1>7
  <2>2. PICK j \in NewOnes(blocks) : j <= x /\ blocks[j] = blocks[x]
    BY <2>1, FirstOf
  <2>3. PICK m \in 1..K : f[m] = j
    BY <1>6
  <2>4. f[m] < f[n]
    BY <1>2, <1>5, <1>7, <2>1, <2>2, <2>3
  <2>5. m \in 1..(n - 1)
    BY <1>1, <1>4, <2>4
  <2>6. QED
    BY <1>2, <1>3, <2>1, <2>2, <2>3, <2>5
<1>9. ASSUME NEW x \in Covered(blocks, n - 1) PROVE x \in 1..(i - 1)
  <2>1. x \in 1..Len(blocks)
    BY <1>2, <1>3
  <2>2. PICK m \in 1..(n - 1) : blocks[x] = blocks[f[m]]
    BY <1>3
  <2>3. m \in 1..K /\ f[m] < f[n] /\ blocks[f[m]] # blocks[f[n]]
    BY <1>1, <1>4, <2>2
  <2>4. x # f[n]
    BY <2>2, <2>3
  <2>5. ~(f[n] < x)
    <3>1. f[m] \in DOMAIN blocks /\ f[n] \in DOMAIN blocks /\ x \in DOMAIN blocks
      BY <1>2, <1>4, <1>5, <2>1, <2>3
    <3>2. QED
      BY <2>2, <2>3, <3>1 DEF IsTogether
  <2>6. QED
    BY <1>2, <1>7, <2>1, <2>4, <2>5
<1> HIDE DEF i
<1>10. Covered(blocks, n - 1) = 1..(i - 1)
  BY <1>8, <1>9
<1>11. QED
  BY <1>10 DEF i, f

LEMMA UpToCounts ==
  ASSUME NEW n \in Nat
  PROVE  IsFiniteSet(1..n) /\ Cardinality(1..n) = n
<1>1. IsFiniteSet(1..n) /\ Cardinality(1..n) = IF 1 > n THEN 0 ELSE n - 1 + 1
  BY FS_Interval
<1>2. QED
  BY <1>1

\* The node a theme is named at is on the map, and is that of its first round.
LEMMA NamedAt ==
  ASSUME NEW T, NEW blocks \in Seq(T), NEW round,
         NEW n \in 1..Cardinality(NewOnes(blocks))
  PROVE  /\ ThemeStart(RoadmapAt(blocks, round), n) \in 1..Len(blocks)
         /\ IsTogether(blocks) =>
              ThemeStart(RoadmapAt(blocks, round), n) = Firsts(blocks)[n]
<1> DEFINE K == Cardinality(NewOnes(blocks))
           f == Firsts(blocks)
           C == Covered(blocks, n - 1)
           start == ThemeStart(RoadmapAt(blocks, round), n)
<1>1. /\ K \in Nat /\ f \in [1..K -> NewOnes(blocks)]
      /\ NewOnes(blocks) \subseteq 1..Len(blocks)
  BY FirstsAre
<1>2. DOMAIN blocks = 1..Len(blocks) /\ Len(blocks) \in Nat /\ f[n] \in 1..Len(blocks)
  BY <1>1
<1>3. IsFiniteSet(C) /\ start = 1 + Cardinality(C)
  BY ThemeStartIs
<1>4. C \in SUBSET (1..Len(blocks)) /\ f[n] \notin C
  <2>1. n - 1 \in Nat /\ (n - 1) + 1 = n /\ (n - 1) + 1 <= K
    BY <1>1
  <2>2. f[n] \notin C
    BY <2>1, CoveredGrows
  <2>3. C \in SUBSET (1..Len(blocks))
    BY <1>2 DEF Covered
  <2>4. QED
    BY <2>2, <2>3
<1>5. IsTogether(blocks) => C = 1..(f[n] - 1)
  BY CoveredBefore
<1> HIDE DEF C, start, f, K
<1>6. start \in 1..Len(blocks)
  <2>1. IsFiniteSet(1..Len(blocks)) /\ Cardinality(1..Len(blocks)) = Len(blocks)
    BY <1>2, UpToCounts
  <2>2. /\ Cardinality(C) <= Cardinality(1..Len(blocks))
        /\ Cardinality(1..Len(blocks)) = Cardinality(C) => 1..Len(blocks) = C
    BY <1>4, <2>1, FS_Subset
  <2>3. Cardinality(C) # Len(blocks)
    BY <1>2, <1>4, <2>1, <2>2
  <2>4. Cardinality(C) \in Nat
    BY <1>3, FS_CardinalityType
  <2>5. QED
    BY <1>2, <1>3, <2>1, <2>2, <2>3, <2>4
<1>7. IsTogether(blocks) => start = f[n]
  <2>1. f[n] - 1 \in Nat
    BY <1>2
  <2>2. Cardinality(1..(f[n] - 1)) = f[n] - 1
    BY <2>1, UpToCounts
  <2>3. QED
    BY <1>2, <1>3, <1>5, <2>2
<1>8. QED
  BY <1>6, <1>7 DEF start, f

\* The last new round up to one is the first of its theme.
LEMMA LastNamed ==
  ASSUME NEW T, NEW blocks \in Seq(T), IsTogether(blocks), NEW q \in 1..Len(blocks)
  PROVE  LET j == Max({s \in NewOnes(blocks) : s <= q})
         IN  j \in NewOnes(blocks) /\ blocks[j] = blocks[q]
<1> DEFINE S == {s \in NewOnes(blocks) : s <= q}
<1>1. PICK j \in NewOnes(blocks) : j <= q /\ blocks[j] = blocks[q]
  BY FirstOf
<1>2. DOMAIN blocks = 1..Len(blocks) /\ Len(blocks) \in Nat
  OBVIOUS
<1>3. \A s \in NewOnes(blocks) : s \in 1..Len(blocks) /\ IsNew(blocks, s)
  BY <1>2 DEF NewOnes
<1>4. ASSUME NEW s \in S PROVE s <= j
  <2>1. s \in 1..Len(blocks) /\ s <= q /\ IsNew(blocks, s) /\ j \in 1..Len(blocks)
    BY <1>3
  <2>2. SUFFICES ASSUME j < s PROVE FALSE
    BY <2>1
  <2>3. j \in 1..(s - 1)
    BY <1>2, <2>1, <2>2
  <2>4. blocks[j] # blocks[s]
    BY <2>1, <2>3 DEF IsNew
  <2>5. s # q
    BY <1>1, <2>4
  <2>6. s < q
    BY <1>2, <2>1, <2>5
  <2>7. QED
    BY <1>1, <1>2, <2>1, <2>2, <2>4, <2>6 DEF IsTogether
<1>5. j \in S /\ \A s \in S : s \in Nat
  BY <1>1, <1>2, <1>3
<1> HIDE DEF S
<1>6. j \in Nat /\ \A x \in S : (\A s \in S : x >= s) => x = j
  BY <1>4, <1>5
<1>7. Max(S) = j
  BY <1>4, <1>5, <1>6 DEF Max
<1>8. QED
  BY <1>1, <1>7 DEF S

\* The names on the map, of blocks whose themes' rounds follow each other
LEMMA NamesAre ==
  ASSUME NEW T, NEW blocks \in Seq(T), NEW round
  PROVE  LET names == ThemeMap(RoadmapAt(blocks, round))
         IN  /\ DOMAIN names \subseteq 1..Len(blocks)
             /\ IsTogether(blocks) =>
                  /\ DOMAIN names = NewOnes(blocks)
                  /\ \A j \in NewOnes(blocks) : names[j] = blocks[j]
<1> DEFINE K == Cardinality(NewOnes(blocks))
           f == Firsts(blocks)
           roadmap == RoadmapAt(blocks, round)
           names == ThemeMap(roadmap)
           start(n) == ThemeStart(roadmap, n)
<1>1. /\ K \in Nat /\ f \in [1..K -> NewOnes(blocks)] /\ Range(f) = NewOnes(blocks)
      /\ \A a, b \in 1..K : a # b => blocks[f[a]] # blocks[f[b]]
  BY FirstsAre
<1>2. DOMAIN f = 1..K
  BY <1>1
<1>3. roadmap.themes = ThemesOf(blocks)
  BY ThemesAre DEF RoadmapAt
<1>4. DOMAIN roadmap.themes = 1..K
  BY <1>2, <1>3 DEF ThemesOf
<1>5. \A n \in 1..K : roadmap.themes[n].theme = blocks[f[n]]
  BY <1>2, <1>3 DEF ThemesOf
<1>6. \A n \in 1..K : /\ start(n) \in 1..Len(blocks)
                      /\ IsTogether(blocks) => start(n) = f[n]
  BY NamedAt
<1>7. names = [q \in {start(n) : n \in 1..K} |->
                 LET n == CHOOSE n \in 1..K : start(n) = q
                 IN  roadmap.themes[n].theme]
  BY <1>4 DEF ThemeMap
<1> HIDE DEF names, start, roadmap, f, K
<1>8. DOMAIN names \subseteq 1..Len(blocks)
  BY <1>6, <1>7
<1>9. ASSUME IsTogether(blocks)
      PROVE  /\ DOMAIN names = NewOnes(blocks)
             /\ \A j \in NewOnes(blocks) : names[j] = blocks[j]
  <2>1. \A n \in 1..K : start(n) = f[n]
    BY <1>6, <1>9
  <2>2. \A e \in NewOnes(blocks) : \E n \in 1..K : f[n] = e
    BY <1>1 DEF Range
  <2>3. DOMAIN names = NewOnes(blocks)
    BY <1>1, <1>7, <2>1, <2>2
  <2>4. ASSUME NEW j \in NewOnes(blocks) PROVE names[j] = blocks[j]
    <3> DEFINE n == CHOOSE n \in 1..K : start(n) = j
    <3>1. \E m \in 1..K : start(m) = j
      BY <2>1, <2>2
    <3>2. n \in 1..K /\ start(n) = j
      BY <3>1
    <3>3. names[j] = roadmap.themes[n].theme
      BY <1>7, <2>3
    <3> HIDE DEF n
    <3>4. QED
      BY <1>5, <2>1, <3>2, <3>3
  <2>5. QED
    BY <2>3, <2>4
<1>10. QED
  BY <1>8, <1>9 DEF names, roadmap

\* For any blocks, in any order.
LEMMA RoadmapFollows ==
  ASSUME NEW T, NEW blocks \in Seq(T), NEW round \in 1..Len(blocks)
  PROVE  RoadmapLeads(blocks, round)
<1> DEFINE roadmap == RoadmapAt(blocks, round)
           names == ThemeMap(roadmap)
<1>1. DOMAIN blocks = 1..Len(blocks) /\ Len(blocks) \in Nat
  OBVIOUS
<1>2. {q \in DOMAIN blocks : NodeClass(roadmap, q) = "playerNode"} = {round}
  <2>1. roadmap.playerPos = round
    BY DEF RoadmapAt
  <2> HIDE DEF roadmap
  <2>2. ASSUME NEW q \in 1..Len(blocks)
        PROVE  NodeClass(roadmap, q) = "playerNode" <=> q = round
    <3>1. CASE q < round
      BY <2>1, <3>1 DEF NodeClass
    <3>2. CASE q = round
      BY <2>1, <3>2 DEF NodeClass
    <3>3. CASE q > round
      BY <2>1, <3>3 DEF NodeClass
    <3>4. QED
      BY <1>1, <3>1, <3>2, <3>3
  <2>3. QED
    BY <1>1, <2>2
<1>3. DOMAIN names \subseteq DOMAIN blocks
  BY <1>1, NamesAre
<1>4. ASSUME IsTogether(blocks), NEW q \in DOMAIN blocks
      PROVE  names[Max({s \in DOMAIN names : s <= q})] = blocks[q]
  <2>1. DOMAIN names = NewOnes(blocks) /\ \A j \in NewOnes(blocks) : names[j] = blocks[j]
    BY <1>4, NamesAre
  <2> HIDE DEF names
  <2> DEFINE j == Max({s \in NewOnes(blocks) : s <= q})
  <2>2. j \in NewOnes(blocks) /\ blocks[j] = blocks[q]
    BY <1>1, <1>4, LastNamed
  <2>3. Max({s \in DOMAIN names : s <= q}) = j
    BY <2>1
  <2> HIDE DEF j
  <2>4. QED
    BY <2>1, <2>2, <2>3
<1> HIDE DEF roadmap, names
<1>5. QED
  BY <1>2, <1>3, <1>4 DEF RoadmapLeads, IsTogether, roadmap, names

-------------------------------------------------------------------------------

\* The leaderboard between two rounds ranks by points and lets a player pass
\* another only with more of them, and the roadmap next to it has the player at
\* the round that was played, under the names of the rounds (buildLeaderboard,
\* buildRoadmapThemes, Roadmap): for any plan the flow was made into.
THEOREM LeaderboardTells == Spec => []LeaderboardTellsTheGame
<1>1. StandingsTell
  <2>1. IsFiniteSet(1..3)
    BY 3 \in Nat, UpToCounts
  <2>2. 1..3 \in SUBSET Nat /\ 2 \in Nat
    OBVIOUS
  <2>3. QED
    BY <2>1, <2>2, StandingsFollow DEF StandingsTell
<1>2. ASSUME HostTypeOK, game.at = "play", PhaseIn(Script, cue) = "leaderboard"
      PROVE  RoadmapLeads([i \in DOMAIN game.plan |-> game.plan[i].block],
                          RoundIn(Script, cue))
  <2> DEFINE plan == game.plan
             n == Len(plan)
             blocks == [i \in DOMAIN plan |-> plan[i].block]
             T == {plan[i].block : i \in 1..n}
             round == RoundIn(Script, cue)
  <2>1. plan \in Seq(PlanRounds)
    BY <1>2 DEF HostTypeOK, ServerTypeOK, Games
  <2>2. n \in Nat /\ DOMAIN plan = 1..n
    BY <2>1
  <2>3. blocks \in Seq(T) /\ Len(blocks) = n
    <3>1. blocks = [i \in 1..n |-> plan[i].block]
      BY <2>2
    <3>2. blocks \in [1..n -> T]
      BY <3>1
    <3> HIDE DEF blocks, n, T
    <3>3. QED
      BY <2>2, <3>2
  <2>4. IsScript(Script, Kinds) /\ Len(Kinds) = n
    BY <2>1, ScriptOfPlan DEF Script, Kinds
  <2>5. cue \in 0..Len(Script) /\ Len(Script) \in Nat
    BY <1>2, CueNow DEF HostTypeOK
  <2>6. cue # 0
    <3>1. \A script : PhaseIn(script, 0) = "lobby"
      BY DEF PhaseIn
    <3>2. QED
      BY <1>2, <3>1
  <2>7. cue \in 1..Len(Script)
    BY <2>5, <2>6
  <2> HIDE DEF n, blocks, T, plan
  <2>8. round \in 1..n
    BY <2>4, <2>7, Places, RoundInEvents
  <2> HIDE DEF round
  <2>9. RoadmapLeads(blocks, round)
    BY <2>3, <2>8, RoadmapFollows
  <2>10. QED
    BY <2>9 DEF blocks, plan, round
<1>3. HostTypeOK => LeaderboardTellsTheGame
  BY <1>1, <1>2 DEF LeaderboardTellsTheGame
<1>4. QED
  BY <1>3, HostTypeCorrect, PTL
===============================================================================
