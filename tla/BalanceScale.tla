----------------------------- MODULE BalanceScale ---------------------------
(***************************************************************************)
(* The balance scale (minigames/balance-scale/shared, BalanceScale.tsx and *)
(* server/room/game/minigames/balance-scale.server.ts).  An item is its    *)
(* place in the pool sorted by weight, from 1 for the lightest; two items  *)
(* of one pool share neither name nor picture, so their place names them.  *)
(***************************************************************************)
EXTENDS MinigameScores, FiniteSets, SequencesExt

Sides == {"left", "right"}
SideSign(side) == IF side = "left" THEN -1 ELSE 1
GeneratedSlot == 2
ItemCount(difficulty) == IF difficulty = "easy" THEN 3 ELSE 4

\* DEFAULT_SCALE_ITEM_POOLS: the weights of every pool, sorted
Weight(item) == item

Layout(left, right, addTo) == [left |-> left, right |-> right, addTo |-> addTo]

\* EASY_VARIANT_LAYOUTS, HARD_VARIANT_LAYOUTS: the items on either side
Layouts(difficulty) ==
    IF difficulty = "easy"
    THEN {Layout(<<2, 2>>, <<1>>, "right"), Layout(<<2, 2>>, <<3>>, "right"),
          Layout(<<3, 1>>, <<3>>, "right"), Layout(<<2, 1>>, <<1>>, "right")}
    ELSE {Layout(<<4, 2>>, <<3, 2>>, "right"), Layout(<<4, 3>>, <<4, 1>>, "right"),
          Layout(<<4, 2>>, <<1, 2>>, "right"), Layout(<<1, 2, 3>>, <<2>>, "right"),
          Layout(<<1, 2>>, <<1, 3>>, "left"), Layout(<<1, 2>>, <<1, 4>>, "left"),
          Layout(<<1, 1>>, <<2, 3>>, "left"), Layout(<<1, 1>>, <<2, 4>>, "left")}

Placed(layout) ==
    LET on(side, items) == [i \in DOMAIN items |->
                [item |-> items[i], side |-> side, slot |-> GeneratedSlot]]
    IN  on("left", layout.left) \o on("right", layout.right)

TotalTorque(placed) ==
    FoldLeft(LAMBDA sum, p : sum + SideSign(p.side) * p.slot * Weight(p.item),
             0, placed)

\* Slip: the side the item is added to makes no difference.
RequiredWeightUnsigned(placed, addTo) ==
    LET needed == -TotalTorque(placed)
    IN  IF needed > 0 THEN needed \div GeneratedSlot ELSE 0

\* requiredWeightForBalance(): 0 when no positive weight will do; the torque of
\* equal slots divides without a rest.
RequiredWeight(placed, addTo) ==
    LET needed == -TotalTorque(placed) * SideSign(addTo)
    IN  IF needed > 0 THEN needed \div GeneratedSlot ELSE 0

Options(difficulty) == 1..ItemCount(difficulty)

BalancingOptions(difficulty, placed, addTo) ==
    {o \in Options(difficulty) : Weight(o) = RequiredWeight(placed, addTo)}

\* balanceEquation(): so many of the lightest item weigh as much as the others.
BalanceEquation(right) ==
    [count |-> FoldLeft(LAMBDA sum, i : sum + Weight(i), 0, right) \div Weight(1),
     right |-> right]

\* createEasyEquations(), createHardEquations()
Equations(difficulty) ==
    {BalanceEquation(SubSeq(<<2, 3, 4>>, 1, n)) : n \in 1..(ItemCount(difficulty) - 1)}

\* generateScalePuzzle(); getBalancingOptions() names the first that balances.
Difficulty(roundIndex) == IF roundIndex < 2 THEN "easy" ELSE "hard"

ScalePuzzle(difficulty, layout) ==
    LET balancing == BalancingOptions(difficulty, Placed(layout), layout.addTo)
    IN  [difficulty |-> difficulty, placed |-> Placed(layout),
         addTo |-> layout.addTo,
         correct |-> IF balancing = {} THEN 0
                     ELSE CHOOSE o \in balancing : \A q \in balancing : o <= q]

\* validateGeneratedPuzzleShape(), with the throw of createScalePuzzleFromRules()
ItemTypes(puzzle) ==
    {puzzle.placed[i].item : i \in DOMAIN puzzle.placed} \cup {puzzle.correct}
WellFormed(puzzle) ==
    /\ puzzle.correct # 0
    /\ Cardinality(ItemTypes(puzzle)) \in 2..ItemCount(puzzle.difficulty)
    /\ Cardinality(Equations(puzzle.difficulty)) = ItemCount(puzzle.difficulty) - 1

\* createRound(): getStablePuzzleVariantIndex() of a seed is any layout.
ScalePuzzles(roundIndexes) ==
    UNION {{ScalePuzzle(d, l) : l \in Layouts(d)} :
              d \in {Difficulty(r) : r \in roundIndexes}}

\* getDisplayedItems() of the reveal, and the angle it is drawn at
Displayed(puzzle, solution) ==
    puzzle.placed
    \o IF solution = 0 THEN <<>>
       ELSE <<[item |-> solution, side |-> puzzle.addTo, slot |-> GeneratedSlot]>>

DegreesPerTorque == 4
MaxVisualAngle == 16
Angle(items) ==
    LET angle == TotalTorque(items) * DegreesPerTorque
    IN  IF angle > MaxVisualAngle THEN MaxVisualAngle
        ELSE IF angle < -MaxVisualAngle THEN -MaxVisualAngle ELSE angle

\* getItemLayouts(): the cards of one side stand next to each other, centred on
\* their slot; twice their offset, in units of the gap.
StackOffset(items, addTo, k) ==
    LET sameSlot(i) == items[i].side = items[k].side
        total == Cardinality({i \in DOMAIN items : sameSlot(i)})
                 + IF addTo = items[k].side THEN 1 ELSE 0
        before == Cardinality({i \in 1..(k - 1) : sameSlot(i)})
    IN  2 * before - (total - 1)
-----------------------------------------------------------------------------
ScaleBasePoints == 700
ScaleSpeedBonus == 300

\* parseOptionId(): any option's name passes.
ValidOption(option) == option # 0

ScoreOption(option, correct, t) ==
    IF option = correct THEN Result(TRUE, ScaleBasePoints
                                          + SpeedBonus(ScaleSpeedBonus, t))
                        ELSE Worthless
=============================================================================
