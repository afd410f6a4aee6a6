----------------------------- MODULE Serpentine -----------------------------
(***************************************************************************)
(* The snake on which the host sees a flow: rows of blocks, read to the    *)
(* right and to the left in turn (host/flow/serpentine.ts), and the place  *)
(* in the flow at which a cursor drops a block (FlowEditor.tsx).  Places   *)
(* in a flow count from 0, as in the code.                                 *)
(*                                                                         *)
(* A cursor is in or above a row (y is odd or even), over the left or the  *)
(* right half of a column (x is odd or even).                              *)
(***************************************************************************)
EXTENDS Integers, Sequences, SequencesExt

CONSTANT Columns  \* MAX_FLOW_COLUMNS

ASSUME ColumnsAssumption == Columns \in Nat \ {0}

Row(i) == i \div Columns
IsEvenRow(i) == Row(i) % 2 = 0

Col(i) == IF IsEvenRow(i) THEN (i % Columns) + 1
                          ELSE Columns - (i % Columns)

\* arrowFor(): the direction of the next step of a flow of n blocks.
Arrow(i, n) ==
    CASE i >= n - 1 -> "none"
      [] i < n - 1 /\ Row(i + 1) # Row(i) -> "down"
      [] OTHER -> IF IsEvenRow(i) THEN "right" ELSE "left"

Cursors(n) == [y : 0..(2 * Row(n) + 2), x : 1..(2 * Columns)]

\* Slip: every row is read to the right.
IsBeforeOneWay(cursor, j) ==
    \/ cursor.y < 2 * Row(j) + 1
    \/ cursor.y = 2 * Row(j) + 1 /\ cursor.x < 2 * Col(j)

\* Whether a cursor that the scan has brought to block j drops before it.
IsBefore(cursor, j) ==
    \/ cursor.y < 2 * Row(j) + 1
    \/ /\ cursor.y = 2 * Row(j) + 1
       /\ IF IsEvenRow(j) THEN cursor.x < 2 * Col(j)
                          ELSE cursor.x >= 2 * Col(j)

\* computeDropIndex()
DropIndex(n, cursor) ==
    LET before == {j \in 0..(n - 1) : IsBefore(cursor, j)}
    IN  IF before = {} THEN n ELSE CHOOSE j \in before : \A k \in before : j <= k

-----------------------------------------------------------------------------
\* insertBlock()
InsertBlock(flow, index, item) == InsertAt(flow, index + 1, item)

\* moveBlock(): without the moved block, the ones behind it have shifted.
MoveBlock(flow, from, index) ==
    InsertBlock(RemoveAt(flow, from + 1),
                IF from < index THEN index - 1 ELSE index, flow[from + 1])

-----------------------------------------------------------------------------
\* How far along the snake a cursor is, in halves of a column.
Travelled(cursor) ==
    LET r == (cursor.y - 1) \div 2
        along == IF r % 2 = 0 THEN cursor.x ELSE 2 * Columns + 1 - cursor.x
    IN  IF cursor.y % 2 = 0 THEN Columns * cursor.y
                            ELSE 2 * Columns * r + along

\* The block's left and right halves, as travelled, are 2j + 1 and 2j + 2.
IsPast(cursor, j) == Travelled(cursor) > 2 * j + 1

\* The arrow of every block but the last leads to the cell of the next.
ArrowsLead(n) ==
    \A i \in 0..(n - 2) :
        LET step == Arrow(i, n)
        IN  /\ Row(i + 1) = Row(i) + (IF step = "down" THEN 1 ELSE 0)
            /\ Col(i + 1) = Col(i) + (CASE step = "right" -> 1
                                        [] step = "left" -> -1
                                        [] OTHER -> 0)

\* Where a block that is moved lands: behind the blocks the cursor has passed on
\* the snake and before the others, whose order stays.
IsDropped(moved, n, from, cursor) ==
    \E at \in 1..n :
        LET others == (1..n) \ {at}
        IN  /\ moved[at] = from
            /\ \A i \in others : /\ moved[i] # from
                                 /\ IsPast(cursor, moved[i]) <=> i < at
            /\ \A i, k \in others : i < k => moved[i] < moved[k]

DropsLand(n) ==
    \A cursor \in Cursors(n), from \in 0..(n - 1) :
        LET places == [i \in 1..n |-> i - 1]
            moved == MoveBlock(places, from, DropIndex(n, cursor))
        IN  /\ moved \in [1..n -> 0..(n - 1)]
            /\ IsDropped(moved, n, from, cursor)
=============================================================================
