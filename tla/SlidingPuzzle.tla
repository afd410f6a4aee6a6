---------------------------- MODULE SlidingPuzzle ---------------------------
(***************************************************************************)
(* The sliding puzzle (minigames/sliding-puzzle/shared/slidingPuzzleGame.ts*)
(* and server/room/game/minigames/sliding-puzzle.server.ts).  A board maps *)
(* the indexes 0..8 to the tiles; tile 0 is the open square.               *)
(***************************************************************************)
EXTENDS MinigameScores, FiniteSets, SequencesExt

BoardSize == 3
Indexes == 0..(BoardSize * BoardSize - 1)
SolvedBoard == [i \in Indexes |-> (i + 1) % (BoardSize * BoardSize)]

Apart(m, n) == IF m < n THEN n - m ELSE m - n
Row(i) == i \div BoardSize
Column(i) == i % BoardSize
Steps(i, j) == Apart(Row(i), Row(j)) + Apart(Column(i), Column(j))

IsAdjacent(i, j) == Steps(i, j) = 1
Zero(board) == CHOOSE i \in Indexes : board[i] = 0
LegalTiles(board) == {i \in Indexes : IsAdjacent(i, Zero(board))}

MoveTile(board, i) ==
    IF IsAdjacent(i, Zero(board))
    THEN [board EXCEPT ![Zero(board)] = board[i], ![i] = 0]
    ELSE board

IsSolvedBoard(board) == board = SolvedBoard
CorrectTiles(board) ==
    Cardinality({i \in Indexes : board[i] # 0 /\ board[i] = SolvedBoard[i]})

Inversions(board) ==
    Cardinality({ij \in Indexes \X Indexes :
                    /\ ij[1] < ij[2]
                    /\ board[ij[2]] # 0 /\ board[ij[1]] > board[ij[2]]})
IsSolvable(board) == Inversions(board) % 2 = 0

Manhattan(board) ==
    MapThenSumSet(LAMBDA i : Steps(i, board[i] - 1),
                  {i \in Indexes : board[i] # 0})

\* createScrambledBoard(): the boards that a number of random moves can end at,
\* each with where the open square was before: a move never goes straight back.
ScrambleStep(boards) ==
    UNION {LET forward == LegalTiles(b[1]) \ {b[2]}
           IN  {<<MoveTile(b[1], i), Zero(b[1])>> : i \in forward} : b \in boards}

ScrambledBoards(moves) ==
    LET after[n \in 0..moves] == IF n = 0 THEN {<<SolvedBoard, -1>>}
                                 ELSE ScrambleStep(after[n - 1])
    IN  {b[1] : b \in after[moves]} \ {SolvedBoard}

-----------------------------------------------------------------------------
(* solveBoard(): A* with a binary heap.  Its nodes are records [board,     *)
(* moves, priority]; of the path only the length is kept.                  *)

Repeat(step(_), n, x) == FoldLeft(LAMBDA y, i : step(y), x, [i \in 1..n |-> i])
Exchange(heap, j, k) == [heap EXCEPT ![j] = heap[k], ![k] = heap[j]]

\* bubbleUp() and bubbleDown(), one turn of the loop at position k
Rise(at) ==
    LET heap == at[1]
        k == at[2]
        parent == k \div 2
    IN  IF k = 1 \/ heap[parent].priority <= heap[k].priority THEN at
        ELSE <<Exchange(heap, parent, k), parent>>

Sink(at) ==
    LET heap == at[1]
        k == at[2]
        lighter(j, i) == IF j <= Len(heap) /\ heap[j].priority < heap[i].priority
                         THEN j ELSE i
        smallest == lighter(2 * k + 1, lighter(2 * k, k))
    IN  IF smallest = k THEN at ELSE <<Exchange(heap, k, smallest), smallest>>

Push(heap, node) ==
    Repeat(Rise, Len(heap), <<Append(heap, node), Len(heap) + 1>>)[1]

Pop(heap) ==
    LET rest == Front(heap)
    IN  IF rest = <<>> THEN <<>>
        ELSE Repeat(Sink, Len(rest), <<[rest EXCEPT ![1] = Last(heap)], 1>>)[1]

Node(board, moves) ==
    [board |-> board, moves |-> moves, priority |-> moves + Manhattan(board)]

\* One neighbour of the node that was popped.
Discover(search, next) ==
    IF next.board \in DOMAIN search.best /\ search.best[next.board] <= next.moves
    THEN search
    ELSE [search EXCEPT
            !.heap = Push(@, next),
            !.best = [b \in DOMAIN @ \cup {next.board} |->
                         IF b = next.board THEN next.moves ELSE @[b]]]

\* One turn of solveBoard()'s loop.
Expand(search) ==
    LET node == search.heap[1]
        popped == [search EXCEPT !.heap = Pop(@)]
        next == [j \in 1..Cardinality(LegalTiles(node.board)) |->
                    Node(MoveTile(node.board,
                                  SetToSortSeq(LegalTiles(node.board), <)[j]),
                         node.moves + 1)]
    IN  CASE search.heap = <<>> \/ search.found # -1 -> search
          [] OTHER ->
                IF IsSolvedBoard(node.board)
                THEN [popped EXCEPT !.found = node.moves]
                ELSE IF search.best[node.board] < node.moves THEN popped
                ELSE FoldLeft(Discover, popped, next)

\* The moves of the solution found in so many turns, -1 for none.
SolveBoard(board, turns) ==
    IF ~IsSolvable(board) THEN -1
    ELSE Repeat(Expand, turns,
                [heap |-> <<Node(board, 0)>>, found |-> -1,
                 best |-> [b \in {board} |-> 0]]).found
-----------------------------------------------------------------------------
(* The server's adapter                                                    *)

PointsPerCorrectTile == 100
SolveSpeedBonus == 300

ValidBoard(board) == {board[i] : i \in DOMAIN board} = Indexes

\* scoreSlidingPuzzleBoard()
BoardPoints(board, t) ==
    CorrectTiles(board) * PointsPerCorrectTile
    + IF IsSolvedBoard(board) THEN SpeedBonus(SolveSpeedBonus, t) ELSE 0

\* scoreSubmission()
ScoreBoard(board, t) == Result(IsSolvedBoard(board), BoardPoints(board, t))
=============================================================================
