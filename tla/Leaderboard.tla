----------------------------- MODULE Leaderboard -----------------------------
(***************************************************************************)
(* The screen between two rounds: the standings and the roadmap as the     *)
(* engine builds them (server/room/game/game-engine.service.ts) and the    *)
(* host draws them (host/components/LeaderBoard.tsx).                      *)
(*                                                                         *)
(* Players are numbered in the order they joined, "score" is a function of *)
(* those in the room, and an order is a sequence of them, the first first. *)
(* "blocks" has the theme of every round, or the game that is played.      *)
(***************************************************************************)
EXTENDS Integers, SequencesExt, FiniteSetsExt, Functions

-----------------------------------------------------------------------------
(* The standings                                                           *)

NewPlayerPosition == 1000  \* NEW_PLAYER_POSITION: after everybody

\* previousPositionByPlayerId, with its default
PreviousPosition(before, p) ==
    IF p \in Range(before) THEN CHOOSE i \in DOMAIN before : before[i] = p
                           ELSE NewPlayerPosition

\* Slip: players with as many points are in the order they joined.
ComesFirstForgetful(before, score, p, q) ==
    \/ score[p] > score[q]
    \/ score[p] = score[q] /\ p < q

\* compareLeaderboardPlayers()
ComesFirst(before, score, p, q) ==
    \/ score[p] > score[q]
    \/ /\ score[p] = score[q]
       /\ \/ PreviousPosition(before, p) < PreviousPosition(before, q)
          \/ /\ PreviousPosition(before, p) = PreviousPosition(before, q)
             /\ p < q

\* sort(): at every place the one that as many come before.
Ahead(S, comesFirst, e) == {d \in S : <<d, e>> \in comesFirst}
Sorted(S, comesFirst) ==
    [n \in 1..Cardinality(S) |->
        CHOOSE e \in S : Cardinality(Ahead(S, comesFirst, e)) = n - 1]

\* buildLeaderboard(): the order it keeps for the next one
LeaderboardOrder(before, score) ==
    Sorted(DOMAIN score, {pq \in (DOMAIN score) \X (DOMAIN score) :
                             ComesFirst(before, score, pq[1], pq[2])})

\* toLeaderboardEntry(): how far a player has come up since the last one
RankChange(before, order, p) ==
    IF p \in Range(before)
    THEN PreviousPosition(before, p) - PreviousPosition(order, p) ELSE 0

-----------------------------------------------------------------------------
(* The roadmap                                                             *)

\* buildRoadmapThemes(): a Map keeps its keys in the order they came.
RoadmapThemes(blocks) ==
    LET isNew(i) == \A j \in 1..(i - 1) : blocks[j] # blocks[i]
        firsts == Sorted({i \in DOMAIN blocks : isNew(i)},
                         {ij \in (DOMAIN blocks) \X (DOMAIN blocks) : ij[1] < ij[2]})
    IN  [n \in DOMAIN firsts |->
            [theme |-> blocks[firsts[n]],
             questions |-> Cardinality({i \in DOMAIN blocks :
                                            blocks[i] = blocks[firsts[n]]})]]

\* ROADMAP_UPDATE, sent when a round starts
RoadmapAt(blocks, round) ==
    [playerPos |-> round, totalQuestions |-> Len(blocks),
     themes |-> RoadmapThemes(blocks)]

\* Roadmap's cursor: the nodes that carry the name of a theme
ThemeStart(roadmap, n) ==
    1 + FoldLeft(LAMBDA sum, t : sum + t.questions, 0,
                 SubSeq(roadmap.themes, 1, n - 1))
ThemeMap(roadmap) ==
    [q \in {ThemeStart(roadmap, n) : n \in DOMAIN roadmap.themes} |->
        LET n == CHOOSE n \in DOMAIN roadmap.themes : ThemeStart(roadmap, n) = q
        IN  roadmap.themes[n].theme]

\* getNodeClass()
NodeClass(roadmap, q) ==
    CASE q < roadmap.playerPos -> "oldNode"
      [] q = roadmap.playerPos -> "playerNode"
      [] q > roadmap.playerPos ->
            IF q = roadmap.totalQuestions THEN "lastNode" ELSE "questionNode"

-----------------------------------------------------------------------------
(* What they tell                                                          *)

\* Between two boards a player passes another only with more points, and the
\* arrow next to a name counts those passed or gone, less those who passed.
PassingIsEarned(before, order, score) ==
    \A p \in Range(order) :
        LET ahead(o) == {o[i] : i \in 1..(PreviousPosition(o, p) - 1)}
        passed == {q \in ahead(before) : q \notin ahead(order)}
        passedBy == {q \in ahead(order) : q \notin ahead(before)}
        stayed == passed \cap Range(order)
    IN  p \in Range(before) =>
          /\ \A q \in stayed : score[p] > score[q]
          /\ RankChange(before, order, p) = Cardinality(passed) - Cardinality(passedBy)

\* Two boards in a row, of players who come, go and win up to "most" points.
StandingsLead(players, most) ==
    LET scores == UNION {[here -> 0..most] : here \in SUBSET players}
        firsts == {LeaderboardOrder(<<>>, score) : score \in scores}
    IN  \A before \in firsts, score \in scores :
            LET order == LeaderboardOrder(before, score)
            IN  /\ Range(order) = DOMAIN score
                /\ \A i \in 2..Len(order) : score[order[i - 1]] >= score[order[i]]
                /\ PassingIsEarned(before, order, score)

\* The node of the round that is played is the player's, and the name read
\* last on the way to a node is that of its round.  This needs the rounds of
\* a theme to follow each other: the roadmap draws them as if they did.
RoadmapLeads(blocks, round) ==
    LET roadmap == RoadmapAt(blocks, round)
        names == ThemeMap(roadmap)
        isTogether == \A i, j, k \in DOMAIN blocks :
                        i < j /\ j < k /\ blocks[i] = blocks[k] =>
                            blocks[j] = blocks[i]
    IN  /\ {q \in DOMAIN blocks : NodeClass(roadmap, q) = "playerNode"} = {round}
        /\ DOMAIN names \subseteq DOMAIN blocks
        /\ isTogether => \A q \in DOMAIN blocks :
              names[Max({s \in DOMAIN names : s <= q})] = blocks[q]
=============================================================================
