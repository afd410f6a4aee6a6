------------------------------- MODULE BonkAir -------------------------------
(***************************************************************************)
(* Bonk Air (minigames/bonk-air/shared/bonkAirGame.ts and its adapter):    *)
(* the airspaces that can be dealt, the flight of a plan, and its score.   *)
(*                                                                         *)
(* The server deals difficulty 1 only, so there are no departures, no      *)
(* military zones and one storm at most, and all aircraft are Cessnas.     *)
(* Random choices are any choice, and the outline of a storm is one of     *)
(* Shapes.  Lengths are twentieths of a cell, rounded; the planes advance  *)
(* by StepLength at a time.                                                *)
(***************************************************************************)
EXTENDS MinigameScores, Sequences, SequencesExt, FiniteSetsExt

CONSTANTS
    Cols, Rows,
    PlaneCount,                 \* n
    LongLength, ShortLength,    \* of the runways
    Spots,       \* places on an edge that are tried, in hundredths of it
    Sites,       \* cells that are tried for runways, storms and stars
    Shapes,      \* outlines of a storm, as offsets from its centre
    MaxStars,    \* nStars
    StepLength,  \* what a plane advances in SIM_DT
    MaxPathCells,
    MaxSimSteps  \* MAX_SIM_T, in steps

ASSUME BonkAssumption ==
    /\ {Cols, Rows, PlaneCount, LongLength, ShortLength} \subseteq Nat \ {0}
    /\ {MaxStars, MaxSimSteps, MaxPathCells} \subseteq Nat \ {0}
    /\ StepLength \in 1..20
    /\ Spots \subseteq 0..100

Planes == 1..PlaneCount
Grid == [x : 0..(Cols - 1), y : 0..(Rows - 1)]
Cell(x, y) == [x |-> x, y |-> y]

\* How far two cells are apart, in moves of a king.
CellsApart(a, b) == Max({a.x - b.x, b.x - a.x, a.y - b.y, b.y - a.y})
Toward(v) == IF v > 0 THEN 1 ELSE IF v < 0 THEN -1 ELSE 0

-----------------------------------------------------------------------------
(* The airspace                                                            *)

Along(t, count) == (2 * t * (count - 1) + 100) \div 200
BorderCell(edge, t) ==
    CASE edge = 0 -> Cell(Along(t, Cols), 0)
      [] edge = 1 -> Cell(Cols - 1, Along(t, Rows))
      [] edge = 2 -> Cell(Along(t, Cols), Rows - 1)
      [] edge = 3 -> Cell(0, Along(t, Rows))

FarFrom(c, cells, d) == \A o \in cells : CellsApart(c, o) >= d

Directions == {Cell(1, 0), Cell(-1, 0), Cell(0, 1), Cell(0, -1)}

\* A runway from its threshold on.
RunwayAt(thr, dir, length) ==
    [thr |-> thr, dir |-> dir, appr |-> Cell(thr.x - dir.x, thr.y - dir.y),
     cells |-> {Cell(thr.x + i * dir.x, thr.y + i * dir.y) : i \in 0..(length - 1)}]

\* mk()
RunwaysOf(length, taken) ==
    {r \in {LET isHoriz == dir.y = 0
                back == IF dir.x + dir.y < 0 THEN length - 1 ELSE 0
            IN  RunwayAt(IF isHoriz THEN Cell(s.x + back, s.y)
                                    ELSE Cell(s.x, s.y + back), dir, length) :
                dir \in Directions,
                s \in {s \in Sites : s.x \in 2..(Cols - 3) /\ s.y \in 1..(Rows - 2)}} :
        /\ IF r.dir.y = 0 THEN \A c \in r.cells : c.x <= Cols - 4
                          ELSE \A c \in r.cells : c.y <= Rows - 3
        /\ r.appr \in Grid
        /\ \A c \in r.cells : FarFrom(c, taken, 3)}

\* No airport, a long runway, or a long one and a short one.
Airports ==
    LET longs == RunwaysOf(LongLength, {})
    IN  {{}} \cup {{long} : long \in longs}
             \cup UNION {{{long, short} : short \in RunwaysOf(ShortLength, long.cells)} :
                            long \in longs}

RunwayCells(runways) == UNION {r.cells : r \in runways}

Missions(runways) ==
    {m \in [Planes -> {"land", "transit"}] :
        \A i \in Planes : /\ runways = {} => m[i] = "transit"
                          /\ runways # {} /\ i = 1 => m[i] = "land"
                          /\ runways # {} /\ i = 2 => m[i] = "transit"}

\* A plane comes from an edge, to a runway or to a gate on another edge.
Flights(mission, runways) ==
    {[mission |-> mission, spawn |-> BorderCell(e, t), edge |-> e,
      goal |-> g.goal, dir |-> g.dir, exit |-> g.exit] :
        e \in 0..3, t \in Spots,
        g \in IF mission = "land"
              THEN {[goal |-> r.thr, dir |-> r.dir, exit |-> 4] : r \in runways}
              ELSE {[goal |-> BorderCell(f, u), dir |-> Cell(0, 0), exit |-> f] :
                        f \in 0..3, u \in Spots}}

EndsOf(flight) ==
    {flight.spawn} \cup (IF flight.mission = "land" THEN {} ELSE {flight.goal})

IsCrossing(p, q, r, s) ==
    LET side(a, b, c) == Toward((c.x - a.x) * (b.y - a.y) - (b.x - a.x) * (c.y - a.y))
    IN  /\ side(r, s, p) * side(r, s, q) = -1
        /\ side(p, q, r) * side(p, q, s) = -1

\* The roster, its spawns and gates placed one after the other: apart from each
\* other and from the runways, with straight ways that cross.
Rosters(runways, missions) ==
    LET flights == [i \in Planes |->
            {f \in Flights(missions[i], runways) :
                /\ f.edge # f.exit
                /\ \A c \in EndsOf(f) : FarFrom(c, RunwayCells(runways), 3)}]
        apart(f, g) == \A c \in EndsOf(f) : FarFrom(c, EndsOf(g), 3)
        placed[n \in 0..PlaneCount] ==
            IF n = 0 THEN {<<>>}
            ELSE UNION {{Append(roster, f) :
                            f \in {f \in flights[n] :
                                    \A i \in DOMAIN roster : apart(f, roster[i])}} :
                        roster \in placed[n - 1]}
        crossings(roster) ==
            {ij \in Planes \X Planes :
                /\ ij[1] < ij[2]
                /\ IsCrossing(roster[ij[1]].spawn, roster[ij[1]].goal,
                              roster[ij[2]].spawn, roster[ij[2]].goal)}
    IN  {roster \in placed[PlaneCount] :
            Cardinality(crossings(roster)) >= PlaneCount - 1}

Protected(runways, roster) ==
    UNION {EndsOf(roster[i]) : i \in Planes} \cup RunwayCells(runways)
        \cup {r.appr : r \in runways}

\* A storm clears what is protected by two cells; it may not fit at all.
Storms(protected) ==
    {s \in {{c \in Grid : Cell(c.x - o.x, c.y - o.y) \in shape} :
                o \in {o \in Sites : o.x \in 3..(Cols - 4) /\ o.y \in 2..(Rows - 3)},
                shape \in Shapes} :
        \A c \in s : FarFrom(c, protected, 2)} \cup {{}}

\* The cells around a cell, and it.
Around(c) == {Cell(c.x + i, c.y + j) : i \in -1..1, j \in -1..1} \cap Grid

\* A move of dijkstra(): to a cell around, without cutting a storm's corner.
Hops(storm, c) ==
    {d \in Around(c) \ ({c} \cup storm) :
        Cell(d.x, c.y) \notin storm /\ Cell(c.x, d.y) \notin storm}

\* The cells that dijkstra() reaches in a number of moves, until it is there.
Reach(storm, from, to) ==
    LET reached[n \in 0..(Cols * Rows)] ==
            IF n = 0 THEN {from} \ storm
            ELSE LET before == reached[n - 1]
                 IN  IF to \in before THEN before
                     ELSE before \cup UNION {Hops(storm, c) : c \in before}
    IN  reached

Routable(storm, from, to) == to \in Reach(storm, from, to)[Cols * Rows]

\* A route that dijkstra() may find: it has as few cells as any.
ReferenceRoute(storm, from, to) ==
    LET reached == Reach(storm, from, to)
        length == CHOOSE n \in 0..(Cols * Rows) :
                    to \in reached[n] /\ (n = 0 \/ to \notin reached[n - 1])
        back[n \in 0..length] ==
            IF n = 0 THEN <<to>>
            ELSE LET route == back[n - 1]
                     before == {c \in reached[length - n] : route[1] \in Hops(storm, c)}
                 IN  <<CHOOSE c \in before : TRUE>> \o route
    IN  back[length]

\* Stars are inside, out of the weather and its margin, off what is protected,
\* and apart; the first ones in a random order that fit are taken.
StarSets(storm, protected) ==
    LET free == {c \in Sites : /\ c.x \notin {0, Cols - 1} /\ c.y \notin {0, Rows - 1}
                               /\ FarFrom(c, storm \cup protected, 2)}
        spaced(stars) == \A a, b \in stars : a # b => CellsApart(a, b) >= 3
    IN  {stars \in UNION {kSubset(k, free) : k \in 0..MaxStars} :
            /\ spaced(stars)
            /\ \/ Cardinality(stars) = MaxStars
               \/ \A c \in free \ stars : ~spaced(stars \cup {c})}

\* generate()
Worlds ==
    UNION {UNION {UNION {
        LET protected == Protected(runways, roster)
        IN  UNION {{[planes |-> roster, storm |-> storm, stars |-> stars] :
                        stars \in StarSets(storm, protected)} :
                storm \in {s \in Storms(protected) :
                    \A i \in Planes :
                        Routable(s, roster[i].spawn, roster[i].goal)}} :
        roster \in Rosters(runways, missions)} :
        missions \in Missions(runways)} :
        runways \in Airports}

-----------------------------------------------------------------------------
(* The flight of a plan: the cells drawn for some of the planes            *)

CellLength == 20
Separation == 40    \* SEP_BLOCKS, SEP_REARM, BONK_BLOCKS and a star's reach
Rearming == 48
Collision == 19
Reached == 14
Landing == 1

Centre(c) == [x |-> CellLength * c.x + 10, y |-> CellLength * c.y + 10]
CellAt(p) == Cell(p.x \div CellLength, p.y \div CellLength)
Square(p, q) == (p.x - q.x) * (p.x - q.x) + (p.y - q.y) * (p.y - q.y)

\* dist() of the centres of two cells next to each other
Leg(a, b) == IF a.x = b.x \/ a.y = b.y THEN CellLength ELSE 28

\* buildRunPts(): a landing rolls on along the runway.
RunCells(plane, path) ==
    IF plane.mission = "land"
    THEN path.cells \o <<Cell(plane.goal.x + plane.dir.x, plane.goal.y + plane.dir.y),
                         Cell(plane.goal.x + 2 * plane.dir.x,
                              plane.goal.y + 2 * plane.dir.y)>>
    ELSE path.cells

\* The leg a plane is on, between two cells: where cumLens() has its s.
LegOf(cells, plane) == Leg(cells[plane.leg], cells[plane.leg + 1])

\* pointAlong()
PointAlong(cells, plane) ==
    LET a == Centre(cells[plane.leg])
        b == Centre(cells[plane.leg + 1])
        along(u, v) == u + ((v - u) * plane.into) \div LegOf(cells, plane)
    IN  [x |-> along(a.x, b.x), y |-> along(a.y, b.y)]

Pairs == {ij \in Planes \X Planes : ij[1] < ij[2]}

\* The constructor of Sim; "armed" is whether sepState is not false.
TakenOff(world, solution) ==
    LET isFlown(i) == i \in DOMAIN solution /\ Len(solution[i].cells) >= 2
    IN  [t |-> 0, violations |-> 0, armed |-> Pairs, taken |-> {},
         planes |-> [i \in Planes |->
            [state |-> IF isFlown(i) THEN "flying" ELSE "home",
             leg |-> 1, into |-> 0, at |-> Centre(world.planes[i].spawn),
             stars |-> 0]]]

Active(sim) == {i \in Planes : sim.planes[i].state = "flying"}
Finished(sim) == Active(sim) = {} \/ sim.t > MaxSimSteps

\* rolling(): a landing that has reached the runway.
Rolling(world, solution, i, plane) ==
    /\ world.planes[i].mission = "land"
    /\ LET cells == solution[i].cells
       IN  \/ plane.leg >= Len(cells)
           \/ /\ plane.leg = Len(cells) - 1
              /\ plane.into >= LegOf(cells, plane) - Landing
Airborne(world, solution, sim) ==
    {i \in Active(sim) : ~Rolling(world, solution, i, sim.planes[i])}

\* A plane after another step, which may be its last.
Advanced(cells, isComplete, plane) ==
    LET into == plane.into + StepLength
        length == LegOf(cells, plane)
        next == IF into < length THEN [plane EXCEPT !.into = into]
                ELSE IF plane.leg < Len(cells) - 1
                THEN [plane EXCEPT !.leg = @ + 1, !.into = into - length]
                ELSE [plane EXCEPT !.into = length,
                                   !.state = IF isComplete THEN "done" ELSE "lost"]
    IN  [next EXCEPT !.at = PointAlong(cells, next)]

(* step() has four phases.  Each is a function of sets, here of one state of *)
(* the flight.                                                               *)

Moved(world, solution, sims) ==
    {[sim EXCEPT !.t = @ + 1,
                 !.planes = [i \in Planes |->
                    IF i \in Active(sim)
                    THEN Advanced(RunCells(world.planes[i], solution[i]),
                                  solution[i].complete, @[i])
                    ELSE @[i]]] : sim \in sims}

Crashed(sim, down) ==
    [i \in Planes |-> IF i \in down THEN [sim.planes[i] EXCEPT !.state = "crashed"]
                      ELSE sim.planes[i]]

\* A storm brings down who is in it.
Struck(world, solution, sims) ==
    {[sim EXCEPT !.planes = Crashed(sim,
        {i \in Airborne(world, solution, sim) :
            CellAt(sim.planes[i].at) \in world.storm})] : sim \in sims}

\* Planes that are too close collide, or lose their separation, once an approach.
Separated(world, solution, sims) ==
    {LET pairs == {ij \in Pairs : {ij[1], ij[2]} \subseteq Airborne(world, solution, sim)}
         apart(ij) == Square(sim.planes[ij[1]].at, sim.planes[ij[2]].at)
         hits == {ij \in pairs : apart(ij) < Collision * Collision}
         near == {ij \in pairs : apart(ij) < Separation * Separation} \ hits
         far == {ij \in pairs : apart(ij) > Rearming * Rearming}
     IN  [sim EXCEPT !.violations = @ + Cardinality(near \cap sim.armed),
                     !.armed = (@ \ near) \cup far,
                     !.planes = Crashed(sim, UNION {{ij[1], ij[2]} : ij \in hits})] :
        sim \in sims}

\* The first of those in the air that come near a star takes it.
Collected(world, solution, sims) ==
    {LET finders(star) == {i \in Airborne(world, solution, sim) :
                            Square(sim.planes[i].at, Centre(star)) < Reached * Reached}
         found == {star \in world.stars \ sim.taken : finders(star) # {}}
         finds(i) == {star \in found : i = Min(finders(star))}
     IN  [sim EXCEPT !.taken = @ \cup found,
                     !.planes = [i \in Planes |->
                        [@[i] EXCEPT !.stars = @ + Cardinality(finds(i))]]] :
        sim \in sims}

SimStep(world, solution, sims) ==
    Collected(world, solution,
        Separated(world, solution, Struck(world, solution, Moved(world, solution, sims))))

\* runHeadless()
RunHeadless(world, solution) ==
    LET run[n \in 0..(MaxSimSteps + 1)] ==
            IF n = 0 THEN {TakenOff(world, solution)}
            ELSE UNION {IF Finished(sim) THEN {sim} ELSE SimStep(world, solution, {sim}) :
                            sim \in run[n - 1]}
    IN  run[MaxSimSteps + 1]

-----------------------------------------------------------------------------
(* The drawing of a plan                                                   *)

\* The cells to another one, without the first: diagonally, then straight on.
LineCells(from, to) ==
    LET dx == to.x - from.x
        dy == to.y - from.y
        way(d, n) == Toward(d) * Min({n, Max({d, -d})})
    IN  [n \in 1..CellsApart(from, to) |->
            Cell(from.x + way(dx, n), from.y + way(dy, n))]

\* onPointerMove(): back by a cell, or on to the cell pointed at.
Drawn(cells, c) ==
    IF Len(cells) > 1 /\ cells[Len(cells) - 1] = c THEN Front(cells)
    ELSE LET on == cells \o LineCells(Last(cells), c)
         IN  SubSeq(on, 1, Min({Len(on), Max({Len(cells), MaxPathCells})}))

\* Slip: a route that ends next to the target is taken for a whole one.
FinishedUnsnapped(path, target) ==
    [path EXCEPT !.complete = CellsApart(Last(path.cells), target) <= 1]

\* finishStroke() of a path: next to the target it snaps to it.
Snapped(path, target) ==
    LET apart == CellsApart(Last(path.cells), target)
    IN  [cells |-> IF apart = 1 THEN Append(path.cells, target) ELSE path.cells,
         complete |-> apart <= 1]

-----------------------------------------------------------------------------
(* The score                                                               *)

IsPerfect(sim) ==
    /\ \A i \in Planes : sim.planes[i].state = "done"
    /\ sim.violations = 0

\* results()
FlightScore(sim) ==
    LET done == {i \in Planes : sim.planes[i].state = "done"}
    IN  800 * Cardinality(done) + 100 * Cardinality(sim.taken)
        + (IF IsPerfect(sim) THEN 200 ELSE 0) - 150 * sim.violations

\* The bonus for the ticks left, if every plane has a whole route.
EarlyBonus(solution, t) ==
    IF \A i \in Planes : i \in DOMAIN solution /\ solution[i].complete
    THEN Min({200, 10 * Max({0, TimeLimit - t})}) ELSE 0

\* Slip: the bonus is for any plan that is handed in early.
PlanPointsHasty(sim, solution, t) ==
    FlightScore(sim) + Min({200, 10 * Max({0, TimeLimit - t})})

\* scoreBonkAirSolution()
PlanPoints(sim, solution, t) == FlightScore(sim) + EarlyBonus(solution, t)

\* The adapter's parseSubmission() and parsePath(): numbered planes, each with
\* cells, which need not be on the grid or next to each other, and a flag.  A
\* plan for none of the planes passes.
ValidPlan(solution) ==
    /\ DOMAIN solution \subseteq Nat
    /\ \A i \in DOMAIN solution :
          /\ solution[i].complete \in BOOLEAN
          /\ \A n \in DOMAIN solution[i].cells : solution[i].cells[n] \in [x : Int, y : Int]

\* scoreSubmission()
ScorePlan(world, solution, t) ==
    CHOOSE result \in
        {Result(IsPerfect(sim), Max({0, PlanPoints(sim, solution, t)})) :
            sim \in RunHeadless(world, solution)} : TRUE

=============================================================================
