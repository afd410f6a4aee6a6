------------------------------- MODULE GameData -------------------------------
(***************************************************************************)
(* What the services of a running game share: the parameters of one room's *)
(* game, the rows of the database they read and write, and the sockets the *)
(* registry knows.  Every await of a query is a point where other handlers *)
(* run, so a value read before one may be stale after it.                  *)
(***************************************************************************)
EXTENDS Naturals, FiniteSets

CONSTANTS
  Players,    \* the clients of the room when the game starts
  NumRounds,  \* rounds the builder produced
  Minigame,   \* the rounds whose scoringMode is 'minigame'; the others are quiz
  MaxFaults,  \* bound: how many queries may fail in one behaviour
  MaxCalls,   \* bound: how many joins, leaves and drops the lobby handles
  Timeouts    \* may SCORED_AWAIT_TIMEOUT_MS elapse before a query returns?

RoundNumbers == 1..NumRounds
NoRound == 0

ASSUME GameAssumption ==
  /\ NumRounds \in Nat \ {0}
  /\ Minigame \subseteq RoundNumbers
  /\ MaxFaults \in Nat
  /\ MaxCalls \in Nat
  /\ Timeouts \in BOOLEAN
  /\ IsFiniteSet(Players)

VARIABLES
  roster,   \* clients table: the players that have a row
  online,   \* clients.isConnected
  total,    \* clients.totalScore, in correct answers: each is worth one point
  rows,     \* client_answers table: round -> players with a row
  removed,  \* history: players whose row was deleted at some time
  conn,     \* registry: players with a live socket
  faults    \* queries that may still fail

tableVars == <<roster, online, total, rows, removed>>
dataVars == <<tableVars, conn, faults>>

\* A client entity as a query returns it.
Entity == [score : Nat, online : BOOLEAN]
Loaded(p) == [score |-> total[p], online |-> p \in online]
NoEntity == [score |-> 0, online |-> FALSE]

TableTypeOK ==
  /\ roster \subseteq Players
  /\ online \subseteq Players
  /\ total \in [Players -> Nat]
  /\ rows \in [RoundNumbers -> SUBSET Players]
  /\ removed \subseteq Players

DataTypeOK ==
  /\ TableTypeOK
  /\ conn \subseteq Players
  /\ faults \in 0..MaxFaults

DataInit ==
  /\ roster = Players
  /\ online = Players
  /\ total = [p \in Players |-> 0]
  /\ rows = [r \in RoundNumbers |-> {}]
  /\ removed = {}
  /\ conn = Players
  /\ faults = MaxFaults

\* clients.remove(): the foreign key of client_answers deletes the answers too.
RemoveClient(p) ==
  /\ roster' = roster \ {p}
  /\ online' = online \ {p}
  /\ rows' = [r \in RoundNumbers |-> rows[r] \ {p}]
  /\ removed' = removed \cup {p}
  /\ UNCHANGED total

\* clients.save() of an entity loaded earlier: every column that differs is
\* written back to the entity's value, and a row deleted since is inserted.
SaveClient(p, entity) ==
  /\ roster' = roster \cup {p}
  /\ online' = IF entity.online THEN online \cup {p} ELSE online \ {p}
  /\ total' = [total EXCEPT ![p] = entity.score]
  /\ UNCHANGED <<rows, removed>>

Fail ==
  /\ faults > 0
  /\ faults' = faults - 1
===============================================================================
