--------------------------- MODULE MCLobbyMembership ---------------------------
(* TLC instances of LobbyMembership: one room, players with different names.  *)
(* The sockets are interchangeable; symmetry is used where no liveness is    *)
(* checked.                                                                  *)
EXTENDS LobbyMembership, TLC

CONSTANTS c1, c2, r1

DifferentNames == c1 :> "Ada" @@ c2 :> "Ben"

Symmetry == Permutations(Sockets)
===============================================================================
