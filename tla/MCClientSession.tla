--------------------------- MODULE MCClientSession ---------------------------
(* ClientSession for a game of a quiz round and a minigame round.          *)
EXTENDS ClientSession

MCKinds == <<"quiz", "game">>
=============================================================================
