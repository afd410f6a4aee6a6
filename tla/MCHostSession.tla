---------------------------- MODULE MCHostSession ----------------------------
(* HostSession with two themes, of which one has no questions, and a       *)
(* minigame.                                                               *)
EXTENDS HostSession

MCAvailable == [history |-> 2, art |-> 0]
MCDefaultTimes == [slide |-> 20]
MCDefaultSequence == <<"quiz", "slide">>

\* Bound: once the host has started a game, a behaviour is followed on while
\* the game's rounds are few, and with one save or fault more than such a game
\* is played out with.
ShortGames ==
    game.at # "none" =>
        Len(game.plan) <= MaxRounds /\ sent + faults <= MaxTroubles + 1
=============================================================================
