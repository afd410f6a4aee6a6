----------------------------- MODULE LightSwitch ----------------------------
(***************************************************************************)
(* The light switches (minigames/light-switch/LightSwitchGame.ts and       *)
(* server/room/game/minigames/light-switch.server.ts).  A state is the set *)
(* of lights that are on; a switch is the set of lights it flips.          *)
(***************************************************************************)
EXTENDS MinigameScores, FiniteSets, SequencesExt

CONSTANTS
    LightCount,          \* MIN_LIGHTS to MAX_LIGHTS
    SwitchCount,         \* SWITCH_COUNT
    MaxAffectedLights    \* MAX_AFFECTED_LIGHTS

ASSUME LightAssumption == LightCount \in Nat \ {0} /\ SwitchCount \in Nat

Lights == 1..LightCount
Switches == 1..SwitchCount

\* applySwitch(), and what a number of them comes to
ApplySwitch(state, affected) == SymDiff(state, affected)
ApplyAll(state, wiring, pressed) ==
    FoldLeft(LAMBDA s, i : ApplySwitch(s, wiring[i]), state, pressed)

AllOn(state) == state = Lights

\* createSwitches(): MIN_AFFECTED_LIGHTS is 1.
Wirings ==
    [Switches -> {a \in SUBSET Lights :
                     Cardinality(a) \in 1..MaxAffectedLights}]

\* createLights(): switches are thrown from all lights on.  A switch thrown
\* twice counts for nothing, so any set of them can be what is left.
Scrambles(wiring) ==
    {ApplyAll(Lights, wiring, SetToSeq(thrown)) : thrown \in SUBSET Switches}
        \ {Lights}

\* ... or, when three attempts have ended with all lights on, none is.
FallbackLights == {}

\* createRound(), createLightSwitchPuzzle()
LightPuzzles ==
    UNION {[wiring : {w}, lights : Scrambles(w) \cup {FallbackLights}] : w \in Wirings}
-----------------------------------------------------------------------------
BaseScore == 1000

ValidPresses(pressed) == pressed # <<>>

\* checkSubmission(), scoreSubmission()
ScorePresses(pressed, wiring, lights, t) ==
    IF AllOn(ApplyAll(lights, wiring, pressed))
    THEN Result(TRUE, SpeedBonus(BaseScore, t)) ELSE Worthless
=============================================================================
