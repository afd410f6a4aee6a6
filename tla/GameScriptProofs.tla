---------------------------- MODULE GameScriptProofs ----------------------------
(***************************************************************************)
(* What the script of a game sends when, for every sequence of rounds: the *)
(* round of an event and its place in it, and what has been shown and which*)
(* phase it is after the first n events.                                   *)
(***************************************************************************)
EXTENDS GameScript, SequenceTheorems, TLAPS

Phases ==
  {"lobby", "round-intro", "playing", "reveal", "leaderboard", "game-over"}
Shows == {"QUESTION_SHOW", "ROUND_CONTENT_SHOW"}
Reveals == {"QUESTION_REVEAL", "ROUND_REVEAL"}
ScriptNames ==
  {"ROUND_START", "GAME_PHASE_CHANGE", "GAME_OVER"} \cup Shows \cup Reveals
GameEvents ==
  [name : {"GAME_PHASE_CHANGE"}, round : Nat, phase : Phases]
  \cup [name : ScriptNames \ {"GAME_PHASE_CHANGE"}, round : Nat, phase : {"-"}]

IsScript(script, kinds) ==
  kinds \in Seq({"quiz", "game"}) /\ script = ScriptOf(kinds)

\* The round of an event, and its place in it.
RoundOf(kinds, i) ==
  IF i = 7 * Len(kinds) + 1 THEN Len(kinds) ELSE (i - 1) \div 7 + 1
Offset(kinds, i) == i - 7 * (RoundOf(kinds, i) - 1)

LEMMA SevenOrEight ==
  ASSUME NEW a, NEW b, NEW c, NEW d, NEW e, NEW f, NEW g, NEW h
  PROVE  /\ \A s : s = <<a, b, c, d, e, f>> \o <<g>> =>
              /\ s[1] = a /\ s[2] = b /\ s[3] = c /\ s[4] = d
              /\ s[5] = e /\ s[6] = f /\ s[7] = g
         /\ \A s : s = <<a, b, c, d, e, f>> \o <<g, h>> =>
              /\ s[1] = a /\ s[2] = b /\ s[3] = c /\ s[4] = d
              /\ s[5] = e /\ s[6] = f /\ s[7] = g /\ s[8] = h
<1> DEFINE S == {a, b, c, d, e, f, g, h}
           head == <<a, b, c, d, e, f>>
<1>1. /\ head \in Seq(S) /\ Len(head) = 6
      /\ head[1] = a /\ head[2] = b /\ head[3] = c /\ head[4] = d
      /\ head[5] = e /\ head[6] = f
  OBVIOUS
<1>2. /\ <<g>> \in Seq(S) /\ Len(<<g>>) = 1 /\ <<g>>[1] = g
      /\ <<g, h>> \in Seq(S) /\ Len(<<g, h>>) = 2
      /\ <<g, h>>[1] = g /\ <<g, h>>[2] = h
  OBVIOUS
<1> HIDE DEF S, head
<1>3. ASSUME NEW t \in Seq(S), Len(t) \in {1, 2}
      PROVE  /\ \A i \in 1..6 : (head \o t)[i] = head[i]
             /\ (head \o t)[7] = t[1]
             /\ Len(t) = 2 => (head \o t)[8] = t[2]
  <2> DEFINE whole == head \o t
  <2>1. \A i \in 1..Len(head) + Len(t) :
          whole[i] = IF i <= Len(head) THEN head[i] ELSE t[i - Len(head)]
    BY <1>1, ConcatProperties
  <2>2. Len(head) = 6
    BY <1>1
  <2> HIDE DEF whole
  <2>3. /\ \A i \in 1..6 : whole[i] = head[i]
        /\ whole[7] = t[1]
        /\ Len(t) = 2 => whole[8] = t[2]
    BY <1>3, <2>1, <2>2
  <2>4. QED
    BY <2>3 DEF whole
<1>4. QED
  BY <1>1, <1>2, <1>3 DEF head

LEMMA RoundEvents ==
  ASSUME NEW k, NEW r, NEW last \in BOOLEAN
  PROVE  LET s == RoundScript(k, r, last)
         IN  /\ s[1] = Event("ROUND_START", r, "-")
             /\ s[2] = PhaseChange(r, "round-intro")
             /\ s[3] = PhaseChange(r, "playing")
             /\ s[4] = Event(ShowEvent(k), r, "-")
             /\ s[5] = Event(RevealEvent(k), r, "-")
             /\ s[6] = PhaseChange(r, "reveal")
             /\ s[7] = PhaseChange(r, IF last THEN "game-over" ELSE "leaderboard")
             /\ last => s[8] = Event("GAME_OVER", r, "-")
<1>1. CASE last
  BY <1>1, SevenOrEight DEF RoundScript
<1>2. CASE ~last
  BY <1>2, SevenOrEight DEF RoundScript
<1>3. QED
  BY <1>1, <1>2

LEMMA KindsLength ==
  ASSUME NEW kinds, NEW script, IsScript(script, kinds)
  PROVE  /\ Len(kinds) \in Nat
         /\ \A r \in 1..Len(kinds) : kinds[r] \in {"quiz", "game"}
BY DEF IsScript

LEMMA ScriptLength ==
  ASSUME NEW kinds, NEW script, IsScript(script, kinds)
  PROVE  /\ DOMAIN script = 1..(IF Len(kinds) = 0 THEN 0 ELSE 7 * Len(kinds) + 1)
         /\ Len(script) = IF Len(kinds) = 0 THEN 0 ELSE 7 * Len(kinds) + 1
BY KindsLength DEF IsScript, ScriptOf

LEMMA Places ==
  ASSUME NEW kinds, NEW script, IsScript(script, kinds),
         NEW i \in 1..Len(script)
  PROVE  /\ RoundOf(kinds, i) \in 1..Len(kinds) /\ Offset(kinds, i) \in 1..8
         /\ Offset(kinds, i) = 8 => RoundOf(kinds, i) = Len(kinds)
         /\ i = 7 * (RoundOf(kinds, i) - 1) + Offset(kinds, i)
<1>1. Len(kinds) \in Nat /\ Len(kinds) > 0 /\ i \in 1..(7 * Len(kinds) + 1)
  BY KindsLength, ScriptLength
<1>2. QED
  BY <1>1 DEF RoundOf, Offset

(* What is sent when. *)
LEMMA ScriptEvents ==
  ASSUME NEW kinds, NEW script, IsScript(script, kinds),
         NEW i \in 1..Len(script)
  PROVE  LET r == RoundOf(kinds, i)
             o == Offset(kinds, i)
         IN  /\ o = 1 => script[i] = Event("ROUND_START", r, "-")
             /\ o = 2 => script[i] = PhaseChange(r, "round-intro")
             /\ o = 3 => script[i] = PhaseChange(r, "playing")
             /\ o = 4 => script[i] = Event(ShowEvent(kinds[r]), r, "-")
             /\ o = 5 => script[i] = Event(RevealEvent(kinds[r]), r, "-")
             /\ o = 6 => script[i] = PhaseChange(r, "reveal")
             /\ o = 7 => script[i] = PhaseChange(r,
                           IF r = Len(kinds) THEN "game-over" ELSE "leaderboard")
             /\ o = 8 => script[i] = Event("GAME_OVER", r, "-")
<1> DEFINE r == RoundOf(kinds, i)
           o == Offset(kinds, i)
           last == r = Len(kinds)
<1>1. script[i] = RoundScript(kinds[r], r, last)[o]
  BY KindsLength, ScriptLength DEF IsScript, ScriptOf, RoundOf, Offset
<1>2. o \in 1..8 /\ (o = 8 => last)
  BY Places
<1>3. last \in BOOLEAN
  OBVIOUS
<1> HIDE DEF r, o, last
<1>4. LET s == RoundScript(kinds[r], r, last)
      IN  /\ s[1] = Event("ROUND_START", r, "-")
          /\ s[2] = PhaseChange(r, "round-intro")
          /\ s[3] = PhaseChange(r, "playing")
          /\ s[4] = Event(ShowEvent(kinds[r]), r, "-")
          /\ s[5] = Event(RevealEvent(kinds[r]), r, "-")
          /\ s[6] = PhaseChange(r, "reveal")
          /\ s[7] = PhaseChange(r, IF last THEN "game-over" ELSE "leaderboard")
          /\ last => s[8] = Event("GAME_OVER", r, "-")
  BY <1>3, RoundEvents
<1>5. QED
  BY <1>1, <1>2, <1>4 DEF r, o, last

LEMMA EventNames ==
  ASSUME NEW kinds, NEW script, IsScript(script, kinds),
         NEW i \in 1..Len(script)
  PROVE  LET e == script[i]
             r == RoundOf(kinds, i)
         IN  /\ e.round = r /\ r \in 1..Len(kinds)
             /\ e \in GameEvents /\ e.name \in ScriptNames
             /\ e.name \in Shows <=> Offset(kinds, i) = 4
             /\ e.name \in Shows => e.name = ShowEvent(kinds[r])
             /\ e.name \in Reveals <=> Offset(kinds, i) = 5
             /\ e.name = "ROUND_START" <=> Offset(kinds, i) = 1
             /\ e.name = "GAME_PHASE_CHANGE" <=> Offset(kinds, i) \in {2, 3, 6, 7}
             /\ e.name = "GAME_PHASE_CHANGE" => e.phase \in Phases
             /\ e.name = "GAME_OVER" <=> Offset(kinds, i) = 8
<1> DEFINE r == RoundOf(kinds, i)
           o == Offset(kinds, i)
           e == script[i]
<1>1. r \in 1..Len(kinds) /\ r \in Nat /\ o \in 1..8
  BY Places, KindsLength
<1>2. kinds[r] \in {"quiz", "game"}
  BY <1>1, KindsLength
<1>3. /\ o = 1 => e = Event("ROUND_START", r, "-")
      /\ o = 2 => e = PhaseChange(r, "round-intro")
      /\ o = 3 => e = PhaseChange(r, "playing")
      /\ o = 4 => e = Event(ShowEvent(kinds[r]), r, "-")
      /\ o = 5 => e = Event(RevealEvent(kinds[r]), r, "-")
      /\ o = 6 => e = PhaseChange(r, "reveal")
      /\ o = 7 => e = PhaseChange(r,
                     IF r = Len(kinds) THEN "game-over" ELSE "leaderboard")
      /\ o = 8 => e = Event("GAME_OVER", r, "-")
  BY ScriptEvents
<1> DEFINE Known ==
             /\ e.round = r /\ r \in 1..Len(kinds)
             /\ e \in GameEvents /\ e.name \in ScriptNames
             /\ e.name \in Shows <=> o = 4
             /\ e.name \in Shows => e.name = ShowEvent(kinds[r])
             /\ e.name \in Reveals <=> o = 5
             /\ e.name = "ROUND_START" <=> o = 1
             /\ e.name = "GAME_PHASE_CHANGE" <=> o \in {2, 3, 6, 7}
             /\ e.name = "GAME_PHASE_CHANGE" => e.phase \in Phases
             /\ e.name = "GAME_OVER" <=> o = 8
<1> SUFFICES Known
  OBVIOUS
<1> HIDE DEF r, o, e
<1> USE DEF Event, PhaseChange, ShowEvent, RevealEvent, Shows, Reveals, GameEvents,
            ScriptNames, Phases
<1>4. CASE o \in {1, 2, 3}
  BY <1>1, <1>3, <1>4
<1>5. CASE o \in {4, 5}
  BY <1>1, <1>2, <1>3, <1>5
<1>6. CASE o \in {6, 7, 8}
  BY <1>1, <1>3, <1>6
<1>7. QED
  BY <1>1, <1>4, <1>5, <1>6

LEMMA RoundInEvents ==
  ASSUME NEW kinds, NEW script, IsScript(script, kinds)
  PROVE  /\ RoundIn(script, 0) = 0
         /\ \A n \in 1..Len(script) : RoundIn(script, n) = RoundOf(kinds, n)
<1>1. \A n \in 1..Len(script) : RoundIn(script, n) = script[n].round
  BY DEF RoundIn
<1>2. QED
  BY <1>1, EventNames DEF RoundIn

(* The last event, and no other, ends the game. *)
LEMMA OverIsLast ==
  ASSUME NEW kinds, NEW script, IsScript(script, kinds),
         NEW i \in 1..Len(script)
  PROVE  script[i].name = "GAME_OVER" <=> i = Len(script)
<1>1. script[i].name = "GAME_OVER" <=> Offset(kinds, i) = 8
  BY EventNames
<1>2. Len(kinds) \in Nat /\ Len(kinds) > 0 /\ Len(script) = 7 * Len(kinds) + 1
  BY KindsLength, ScriptLength
<1>3. i \in Nat /\ i <= Len(script)
  BY <1>2
<1>4. Offset(kinds, i) = 8 <=> i = 7 * Len(kinds) + 1
  BY <1>2, <1>3 DEF Offset, RoundOf
<1>5. QED
  BY <1>1, <1>2, <1>4

(* A round is shown with its fourth event. *)
LEMMA ShownWhen ==
  ASSUME NEW kinds, NEW script, IsScript(script, kinds),
         NEW n \in 0..Len(script), NEW r
  PROVE  ShownIn(script, r, n) <=> r \in 1..Len(kinds) /\ 7 * (r - 1) + 4 <= n
<1>1. Len(script) \in Nat /\ Len(kinds) \in Nat
  BY KindsLength, ScriptLength
<1>2. ShownIn(script, r, n) <=>
        \E i \in 1..n : RoundOf(kinds, i) = r /\ Offset(kinds, i) = 4
  <2>1. \A i \in 1..n : i \in 1..Len(script)
    BY <1>1
  <2>2. \A i \in 1..n : /\ script[i].round = RoundOf(kinds, i)
                        /\ script[i].name \in Shows <=> Offset(kinds, i) = 4
    BY <2>1, EventNames
  <2>3. QED
    BY <2>2 DEF ShownIn, Shows
<1>3. ASSUME NEW i \in 1..n, RoundOf(kinds, i) = r, Offset(kinds, i) = 4
      PROVE  r \in 1..Len(kinds) /\ 7 * (r - 1) + 4 <= n
  <2>1. i \in 1..Len(script)
    BY <1>1
  <2>2. r \in 1..Len(kinds) /\ i = 7 * (r - 1) + 4
    BY <1>3, <2>1, Places
  <2>3. QED
    BY <2>2, <1>1
<1>4. ASSUME r \in 1..Len(kinds), 7 * (r - 1) + 4 <= n
      PROVE  \E i \in 1..n : RoundOf(kinds, i) = r /\ Offset(kinds, i) = 4
  <2>1. r \in Nat /\ r >= 1 /\ r <= Len(kinds)
    BY <1>1, <1>4
  <2>2. 7 * (r - 1) + 4 \in 1..n
    BY <1>1, <1>4, <2>1
  <2>3. RoundOf(kinds, 7 * (r - 1) + 4) = r
    BY <1>1, <2>1 DEF RoundOf
  <2>4. Offset(kinds, 7 * (r - 1) + 4) = 4
    BY <2>1, <2>3 DEF Offset
  <2>5. QED
    BY <2>2, <2>3, <2>4
<1>5. QED
  BY <1>2, <1>3, <1>4

LEMMA PhaseNext ==
  ASSUME NEW script
  PROVE  /\ PhaseIn(script, 0) = "lobby"
         /\ \A n \in Nat :
              PhaseIn(script, n + 1) = IF script[n + 1].name = "GAME_PHASE_CHANGE"
                               THEN script[n + 1].phase ELSE PhaseIn(script, n)
<1> DEFINE changes(n) == {i \in 1..n : script[i].name = "GAME_PHASE_CHANGE"}
<1>1. \A n : PhaseIn(script, n) =
        IF changes(n) = {} THEN "lobby"
        ELSE script[CHOOSE i \in changes(n) : \A j \in changes(n) : j <= i].phase
  BY DEF PhaseIn
<1>2. changes(0) = {}
  OBVIOUS
<1>3. ASSUME NEW n \in Nat, script[n + 1].name # "GAME_PHASE_CHANGE"
      PROVE  changes(n + 1) = changes(n)
  BY <1>3
<1>4. ASSUME NEW n \in Nat, script[n + 1].name = "GAME_PHASE_CHANGE"
      PROVE  /\ changes(n + 1) # {}
             /\ (CHOOSE i \in changes(n + 1) :
                  \A j \in changes(n + 1) : j <= i) = n + 1
  <2>1. n + 1 \in changes(n + 1) /\ \A j \in changes(n + 1) : j <= n + 1
    BY <1>4
  <2>2. \A i \in changes(n + 1) :
          (\A j \in changes(n + 1) : j <= i) => i = n + 1
    BY <2>1
  <2> HIDE DEF changes
  <2>3. QED
    BY <2>1, <2>2
<1>5. \A n \in Nat : n + 1 \in Nat
  OBVIOUS
<1> HIDE DEF changes
<1>6. ASSUME NEW n \in Nat
      PROVE  PhaseIn(script, n + 1) = IF script[n + 1].name = "GAME_PHASE_CHANGE"
                               THEN script[n + 1].phase ELSE PhaseIn(script, n)
  <2>1. CASE script[n + 1].name = "GAME_PHASE_CHANGE"
    BY <1>1, <1>4, <1>5, <2>1
  <2>2. CASE script[n + 1].name # "GAME_PHASE_CHANGE"
    BY <1>1, <1>3, <1>5, <2>2
  <2>3. QED
    BY <2>1, <2>2
<1>7. PhaseIn(script, 0) = "lobby"
  BY <1>1, <1>2
<1>8. QED
  BY <1>6, <1>7

\* Event n is the o-th of round r.
IsPlace(kinds, r, o, n) ==
  /\ r \in 1..Len(kinds) /\ o \in 1..8 /\ (o = 8 => r = Len(kinds))
  /\ n = 7 * (r - 1) + o

LEMMA PlaceIs ==
  ASSUME NEW kinds, Len(kinds) \in Nat, NEW r, NEW o, NEW n, IsPlace(kinds, r, o, n)
  PROVE  RoundOf(kinds, n) = r /\ Offset(kinds, n) = o
<1>1. Len(kinds) \in Nat /\ r \in Nat /\ 1 <= r /\ r <= Len(kinds)
  BY DEF IsPlace
<1>2. RoundOf(kinds, n) = r
  <2>1. CASE o = 8
    BY <1>1, <2>1 DEF RoundOf, IsPlace
  <2>2. CASE o # 8
    BY <1>1, <2>2 DEF RoundOf, IsPlace
  <2>3. QED
    BY <2>1, <2>2
<1>3. QED
  BY <1>1, <1>2 DEF Offset, IsPlace

LEMMA Previous ==
  ASSUME NEW kinds, NEW script, IsScript(script, kinds),
         NEW n \in 1..Len(script)
  PROVE  /\ Offset(kinds, n) > 1 => /\ n - 1 \in 1..Len(script)
                             /\ RoundOf(kinds, n - 1) = RoundOf(kinds, n)
                             /\ Offset(kinds, n - 1) = Offset(kinds, n) - 1
         /\ Offset(kinds, n) = 1 /\ n > 1 => /\ n - 1 \in 1..Len(script)
                                      /\ Offset(kinds, n - 1) = 7
                                      /\ RoundOf(kinds, n - 1) # Len(kinds)
<1> DEFINE r == RoundOf(kinds, n)
           o == Offset(kinds, n)
<1>1. /\ Len(script) \in Nat /\ Len(kinds) \in Nat
      /\ n \in Nat /\ 1 <= n /\ n <= Len(script)
  BY KindsLength, ScriptLength
<1>2. /\ r \in 1..Len(kinds) /\ o \in 1..8
      /\ o = 8 => r = Len(kinds)
  BY Places
<1>3. n = 7 * (r - 1) + o
  BY Places
<1>4. r \in Nat /\ 1 <= r /\ r <= Len(kinds)
  BY <1>1, <1>2
<1> HIDE DEF r, o
<1>5. ASSUME o > 1
      PROVE  /\ n - 1 \in 1..Len(script)
             /\ RoundOf(kinds, n - 1) = r /\ Offset(kinds, n - 1) = o - 1
  <2>1. o - 1 \in 1..8 /\ o - 1 # 8 /\ n - 1 = 7 * (r - 1) + (o - 1)
    BY <1>1, <1>2, <1>3, <1>4, <1>5
  <2>2. RoundOf(kinds, n - 1) = r /\ Offset(kinds, n - 1) = o - 1
    <3>1. IsPlace(kinds, r, o - 1, n - 1)
      BY <1>2, <2>1 DEF IsPlace
    <3>2. QED
      BY <1>1, <3>1, PlaceIs
  <2>3. n > 1
    BY <1>2, <1>3, <1>4, <1>5
  <2>4. QED
    BY <1>1, <2>2, <2>3
<1>6. ASSUME o = 1, n > 1
      PROVE  /\ n - 1 \in 1..Len(script) /\ Offset(kinds, n - 1) = 7
             /\ RoundOf(kinds, n - 1) # Len(kinds)
  <2>1. r - 1 \in 1..Len(kinds) /\ n - 1 = 7 * ((r - 1) - 1) + 7
    BY <1>1, <1>3, <1>4, <1>6
  <2>2. RoundOf(kinds, n - 1) = r - 1 /\ Offset(kinds, n - 1) = 7
    <3>1. IsPlace(kinds, r - 1, 7, n - 1)
      BY <2>1 DEF IsPlace
    <3>2. QED
      BY <1>1, <3>1, PlaceIs
  <2>3. QED
    BY <1>1, <1>4, <1>6, <2>2
<1>7. QED
  BY <1>5, <1>6 DEF r, o

(* The phase a round is in, which its first event leaves as it was. *)
LEMMA PhaseWhen ==
  ASSUME NEW kinds, NEW script, IsScript(script, kinds),
         NEW n \in 0..Len(script)
  PROVE  PhaseIn(script, n) =
           CASE n = 0 \/ n = 1 -> "lobby"
             [] n > 1 /\ Offset(kinds, n) = 1 -> "leaderboard"
             [] n > 1 /\ Offset(kinds, n) = 2 -> "round-intro"
             [] n > 1 /\ Offset(kinds, n) \in {3, 4, 5} -> "playing"
             [] n > 1 /\ Offset(kinds, n) = 6 -> "reveal"
             [] n > 1 /\ Offset(kinds, n) = 7 /\ RoundOf(kinds, n) # Len(kinds)
                  -> "leaderboard"
             [] OTHER -> "game-over"
<1>1. Len(script) \in Nat /\ n \in Nat /\ n <= Len(script)
  BY KindsLength, ScriptLength
<1>2. \A m \in 1..Len(script) :
        /\ Offset(kinds, m) \in {2, 3, 6, 7} => PhaseIn(script, m) = script[m].phase
        /\ Offset(kinds, m) \in {1, 4, 5, 8} =>
             PhaseIn(script, m) = PhaseIn(script, m - 1)
  <2> SUFFICES ASSUME NEW m \in 1..Len(script)
               PROVE  /\ Offset(kinds, m) \in {2, 3, 6, 7} =>
                           PhaseIn(script, m) = script[m].phase
                      /\ Offset(kinds, m) \in {1, 4, 5, 8} =>
                           PhaseIn(script, m) = PhaseIn(script, m - 1)
    OBVIOUS
  <2>1. m - 1 \in Nat /\ (m - 1) + 1 = m
    BY <1>1
  <2>2. script[m].name = "GAME_PHASE_CHANGE" <=> Offset(kinds, m) \in {2, 3, 6, 7}
    BY EventNames
  <2>3. PhaseIn(script, m) = IF script[m].name = "GAME_PHASE_CHANGE"
                     THEN script[m].phase ELSE PhaseIn(script, m - 1)
    BY <2>1, PhaseNext
  <2>4. QED
    BY <2>2, <2>3
<1>3. \A m \in 1..Len(script) :
        /\ Offset(kinds, m) = 2 => PhaseIn(script, m) = "round-intro"
        /\ Offset(kinds, m) = 3 => PhaseIn(script, m) = "playing"
        /\ Offset(kinds, m) = 6 => PhaseIn(script, m) = "reveal"
        /\ Offset(kinds, m) = 7 =>
             PhaseIn(script, m) = IF RoundOf(kinds, m) = Len(kinds)
                                  THEN "game-over" ELSE "leaderboard"
  <2> SUFFICES ASSUME NEW m \in 1..Len(script)
               PROVE  /\ Offset(kinds, m) = 2 => PhaseIn(script, m) = "round-intro"
                      /\ Offset(kinds, m) = 3 => PhaseIn(script, m) = "playing"
                      /\ Offset(kinds, m) = 6 => PhaseIn(script, m) = "reveal"
                      /\ Offset(kinds, m) = 7 =>
                           PhaseIn(script, m) = IF RoundOf(kinds, m) = Len(kinds)
                                        THEN "game-over" ELSE "leaderboard"
    OBVIOUS
  <2>1. /\ Offset(kinds, m) = 2 => script[m].phase = "round-intro"
        /\ Offset(kinds, m) = 3 => script[m].phase = "playing"
        /\ Offset(kinds, m) = 6 => script[m].phase = "reveal"
        /\ Offset(kinds, m) = 7 =>
             script[m].phase = IF RoundOf(kinds, m) = Len(kinds)
                               THEN "game-over" ELSE "leaderboard"
    <3> DEFINE r == RoundOf(kinds, m)
    <3>1. /\ Offset(kinds, m) = 2 => script[m] = PhaseChange(r, "round-intro")
          /\ Offset(kinds, m) = 3 => script[m] = PhaseChange(r, "playing")
          /\ Offset(kinds, m) = 6 => script[m] = PhaseChange(r, "reveal")
          /\ Offset(kinds, m) = 7 => script[m] = PhaseChange(r,
               IF r = Len(kinds) THEN "game-over" ELSE "leaderboard")
      BY ScriptEvents
    <3>2. QED
      BY <3>1 DEF PhaseChange, Event
  <2>2. QED
    BY <1>2, <2>1
<1>4. \A m \in 1..Len(script) :
        Offset(kinds, m) = 4 => PhaseIn(script, m) = "playing"
  BY <1>2, <1>3, Previous
<1>5. \A m \in 1..Len(script) :
        Offset(kinds, m) = 5 => PhaseIn(script, m) = "playing"
  BY <1>2, <1>4, Previous
<1>6. \A m \in 1..Len(script) :
        Offset(kinds, m) = 8 => PhaseIn(script, m) = "game-over"
  <2> SUFFICES ASSUME NEW m \in 1..Len(script), Offset(kinds, m) = 8
               PROVE  PhaseIn(script, m) = "game-over"
    OBVIOUS
  <2>1. RoundOf(kinds, m - 1) = Len(kinds)
    BY KindsLength, ScriptLength, Places DEF RoundOf, Offset
  <2>2. QED
    BY <1>2, <1>3, <2>1, Previous
<1>7. \A m \in 1..Len(script) :
        Offset(kinds, m) = 1 =>
          PhaseIn(script, m) = IF m = 1 THEN "lobby" ELSE "leaderboard"
  <2> SUFFICES ASSUME NEW m \in 1..Len(script), Offset(kinds, m) = 1
               PROVE  PhaseIn(script, m) = IF m = 1 THEN "lobby" ELSE "leaderboard"
    OBVIOUS
  <2>1. PhaseIn(script, m) = PhaseIn(script, m - 1)
    BY <1>2
  <2>2. CASE m = 1
    BY <2>1, <2>2, PhaseNext
  <2>3. CASE m > 1
    BY <1>3, <2>1, <2>3, Previous
  <2>4. QED
    BY <1>1, <2>2, <2>3
<1>8. CASE n = 0
  BY <1>8, PhaseNext
<1>9. CASE n = 1
  <2>1. Len(kinds) \in Nat /\ Len(kinds) > 0
    BY <1>1, <1>9, KindsLength, ScriptLength
  <2>2. IsPlace(kinds, 1, 1, 1)
    BY <2>1 DEF IsPlace
  <2>3. Offset(kinds, 1) = 1
    BY <2>1, <2>2, PlaceIs
  <2>4. QED
    BY <1>1, <1>7, <1>9, <2>3
<1>10. CASE n > 1
  <2>1. n \in 1..Len(script) /\ Offset(kinds, n) \in {1, 2, 3, 4, 5, 6, 7, 8}
    BY <1>1, <1>10, Places
  <2>2. QED
    BY <1>3, <1>4, <1>5, <1>6, <1>7, <1>10, <2>1
<1>11. QED
  BY <1>1, <1>8, <1>9, <1>10

(* What the proofs below need of it. *)
LEMMA PhaseFacts ==
  ASSUME NEW kinds, NEW script, IsScript(script, kinds),
         NEW n \in 0..Len(script)
  PROVE  /\ PhaseIn(script, n) \in Phases
         /\ RoundIn(script, n) \in Nat
         /\ PhaseIn(script, n) = "lobby" => \A r : ~ShownIn(script, r, n)
         /\ PhaseIn(script, n) = "reveal" => ShownIn(script, RoundIn(script, n), n)
         /\ \A r : ShownIn(script, r, n) => r \in 1..Len(kinds)
<1>1. Len(script) \in Nat /\ n \in Nat /\ n <= Len(script)
  BY KindsLength, ScriptLength
<1>2. PhaseIn(script, n) \in Phases
  BY PhaseWhen DEF Phases
<1>3. RoundIn(script, n) \in Nat
  <2>1. CASE n = 0
    BY <2>1, RoundInEvents
  <2>2. CASE n # 0
    <3>1. n \in 1..Len(script)
      BY <1>1, <2>2
    <3>2. QED
      BY <3>1, RoundInEvents, Places
  <2>3. QED
    BY <2>1, <2>2
<1>4. ASSUME PhaseIn(script, n) = "lobby", NEW r PROVE ~ShownIn(script, r, n)
  <2>1. n <= 1
    BY <1>1, <1>4, PhaseWhen
  <2>2. QED
    BY <1>1, <2>1, ShownWhen, KindsLength
<1>5. ASSUME PhaseIn(script, n) = "reveal"
      PROVE  ShownIn(script, RoundIn(script, n), n)
  <2>1. n \in 1..Len(script) /\ Offset(kinds, n) = 6
    BY <1>1, <1>5, PhaseWhen
  <2>2. QED
    BY <2>1, Places, ShownWhen, RoundInEvents, KindsLength
<1>6. QED
  BY <1>2, <1>3, <1>4, <1>5, ShownWhen
(* A round is revealed with its fifth event. *)
LEMMA RevealedWhen ==
  ASSUME NEW kinds, NEW script, IsScript(script, kinds),
         NEW n \in 0..Len(script), NEW r
  PROVE  RevealedIn(script, r, n) <=> r \in 1..Len(kinds) /\ 7 * (r - 1) + 5 <= n
<1>1. Len(script) \in Nat /\ Len(kinds) \in Nat
  BY KindsLength, ScriptLength
<1>2. RevealedIn(script, r, n) <=>
        \E i \in 1..n : RoundOf(kinds, i) = r /\ Offset(kinds, i) = 5
  <2>1. \A i \in 1..n : i \in 1..Len(script)
    BY <1>1
  <2>2. \A i \in 1..n : /\ script[i].round = RoundOf(kinds, i)
                        /\ script[i].name \in Reveals <=> Offset(kinds, i) = 5
    BY <2>1, EventNames
  <2>3. QED
    BY <2>2 DEF RevealedIn, Reveals
<1>3. ASSUME NEW i \in 1..n, RoundOf(kinds, i) = r, Offset(kinds, i) = 5
      PROVE  r \in 1..Len(kinds) /\ 7 * (r - 1) + 5 <= n
  <2>1. i \in 1..Len(script)
    BY <1>1
  <2>2. r \in 1..Len(kinds) /\ i = 7 * (r - 1) + 5
    BY <1>3, <2>1, Places
  <2>3. QED
    BY <2>2, <1>1
<1>4. ASSUME r \in 1..Len(kinds), 7 * (r - 1) + 5 <= n
      PROVE  \E i \in 1..n : RoundOf(kinds, i) = r /\ Offset(kinds, i) = 5
  <2>1. r \in Nat /\ r >= 1 /\ r <= Len(kinds)
    BY <1>1, <1>4
  <2>2. 7 * (r - 1) + 5 \in 1..n
    BY <1>1, <1>4, <2>1
  <2>3. RoundOf(kinds, 7 * (r - 1) + 5) = r
    BY <1>1, <2>1 DEF RoundOf
  <2>4. Offset(kinds, 7 * (r - 1) + 5) = 5
    BY <2>1, <2>3 DEF Offset
  <2>5. QED
    BY <2>2, <2>3, <2>4
<1>5. QED
  BY <1>2, <1>3, <1>4

(* What the next event makes of the first n. *)
LEMMA NextEvent ==
  ASSUME NEW kinds, NEW script, IsScript(script, kinds),
         NEW n \in Nat, n < Len(script)
  PROVE  LET m == n + 1
             e == script[m]
             r == RoundIn(script, m)
         IN  /\ m \in 1..Len(script)
             /\ e.round = r /\ r \in 1..Len(kinds)
             /\ n = 0 => e.name = "ROUND_START"
             /\ n = 1 => e.name = "GAME_PHASE_CHANGE"
             /\ e.name = "ROUND_START" =>
                  ~ShownIn(script, r, m) /\ ~RevealedIn(script, r, m)
             /\ e.name # "ROUND_START" => r = RoundIn(script, n)
             /\ e.name \in Shows =>
                  e.name = ShowEvent(kinds[r]) /\ ~RevealedIn(script, r, m)
             /\ e.name \notin Shows =>
                  (ShownIn(script, r, m) => ShownIn(script, r, n))
             /\ e.name \in Reveals => e.name = RevealEvent(kinds[r])
             /\ e.name \notin Reveals =>
                  (RevealedIn(script, r, m) => RevealedIn(script, r, n))
<1> DEFINE m == n + 1
           e == script[m]
           r == RoundOf(kinds, m)
           o == Offset(kinds, m)
<1>1. /\ Len(script) \in Nat /\ Len(kinds) \in Nat /\ Len(kinds) > 0
      /\ n \in 0..Len(script) /\ m \in 1..Len(script) /\ m \in 0..Len(script)
  BY KindsLength, ScriptLength
<1>2. /\ r \in 1..Len(kinds) /\ o \in 1..8 /\ m = 7 * (r - 1) + o
      /\ RoundIn(script, m) = r
  BY <1>1, Places, RoundInEvents
<1>3. /\ e.round = r
      /\ e.name \in Shows <=> o = 4
      /\ e.name \in Shows => e.name = ShowEvent(kinds[r])
      /\ e.name \in Reveals <=> o = 5
      /\ e.name = "ROUND_START" <=> o = 1
      /\ e.name = "GAME_PHASE_CHANGE" <=> o \in {2, 3, 6, 7}
  BY <1>1, EventNames
<1>4. e.name \in Reveals => e.name = RevealEvent(kinds[r])
  <2>1. o = 5 => e = Event(RevealEvent(kinds[r]), r, "-")
    BY <1>1, ScriptEvents
  <2>2. QED
    BY <1>3, <2>1 DEF Event
<1>5. /\ ShownIn(script, r, m) <=> 7 * (r - 1) + 4 <= m
      /\ ShownIn(script, r, n) <=> 7 * (r - 1) + 4 <= n
      /\ RevealedIn(script, r, m) <=> 7 * (r - 1) + 5 <= m
      /\ RevealedIn(script, r, n) <=> 7 * (r - 1) + 5 <= n
  BY <1>1, <1>2, ShownWhen, RevealedWhen
<1>6. m = 1 => o = 1
  <2>1. IsPlace(kinds, 1, 1, 1)
    BY <1>1 DEF IsPlace
  <2>2. QED
    BY <1>1, <2>1, PlaceIs
<1>7. m = 2 => o = 2
  <2>1. IsPlace(kinds, 1, 2, 2)
    BY <1>1 DEF IsPlace
  <2>2. QED
    BY <1>1, <2>1, PlaceIs
<1>8. o > 1 => RoundIn(script, n) = r
  <2>1. m - 1 = n
    BY <1>1
  <2>2. o > 1 => n \in 1..Len(script) /\ RoundOf(kinds, n) = r
    BY <1>1, <2>1, Previous
  <2>3. QED
    BY <2>2, RoundInEvents
<1> HIDE DEF e, r, o
<1>9. r \in Nat
  BY <1>1, <1>2
<1>10. /\ o = 1 => ~ShownIn(script, r, m) /\ ~RevealedIn(script, r, m)
       /\ o = 4 => ~RevealedIn(script, r, m)
       /\ o # 4 => (ShownIn(script, r, m) => ShownIn(script, r, n))
       /\ o # 5 => (RevealedIn(script, r, m) => RevealedIn(script, r, n))
  BY <1>2, <1>5, <1>9
<1>11. o > 1 <=> o # 1
  BY <1>2
<1>12. QED
  BY <1>1, <1>2, <1>3, <1>4, <1>6, <1>7, <1>8, <1>10, <1>11 DEF e

LEMMA PhaseAfterTwo ==
  ASSUME NEW kinds, NEW script, IsScript(script, kinds),
         NEW n \in 0..Len(script), n >= 2
  PROVE  /\ PhaseIn(script, n) # "lobby"
         /\ RoundIn(script, n) \in 1..Len(kinds)
         /\ PhaseIn(script, n) = "reveal" =>
              RevealedIn(script, RoundIn(script, n), n)
<1>1. Len(script) \in Nat /\ n \in 1..Len(script)
  BY KindsLength, ScriptLength
<1>2. Offset(kinds, n) \in 1..8 /\ RoundIn(script, n) = RoundOf(kinds, n)
  BY <1>1, Places, RoundInEvents
<1>3. PhaseIn(script, n) # "lobby"
  BY <1>1, <1>2, PhaseWhen
<1>4. ASSUME PhaseIn(script, n) = "reveal"
      PROVE  RevealedIn(script, RoundIn(script, n), n)
  <2>1. Offset(kinds, n) = 6
    BY <1>1, <1>4, PhaseWhen
  <2>2. QED
    BY <1>1, <1>2, <2>1, Places, RevealedWhen, KindsLength
<1>5. QED
  BY <1>1, <1>2, <1>3, <1>4, Places
===============================================================================
