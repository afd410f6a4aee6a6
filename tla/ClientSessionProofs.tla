-------------------------- MODULE ClientSessionProofs --------------------------
(***************************************************************************)
(* The phone and its server for every game, every number of lost sockets   *)
(* and attempts and any number of frames on their way: what the phone      *)
(* shows, when it is locked and what credentials it keeps.                 *)
(*                                                                         *)
(* A frame is handled long after it was sent, so each invariant says of    *)
(* the frames of the inbox what the phone will have made of them: of the   *)
(* last one that writes a field, or of the field if there is none.         *)
(***************************************************************************)
EXTENDS ClientSession, GameScriptProofs, FiniteSetTheorems

-------------------------------------------------------------------------------
(* Types. *)

Evictions == {"PLAYER_KICKED", "ROOM_CLOSED"}

Credentials == [token : Nat, avatar : BOOLEAN, here : BOOLEAN]
PhaseNames == {"ROOM_STATE_UPDATE", "GAME_PHASE_CHANGE"}
Events ==
  [name : PhaseNames, round : Nat, phase : Phases]
  \cup [name : (ScriptNames \ PhaseNames) \cup Evictions, round : Nat,
        phase : {"-"}]
Frames ==
  [name : {"PLAYER_JOIN_ACK"}, creds : Credentials]
  \cup [name : {"PLAYER_JOIN_REJECTED"}, error : {"fatal", "join"}]
  \cup [name : {"ANSWER_ACK"}, resets : BOOLEAN]
  \cup Events
Requests ==
  [name : {"PLAYER_JOIN", "SUBMIT"}, creds : Credentials, round : Nat]
Apps ==
  [status : {"connecting", "open", "closed"}, joined : BOOLEAN,
   joining : BOOLEAN, phase : Phases \cup {"none"}, question : Nat,
   content : Nat, reveal : Nat, selected : BOOLEAN, submitted : BOOLEAN,
   final : BOOLEAN, error : {"none", "join", "fatal"}, exhausted : BOOLEAN,
   kicked : BOOLEAN, pending : BOOLEAN, creds : Credentials]

SessionTypeOK ==
  /\ app \in Apps
  /\ link \in {"none", "opening", "open", "closed"}
  /\ timer \in BOOLEAN
  /\ inbox \in Seq(Frames) /\ outbox \in Seq(Requests)
  /\ member \in BOOLEAN /\ row \in {"none", "on", "off"}
  /\ token \in Nat /\ live \in BOOLEAN /\ cue \in Cues /\ heard \subseteq Nat
  /\ missed \in BOOLEAN /\ lost \in BOOLEAN

-------------------------------------------------------------------------------
(* The invariants. *)

Coming(names) == \E i \in DOMAIN inbox : inbox[i].name \in names
Admissions == {"PLAYER_JOIN_ACK", "PLAYER_JOIN_REJECTED"}
Ends == Evictions \cup {"PLAYER_JOIN_REJECTED"}
Asks(i) == outbox[i].name = "PLAYER_JOIN"
Asked == \E i \in DOMAIN outbox : Asks(i)

\* Only an open socket has frames under way and a membership.
WireIsOpen ==
  /\ timer => link \in {"none", "closed"}
  /\ link # "open" => inbox = <<>> /\ outbox = <<>> /\ ~member

\* What the phone believes of its admission fits together.
AppIsSane ==
  /\ app.joined => app.creds # NoCreds
  /\ app.creds # NoCreds => (app.joined \/ app.joining) /\ ~app.pending
  /\ app.error = "fatal" =>
       /\ ~app.joined /\ ~app.joining
       /\ ~timer /\ link # "opening"
  /\ app.pending => ~timer /\ (link = "opening" => app.joining)

\* At most one request to be admitted is under way, or its answer.
OneAdmission ==
  /\ \A i, j \in DOMAIN outbox : Asks(i) /\ Asks(j) => i = j
  /\ \A i, j \in DOMAIN inbox :
       inbox[i].name \in Admissions /\ inbox[j].name \in Admissions => i = j
  /\ Asked => ~member /\ ~Coming(Admissions \cup Ends)
  /\ Asked \/ Coming(Admissions) => app.joined \/ app.joining
  /\ \A i \in DOMAIN outbox :
       Asks(i) => outbox[i].creds = app.creds /\ (i = 1 \/ app.creds = NoCreds)

\* The phone's credentials would get it in again.
Welcome == live /\ row # "none" /\ app.creds.here /\ app.creds.token = token
Attends == member \/ Welcome

\* A frame that ends the membership is the last one the phone is sent.
EndsAreLast ==
  /\ \A i \in DOMAIN inbox :
       inbox[i].name \in Ends => ~member /\ ~Welcome /\ i = Len(inbox)
  /\ Coming(Evictions) => ~live \/ row = "none"
  /\ inbox # <<>> => member \/ Coming(Ends)
  /\ member \/ Coming(Evictions) => app.joined \/ Coming({"PLAYER_JOIN_ACK"})
  /\ link = "open" /\ ~member /\ ~Asked => Coming(Ends) \/ app.creds = NoCreds

\* The acknowledgement under way brings the token the server expects.
AckIsGood ==
  \A i \in DOMAIN inbox :
    inbox[i].name = "PLAYER_JOIN_ACK" =>
      inbox[i].creds.token = token /\ inbox[i].creds.here

\* Stronger than CredsAreGood: no other frame stands for the lost token.
CredsAreCurrent ==
  (app.creds # NoCreds /\ app.creds.here /\ live /\ row # "none")
    => app.creds.token = token \/ Coming({"PLAYER_JOIN_ACK"}) \/ lost

Admission ==
  /\ WireIsOpen /\ AppIsSane /\ OneAdmission /\ EndsAreLast
  /\ AckIsGood /\ CredsAreCurrent

\* The last frame under way of some names.
IsLatest(i, names) ==
  /\ inbox[i].name \in names
  /\ \A j \in DOMAIN inbox : inbox[j].name \in names => j <= i

\* The phase a member's phone will show is the room's.
PhaseComes ==
  member =>
    /\ \A i \in DOMAIN inbox :
         IsLatest(i, PhaseNames) => inbox[i].phase = PhaseAt(cue)
    /\ ~Coming(PhaseNames) => app.phase = PhaseAt(cue)

\* Nothing of the round is missing, or the next one starts for the phone, too.
Fresh == ~missed \/ (member /\ Coming({"ROUND_START"}))

\* The question or the content a phone will show is the current round's.
ContentNames == Shows \cup {"ROUND_START"}
ShowsRound(r) ==
  IF IsQuiz(r) THEN app.content = 0 /\ app.question = r ELSE app.content = r
ContentComes ==
  LET r == RoundAt(cue)
  IN  Attends /\ Fresh /\ Shown(r, cue) =>
        /\ \A i \in DOMAIN inbox :
             IsLatest(i, ContentNames) =>
               inbox[i].name = ShowEvent(Kinds[r]) /\ inbox[i].round = r
        /\ ~Coming(ContentNames) => ShowsRound(r)

\* Nothing is shown that the server has not sent.
OnlyShown ==
  /\ app.question # 0 => Shown(app.question, cue)
  /\ app.content # 0 => Shown(app.content, cue)
  /\ \A i \in DOMAIN inbox :
       inbox[i].name \in Shows => Shown(inbox[i].round, cue)

\* An answer that locks the phone is with the server, on its way to it, lost,
\* or about to be refused.
Accounted(r) ==
  \/ r \in heard \/ lost
  \/ \E i \in DOMAIN outbox : outbox[i] = AnswerFrame(r)
  \/ \E i \in DOMAIN inbox : inbox[i].name = "ANSWER_ACK" /\ inbox[i].resets
LocksAreAnswers ==
  Attends =>
    \A r \in Rounds :
      /\ Open(r, cue)
      /\ \/ app.selected /\ app.question = r
         \/ app.submitted /\ app.content = r
      => Accounted(r)

Following == OnlyShown /\ LocksAreAnswers /\ PhaseComes /\ ContentComes

-------------------------------------------------------------------------------
(* The script of the game. *)

LEMMA ScriptIs == IsScript(Script, Kinds)
BY KindsAssumption DEF IsScript, Script

LEMMA RoundAtCue ==
  /\ RoundAt(0) = 0
  /\ \A n \in 1..Len(Script) : RoundAt(n) = RoundOf(Kinds, n)
BY ScriptIs, RoundInEvents DEF RoundAt

LEMMA ShownAtCue ==
  ASSUME NEW n \in Cues, NEW r
  PROVE  Shown(r, n) <=> r \in Rounds /\ 7 * (r - 1) + 4 <= n
BY ScriptIs, ShownWhen DEF Shown, Cues, Rounds

LEMMA PhaseAtCue ==
  /\ PhaseAt(0) = "lobby"
  /\ \A n \in Nat :
       PhaseAt(n + 1) = IF Script[n + 1].name = "GAME_PHASE_CHANGE"
                        THEN Script[n + 1].phase ELSE PhaseAt(n)
BY PhaseNext DEF PhaseAt

LEMMA CueFacts ==
  ASSUME NEW n \in Cues
  PROVE  /\ PhaseAt(n) \in Phases
         /\ RoundAt(n) \in Nat
         /\ PhaseAt(n) = "lobby" => \A r : ~Shown(r, n)
         /\ PhaseAt(n) = "reveal" => Shown(RoundAt(n), n)
         /\ \A r : Shown(r, n) => r \in Rounds
BY ScriptIs, PhaseFacts DEF PhaseAt, RoundAt, Shown, Cues, Rounds

-------------------------------------------------------------------------------
(* Frames and requests. *)

LEMMA IntervalSize ==
  ASSUME NEW k \in Nat
  PROVE  IsFiniteSet(1..k) /\ Cardinality(1..k) = k
BY FS_Interval

LEMMA ImageIsSmaller ==
  ASSUME NEW S, IsFiniteSet(S), NEW f, NEW T, T = {f[x] : x \in S}
  PROVE  IsFiniteSet(T) /\ Cardinality(T) <= Cardinality(S)
<1> DEFINE g == [x \in S |-> f[x]]
<1>1. g \in Surjection(S, T)
  BY DEF Surjection
<1>2. QED
  BY <1>1, FS_Surjection

(* There is always a token that nobody holds. *)
LEMMA TokensAreNew ==
  ASSUME SessionTypeOK
  PROVE  /\ FreshToken \in Nat /\ FreshToken # 0
         /\ FreshToken # token /\ FreshToken # app.creds.token
         /\ \A i \in DOMAIN outbox : FreshToken # outbox[i].creds.token
         /\ \A i \in DOMAIN inbox : inbox[i].name = "PLAYER_JOIN_ACK" =>
              FreshToken # inbox[i].creds.token
<1> DEFINE acks == {i \in DOMAIN inbox : inbox[i].name = "PLAYER_JOIN_ACK"}
           acked == {inbox[i].creds.token : i \in acks}
           asked == {outbox[i].creds.token : i \in DOMAIN outbox}
           used == {app.creds.token, token} \cup acked \cup asked
           n == Len(inbox)
           m == Len(outbox)
           pool == 1..(n + m + 3)
<1>1. /\ n \in Nat /\ m \in Nat /\ DOMAIN inbox = 1..n /\ DOMAIN outbox = 1..m
  BY DEF SessionTypeOK
<1>2. IsFiniteSet(acked) /\ Cardinality(acked) <= n
  <2>1. IsFiniteSet(1..n) /\ Cardinality(1..n) = n
    BY <1>1, IntervalSize
  <2>2. acks \in SUBSET (1..n)
    BY <1>1
  <2>3. IsFiniteSet(acks) /\ Cardinality(acks) <= n
    BY <2>1, <2>2, FS_Subset
  <2> DEFINE f == [i \in acks |-> inbox[i].creds.token]
  <2>4. acked = {f[i] : i \in acks}
    OBVIOUS
  <2> HIDE DEF f, acks, acked
  <2>5. IsFiniteSet(acked) /\ Cardinality(acked) <= Cardinality(acks)
    BY <2>3, <2>4, ImageIsSmaller
  <2>6. Cardinality(acks) \in Nat /\ Cardinality(acked) \in Nat
    BY <2>3, <2>5, FS_CardinalityType
  <2>7. QED
    BY <1>1, <2>3, <2>5, <2>6
<1>3. IsFiniteSet(asked) /\ Cardinality(asked) <= m
  <2>1. IsFiniteSet(1..m) /\ Cardinality(1..m) = m
    BY <1>1, IntervalSize
  <2> DEFINE f == [i \in 1..m |-> outbox[i].creds.token]
  <2>2. asked = {f[i] : i \in 1..m}
    BY <1>1
  <2> HIDE DEF f, asked
  <2>3. QED
    BY <2>1, <2>2, ImageIsSmaller
<1>4. IsFiniteSet(used) /\ Cardinality(used) <= n + m + 2
  <2> HIDE DEF acked, asked
  <2>1. Cardinality(acked) \in Nat /\ Cardinality(asked) \in Nat
    BY <1>2, <1>3, FS_CardinalityType
  <2>2. /\ IsFiniteSet(acked \cup asked)
        /\ Cardinality(acked \cup asked) <= n + m
    <3>1. /\ IsFiniteSet(acked \cup asked)
          /\ Cardinality(acked \cup asked) =
               Cardinality(acked) + Cardinality(asked) - Cardinality(acked \cap asked)
      BY <1>2, <1>3, FS_Union
    <3>2. Cardinality(acked \cap asked) \in Nat
      <4>1. IsFiniteSet(acked \cap asked)
        BY <1>2, FS_Subset
      <4>2. QED
        BY <4>1, FS_CardinalityType
    <3>3. QED
      BY <1>1, <1>2, <1>3, <2>1, <3>1, <3>2
  <2> DEFINE one == (acked \cup asked) \cup {token}
             two == one \cup {app.creds.token}
  <2>3. /\ IsFiniteSet(one) /\ Cardinality(one) \in Nat
        /\ Cardinality(one) <= n + m + 1
    <3> DEFINE both == acked \cup asked
    <3>1. Cardinality(both) \in Nat
      BY <2>2, FS_CardinalityType
    <3>2. /\ IsFiniteSet(both \cup {token})
          /\ Cardinality(both \cup {token}) =
               IF token \in both THEN Cardinality(both) ELSE Cardinality(both) + 1
      BY <2>2, FS_AddElement
    <3>3. QED
      BY <1>1, <2>2, <3>1, <3>2
  <2>4. /\ IsFiniteSet(two) /\ Cardinality(two) \in Nat
        /\ Cardinality(two) <= n + m + 2
    <3> HIDE DEF one
    <3>1. QED
      BY <1>1, <2>3, FS_AddElement, FS_CardinalityType
  <2>5. used = two
    OBVIOUS
  <2>6. QED
    BY <2>4, <2>5
<1>5. \E t \in pool : t \notin used
  <2> HIDE DEF used
  <2>1. IsFiniteSet(pool) /\ Cardinality(pool) = n + m + 3
    BY <1>1, IntervalSize
  <2>2. Cardinality(used) \in Nat
    BY <1>4, FS_CardinalityType
  <2>3. ASSUME pool \subseteq used PROVE FALSE
    <3>1. Cardinality(pool) <= Cardinality(used)
      BY <1>4, <2>3, FS_Subset
    <3>2. QED
      BY <1>1, <1>4, <2>1, <2>2, <3>1
  <2>4. QED
    BY <2>3
<1>6. FreshToken = CHOOSE t \in pool : t \notin used
  BY DEF FreshToken
<1>7. FreshToken \in pool /\ FreshToken \notin used
  <2> HIDE DEF pool, used
  <2>1. QED
    BY <1>5, <1>6
<1>8. QED
  BY <1>1, <1>7

(* What the server sends are frames. *)
LEMMA FrameTypes ==
  /\ \A c \in Credentials :
       Ack(c) \in Frames /\ Ack(c).name = "PLAYER_JOIN_ACK" /\ Ack(c).creds = c
  /\ \A e \in {"fatal", "join"} :
       /\ Rejected(e) \in Frames /\ Rejected(e).name = "PLAYER_JOIN_REJECTED"
       /\ Rejected(e).error = e
  /\ \A b \in BOOLEAN :
       /\ AnswerAck(b) \in Frames /\ AnswerAck(b).name = "ANSWER_ACK"
       /\ AnswerAck(b).resets = b
  /\ \A x \in Evictions :
       Event(x, 0, "-") \in Frames /\ Event(x, 0, "-").name = x
BY DEF Frames, Events, Ack, Rejected, AnswerAck, Event, Evictions, PhaseNames

LEMMA RoomStateType ==
  ASSUME cue \in Cues
  PROVE  /\ RoomState \in Frames /\ RoomState.name = "ROOM_STATE_UPDATE"
         /\ RoomState.phase = PhaseAt(cue)
BY CueFacts DEF RoomState, Event, Frames, Events, PhaseNames

LEMMA FrameFields ==
  ASSUME NEW e \in Frames
  PROVE  /\ e.name = "PLAYER_JOIN_ACK" => e.creds \in Credentials
         /\ e.name = "PLAYER_JOIN_REJECTED" => e.error \in {"fatal", "join"}
         /\ e.name = "ANSWER_ACK" => e.resets \in BOOLEAN
         /\ e.name \notin Admissions \cup {"ANSWER_ACK"} => e \in Events
         /\ e.name \in PhaseNames => e.phase \in Phases
         /\ e \in Events => /\ e.round \in Nat
                           /\ e.name \in PhaseNames \cup ScriptNames \cup Evictions
BY DEF Frames, Events, Admissions, ScriptNames, Shows, Reveals, Evictions, PhaseNames

(* What a frame does to the fields of the phone that matter below. *)
Reduces(s, e, t) ==
  /\ t \in Apps
  /\ t.phase = IF e.name \in PhaseNames THEN e.phase
               ELSE IF e.name \in Evictions THEN "none" ELSE s.phase
  /\ t.creds = IF e.name = "PLAYER_JOIN_ACK" THEN e.creds
               ELSE IF e.name \in Ends THEN NoCreds ELSE s.creds
  /\ t.joined = IF e.name = "PLAYER_JOIN_ACK" THEN TRUE
                ELSE IF e.name \in Ends THEN FALSE ELSE s.joined
  /\ t.joining = IF e.name \in Admissions \cup Ends THEN FALSE ELSE s.joining
  /\ t.pending = IF e.name = "PLAYER_JOIN_ACK" THEN FALSE ELSE s.pending
  /\ t.error = "fatal" =>
       \/ e.name = "PLAYER_JOIN_REJECTED"
       \/ s.error = "fatal" /\ e.name \notin Evictions
  /\ t.question = IF e.name = "QUESTION_SHOW" THEN e.round ELSE s.question
  /\ t.content = IF e.name \in {"ROUND_START", "QUESTION_SHOW"} THEN 0
                 ELSE IF e.name = "ROUND_CONTENT_SHOW" THEN e.round ELSE s.content
  /\ t.selected = IF \/ e.name = "QUESTION_SHOW"
                     \/ e.name = "ANSWER_ACK" /\ e.resets
                  THEN FALSE ELSE s.selected
  /\ t.submitted = IF \/ e.name \in {"ROUND_START", "ROUND_CONTENT_SHOW"}
                      \/ e.name = "ANSWER_ACK" /\ e.resets
                   THEN FALSE ELSE s.submitted

LEMMA ReduceFields ==
  ASSUME NEW s \in Apps, NEW e \in Frames
  PROVE  Reduces(s, e, Reduce(s, e))
<1> DEFINE t == Reduce(s, e)
<1> USE DEF Reduces, Evictions, Admissions, Ends, PhaseNames
<1>0. NoCreds \in Credentials
  BY DEF NoCreds, Credentials
<1>1. CASE e.name = "PLAYER_JOIN_ACK"
  BY <1>1, FrameFields DEF Reduce, Admitted, Apps
<1>2. CASE e.name = "PLAYER_JOIN_REJECTED"
  <2>1. t = [s EXCEPT !.creds = NoCreds, !.joining = FALSE, !.joined = FALSE,
                      !.error = e.error]
    BY <1>2 DEF Reduce, Forgotten, Apps
  <2>2. e.error \in {"fatal", "join"}
    BY <1>2, FrameFields
  <2> HIDE DEF t
  <2>3. QED
    BY <1>0, <1>2, <2>1, <2>2 DEF Apps, t
<1>3. CASE e.name \in Evictions
  <2>1. t = [s EXCEPT !.creds = NoCreds, !.joining = FALSE, !.joined = FALSE,
                      !.kicked = TRUE, !.phase = "none", !.final = FALSE,
                      !.exhausted = FALSE, !.error = "join"]
    BY <1>3 DEF Reduce, Evicted, Forgotten, Apps
  <2> HIDE DEF t
  <2>2. t \in Apps
    BY <1>0, <2>1 DEF Apps
  <2>3. /\ t.creds = NoCreds /\ t.joining = FALSE /\ t.joined = FALSE
        /\ t.phase = "none" /\ t.error = "join" /\ t.pending = s.pending
        /\ t.question = s.question /\ t.content = s.content
        /\ t.selected = s.selected /\ t.submitted = s.submitted
    BY <2>1 DEF Apps
  <2>4. QED
    BY <1>3, <2>2, <2>3 DEF t
<1>4. CASE e.name = "ANSWER_ACK"
  BY <1>4, FrameFields DEF Reduce, Refused, Apps
<1>5. CASE e.name \in PhaseNames
  <2>1. t = [s EXCEPT !.phase = e.phase] /\ e.phase \in Phases
    BY <1>5, FrameFields DEF Reduce
  <2> HIDE DEF t
  <2>2. QED
    BY <1>5, <2>1 DEF Apps, t
<1>6. CASE e.name \in ScriptNames \ PhaseNames
  <2>1. e.round \in Nat
    BY <1>6, FrameFields DEF ScriptNames, Shows, Reveals
  <2>2. CASE e.name = "ROUND_START"
    BY <1>6, <2>2 DEF Reduce, Apps
  <2>3. CASE e.name = "QUESTION_SHOW"
    BY <1>6, <2>1, <2>3 DEF Reduce, Apps
  <2>4. CASE e.name = "ROUND_CONTENT_SHOW"
    BY <1>6, <2>1, <2>4 DEF Reduce, Apps
  <2>5. CASE e.name = "QUESTION_REVEAL"
    BY <1>6, <2>1, <2>5 DEF Reduce, Apps
  <2>6. CASE e.name \in {"GAME_OVER", "ROUND_REVEAL"}
    BY <1>6, <2>6 DEF Reduce, Apps
  <2>7. QED
    BY <1>6, <2>2, <2>3, <2>4, <2>5, <2>6 DEF ScriptNames, Shows, Reveals
<1>7. QED
  BY <1>1, <1>2, <1>3, <1>4, <1>5, <1>6, FrameFields

LEMMA Shifted ==
  ASSUME NEW S, NEW s \in Seq(S), s # <<>>, NEW t \in Seq(S),
         Len(t) = Len(s) - 1, \A i \in 1..Len(t) : t[i] = s[i + 1]
  PROVE  /\ 1 \in DOMAIN s /\ s[1] \in S
         /\ \A i \in DOMAIN t : i + 1 \in DOMAIN s /\ t[i] = s[i + 1] /\ i + 1 > 1
         /\ \A i \in DOMAIN s : i # 1 => i - 1 \in DOMAIN t /\ s[i] = t[i - 1]
<1>1. Len(s) \in Nat /\ DOMAIN s = 1..Len(s) /\ Len(s) > 0
  OBVIOUS
<1>2. DOMAIN t = 1..(Len(s) - 1)
  OBVIOUS
<1>3. QED
  BY <1>1, <1>2

LEMMA FirstFrame ==
  ASSUME NEW S, NEW s \in Seq(S), s # <<>>, NEW t, t = Tail(s)
  PROVE  /\ 1 \in DOMAIN s /\ Head(s) = s[1] /\ s[1] \in S
         /\ t \in Seq(S) /\ Len(t) = Len(s) - 1
         /\ \A i \in DOMAIN t : i + 1 \in DOMAIN s /\ t[i] = s[i + 1] /\ i + 1 > 1
         /\ \A i \in DOMAIN s : i # 1 => i - 1 \in DOMAIN t /\ s[i] = t[i - 1]
<1> DEFINE u == Tail(s)
<1>1. /\ Head(s) = s[1] /\ u \in Seq(S) /\ Len(u) = Len(s) - 1
      /\ \A i \in 1..Len(u) : u[i] = s[i + 1]
  BY HeadTailProperties
<1> HIDE DEF u
<1>2. /\ 1 \in DOMAIN s /\ s[1] \in S
      /\ \A i \in DOMAIN u : i + 1 \in DOMAIN s /\ u[i] = s[i + 1] /\ i + 1 > 1
      /\ \A i \in DOMAIN s : i # 1 => i - 1 \in DOMAIN u /\ s[i] = u[i - 1]
  BY <1>1, Shifted
<1>3. t = u
  BY DEF u
<1>4. QED
  BY ONLY <1>1, <1>2, <1>3

LEMMA OneMore ==
  ASSUME NEW S, NEW s \in Seq(S), NEW f \in S, NEW t,
         t = Append(s, f) \/ t = s \o <<f>>
  PROVE  /\ t \in Seq(S) /\ Len(t) = Len(s) + 1
         /\ \A i \in DOMAIN s : i \in DOMAIN t /\ t[i] = s[i] /\ i <= Len(s)
         /\ Len(t) \in DOMAIN t /\ t[Len(t)] = f
         /\ \A i \in DOMAIN t : i \in DOMAIN s \/ i = Len(t)
<1>1. t = Append(s, f)
  BY AppendIsConcat
<1>2. QED
  BY <1>1, AppendProperties

LEMMA TwoMore ==
  ASSUME NEW S, NEW s \in Seq(S), NEW f \in S, NEW g \in S, NEW t,
         t = s \o <<f, g>>
  PROVE  /\ t \in Seq(S) /\ Len(t) = Len(s) + 2
         /\ \A i \in DOMAIN s : i \in DOMAIN t /\ t[i] = s[i] /\ i <= Len(s)
         /\ Len(t) - 1 \in DOMAIN t /\ t[Len(t) - 1] = f
         /\ Len(t) \in DOMAIN t /\ t[Len(t)] = g
         /\ \A i \in DOMAIN t : i \in DOMAIN s \/ i = Len(t) - 1 \/ i = Len(t)
<1>1. <<f, g>> \in Seq(S) /\ Len(<<f, g>>) = 2 /\ <<f, g>>[1] = f /\ <<f, g>>[2] = g
  OBVIOUS
<1>2. /\ t \in Seq(S) /\ Len(t) = Len(s) + 2
      /\ \A i \in 1..Len(s) + 2 :
           t[i] = IF i <= Len(s) THEN s[i] ELSE <<f, g>>[i - Len(s)]
  BY <1>1, ConcatProperties
<1>3. DOMAIN t = 1..(Len(s) + 2) /\ DOMAIN s = 1..Len(s) /\ Len(s) \in Nat
  BY <1>2
<1>4. ASSUME NEW u, DOMAIN u = 1..(Len(s) + 2), Len(u) = Len(s) + 2,
             \A i \in 1..Len(s) + 2 :
               u[i] = IF i <= Len(s) THEN s[i] ELSE <<f, g>>[i - Len(s)]
      PROVE  /\ \A i \in DOMAIN s : i \in DOMAIN u /\ u[i] = s[i] /\ i <= Len(s)
             /\ Len(u) - 1 \in DOMAIN u /\ u[Len(u) - 1] = f
             /\ Len(u) \in DOMAIN u /\ u[Len(u)] = g
             /\ \A i \in DOMAIN u : i \in DOMAIN s \/ i = Len(u) - 1 \/ i = Len(u)
  BY ONLY <1>1, <1>3, <1>4
<1>5. QED
  BY <1>2, <1>3, <1>4

-------------------------------------------------------------------------------
(* The steps, told by what they write, and the types. *)

LEMMA SessionInit == Init => SessionTypeOK
<1> SUFFICES ASSUME Init PROVE SessionTypeOK
  OBVIOUS
<1>1. NoCreds \in Credentials /\ OldCreds \in Credentials
  BY DEF NoCreds, OldCreds, Credentials
<1>2. \A c \in Credentials :
        Initial(c) \in Apps /\ [Initial(c) EXCEPT !.final = TRUE] \in Apps
  BY DEF Initial, Apps
<1>3. 0 \in Cues
  BY ScriptIs, KindsLength, ScriptLength DEF Cues
<1>4. app \in Apps
  BY <1>1, <1>2 DEF Init
<1>5. inbox \in Seq(Frames) /\ outbox \in Seq(Requests)
  BY DEF Init
<1>6. QED
  BY <1>3, <1>4, <1>5 DEF Init, SessionTypeOK

\* HandleJoin in parts: who is admitted, and with what.
Found(c) == live /\ (c = NoCreds \/ c.here)
Known(c) == c # NoCreds /\ row # "none"
Admits(avatar) ==
  LET new == [token |-> FreshToken, avatar |-> avatar, here |-> TRUE]
  IN  /\ token' = new.token /\ member' = TRUE /\ row' = "on"
      /\ inbox' = inbox \o <<Ack(new), RoomState>>
Rejects(error) ==
  inbox' = inbox \o <<Rejected(error)>> /\ UNCHANGED <<member, row, token>>

LEMMA JoinHandled ==
  ASSUME SessionTypeOK, HandleJoin
  PROVE  LET c == outbox[1].creds
         IN  /\ link = "open" /\ outbox # <<>> /\ 1 \in DOMAIN outbox /\ Asks(1)
             /\ outbox' = Tail(outbox)
             /\ UNCHANGED <<app, link, timer, attempts, live, cue, heard, faults,
                            missed, lost>>
             /\ \/ ~Found(c) /\ Rejects("fatal")
                \/ Found(c) /\ Known(c) /\ c.token = token /\ Admits(FALSE)
                \/ Found(c) /\ Known(c) /\ c.token # token /\ Rejects("join")
                \/ /\ Found(c) /\ ~Known(c)
                   /\ PhaseAt(cue) = "lobby" /\ row = "none" /\ Admits(TRUE)
                \/ /\ Found(c) /\ ~Known(c)
                   /\ PhaseAt(cue) # "lobby" \/ row # "none"
                   /\ Rejects("join")
<1>1. outbox # <<>> /\ outbox \in Seq(Requests)
  BY DEF HandleJoin, SessionTypeOK
<1>2. Head(outbox) = outbox[1] /\ 1 \in DOMAIN outbox
  BY <1>1, FirstFrame
<1>3. QED
  BY <1>1, <1>2
     DEF HandleJoin, Found, Known, Admits, Rejects, Asks, Send

LEMMA AckTyped ==
  ASSUME SessionTypeOK, NEW avatar \in BOOLEAN
  PROVE  [token |-> FreshToken, avatar |-> avatar, here |-> TRUE] \in Credentials
BY TokensAreNew DEF Credentials

LEMMA JoinTyped ==
  ASSUME SessionTypeOK, HandleJoin
  PROVE  SessionTypeOK'
<1>1. inbox \in Seq(Frames) /\ outbox \in Seq(Requests) /\ cue \in Cues
  BY DEF SessionTypeOK
<1>2. outbox' \in Seq(Requests)
  BY <1>1, JoinHandled, FirstFrame
<1>3. ASSUME NEW e \in {"fatal", "join"}, Rejects(e)
      PROVE  inbox' \in Seq(Frames) /\ member' \in BOOLEAN
             /\ row' \in {"none", "on", "off"} /\ token' \in Nat
  BY <1>1, <1>3, FrameTypes, OneMore DEF Rejects, SessionTypeOK
<1>4. ASSUME NEW avatar \in BOOLEAN, Admits(avatar)
      PROVE  inbox' \in Seq(Frames) /\ member' \in BOOLEAN
             /\ row' \in {"none", "on", "off"} /\ token' \in Nat
  <2> DEFINE new == [token |-> FreshToken, avatar |-> avatar, here |-> TRUE]
  <2>1. Ack(new) \in Frames /\ RoomState \in Frames
    BY <1>1, AckTyped, FrameTypes, RoomStateType
  <2>2. inbox' = inbox \o <<Ack(new), RoomState>> /\ token' = FreshToken
        /\ member' = TRUE /\ row' = "on"
    BY <1>4 DEF Admits
  <2>3. FreshToken \in Nat
    BY TokensAreNew
  <2> HIDE DEF new
  <2>4. inbox' \in Seq(Frames)
    BY <1>1, <2>1, <2>2, TwoMore
  <2>5. QED
    BY <2>2, <2>3, <2>4
<1>5. inbox' \in Seq(Frames) /\ member' \in BOOLEAN
      /\ row' \in {"none", "on", "off"} /\ token' \in Nat
  BY <1>3, <1>4, JoinHandled
<1>6. QED
  BY <1>2, <1>5, JoinHandled DEF SessionTypeOK

(* The other steps, told by the fields they write. *)

LEMMA OnScreen ==
  ASSUME SessionTypeOK
  PROVE  /\ Screen.what = "join" => app.error # "fatal" /\ ~app.joined /\ ~app.joining
         /\ Screen.what = "fatal" => app.error = "fatal"
         /\ Screen.what \in {"lobby", "over"} => app.error # "fatal" /\ app.joined
         /\ Screen.what = "quiz" =>
              /\ app.error # "fatal" /\ app.joined /\ Screen.round = app.question
              /\ app.question # 0 /\ app.content = 0
              /\ app.phase \in {"playing", "reveal"}
         /\ Screen.what = "game" =>
              /\ app.error # "fatal" /\ app.joined /\ Screen.round = app.content
              /\ app.content # 0 /\ app.phase \in {"playing", "reveal"}
         /\ Screen.what = "quiz" => (Locked <=> app.selected)
         /\ Screen.what = "game" => (Locked <=> app.submitted)
BY DEF SessionTypeOK, Apps, Screen, JoinedScreen, Gameplay, Show, Locked

LEMMA ReceiveFields ==
  ASSUME SessionTypeOK, Receive
  PROVE  LET e == inbox[1]
         IN  /\ link = "open" /\ inbox # <<>> /\ 1 \in DOMAIN inbox /\ e \in Frames
             /\ Reduces(app, e, app')
             /\ e.name \in Evictions =>
                  link' = "closed" /\ outbox' = <<>> /\ inbox' = <<>>
             /\ e.name \notin Evictions =>
                  link' = link /\ outbox' = outbox /\ inbox' = Tail(inbox)
             /\ missed' = (missed /\ e.name # "ROUND_START")
             /\ UNCHANGED <<timer, attempts, srvVars, faults, lost>>
<1> DEFINE e == inbox[1]
           t == Reduce(app, e)
<1>1. inbox # <<>> /\ inbox \in Seq(Frames) /\ app \in Apps
  BY DEF Receive, SessionTypeOK
<1>2. Head(inbox) = e /\ 1 \in DOMAIN inbox /\ e \in Frames
  BY <1>1, FirstFrame
<1>3. Reduces(app, e, t)
  BY <1>1, <1>2, ReduceFields
<1>4. app' = [t EXCEPT !.status = IF e.name \in Evictions THEN "closed" ELSE @]
  BY <1>2 DEF Receive, Evictions
<1>5. /\ link = "open"
      /\ e.name \in Evictions =>
           link' = "closed" /\ outbox' = <<>> /\ inbox' = <<>>
      /\ e.name \notin Evictions =>
           link' = link /\ outbox' = outbox /\ inbox' = Tail(inbox)
      /\ missed' = (missed /\ e.name # "ROUND_START")
      /\ UNCHANGED <<timer, attempts, srvVars, faults, lost>>
  BY <1>2 DEF Receive, Evictions
<1> HIDE DEF t, e
<1>6. t \in Apps
  BY <1>3 DEF Reduces
<1>7. /\ app' \in Apps
      /\ \A f \in {"phase", "creds", "joined", "joining", "pending", "error",
                    "question", "content", "selected", "submitted"} :
           app'[f] = t[f]
  BY <1>4, <1>6 DEF Apps
<1>8. /\ app'.phase = t.phase /\ app'.creds = t.creds /\ app'.joined = t.joined
      /\ app'.joining = t.joining /\ app'.pending = t.pending
      /\ app'.error = t.error /\ app'.question = t.question
      /\ app'.content = t.content /\ app'.selected = t.selected
      /\ app'.submitted = t.submitted
  BY <1>7
<1>9. Reduces(app, e, app')
  BY <1>3, <1>7, <1>8 DEF Reduces
<1>10. QED
  BY <1>1, <1>2, <1>5, <1>9 DEF e

\* The steps that empty the wire and end the membership.
Emptied == Drop \/ LoadPage \/ LeaveRoom

LEMMA StoredTyped ==
  ASSUME SessionTypeOK
  PROVE  /\ Stored(app.creds) \in Credentials
         /\ Initial(Stored(app.creds)) \in Apps
         /\ [Initial(NoCreds) EXCEPT !.status = "closed"] \in Apps
<1>1. Stored(app.creds) \in Credentials /\ NoCreds \in Credentials
  BY DEF SessionTypeOK, Apps, Stored, NoCreds, Credentials
<1>2. \A c \in Credentials :
        Initial(c) \in Apps /\ [Initial(c) EXCEPT !.status = "closed"] \in Apps
  BY DEF Initial, Apps
<1>3. QED
  BY <1>1, <1>2

LEMMA EmptiedFields ==
  ASSUME SessionTypeOK, Emptied
  PROVE  /\ inbox' = <<>> /\ outbox' = <<>> /\ ~member' /\ link' # "open"
         /\ link' \in {"none", "closed"} /\ timer' \in BOOLEAN
         /\ row' \in {"none", "on", "off"}
         /\ row' # "none" => row # "none"
         /\ UNCHANGED <<token, live, cue, heard>>
         /\ app' \in Apps
         /\ \/ /\ Drop /\ app.creds = app'.creds /\ app.joined = app'.joined
               /\ app.joining = app'.joining /\ app.pending = app'.pending
               /\ app.error = app'.error /\ app.phase = app'.phase
               /\ app.question = app'.question /\ app.content = app'.content
               /\ app.selected = app'.selected /\ app.submitted = app'.submitted
               /\ timer' => app.creds # NoCreds
            \/ /\ LoadPage /\ app' = Initial(Stored(app.creds))
            \/ /\ LeaveRoom
               /\ app' = [Initial(NoCreds) EXCEPT !.status = "closed"]
               /\ timer' = timer
<1>1. CASE Drop
  <2>1. app' = [app EXCEPT !.status = "closed", !.exhausted = app'.exhausted]
        /\ app'.exhausted \in BOOLEAN
    BY <1>1 DEF Drop, Closed, SessionTypeOK, Apps
  <2>2. app' \in Apps /\ app.creds = app'.creds /\ app.joined = app'.joined
        /\ app.joining = app'.joining /\ app.pending = app'.pending
        /\ app.error = app'.error /\ app.phase = app'.phase
        /\ app.question = app'.question /\ app.content = app'.content
        /\ app.selected = app'.selected /\ app.submitted = app'.submitted
    BY <2>1 DEF SessionTypeOK, Apps
  <2>3. QED
    BY <1>1, <2>2 DEF Drop, Closed, Leaves, LoseFrames, SessionTypeOK
<1>2. CASE LoadPage
  BY <1>2, StoredTyped DEF LoadPage, Leaves, SessionTypeOK
<1>3. CASE LeaveRoom
  BY <1>3, StoredTyped DEF LeaveRoom, Leaves, SessionTypeOK
<1>4. QED
  BY <1>1, <1>2, <1>3 DEF Emptied

LEMMA RequestTypes ==
  /\ \A c \in Credentials : /\ JoinFrame(c) \in Requests
                            /\ JoinFrame(c).name = "PLAYER_JOIN"
                            /\ JoinFrame(c).creds = c
  /\ \A r \in Nat : /\ AnswerFrame(r) \in Requests
                    /\ AnswerFrame(r).name = "SUBMIT"
                    /\ AnswerFrame(r).round = r
BY DEF Requests, JoinFrame, AnswerFrame, NoCreds, Credentials

LEMMA HasFrames ==
  ASSUME SessionTypeOK
  PROVE  /\ inbox \in Seq(Frames) /\ outbox \in Seq(Requests)
         /\ \A i \in DOMAIN inbox : inbox[i] \in Frames
         /\ \A i \in DOMAIN outbox : outbox[i] \in Requests
         /\ DOMAIN inbox = 1..Len(inbox) /\ DOMAIN outbox = 1..Len(outbox)
         /\ Len(inbox) \in Nat /\ Len(outbox) \in Nat
BY DEF SessionTypeOK

LEMMA InboxGrows ==
  ASSUME SessionTypeOK, NEW f \in Frames, inbox' = inbox \o <<f>>
  PROVE  /\ inbox' \in Seq(Frames) /\ Len(inbox') = Len(inbox) + 1
         /\ inbox' # <<>>
         /\ \A i \in DOMAIN inbox :
              i \in DOMAIN inbox' /\ inbox'[i] = inbox[i] /\ i < Len(inbox')
         /\ Len(inbox') \in DOMAIN inbox' /\ inbox'[Len(inbox')] = f
         /\ \A i \in DOMAIN inbox' : i \in DOMAIN inbox \/ i = Len(inbox')
         /\ \A names : Coming(names)' <=> Coming(names) \/ f.name \in names
<1> DEFINE t == inbox \o <<f>>
<1>1. t = inbox \o <<f>>
  OBVIOUS
<1>2. inbox \in Seq(Frames) /\ Len(inbox) \in Nat
  BY HasFrames
<1> HIDE DEF t
<1>3. /\ t \in Seq(Frames) /\ Len(t) = Len(inbox) + 1
      /\ \A i \in DOMAIN inbox : i \in DOMAIN t /\ t[i] = inbox[i] /\ i <= Len(inbox)
      /\ Len(t) \in DOMAIN t /\ t[Len(t)] = f
      /\ \A i \in DOMAIN t : i \in DOMAIN inbox \/ i = Len(t)
  BY <1>1, <1>2, OneMore
<1>4. inbox' = t
  BY <1>1
<1>5. /\ \A i \in DOMAIN inbox : i < Len(t)
      /\ t # <<>>
  <2>1. \A i \in DOMAIN inbox : i \in Nat
    BY <1>2
  <2>2. QED
    BY <1>2, <1>3, <2>1
<1>6. \A names : Coming(names)' <=> Coming(names) \/ f.name \in names
  BY <1>3, <1>4 DEF Coming
<1>7. QED
  BY <1>3, <1>4, <1>5, <1>6

LEMMA InboxShrinks ==
  ASSUME SessionTypeOK, inbox # <<>>, inbox' = Tail(inbox)
  PROVE  /\ inbox' \in Seq(Frames) /\ Len(inbox') = Len(inbox) - 1
         /\ \A i \in DOMAIN inbox' :
              i \in Nat /\ i + 1 \in DOMAIN inbox /\ inbox'[i] = inbox[i + 1]
         /\ \A i \in DOMAIN inbox :
              i # 1 => i - 1 \in DOMAIN inbox' /\ inbox[i] = inbox'[i - 1]
         /\ \A names : Coming(names) <=> inbox[1].name \in names \/ Coming(names)'
<1> DEFINE t == Tail(inbox)
<1>1. inbox \in Seq(Frames) /\ Len(inbox) \in Nat
  BY HasFrames
<1>2. /\ 1 \in DOMAIN inbox
      /\ t \in Seq(Frames) /\ Len(t) = Len(inbox) - 1
      /\ \A i \in DOMAIN t : i + 1 \in DOMAIN inbox /\ t[i] = inbox[i + 1] /\ i + 1 > 1
      /\ \A i \in DOMAIN inbox : i # 1 => i - 1 \in DOMAIN t /\ inbox[i] = t[i - 1]
  BY <1>1, FirstFrame
<1>3. \A i \in DOMAIN t : i \in Nat /\ i + 1 # 1
  <2>1. DOMAIN t = 1..Len(t) /\ Len(t) \in Nat
    BY <1>2
  <2> HIDE DEF t
  <2>2. QED
    BY <2>1
<1> HIDE DEF t
<1>4. inbox' = t
  BY DEF t
<1>5. \A names : Coming(names) <=> inbox[1].name \in names \/ Coming(names)'
  <2> SUFFICES ASSUME NEW names
               PROVE  Coming(names) <=> inbox[1].name \in names \/ Coming(names)'
    OBVIOUS
  <2>1. ASSUME NEW i \in DOMAIN inbox, inbox[i].name \in names
        PROVE  inbox[1].name \in names \/ Coming(names)'
    BY <1>2, <1>4, <2>1 DEF Coming
  <2>2. ASSUME NEW i \in DOMAIN t, t[i].name \in names
        PROVE  Coming(names)
    BY <1>2, <2>2 DEF Coming
  <2>3. QED
    BY <1>2, <1>4, <2>1, <2>2 DEF Coming
<1>6. QED
  BY <1>2, <1>3, <1>4, <1>5

LEMMA OutboxShrinks ==
  ASSUME SessionTypeOK, outbox # <<>>, outbox' = Tail(outbox)
  PROVE  /\ outbox' \in Seq(Requests)
         /\ \A i \in DOMAIN outbox' :
              /\ i \in Nat /\ i # 0 /\ i + 1 \in DOMAIN outbox /\ i + 1 # 1
              /\ outbox'[i] = outbox[i + 1]
         /\ \A i \in DOMAIN outbox :
              i # 1 => i - 1 \in DOMAIN outbox' /\ outbox[i] = outbox'[i - 1]
<1> DEFINE t == Tail(outbox)
<1>1. outbox \in Seq(Requests)
  BY HasFrames
<1>2. /\ t \in Seq(Requests)
      /\ \A i \in DOMAIN t : i + 1 \in DOMAIN outbox /\ t[i] = outbox[i + 1] /\ i + 1 > 1
      /\ \A i \in DOMAIN outbox : i # 1 => i - 1 \in DOMAIN t /\ outbox[i] = t[i - 1]
  BY <1>1, FirstFrame
<1>3. DOMAIN t = 1..Len(t) /\ Len(t) \in Nat
  BY <1>2
<1> HIDE DEF t
<1>4. outbox' = t
  BY DEF t
<1>5. \A i \in DOMAIN t : i \in Nat /\ i # 0 /\ i + 1 # 1
  BY <1>3
<1>6. QED
  BY <1>2, <1>4, <1>5

LEMMA OutboxGrows ==
  ASSUME SessionTypeOK, NEW f \in Requests, outbox' = Append(outbox, f)
  PROVE  /\ outbox' \in Seq(Requests) /\ outbox' # <<>>
         /\ \A i \in DOMAIN outbox :
              i \in DOMAIN outbox' /\ outbox'[i] = outbox[i] /\ i # Len(outbox')
         /\ Len(outbox') \in DOMAIN outbox' /\ outbox'[Len(outbox')] = f
         /\ \A i \in DOMAIN outbox' : i \in DOMAIN outbox \/ i = Len(outbox')
<1> DEFINE t == Append(outbox, f)
<1>1. t = Append(outbox, f)
  OBVIOUS
<1>2. outbox \in Seq(Requests) /\ Len(outbox) \in Nat
  BY HasFrames
<1> HIDE DEF t
<1>3. /\ t \in Seq(Requests) /\ Len(t) = Len(outbox) + 1
      /\ \A i \in DOMAIN outbox : i \in DOMAIN t /\ t[i] = outbox[i] /\ i <= Len(outbox)
      /\ Len(t) \in DOMAIN t /\ t[Len(t)] = f
      /\ \A i \in DOMAIN t : i \in DOMAIN outbox \/ i = Len(t)
  BY <1>1, <1>2, OneMore
<1>4. outbox' = t
  BY <1>1
<1>5. /\ \A i \in DOMAIN outbox : i # Len(t)
      /\ t # <<>>
  <2>1. \A i \in DOMAIN outbox : i \in Nat
    BY <1>2
  <2>2. QED
    BY <1>2, <1>3, <2>1
<1>6. QED
  BY <1>3, <1>4, <1>5

\* The steps of the phone that send, and those that wait.
LEMMA PhoneTyped ==
  ASSUME SessionTypeOK,
         Connect \/ Opened \/ Join \/ Answer \/ ClearFatal
  PROVE  SessionTypeOK'
<1> USE DEF SessionTypeOK, srvVars, netVars
<1>0. NoCreds \in Credentials /\ app.creds \in Credentials
  BY DEF NoCreds, Credentials, Apps
<1>1. CASE Connect
  <2>1. app' \in Apps
    BY <1>1 DEF Connect, Apps
  <2>2. QED
    BY <1>1, <2>1 DEF Connect
<1>2. CASE Opened
  <2>1. app' \in Apps
    BY <1>2 DEF Opened, Apps
  <2>2. outbox' \in Seq(Requests)
    <3>1. JoinFrame(app.creds) \in Requests
      BY <1>0, RequestTypes
    <3>2. outbox' = <<>> \/ outbox' = <<JoinFrame(app.creds)>>
      BY <1>2 DEF Opened
    <3>3. \A f \in Requests : <<f>> \in Seq(Requests)
      OBVIOUS
    <3>4. <<>> \in Seq(Requests)
      OBVIOUS
    <3> HIDE DEF SessionTypeOK
    <3>5. QED
      BY <3>1, <3>2, <3>3, <3>4
  <2>3. QED
    BY <1>2, <2>1, <2>2 DEF Opened
<1>3. CASE Join
  <2>1. app' \in Apps
    <3> DEFINE started == [app EXCEPT !.error = "none", !.joining = TRUE]
    <3>1. started \in Apps
      BY DEF Apps
    <3>2. \/ app' = started
          \/ \E x \in {"connecting", "open", "closed"} :
               app' = [started EXCEPT !.pending = TRUE, !.status = x]
      BY <1>3, <3>1 DEF Join, Apps
    <3> HIDE DEF started, SessionTypeOK
    <3>3. QED
      BY <3>1, <3>2 DEF Apps
  <2>2. outbox' \in Seq(Requests)
    <3>1. JoinFrame(NoCreds) \in Requests
      BY <1>0, RequestTypes
    <3>2. outbox' = outbox \/ outbox' = Append(outbox, JoinFrame(NoCreds))
      BY <1>3 DEF Join
    <3> HIDE DEF SessionTypeOK
    <3>3. QED
      BY <3>1, <3>2, HasFrames, OneMore
  <2>3. QED
    BY <1>3, <2>1, <2>2 DEF Join
<1>4. CASE Answer
  <2>1. app' \in Apps
    BY <1>4 DEF Answer, Apps
  <2>2. outbox' \in Seq(Requests)
    <3>1. Screen.round \in Nat
      BY <1>4, OnScreen DEF Answer, Apps
    <3>2. outbox' = Append(outbox, AnswerFrame(Screen.round))
      BY <1>4 DEF Answer
    <3>3. AnswerFrame(Screen.round) \in Requests
      BY <3>1, RequestTypes
    <3> HIDE DEF SessionTypeOK
    <3>4. QED
      BY <3>2, <3>3, HasFrames, OneMore
  <2>3. QED
    BY <1>4, <2>1, <2>2 DEF Answer
<1>5. CASE ClearFatal
  <2>1. app' \in Apps
    BY <1>5 DEF ClearFatal, Apps
  <2>2. QED
    BY <1>5, <2>1 DEF ClearFatal
<1>6. QED
  BY <1>1, <1>2, <1>3, <1>4, <1>5

LEMMA BroadcastFields ==
  ASSUME SessionTypeOK, Broadcast
  PROVE  /\ cue + 1 \in 1..Len(Script) /\ cue' = cue + 1 /\ cue' \in Cues
         /\ cue \in Cues /\ Script[cue'] \in Frames
         /\ live' = (live /\ Script[cue'].name # "GAME_OVER")
         /\ \/ /\ member /\ inbox' = inbox \o <<Script[cue']>>
               /\ UNCHANGED missed
            \/ ~member /\ missed' = TRUE /\ UNCHANGED inbox
         /\ UNCHANGED <<app, link, timer, attempts, outbox, member, row, token,
                        heard, faults, lost>>
<1>1. cue \in Cues /\ cue < Len(Script) /\ cue' = cue + 1
  BY DEF SessionTypeOK, Broadcast
<1>2. Len(Script) \in Nat
  BY ScriptIs, KindsLength, ScriptLength
<1>3. cue' \in 1..Len(Script) /\ cue' \in Cues
  BY <1>1, <1>2 DEF Cues
<1>4. Script[cue'] \in Frames
  <2>1. GameEvents \subseteq Events
    BY DEF GameEvents, Events, ScriptNames, Shows, Reveals, PhaseNames
  <2>2. QED
    BY <1>3, <2>1, ScriptIs, EventNames DEF Frames
<1>5. QED
  BY <1>1, <1>3, <1>4 DEF Broadcast, Send

LEMMA EvictFields ==
  ASSUME SessionTypeOK, Evict
  PROVE  /\ live /\ row # "none" /\ ~member'
         /\ \/ row' = "none" /\ live' = live
            \/ row' = row /\ live' = FALSE
         /\ \/ ~member /\ inbox' = inbox
            \/ /\ member
               /\ \E x \in Evictions : inbox' = inbox \o <<Event(x, 0, "-")>>
         /\ UNCHANGED <<app, link, timer, attempts, outbox, token, cue, heard,
                        faults, missed, lost>>
BY DEF Evict, Send, Evictions, SessionTypeOK

LEMMA AnswerFields ==
  ASSUME SessionTypeOK, HandleAnswer
  PROVE  LET r == outbox[1].round
         IN  /\ link = "open" /\ outbox # <<>> /\ 1 \in DOMAIN outbox
             /\ ~Asks(1) /\ outbox' = Tail(outbox)
             /\ r \in Nat
             /\ \/ ~member /\ UNCHANGED <<inbox, heard>>
                \/ /\ member /\ heard' = heard \cup {r}
                   /\ inbox' = inbox \o <<AnswerAck(FALSE)>>
                \/ /\ member /\ UNCHANGED heard
                   /\ Open(r, cue) => r \in heard
                   /\ \E b \in BOOLEAN : inbox' = inbox \o <<AnswerAck(b)>>
                \/ /\ member /\ UNCHANGED heard
                   /\ inbox' = inbox \o <<AnswerAck(TRUE)>>
             /\ UNCHANGED <<app, link, timer, attempts, member, row, token, live,
                            cue, faults, missed, lost>>
<1>1. outbox # <<>> /\ outbox \in Seq(Requests)
  BY DEF HandleAnswer, SessionTypeOK
<1>2. Head(outbox) = outbox[1] /\ 1 \in DOMAIN outbox /\ outbox[1] \in Requests
  BY <1>1, FirstFrame
<1>3. outbox[1].round \in Nat
  BY <1>2 DEF Requests
<1>4. QED
  BY <1>1, <1>2, <1>3 DEF HandleAnswer, Asks, Send

LEMMA SessionTyped ==
  ASSUME SessionTypeOK, [Next]_vars
  PROVE  SessionTypeOK'
<1>1. CASE Connect \/ Opened \/ Join \/ Answer \/ ClearFatal
  BY <1>1, PhoneTyped
<1>2. CASE Receive
  <2>1. inbox' \in Seq(Frames) /\ outbox' \in Seq(Requests)
    <3>1. CASE inbox[1].name \in Evictions
      <4>1. inbox' = <<>> /\ outbox' = <<>>
        BY <1>2, <3>1, ReceiveFields
      <4>2. QED
        BY <4>1
    <3>2. CASE inbox[1].name \notin Evictions
      <4>1. inbox # <<>> /\ inbox' = Tail(inbox) /\ outbox' = outbox
        BY <1>2, <3>2, ReceiveFields
      <4>2. QED
        BY <4>1, HasFrames, InboxShrinks
    <3>3. QED
      BY <3>1, <3>2
  <2>2. app' \in Apps
    BY <1>2, ReceiveFields DEF Reduces
  <2>3. QED
    BY <1>2, <2>1, <2>2, ReceiveFields DEF SessionTypeOK, srvVars
<1>3. CASE Emptied
  <2>1. <<>> \in Seq(Frames) /\ <<>> \in Seq(Requests)
    OBVIOUS
  <2>2. missed' \in BOOLEAN /\ lost' \in BOOLEAN
    BY <1>3 DEF Emptied, Drop, LoadPage, LeaveRoom, LoseFrames, SessionTypeOK
  <2>3. member' \in BOOLEAN
    BY <1>3 DEF Emptied, Drop, LoadPage, LeaveRoom, Leaves
  <2>4. QED
    BY <1>3, <2>1, <2>2, <2>3, EmptiedFields DEF SessionTypeOK
<1>4. CASE HandleJoin
  BY <1>4, JoinTyped
<1>5. CASE HandleAnswer
  <2>1. outbox' \in Seq(Requests)
    BY <1>5, HasFrames, AnswerFields, FirstFrame
  <2>2. \A b \in BOOLEAN : AnswerAck(b) \in Frames
    BY FrameTypes
  <2>3. inbox' \in Seq(Frames)
    <3>1. CASE inbox' = inbox
      BY <3>1, HasFrames
    <3>2. ASSUME NEW b \in BOOLEAN, inbox' = inbox \o <<AnswerAck(b)>>
          PROVE  inbox' \in Seq(Frames)
      BY <2>2, <3>2, HasFrames, OneMore
    <3>3. QED
      BY <1>5, <3>1, <3>2, AnswerFields
  <2>4. heard' \subseteq Nat
    BY <1>5, AnswerFields DEF SessionTypeOK
  <2>5. QED
    BY <1>5, <2>1, <2>3, <2>4, AnswerFields DEF SessionTypeOK
<1>6. CASE Broadcast
  <2>1. inbox' \in Seq(Frames)
    <3>1. CASE inbox' = inbox
      BY <3>1, HasFrames
    <3>2. CASE inbox' = inbox \o <<Script[cue']>>
      <4>1. Script[cue'] \in Frames
        BY <1>6, BroadcastFields
      <4> DEFINE f == Script[cue']
      <4> HIDE DEF f
      <4>2. inbox' = inbox \o <<f>>
        BY <3>2 DEF f
      <4>3. QED
        BY <4>1, <4>2, InboxGrows DEF f
    <3>3. QED
      BY <1>6, <3>1, <3>2, BroadcastFields
  <2>2. live' \in BOOLEAN /\ missed' \in BOOLEAN
    BY <1>6, BroadcastFields DEF SessionTypeOK
  <2>3. QED
    BY <1>6, <2>1, <2>2, BroadcastFields DEF SessionTypeOK
<1>7. CASE ExpireRow
  BY <1>7 DEF ExpireRow, netVars, SessionTypeOK
<1>8. CASE Evict
  <2>1. inbox' \in Seq(Frames)
    <3>1. CASE inbox' = inbox
      BY <3>1, HasFrames
    <3>2. ASSUME NEW x \in Evictions, inbox' = inbox \o <<Event(x, 0, "-")>>
          PROVE  inbox' \in Seq(Frames)
      BY <3>2, HasFrames, FrameTypes, OneMore
    <3>3. QED
      BY <1>8, <3>1, <3>2, EvictFields
  <2>2. QED
    <3>1. /\ row' \in {"none", "on", "off"} /\ live' \in BOOLEAN
          /\ member' \in BOOLEAN
          /\ UNCHANGED <<app, link, timer, attempts, outbox, token, cue, heard,
                         faults, missed, lost>>
      BY <1>8, EvictFields DEF SessionTypeOK, Evict
    <3>2. QED
      BY <2>1, <3>1 DEF SessionTypeOK
<1>9. CASE UNCHANGED vars
  BY <1>9 DEF vars, netVars, srvVars, SessionTypeOK
<1>10. QED
  BY <1>1, <1>2, <1>3, <1>4, <1>5, <1>6, <1>7, <1>8, <1>9
     DEF Next, Phone, Server, Emptied

-------------------------------------------------------------------------------
(* Being admitted and being turned out. *)

LEMMA AdmissionInit == Init => Admission
<1> SUFFICES ASSUME Init PROVE Admission
  OBVIOUS
<1>1. inbox = <<>> /\ outbox = <<>> /\ DOMAIN inbox = {} /\ DOMAIN outbox = {}
  BY DEF Init
<1>2. \A names : ~Coming(names)
  BY <1>1 DEF Coming
<1>3. ~Asked
  BY <1>1 DEF Asked
<1>4. /\ ~app.joined /\ ~app.pending /\ app.error = "none"
      /\ (app.creds # NoCreds => app.joining) /\ ~app.creds.here
  <2>1. ~NoCreds.here /\ ~OldCreds.here
    BY DEF NoCreds, OldCreds
  <2>2. \A c : LET a == Initial(c)
              IN  /\ a.joined = FALSE /\ a.pending = FALSE /\ a.error = "none"
                  /\ a.creds = c /\ (c # NoCreds => a.joining)
    BY DEF Initial
  <2>3. LET a == [Initial(NoCreds) EXCEPT !.final = TRUE]
        IN  /\ a.joined = FALSE /\ a.pending = FALSE /\ a.error = "none"
            /\ a.creds = NoCreds
    BY DEF Initial
  <2>4. \/ app = Initial(NoCreds) \/ app = Initial(OldCreds)
        \/ app = [Initial(NoCreds) EXCEPT !.final = TRUE]
    BY DEF Init
  <2>5. CASE app = Initial(NoCreds) \/ app = Initial(OldCreds)
    BY <2>1, <2>2, <2>5
  <2>6. QED
    BY <2>1, <2>3, <2>4, <2>5
<1>5. /\ link = "none" /\ timer = TRUE /\ ~member
  BY DEF Init
<1>6. WireIsOpen /\ AppIsSane /\ CredsAreCurrent
  BY <1>1, <1>4, <1>5 DEF WireIsOpen, AppIsSane, CredsAreCurrent
<1>7. OneAdmission /\ EndsAreLast /\ AckIsGood
  BY <1>1, <1>2, <1>3, <1>5 DEF OneAdmission, EndsAreLast, AckIsGood
<1>8. QED
  BY <1>6, <1>7 DEF Admission

(* The steps that touch no wire. *)
LEMMA AdmissionWaits ==
  ASSUME SessionTypeOK, Admission,
         Connect \/ ClearFatal \/ ExpireRow \/ UNCHANGED vars
  PROVE  Admission'
<1>1. /\ UNCHANGED <<inbox, outbox, member, token, live, lost>>
      /\ app'.creds = app.creds /\ app'.joined = app.joined
      /\ app'.joining = app.joining /\ app'.pending = app.pending
      /\ app'.error = "fatal" => app.error = "fatal"
      /\ row' = row \/ row' = "none"
      /\ link' = link \/ (link' = "opening" /\ timer)
      /\ timer' => timer
      /\ link' = "opening" => ~timer'
  <2>1. app \in Apps /\ (Admission => link # "opening" \/ ~timer)
    BY DEF SessionTypeOK, Admission, WireIsOpen
  <2>2. CASE Connect
    BY <2>1, <2>2 DEF Connect, srvVars, Apps
  <2>3. CASE ClearFatal
    BY <2>1, <2>3 DEF ClearFatal, srvVars, netVars, Apps
  <2>4. CASE ExpireRow
    BY <2>1, <2>4 DEF ExpireRow, netVars, Apps
  <2>5. CASE UNCHANGED vars
    BY <2>1, <2>5 DEF vars, srvVars, netVars
  <2>6. QED
    BY <2>2, <2>3, <2>4, <2>5
<1>2. \A names : Coming(names)' <=> Coming(names)
  BY <1>1 DEF Coming
<1>3. /\ Asked' <=> Asked
      /\ \A i : Asks(i)' <=> Asks(i)
  BY <1>1 DEF Asked, Asks
<1>4. Welcome' => Welcome
  BY <1>1 DEF Welcome
<1>5. link' = "open" => link = "open"
  BY <1>1
<1>6. WireIsOpen'
  BY <1>1 DEF Admission, WireIsOpen
<1>7. AppIsSane'
  BY <1>1 DEF Admission, WireIsOpen, AppIsSane
<1>8. OneAdmission'
  BY <1>1, <1>2, <1>3 DEF Admission, OneAdmission
<1>9. EndsAreLast'
  BY <1>1, <1>2, <1>3, <1>4, <1>5 DEF Admission, EndsAreLast
<1>10. AckIsGood' /\ CredsAreCurrent'
  BY <1>1, <1>2 DEF Admission, AckIsGood, CredsAreCurrent
<1>11. QED
  BY <1>6, <1>7, <1>8, <1>9, <1>10 DEF Admission

LEMMA AdmissionOpened ==
  ASSUME SessionTypeOK, Admission, Opened
  PROVE  Admission'
<1>1. /\ link = "opening" /\ link' = "open"
      /\ UNCHANGED <<timer, inbox, member, row, token, live, lost>>
      /\ outbox' = IF app.creds # NoCreds \/ app.pending
                   THEN <<JoinFrame(app.creds)>> ELSE <<>>
      /\ app'.creds = app.creds /\ app'.joined = app.joined
      /\ app'.joining = app.joining /\ app'.pending = app.pending
      /\ app'.error = app.error
  BY DEF Opened, srvVars, SessionTypeOK, Apps
<1>2. /\ inbox = <<>> /\ ~member /\ ~timer /\ app.error # "fatal"
      /\ app.creds # NoCreds \/ app.pending => app.joined \/ app.joining
  BY <1>1 DEF Admission, WireIsOpen, AppIsSane, SessionTypeOK
<1>3. /\ \A names : ~Coming(names)' /\ ~Coming(names)
      /\ DOMAIN inbox' = {} /\ inbox' = <<>>
  BY <1>1, <1>2 DEF Coming
<1>4. /\ \A i \in DOMAIN outbox' : i = 1 /\ outbox'[i].creds = app.creds
      /\ Asked' <=> (app.creds # NoCreds \/ app.pending)
  <2>1. CASE app.creds # NoCreds \/ app.pending
    BY <1>1, <2>1 DEF Asked, Asks, JoinFrame
  <2>2. CASE ~(app.creds # NoCreds \/ app.pending)
    BY <1>1, <2>2 DEF Asked, Asks
  <2>3. QED
    BY <2>1, <2>2
<1>5. WireIsOpen' /\ AppIsSane'
  BY <1>1, <1>2 DEF Admission, WireIsOpen, AppIsSane
<1>6. OneAdmission'
  BY <1>1, <1>2, <1>3, <1>4 DEF OneAdmission
<1>7. EndsAreLast'
  BY <1>1, <1>2, <1>3, <1>4 DEF EndsAreLast
<1>8. AckIsGood' /\ CredsAreCurrent'
  BY <1>1, <1>3 DEF Admission, AckIsGood, CredsAreCurrent
<1>9. QED
  BY <1>5, <1>6, <1>7, <1>8 DEF Admission

\* A phone at the join screen has nothing under way that concerns it.
LEMMA JoinIsFirst ==
  ASSUME SessionTypeOK, Admission, ~app.joined, ~app.joining
  PROVE  app.creds = NoCreds /\ ~member /\ ~Asked /\ inbox = <<>>
<1>1. app.creds = NoCreds
  BY DEF Admission, AppIsSane
<1>2. ~Asked /\ ~Coming(Admissions)
  BY DEF Admission, OneAdmission
<1>3. ~Coming({"PLAYER_JOIN_ACK"}) /\ ~Coming({"PLAYER_JOIN_REJECTED"})
  BY <1>2 DEF Coming, Admissions
<1>4. ~member /\ ~Coming(Evictions)
  BY <1>3 DEF Admission, EndsAreLast
<1>5. ~Coming(Ends)
  BY <1>3, <1>4 DEF Coming, Ends
<1>6. QED
  BY <1>1, <1>2, <1>4, <1>5 DEF Admission, EndsAreLast

LEMMA AdmissionJoin ==
  ASSUME SessionTypeOK, Admission, Join
  PROVE  Admission'
<1>1. /\ ~timer /\ ~app.joined /\ ~app.joining /\ app.error # "fatal"
      /\ UNCHANGED <<timer, inbox, member, row, token, live, lost>>
  BY OnScreen DEF Join, srvVars
<1>2. /\ app'.creds = app.creds /\ app'.joined = app.joined
      /\ app'.joining = TRUE /\ app'.error = "none"
      /\ \/ /\ link = "open" /\ link' = "open" /\ app'.pending = app.pending
            /\ outbox' = Append(outbox, JoinFrame(NoCreds))
         \/ link # "open" /\ link' = "opening" /\ outbox' = outbox
  <2> DEFINE started == [app EXCEPT !.error = "none", !.joining = TRUE]
  <2>1. started \in Apps /\ started.creds = app.creds
        /\ started.joined = app.joined /\ started.joining = TRUE
        /\ started.error = "none" /\ started.pending = app.pending
    BY DEF SessionTypeOK, Apps
  <2>2. \/ /\ link = "open" /\ link' = link /\ app' = started
           /\ outbox' = Append(outbox, JoinFrame(NoCreds))
        \/ /\ link # "open" /\ link' = "opening" /\ outbox' = outbox
           /\ app' = [started EXCEPT !.pending = TRUE, !.status = app'.status]
    <3>1. CASE link = "open"
      BY <3>1 DEF Join
    <3>2. CASE link # "open"
      BY <3>2 DEF Join
    <3>3. QED
      BY <3>1, <3>2
  <2> HIDE DEF started
  <2>3. QED
    BY <2>1, <2>2 DEF Apps
<1>3. app.creds = NoCreds /\ ~member /\ ~Asked /\ inbox = <<>>
  BY <1>1, JoinIsFirst
<1>4. /\ \A names : ~Coming(names)' /\ ~Coming(names)
      /\ DOMAIN inbox' = {} /\ inbox' = <<>>
  BY <1>1, <1>3 DEF Coming
<1>5. /\ \A i, j \in DOMAIN outbox' : Asks(i)' /\ Asks(j)' => i = j
      /\ \A i \in DOMAIN outbox' : Asks(i)' => outbox'[i].creds = NoCreds
      /\ link' = "open" => Asked'
  <2>1. \A i \in DOMAIN outbox : ~Asks(i)
    BY <1>3 DEF Asked
  <2>2. CASE link = "open"
    <3>1. /\ JoinFrame(NoCreds) \in Requests
          /\ JoinFrame(NoCreds).name = "PLAYER_JOIN"
          /\ JoinFrame(NoCreds).creds = NoCreds
      BY <1>3, RequestTypes DEF SessionTypeOK, Apps
    <3> DEFINE f == JoinFrame(NoCreds)
    <3> HIDE DEF f
    <3>2. outbox' = Append(outbox, f)
      BY <1>2, <2>2 DEF f
    <3>3. QED
      BY <2>1, <3>1, <3>2, OutboxGrows DEF Asks, Asked, f
  <2>3. CASE link # "open"
    BY <1>2, <2>1, <2>3 DEF Asks
  <2>4. QED
    BY <2>2, <2>3
<1>6. WireIsOpen' /\ AppIsSane'
  BY <1>1, <1>2, <1>3 DEF Admission, WireIsOpen, AppIsSane
<1>7. OneAdmission'
  BY <1>1, <1>2, <1>3, <1>4, <1>5 DEF OneAdmission
<1>8. EndsAreLast'
  BY <1>1, <1>2, <1>3, <1>4, <1>5 DEF EndsAreLast
<1>9. AckIsGood' /\ CredsAreCurrent'
  BY <1>2, <1>3, <1>4 DEF AckIsGood, CredsAreCurrent
<1>10. QED
  BY <1>6, <1>7, <1>8, <1>9 DEF Admission

LEMMA AnswerSent ==
  ASSUME SessionTypeOK, Answer
  PROVE  LET r == Screen.round
         IN  /\ r \in Nat /\ outbox' = Append(outbox, AnswerFrame(r))
             /\ link = "open" /\ app.phase = "playing" /\ app.joined
             /\ UNCHANGED <<link, timer, inbox, member, row, token, live, cue,
                            heard, missed, lost>>
             /\ app'.creds = app.creds /\ app'.joined = app.joined
             /\ app'.joining = app.joining /\ app'.pending = app.pending
             /\ app'.error = app.error /\ app'.phase = app.phase
             /\ app'.question = app.question /\ app'.content = app.content
             /\ \/ /\ r = app.question /\ r # 0 /\ app.content = 0
                   /\ app'.selected = TRUE /\ app'.submitted = app.submitted
                \/ /\ r = app.content /\ r # 0
                   /\ app'.submitted = TRUE /\ app'.selected = app.selected
<1>1. CASE Screen.what = "quiz"
  <2>1. app' = [app EXCEPT !.selected = TRUE]
    BY <1>1 DEF Answer
  <2>2. QED
    BY <1>1, <2>1, OnScreen DEF Answer, srvVars, SessionTypeOK, Apps
<1>2. CASE Screen.what = "game"
  <2>1. app' = [app EXCEPT !.submitted = TRUE]
    BY <1>2 DEF Answer
  <2>2. QED
    BY <1>2, <2>1, OnScreen DEF Answer, srvVars, SessionTypeOK, Apps
<1>3. QED
  BY <1>1, <1>2 DEF Answer

LEMMA AdmissionAnswer ==
  ASSUME SessionTypeOK, Admission, Answer
  PROVE  Admission'
<1> DEFINE f == AnswerFrame(Screen.round)
<1>1. f \in Requests /\ f.name = "SUBMIT"
  BY AnswerSent, RequestTypes
<1>2. /\ link = "open" /\ outbox' = Append(outbox, f)
      /\ UNCHANGED <<link, timer, inbox, member, row, token, live, lost>>
      /\ app'.creds = app.creds /\ app'.joined = app.joined
      /\ app'.joining = app.joining /\ app'.pending = app.pending
      /\ app'.error = app.error
  BY AnswerSent
<1> HIDE DEF f
<1>3. /\ \A i \in DOMAIN outbox' :
           Asks(i)' => i \in DOMAIN outbox /\ Asks(i) /\ outbox'[i] = outbox[i]
      /\ \A i \in DOMAIN outbox : i \in DOMAIN outbox' /\ (Asks(i)' <=> Asks(i))
  BY <1>1, <1>2, OutboxGrows DEF Asks
<1>4. Asked' <=> Asked
  BY <1>3 DEF Asked
<1>5. \A names : Coming(names)' <=> Coming(names)
  BY <1>2 DEF Coming
<1>6. Welcome' <=> Welcome
  BY <1>2 DEF Welcome
<1>7. WireIsOpen' /\ AppIsSane'
  BY <1>2 DEF Admission, WireIsOpen, AppIsSane
<1>8. OneAdmission'
  BY <1>2, <1>3, <1>4, <1>5 DEF Admission, OneAdmission
<1>9. EndsAreLast'
  BY <1>2, <1>4, <1>5, <1>6 DEF Admission, EndsAreLast
<1>10. AckIsGood' /\ CredsAreCurrent'
  BY <1>2, <1>5 DEF Admission, AckIsGood, CredsAreCurrent
<1>11. QED
  BY <1>7, <1>8, <1>9, <1>10 DEF Admission

LEMMA AdmissionEmptied ==
  ASSUME SessionTypeOK, Admission, Emptied
  PROVE  Admission'
<1>1. /\ inbox' = <<>> /\ outbox' = <<>> /\ ~member'
      /\ link' \in {"none", "closed"}
      /\ row' # "none" => row # "none"
      /\ token' = token /\ live' = live
  BY EmptiedFields
<1>2. /\ \A names : ~Coming(names)'
      /\ DOMAIN inbox' = {} /\ DOMAIN outbox' = {} /\ ~Asked'
  BY <1>1 DEF Coming, Asked
<1>3. /\ app'.joined => app'.creds # NoCreds
      /\ app'.creds # NoCreds => (app'.joined \/ app'.joining) /\ ~app'.pending
      /\ app'.error = "fatal" => ~app'.joined /\ ~app'.joining /\ ~timer'
      /\ app'.pending => ~timer'
  <2>1. CASE Drop
    BY <2>1, EmptiedFields DEF Drop, Closed, Admission, AppIsSane, SessionTypeOK,
       Apps
  <2>2. \A c : LET a == Initial(c)
               IN  /\ a.joined = FALSE /\ a.pending = FALSE /\ a.error = "none"
                   /\ a.creds = c /\ (c # NoCreds => a.joining)
    BY DEF Initial
  <2>3. CASE LoadPage
    <3>1. app' = Initial(Stored(app.creds))
      BY <2>3 DEF LoadPage
    <3>2. QED
      BY <2>2, <3>1
  <2>4. CASE LeaveRoom
    <3>1. LET a == [Initial(NoCreds) EXCEPT !.status = "closed"]
          IN  /\ a.joined = FALSE /\ a.pending = FALSE /\ a.error = "none"
              /\ a.creds = NoCreds
      BY DEF Initial
    <3>2. app' = [Initial(NoCreds) EXCEPT !.status = "closed"]
      BY <2>4 DEF LeaveRoom
    <3>3. QED
      BY <3>1, <3>2
  <2>5. QED
    BY <2>1, <2>3, <2>4 DEF Emptied
<1>4. CredsAreCurrent'
  <2>1. Coming({"PLAYER_JOIN_ACK"}) => AckUnderWay
    BY DEF Coming, AckUnderWay
  <2>2. CASE Drop
    <3>1. app'.creds = app.creds /\ (lost \/ AckUnderWay => lost')
      BY <2>2, EmptiedFields DEF Drop, Closed, LoseFrames, SessionTypeOK, Apps
    <3>2. QED
      BY <1>1, <2>1, <3>1 DEF Admission, CredsAreCurrent
  <2>3. CASE LoadPage
    <3>1. /\ app'.creds = Stored(app.creds)
          /\ lost \/ AckUnderWay \/ app.creds # Stored(app.creds) => lost'
      BY <2>3 DEF LoadPage, Initial
    <3>2. QED
      BY <1>1, <2>1, <3>1 DEF Admission, CredsAreCurrent
  <2>4. CASE LeaveRoom
    <3>1. app' = [Initial(NoCreds) EXCEPT !.status = "closed"]
      BY <2>4 DEF LeaveRoom
    <3>2. app'.creds = NoCreds
      BY <3>1 DEF Initial
    <3>3. QED
      BY <3>2 DEF CredsAreCurrent
  <2>5. QED
    BY <2>2, <2>3, <2>4 DEF Emptied
<1>5. WireIsOpen' /\ AppIsSane'
  BY <1>1, <1>3 DEF WireIsOpen, AppIsSane
<1>6. OneAdmission' /\ EndsAreLast' /\ AckIsGood'
  BY <1>1, <1>2 DEF OneAdmission, EndsAreLast, AckIsGood
<1>7. QED
  BY <1>4, <1>5, <1>6 DEF Admission

LEMMA AdmissionReceive ==
  ASSUME SessionTypeOK, Admission, Receive
  PROVE  Admission'
<1> DEFINE e == inbox[1]
<1>1. /\ link = "open" /\ inbox # <<>> /\ 1 \in DOMAIN inbox /\ e \in Frames
      /\ Reduces(app, e, app')
      /\ UNCHANGED <<timer, member, row, token, live, lost>>
  BY ReceiveFields DEF srvVars
<1>2. ~timer
  BY <1>1 DEF Admission, WireIsOpen
<1>3. app.error = "fatal" => ~app.joined /\ ~app.joining
  BY DEF Admission, AppIsSane
<1>4. \A names : e.name \in names => Coming(names)
  BY <1>1 DEF Coming
<1>5. CASE e.name \in Ends
  <2>1. /\ ~member /\ 1 = Len(inbox)
        /\ app'.creds = NoCreds /\ ~app'.joined /\ ~app'.joining
        /\ app'.pending = app.pending
    BY <1>1, <1>5 DEF Admission, EndsAreLast, Reduces, Ends, Admissions, Evictions
  <2>2. /\ inbox' = <<>> /\ (outbox' = outbox \/ outbox' = <<>>)
        /\ link' \in {"open", "closed"}
    <3>1. CASE e.name \in Evictions
      BY <3>1, ReceiveFields
    <3>2. CASE e.name \notin Evictions
      <4>1. inbox' = Tail(inbox) /\ outbox' = outbox /\ link' = link
        BY <3>2, ReceiveFields
      <4>2. Len(inbox') = 0 /\ inbox' \in Seq(Frames)
        BY <1>1, <2>1, <4>1, InboxShrinks
      <4>3. QED
        BY <1>1, <4>1, <4>2
    <3>3. QED
      BY <3>1, <3>2
  <2>3. ~Asked
    BY <1>4, <1>5 DEF Admission, OneAdmission, Coming
  <2>4. /\ \A names : ~Coming(names)'
        /\ DOMAIN inbox' = {} /\ \A i \in DOMAIN outbox' : ~Asks(i)'
    BY <2>2, <2>3 DEF Coming, Asked, Asks
  <2>5. ~Asked'
    BY <2>4 DEF Asked
  <2>6. link' = "closed" => outbox' = <<>>
    BY <1>1, ReceiveFields
  <2>7. WireIsOpen' /\ AppIsSane'
    BY <1>1, <1>2, <2>1, <2>2, <2>6 DEF Admission, WireIsOpen, AppIsSane
  <2>8. OneAdmission' /\ AckIsGood'
    BY <2>4, <2>5 DEF OneAdmission, AckIsGood
  <2>9. EndsAreLast' /\ CredsAreCurrent'
    BY <1>1, <2>1, <2>2, <2>4 DEF EndsAreLast, CredsAreCurrent
  <2>10. QED
    BY <2>7, <2>8, <2>9 DEF Admission
<1>6. ASSUME e.name \notin Ends
      PROVE  /\ UNCHANGED <<link, outbox>> /\ inbox' = Tail(inbox)
             /\ \A i \in DOMAIN inbox' :
                  i \in Nat /\ i + 1 \in DOMAIN inbox /\ inbox'[i] = inbox[i + 1]
             /\ Len(inbox') = Len(inbox) - 1 /\ Len(inbox) \in Nat
             /\ \A names : Coming(names) <=> e.name \in names \/ Coming(names)'
             /\ \A i : Asks(i)' <=> Asks(i)
             /\ Asked' <=> Asked
  <2>1. UNCHANGED <<link, outbox>> /\ inbox' = Tail(inbox)
    BY <1>6, ReceiveFields DEF Ends
  <2>2. QED
    BY <1>1, <2>1, InboxShrinks, HasFrames DEF Asked, Asks
<1>7. ASSUME e.name \notin Ends
      PROVE  \A i, j \in DOMAIN inbox' :
               inbox'[i].name \in Admissions /\ inbox'[j].name \in Admissions
                 => i = j
  <2>1. \A i, j \in DOMAIN inbox :
          inbox[i].name \in Admissions /\ inbox[j].name \in Admissions => i = j
    BY DEF Admission, OneAdmission
  <2>2. SUFFICES ASSUME NEW i \in DOMAIN inbox', NEW j \in DOMAIN inbox',
                        inbox'[i].name \in Admissions,
                        inbox'[j].name \in Admissions
                 PROVE  i = j
    OBVIOUS
  <2>3. i + 1 = j + 1 /\ i \in Nat /\ j \in Nat
    BY <1>6, <1>7, <2>1, <2>2
  <2>4. QED
    BY <2>3
<1>8. CASE e.name = "PLAYER_JOIN_ACK"
  <2>1. /\ app'.creds = e.creds /\ app'.joined /\ ~app'.joining /\ ~app'.pending
        /\ app'.error = "fatal" => app.error = "fatal"
    BY <1>1, <1>8 DEF Reduces, Admissions
  <2>2. /\ e.creds.token = token /\ e.creds.here /\ e.creds # NoCreds
    BY <1>1, <1>8 DEF Admission, AckIsGood, NoCreds
  <2>3. e.name \in Admissions /\ e.name \notin Ends
    BY <1>8 DEF Admissions, Ends, Evictions
  <2>4. Coming(Admissions) /\ Coming(Admissions \cup Ends)
    BY <1>4, <2>3
  <2>5. ~Asked /\ (app.joined \/ app.joining)
    BY <2>4 DEF Admission, OneAdmission
  <2>6. app'.error # "fatal"
    BY <1>3, <2>1, <2>5
  <2>7. \A i \in DOMAIN inbox' : inbox'[i].name \notin Admissions
    <3>1. SUFFICES ASSUME NEW i \in DOMAIN inbox', inbox'[i].name \in Admissions
                   PROVE  FALSE
      OBVIOUS
    <3>2. i \in Nat /\ i + 1 \in DOMAIN inbox /\ inbox[i + 1].name \in Admissions
      BY <1>6, <2>3, <3>1
    <3>3. i + 1 = 1 /\ i \in DOMAIN inbox'
      BY <1>1, <2>3, <3>1, <3>2 DEF Admission, OneAdmission
    <3>4. 0 \notin DOMAIN inbox'
      BY <1>1, <2>3, <1>6, InboxShrinks
    <3>5. QED
      BY <3>2, <3>3, <3>4
  <2>8. \A i \in DOMAIN inbox' :
          inbox'[i].name \in Ends => ~member' /\ ~Welcome' /\ i = Len(inbox')
    <3>1. SUFFICES ASSUME NEW i \in DOMAIN inbox', inbox'[i].name \in Ends
                   PROVE  ~member' /\ ~Welcome' /\ i = Len(inbox')
      OBVIOUS
    <3>2. inbox'[i].name \in Evictions
      BY <2>7, <3>1 DEF Ends, Admissions
    <3>3. /\ i \in Nat /\ i + 1 \in DOMAIN inbox
          /\ inbox[i + 1].name \in Evictions /\ inbox[i + 1].name \in Ends
      BY <1>6, <2>3, <3>1, <3>2
    <3>4. Coming(Evictions)
      BY <3>3 DEF Coming
    <3>5. ~live \/ row = "none"
      BY <3>4 DEF Admission, EndsAreLast
    <3>6. ~member /\ i + 1 = Len(inbox)
      BY <3>3 DEF Admission, EndsAreLast
    <3>7. QED
      BY <1>1, <1>6, <2>3, <3>3, <3>5, <3>6 DEF Welcome
  <2>9. WireIsOpen' /\ AppIsSane'
    BY <1>1, <1>2, <1>6, <2>1, <2>2, <2>3, <2>6
       DEF Admission, WireIsOpen, AppIsSane
  <2>10. OneAdmission'
    <3>1. /\ ~Asked' /\ \A i \in DOMAIN outbox' : ~Asks(i)'
      BY <1>6, <2>3, <2>5 DEF Asked
    <3>2. QED
      BY <1>7, <2>1, <2>3, <3>1 DEF OneAdmission
  <2>11. EndsAreLast'
    <3>1. Coming(Evictions)' => ~live' \/ row' = "none"
      BY <1>1, <1>6, <2>3 DEF Admission, EndsAreLast
    <3>2. inbox' # <<>> => member' \/ Coming(Ends)'
      BY <1>1, <1>6, <2>3 DEF Admission, EndsAreLast
    <3>3. ~member' => Coming(Ends)'
      BY <1>1, <1>6, <2>3 DEF Admission, EndsAreLast
    <3>4. QED
      BY <2>1, <2>8, <3>1, <3>2, <3>3 DEF EndsAreLast
  <2>12. AckIsGood'
    BY <2>7 DEF AckIsGood, Admissions
  <2>13. CredsAreCurrent'
    BY <1>1, <2>1, <2>2 DEF CredsAreCurrent
  <2>14. QED
    BY <2>9, <2>10, <2>11, <2>12, <2>13 DEF Admission
<1>9. CASE e.name \notin Admissions \cup Ends
  <2>1. /\ app'.creds = app.creds /\ app'.joined = app.joined
        /\ app'.joining = app.joining /\ app'.pending = app.pending
        /\ app'.error = "fatal" => app.error = "fatal"
    BY <1>1, <1>9 DEF Reduces, Admissions, Ends
  <2>2. /\ e.name \notin Ends /\ e.name \notin Admissions
        /\ e.name \notin Evictions /\ e.name \notin Admissions \cup Ends
        /\ e.name \notin {"PLAYER_JOIN_ACK"}
    BY <1>9 DEF Ends, Admissions
  <2>3. /\ Coming(Ends)' <=> Coming(Ends)
        /\ Coming(Admissions)' <=> Coming(Admissions)
        /\ Coming(Evictions)' <=> Coming(Evictions)
        /\ Coming(Admissions \cup Ends)' <=> Coming(Admissions \cup Ends)
        /\ Coming({"PLAYER_JOIN_ACK"})' <=> Coming({"PLAYER_JOIN_ACK"})
    BY <1>6, <2>2
  <2>4. Welcome' <=> Welcome
    BY <1>1, <2>1 DEF Welcome
  <2>5. \A i \in DOMAIN inbox' :
          inbox'[i].name \in Ends => ~member' /\ ~Welcome' /\ i = Len(inbox')
    <3>1. SUFFICES ASSUME NEW i \in DOMAIN inbox', inbox'[i].name \in Ends
                   PROVE  ~member' /\ ~Welcome' /\ i = Len(inbox')
      OBVIOUS
    <3>2. i \in Nat /\ i + 1 \in DOMAIN inbox /\ inbox[i + 1].name \in Ends
      BY <1>6, <2>2, <3>1
    <3>3. ~member /\ ~Welcome /\ i + 1 = Len(inbox)
      BY <3>2 DEF Admission, EndsAreLast
    <3>4. QED
      BY <1>1, <1>6, <2>2, <2>4, <3>2, <3>3
  <2>6. WireIsOpen' /\ AppIsSane'
    BY <1>1, <1>2, <1>6, <2>1, <2>2 DEF Admission, WireIsOpen, AppIsSane
  <2>7. OneAdmission'
    BY <1>1, <1>6, <1>7, <2>1, <2>2, <2>3 DEF Admission, OneAdmission
  <2>8. EndsAreLast'
    <3>1. inbox' # <<>> => member' \/ Coming(Ends)'
      BY <1>1, <2>3 DEF Admission, EndsAreLast
    <3>2. QED
      BY <1>1, <1>6, <2>1, <2>2, <2>3, <2>5, <3>1 DEF Admission, EndsAreLast
  <2>9. AckIsGood'
    BY <1>1, <1>6, <2>2 DEF Admission, AckIsGood
  <2>10. CredsAreCurrent'
    BY <1>1, <2>1, <2>3 DEF Admission, CredsAreCurrent
  <2>11. QED
    BY <2>6, <2>7, <2>8, <2>9, <2>10 DEF Admission
<1>10. QED
  BY <1>5, <1>8, <1>9 DEF Admissions, Ends

LEMMA AdmissionHandleJoin ==
  ASSUME SessionTypeOK, Admission, HandleJoin
  PROVE  Admission'
<1> DEFINE c == outbox[1].creds
<1>1. /\ link = "open" /\ outbox # <<>> /\ 1 \in DOMAIN outbox /\ Asks(1)
      /\ outbox' = Tail(outbox)
      /\ UNCHANGED <<app, link, timer, live, lost>>
  BY JoinHandled
<1>2. Asked
  BY <1>1 DEF Asked
<1>3. /\ ~member /\ ~Coming(Admissions \cup Ends) /\ c = app.creds
      /\ app.joined \/ app.joining
  BY <1>1, <1>2 DEF Admission, OneAdmission
<1>4. ~Coming(Ends) /\ ~Coming(Admissions) /\ ~Coming({"PLAYER_JOIN_ACK"})
  BY <1>3 DEF Coming, Ends, Admissions
<1>5. inbox = <<>> /\ DOMAIN inbox = {}
  BY <1>3, <1>4 DEF Admission, EndsAreLast
<1>6. ~Asked' /\ \A i \in DOMAIN outbox' : ~Asks(i)'
  <2>1. \A i \in DOMAIN outbox' : i + 1 \in DOMAIN outbox /\ i + 1 # 1
                                 /\ outbox'[i] = outbox[i + 1]
    BY <1>1, OutboxShrinks
  <2>2. \A i \in DOMAIN outbox : Asks(i) => i = 1
    BY <1>1 DEF Admission, OneAdmission
  <2>3. QED
    BY <2>1, <2>2 DEF Asked, Asks
<1>7. WireIsOpen' /\ AppIsSane'
  BY <1>1 DEF Admission, WireIsOpen, AppIsSane
<1>8. CASE ~(\E avatar \in BOOLEAN : Admits(avatar))
  <2>1. PICK x \in {"fatal", "join"} : Rejects(x) /\ ~Welcome
    <3>1. \/ ~Found(c) /\ Rejects("fatal")
          \/ Found(c) /\ Known(c) /\ c.token # token /\ Rejects("join")
          \/ Found(c) /\ ~Known(c) /\ Rejects("join")
      BY <1>8, JoinHandled
    <3>2. ~Found(c) => ~Welcome
      BY <1>3 DEF Found, Welcome
    <3>3. c.token # token => ~Welcome
      BY <1>3 DEF Welcome
    <3>4. ~Known(c) => ~Welcome
      BY <1>3 DEF Known, Welcome, NoCreds
    <3>5. QED
      BY <3>1, <3>2, <3>3, <3>4
  <2> DEFINE f == Rejected(x)
  <2>2. /\ f \in Frames /\ f.name = "PLAYER_JOIN_REJECTED"
        /\ inbox' = inbox \o <<f>> /\ UNCHANGED <<member, row, token>>
    BY <2>1, FrameTypes DEF Rejects
  <2> HIDE DEF f
  <2>3. /\ \A i \in DOMAIN inbox' : i = Len(inbox') /\ inbox'[i] = f
        /\ \A names : Coming(names)' <=> Coming(names) \/ f.name \in names
    BY <1>5, <2>2, InboxGrows
  <2>4. /\ Coming(Ends)' /\ Coming(Evictions)' = Coming(Evictions)
        /\ ~Coming(Evictions)
    BY <1>4, <2>2, <2>3 DEF Ends, Evictions, Coming
  <2>5. ~Welcome'
    BY <1>1, <2>1, <2>2 DEF Welcome
  <2>6. OneAdmission'
    BY <1>1, <1>3, <1>6, <2>3 DEF OneAdmission
  <2>7. EndsAreLast'
    BY <1>3, <2>2, <2>3, <2>4, <2>5 DEF EndsAreLast
  <2>8. AckIsGood'
    BY <2>2, <2>3 DEF AckIsGood
  <2>9. CredsAreCurrent'
    BY <1>1, <1>4, <2>2 DEF Admission, CredsAreCurrent
  <2>10. QED
    BY <1>7, <2>6, <2>7, <2>8, <2>9 DEF Admission
<1>9. ASSUME NEW avatar \in BOOLEAN, Admits(avatar)
      PROVE  Admission'
  <2> DEFINE new == [token |-> FreshToken, avatar |-> avatar, here |-> TRUE]
             f == Ack(new)
             g == RoomState
  <2>1. /\ f \in Frames /\ f.name = "PLAYER_JOIN_ACK" /\ f.creds = new
        /\ g \in Frames /\ g.name = "ROOM_STATE_UPDATE"
        /\ new.token = FreshToken /\ new.here = TRUE
    <3>1. new \in Credentials
      BY AckTyped
    <3>2. cue \in Cues
      BY DEF SessionTypeOK
    <3> HIDE DEF new
    <3>3. f \in Frames /\ f.name = "PLAYER_JOIN_ACK" /\ f.creds = new
          /\ g \in Frames /\ g.name = "ROOM_STATE_UPDATE"
      BY <3>1, <3>2, FrameTypes, RoomStateType
    <3>4. QED
      BY <3>3 DEF new
  <2>2. /\ inbox' = inbox \o <<f, g>> /\ token' = FreshToken
        /\ member' = TRUE /\ row' = "on"
    BY <1>9 DEF Admits
  <2> HIDE DEF f, g, new
  <2>3. /\ \A i \in DOMAIN inbox' :
             \/ i = Len(inbox') - 1 /\ inbox'[i] = f
             \/ i = Len(inbox') /\ inbox'[i] = g
        /\ \E i \in DOMAIN inbox' : inbox'[i] = f
    BY <1>5, <2>1, <2>2, HasFrames, TwoMore
  <2>4. /\ \A i \in DOMAIN inbox' :
             inbox'[i].name \in Admissions => i = Len(inbox') - 1
        /\ \A i \in DOMAIN inbox' : inbox'[i].name \notin Ends
        /\ Coming({"PLAYER_JOIN_ACK"})' /\ ~Coming(Ends)' /\ ~Coming(Evictions)'
    BY <2>1, <2>3 DEF Admissions, Ends, Evictions, Coming
  <2>5. OneAdmission'
    <3>1. \A i, j \in DOMAIN inbox' :
            inbox'[i].name \in Admissions /\ inbox'[j].name \in Admissions => i = j
      BY <2>4
    <3>2. QED
      BY <1>1, <1>3, <1>6, <3>1 DEF OneAdmission
  <2>6. EndsAreLast'
    BY <2>2, <2>4 DEF EndsAreLast
  <2>7. AckIsGood'
    BY <2>1, <2>2, <2>3 DEF AckIsGood
  <2>8. CredsAreCurrent'
    BY <2>4 DEF CredsAreCurrent
  <2>9. QED
    BY <1>7, <2>5, <2>6, <2>7, <2>8 DEF Admission
<1>10. QED
  BY <1>8, <1>9

LEMMA AdmissionHandleAnswer ==
  ASSUME SessionTypeOK, Admission, HandleAnswer
  PROVE  Admission'
<1>1. /\ outbox # <<>> /\ 1 \in DOMAIN outbox /\ ~Asks(1)
      /\ outbox' = Tail(outbox) /\ link = "open"
      /\ UNCHANGED <<app, link, timer, member, row, token, live, lost>>
  BY AnswerFields
<1>2. /\ \A i \in DOMAIN outbox' :
           /\ i \in Nat /\ i # 0 /\ i + 1 \in DOMAIN outbox /\ i + 1 # 1
           /\ Asks(i)' <=> Asks(i + 1)
           /\ outbox'[i] = outbox[i + 1]
      /\ Asked' <=> Asked
  <2>1. /\ \A i \in DOMAIN outbox' :
             /\ i \in Nat /\ i # 0 /\ i + 1 \in DOMAIN outbox /\ i + 1 # 1
             /\ Asks(i)' <=> Asks(i + 1)
             /\ outbox'[i] = outbox[i + 1]
        /\ \A i \in DOMAIN outbox :
             i # 1 => i - 1 \in DOMAIN outbox' /\ (Asks(i) <=> Asks(i - 1)')
    BY <1>1, OutboxShrinks DEF Asks
  <2>2. Asked => Asked'
    BY <1>1, <2>1 DEF Asked
  <2>3. Asked' => Asked
    BY <2>1 DEF Asked
  <2>4. QED
    BY <2>1, <2>2, <2>3
<1>3. /\ \A i \in DOMAIN inbox' : inbox'[i].name \in Admissions \cup Ends =>
           i \in DOMAIN inbox /\ inbox'[i] = inbox[i]
      /\ \A names : Coming(names)' <=> Coming(names)
                                       \/ (inbox' # inbox /\ "ANSWER_ACK" \in names)
      /\ inbox' # inbox => member
  <2>1. CASE inbox' = inbox
    BY <2>1 DEF Coming
  <2>2. CASE inbox' # inbox
    <3>1. PICK b \in BOOLEAN : inbox' = inbox \o <<AnswerAck(b)>>
      BY <2>2, AnswerFields
    <3> DEFINE f == AnswerAck(b)
    <3>2. f \in Frames /\ f.name = "ANSWER_ACK" /\ inbox' = inbox \o <<f>>
      BY <3>1, FrameTypes
    <3> HIDE DEF f
    <3>3. member
      BY <2>2, AnswerFields
    <3>4. f.name \notin Admissions \cup Ends
      BY <3>2 DEF Admissions, Ends, Evictions
    <3>5. QED
      BY <2>2, <3>2, <3>3, <3>4, InboxGrows
  <2>3. QED
    BY <2>1, <2>2
<1>4. "ANSWER_ACK" \notin Admissions \cup Ends
  BY DEF Admissions, Ends, Evictions
<1>5. /\ Coming(Ends)' <=> Coming(Ends)
      /\ Coming(Admissions)' <=> Coming(Admissions)
      /\ Coming(Admissions \cup Ends)' <=> Coming(Admissions \cup Ends)
      /\ Coming(Evictions)' <=> Coming(Evictions)
      /\ Coming({"PLAYER_JOIN_ACK"})' <=> Coming({"PLAYER_JOIN_ACK"})
  BY <1>3, <1>4 DEF Ends
<1>6. WireIsOpen' /\ AppIsSane'
  BY <1>1 DEF Admission, WireIsOpen, AppIsSane
<1>7. OneAdmission'
  <2>1. \A i, j \in DOMAIN outbox' : Asks(i)' /\ Asks(j)' => i = j
    <3>1. SUFFICES ASSUME NEW i \in DOMAIN outbox', NEW j \in DOMAIN outbox',
                          Asks(i)', Asks(j)'
                   PROVE  i = j
      OBVIOUS
    <3>2. i + 1 = j + 1 /\ i \in Nat /\ j \in Nat
      BY <1>2, <3>1 DEF Admission, OneAdmission
    <3>3. QED
      BY <3>2
  <2>2. \A i, j \in DOMAIN inbox' :
          inbox'[i].name \in Admissions /\ inbox'[j].name \in Admissions => i = j
    BY <1>3 DEF Admission, OneAdmission
  <2>3. \A i \in DOMAIN outbox' :
          Asks(i)' => outbox'[i].creds = app'.creds
                      /\ (i = 1 \/ app'.creds = NoCreds)
    BY <1>1, <1>2 DEF Admission, OneAdmission
  <2>4. Asked' => ~member' /\ ~Coming(Admissions \cup Ends)'
    BY <1>1, <1>2, <1>5 DEF Admission, OneAdmission
  <2>5. Asked' \/ Coming(Admissions)' => app'.joined \/ app'.joining
    BY <1>1, <1>2, <1>5 DEF Admission, OneAdmission
  <2>6. QED
    BY <2>1, <2>2, <2>3, <2>4, <2>5 DEF OneAdmission
<1>8. EndsAreLast'
  <2>1. Welcome' <=> Welcome
    BY <1>1 DEF Welcome
  <2>2. \A i \in DOMAIN inbox' :
          inbox'[i].name \in Ends => ~member' /\ ~Welcome' /\ i = Len(inbox')
    <3>1. SUFFICES ASSUME NEW i \in DOMAIN inbox', inbox'[i].name \in Ends
                   PROVE  ~member' /\ ~Welcome' /\ i = Len(inbox')
      OBVIOUS
    <3>2. ~member /\ ~Welcome /\ i = Len(inbox)
      BY <1>3, <3>1 DEF Admission, EndsAreLast
    <3>3. QED
      BY <1>1, <1>3, <2>1, <3>2
  <2>3. inbox' # <<>> => member' \/ Coming(Ends)'
    BY <1>1, <1>3, <1>5 DEF Admission, EndsAreLast
  <2>4. QED
    BY <1>1, <1>2, <1>5, <2>2, <2>3 DEF Admission, EndsAreLast
<1>9. AckIsGood'
  BY <1>1, <1>3 DEF Admission, AckIsGood, Admissions
<1>10. CredsAreCurrent'
  BY <1>1, <1>5 DEF Admission, CredsAreCurrent
<1>11. QED
  BY <1>6, <1>7, <1>8, <1>9, <1>10 DEF Admission

LEMMA AdmissionBroadcast ==
  ASSUME SessionTypeOK, Admission, Broadcast
  PROVE  Admission'
<1> DEFINE f == Script[cue']
<1>1. /\ f \in Frames
      /\ live' => live
      /\ inbox' = inbox \/ (member /\ inbox' = inbox \o <<f>>)
      /\ UNCHANGED <<app, link, timer, outbox, member, row, token, lost>>
  BY BroadcastFields
<1>2. f.name \notin Admissions \cup Ends
  <2>1. f.name \in ScriptNames
    BY BroadcastFields, ScriptIs, EventNames
  <2>2. QED
    BY <2>1 DEF ScriptNames, Shows, Reveals, Admissions, Ends, Evictions
<1> HIDE DEF f
<1>3. /\ \A i \in DOMAIN inbox' : inbox'[i].name \in Admissions \cup Ends =>
           i \in DOMAIN inbox /\ inbox'[i] = inbox[i]
      /\ Coming(Ends)' <=> Coming(Ends)
      /\ Coming(Admissions)' <=> Coming(Admissions)
      /\ Coming(Admissions \cup Ends)' <=> Coming(Admissions \cup Ends)
      /\ Coming(Evictions)' <=> Coming(Evictions)
      /\ Coming({"PLAYER_JOIN_ACK"})' <=> Coming({"PLAYER_JOIN_ACK"})
  <2>1. CASE inbox' = inbox
    BY <2>1 DEF Coming
  <2>2. CASE inbox' = inbox \o <<f>>
    BY <1>1, <1>2, <2>2, InboxGrows DEF Admissions, Ends
  <2>3. QED
    BY <1>1, <2>1, <2>2
<1>4. /\ Asked' <=> Asked
      /\ \A i : Asks(i)' <=> Asks(i)
      /\ Welcome' => Welcome
  BY <1>1 DEF Asked, Asks, Welcome
<1>5. link # "open" => inbox' = inbox
  BY <1>1 DEF Admission, WireIsOpen
<1>6. WireIsOpen' /\ AppIsSane'
  BY <1>1, <1>5 DEF Admission, WireIsOpen, AppIsSane
<1>7. OneAdmission'
  BY <1>1, <1>3, <1>4 DEF Admission, OneAdmission
<1>8. EndsAreLast'
  <2>1. \A i \in DOMAIN inbox' :
          inbox'[i].name \in Ends => ~member' /\ ~Welcome' /\ i = Len(inbox')
    <3>1. SUFFICES ASSUME NEW i \in DOMAIN inbox', inbox'[i].name \in Ends
                   PROVE  ~member' /\ ~Welcome' /\ i = Len(inbox')
      OBVIOUS
    <3>2. ~member /\ ~Welcome /\ i = Len(inbox)
      BY <1>3, <3>1 DEF Admission, EndsAreLast
    <3>3. QED
      BY <1>1, <1>4, <3>2
  <2>2. inbox' # <<>> => member' \/ Coming(Ends)'
    BY <1>1, <1>3 DEF Admission, EndsAreLast
  <2>3. Coming(Evictions)' => ~live' \/ row' = "none"
    BY <1>1, <1>3 DEF Admission, EndsAreLast
  <2>4. QED
    BY <1>1, <1>3, <1>4, <2>1, <2>2, <2>3 DEF Admission, EndsAreLast
<1>9. AckIsGood' /\ CredsAreCurrent'
  BY <1>1, <1>3 DEF Admission, AckIsGood, CredsAreCurrent, Admissions
<1>10. QED
  BY <1>6, <1>7, <1>8, <1>9 DEF Admission

LEMMA AdmissionEvict ==
  ASSUME SessionTypeOK, Admission, Evict
  PROVE  Admission'
<1>1. /\ ~member' /\ (row' = "none" \/ ~live')
      /\ UNCHANGED <<app, link, timer, outbox, token, lost>>
  BY EvictFields
<1>2. ~Welcome'
  BY <1>1 DEF Welcome
<1>3. /\ Asked' <=> Asked
      /\ \A i : Asks(i)' <=> Asks(i)
  BY <1>1 DEF Asked, Asks
<1>4. AppIsSane' /\ CredsAreCurrent'
  BY <1>1 DEF Admission, AppIsSane, CredsAreCurrent
<1>5. CASE ~member
  <2>1. inbox' = inbox
    BY <1>5, EvictFields
  <2>2. \A names : Coming(names)' <=> Coming(names)
    BY <2>1 DEF Coming
  <2>3. WireIsOpen' /\ OneAdmission' /\ AckIsGood'
    BY <1>1, <1>3, <1>5, <2>1, <2>2
       DEF Admission, WireIsOpen, OneAdmission, AckIsGood
  <2>4. EndsAreLast'
    BY <1>1, <1>2, <1>3, <1>5, <2>1, <2>2 DEF Admission, EndsAreLast
  <2>5. QED
    BY <1>4, <2>3, <2>4 DEF Admission
<1>6. CASE member
  <2>1. PICK x \in Evictions : inbox' = inbox \o <<Event(x, 0, "-")>>
    BY <1>6, EvictFields
  <2> DEFINE f == Event(x, 0, "-")
  <2>2. f \in Frames /\ f.name \in Evictions
    BY FrameTypes
  <2> HIDE DEF f
  <2>3. inbox' = inbox \o <<f>>
    BY <2>1 DEF f
  <2>4. f.name \in Ends /\ f.name \notin Admissions
    BY <2>2 DEF Ends, Admissions, Evictions
  <2>5. /\ \A i \in DOMAIN inbox : inbox[i].name \notin Ends
        /\ ~Asked /\ link = "open"
    BY <1>6 DEF Admission, EndsAreLast, OneAdmission, WireIsOpen
  <2>6. /\ \A i \in DOMAIN inbox' :
             \/ i \in DOMAIN inbox /\ inbox'[i] = inbox[i]
             \/ i = Len(inbox') /\ inbox'[i] = f
        /\ \A names : Coming(names)' <=> Coming(names) \/ f.name \in names
    BY <2>2, <2>3, InboxGrows
  <2>7. WireIsOpen'
    BY <1>1, <2>5 DEF Admission, WireIsOpen
  <2>8. OneAdmission'
    <3>1. \A i, j \in DOMAIN inbox' :
            inbox'[i].name \in Admissions /\ inbox'[j].name \in Admissions => i = j
      BY <2>4, <2>6 DEF Admission, OneAdmission
    <3>2. Coming(Admissions)' <=> Coming(Admissions)
      BY <2>4, <2>6
    <3>3. QED
      BY <1>1, <1>3, <2>5, <3>1, <3>2 DEF Admission, OneAdmission
  <2>9. EndsAreLast'
    <3>1. Coming(Ends)'
      BY <2>4, <2>6
    <3>2. app.joined \/ Coming({"PLAYER_JOIN_ACK"})
      BY <1>6 DEF Admission, EndsAreLast
    <3>3. app'.joined \/ Coming({"PLAYER_JOIN_ACK"})'
      BY <1>1, <2>6, <3>2
    <3>4. \A i \in DOMAIN inbox' :
            inbox'[i].name \in Ends => ~member' /\ ~Welcome' /\ i = Len(inbox')
      BY <1>1, <1>2, <2>5, <2>6
    <3>5. QED
      BY <1>1, <3>1, <3>3, <3>4 DEF EndsAreLast
  <2>10. AckIsGood'
    <3>1. f.name # "PLAYER_JOIN_ACK"
      BY <2>4 DEF Admissions
    <3>2. QED
      BY <1>1, <2>6, <3>1 DEF Admission, AckIsGood
  <2>11. QED
    BY <1>4, <2>7, <2>8, <2>9, <2>10 DEF Admission
<1>7. QED
  BY <1>5, <1>6

LEMMA AdmissionStep ==
  ASSUME SessionTypeOK, Admission, [Next]_vars
  PROVE  Admission'
BY AdmissionWaits, AdmissionOpened, AdmissionJoin, AdmissionAnswer,
   AdmissionEmptied, AdmissionReceive, AdmissionHandleJoin,
   AdmissionHandleAnswer, AdmissionBroadcast, AdmissionEvict
   DEF Next, Phone, Server, Emptied

(* At any time and for any number of faults: the phone, its frames and the *)
(* server's view of the player are what they are meant to be.              *)
THEOREM SessionTypeCorrect == Spec => []SessionTypeOK
<1>1. Init => SessionTypeOK
  BY SessionInit
<1>2. SessionTypeOK /\ [Next]_vars => SessionTypeOK'
  BY SessionTyped
<1>3. QED
  BY <1>1, <1>2, PTL DEF Spec

(* Two requests to be admitted never cross, a frame that ends the membership *)
(* is the last that the phone gets, and an acknowledgement under way is good.*)
THEOREM AdmissionsAreOrderly == Spec => []Admission
<1>1. Init => SessionTypeOK /\ Admission
  BY SessionInit, AdmissionInit
<1>2. SessionTypeOK /\ Admission /\ [Next]_vars => (SessionTypeOK /\ Admission)'
  BY SessionTyped, AdmissionStep
<1>3. QED
  BY <1>1, <1>2, PTL DEF Spec

(* A player who still has a row never holds credentials that the server   *)
(* would refuse, unless a frame was lost: the token of attemptReconnect() *)
(* is rotated, and PLAYER_JOIN_ACK brings the new one.                    *)
THEOREM CredentialsStayGood == Spec => []CredsAreGood
<1>1. Admission => CredsAreGood
  <2>1. Coming({"PLAYER_JOIN_ACK"}) => AckUnderWay
    BY DEF Coming, AckUnderWay
  <2>2. QED
    BY <2>1 DEF Admission, CredsAreCurrent, CredsAreGood
<1>2. QED
  BY <1>1, AdmissionsAreOrderly, PTL

-------------------------------------------------------------------------------
(* Following the game. *)

LEMMA FollowingInit == Init => Following
<1> SUFFICES ASSUME Init PROVE Following
  OBVIOUS
<1>1. inbox = <<>> /\ DOMAIN inbox = {} /\ ~member /\ token = 0 /\ row = "none"
  BY DEF Init
<1>2. app.question = 0 /\ app.content = 0
  <2>1. \A c : Initial(c).question = 0 /\ Initial(c).content = 0
    BY DEF Initial
  <2>2. LET a == [Initial(NoCreds) EXCEPT !.final = TRUE]
        IN  a.question = 0 /\ a.content = 0
    BY DEF Initial
  <2>3. \/ app = Initial(NoCreds) \/ app = Initial(OldCreds)
        \/ app = [Initial(NoCreds) EXCEPT !.final = TRUE]
    BY DEF Init
  <2>4. CASE app = Initial(NoCreds) \/ app = Initial(OldCreds)
    BY <2>1, <2>4
  <2>5. QED
    BY <2>2, <2>3, <2>4
<1>3. ~Attends
  BY <1>1 DEF Attends, Welcome
<1>4. OnlyShown
  BY <1>1, <1>2 DEF OnlyShown
<1>5. LocksAreAnswers /\ PhaseComes /\ ContentComes
  BY <1>1, <1>3 DEF LocksAreAnswers, PhaseComes, ContentComes
<1>6. QED
  BY <1>4, <1>5 DEF Following

(* A screen stays in step while the frames and the game stand still. *)
LEMMA ScreenWaits ==
  ASSUME OnlyShown, PhaseComes, ContentComes,
         UNCHANGED <<inbox, cue, missed>>, member' => member, Attends' => Attends,
         app'.phase = app.phase, app'.question = app.question,
         app'.content = app.content
  PROVE  OnlyShown' /\ PhaseComes' /\ ContentComes'
<1>1. /\ \A names : Coming(names)' <=> Coming(names)
      /\ \A i, names : IsLatest(i, names)' <=> IsLatest(i, names)
  BY DEF Coming, IsLatest
<1>2. Fresh' => Fresh
  BY <1>1 DEF Fresh
<1>3. /\ \A r, n : Shown(r, n)' <=> Shown(r, n)
      /\ PhaseAt(cue)' = PhaseAt(cue) /\ RoundAt(cue)' = RoundAt(cue)
      /\ \A r : ShowsRound(r)' <=> ShowsRound(r)
  BY DEF Shown, PhaseAt, RoundAt, ShowsRound
<1>4. OnlyShown'
  BY <1>3 DEF OnlyShown
<1>5. PhaseComes'
  BY <1>1, <1>3 DEF PhaseComes
<1>6. ContentComes'
  BY <1>1, <1>2, <1>3 DEF ContentComes
<1>7. QED
  BY <1>4, <1>5, <1>6

(* So does a lock, while no answer and no refusal gets lost unnoticed. *)
LEMMA LocksWait ==
  ASSUME LocksAreAnswers, Attends' => Attends, cue' = cue, heard \subseteq heard',
         app'.question = app.question, app'.content = app.content,
         app'.selected => app.selected, app'.submitted => app.submitted,
         lost => lost',
         \A i \in DOMAIN outbox :
           lost' \/ \E j \in DOMAIN outbox' : outbox'[j] = outbox[i],
         \A i \in DOMAIN inbox : inbox[i].name = "ANSWER_ACK" =>
           lost' \/ \E j \in DOMAIN inbox' : inbox'[j] = inbox[i]
  PROVE  LocksAreAnswers'
<1>1. \A r : Accounted(r) => Accounted(r)'
  BY DEF Accounted
<1>2. \A r : Open(r, cue)' <=> Open(r, cue)
  BY DEF Open, Shown
<1>3. QED
  BY <1>1, <1>2 DEF LocksAreAnswers

LEMMA FollowingWaits ==
  ASSUME SessionTypeOK, Admission, Following,
         Connect \/ Opened \/ Join \/ ClearFatal \/ ExpireRow \/ UNCHANGED vars
  PROVE  Following'
<1>1. /\ UNCHANGED <<inbox, cue, missed, member, token, live, heard, lost>>
      /\ row' = row \/ row' = "none"
  BY DEF Connect, Opened, Join, ClearFatal, ExpireRow, vars, srvVars, netVars
<1>2. /\ app'.phase = app.phase /\ app'.question = app.question
      /\ app'.content = app.content /\ app'.selected = app.selected
      /\ app'.submitted = app.submitted /\ app'.creds = app.creds
  <2>1. app \in Apps
    BY DEF SessionTypeOK
  <2>2. CASE Connect \/ Opened \/ ClearFatal
    BY <2>1, <2>2 DEF Connect, Opened, ClearFatal, Apps
  <2>3. CASE Join
    <3> DEFINE started == [app EXCEPT !.error = "none", !.joining = TRUE]
    <3>1. /\ started \in Apps
          /\ started.phase = app.phase /\ started.question = app.question
          /\ started.content = app.content /\ started.selected = app.selected
          /\ started.submitted = app.submitted /\ started.creds = app.creds
      BY <2>1 DEF Apps
    <3>2. \/ app' = started
          \/ app' = [started EXCEPT !.pending = TRUE, !.status = app'.status]
      <4>1. CASE link = "open"
        BY <2>3, <4>1 DEF Join
      <4>2. CASE link # "open"
        BY <2>3, <4>2 DEF Join
      <4>3. QED
        BY <4>1, <4>2
    <3> HIDE DEF started
    <3>3. QED
      BY <3>1, <3>2 DEF Apps
  <2>4. CASE ExpireRow \/ UNCHANGED vars
    BY <2>4 DEF ExpireRow, vars
  <2>5. QED
    BY <2>2, <2>3, <2>4
<1>3. Attends' => Attends
  BY <1>1, <1>2 DEF Attends, Welcome
<1>4. OnlyShown' /\ PhaseComes' /\ ContentComes'
  BY <1>1, <1>2, <1>3, ScreenWaits DEF Following
<1>5. \A i \in DOMAIN outbox : \E j \in DOMAIN outbox' : outbox'[j] = outbox[i]
  <2>1. CASE Opened
    <3>1. DOMAIN outbox = {}
      BY <2>1 DEF Opened, Admission, WireIsOpen
    <3>2. QED
      BY <3>1
  <2>2. CASE Join
    <3>1. CASE link = "open"
      <4>1. outbox' = Append(outbox, JoinFrame(NoCreds))
        BY <2>2, <3>1 DEF Join
      <4>2. JoinFrame(NoCreds) \in Requests
        BY RequestTypes DEF NoCreds, Credentials
      <4>3. QED
        BY <4>1, <4>2, OutboxGrows
    <3>2. CASE link # "open"
      BY <2>2, <3>2 DEF Join
    <3>3. QED
      BY <3>1, <3>2
  <2>3. CASE Connect \/ ClearFatal \/ ExpireRow \/ UNCHANGED vars
    BY <2>3 DEF Connect, ClearFatal, ExpireRow, vars, netVars
  <2>4. QED
    BY <2>1, <2>2, <2>3
<1>6. LocksAreAnswers'
  BY <1>1, <1>2, <1>3, <1>5, LocksWait DEF Following
<1>7. QED
  BY <1>4, <1>6 DEF Following

LEMMA FollowingAnswer ==
  ASSUME SessionTypeOK, Admission, Following, Answer
  PROVE  Following'
<1> DEFINE q == Screen.round
           f == AnswerFrame(q)
<1>1. q \in Nat /\ f \in Requests
  BY AnswerSent, RequestTypes
<1>2. /\ outbox' = Append(outbox, f)
      /\ UNCHANGED <<inbox, member, row, token, live, cue, heard, missed, lost>>
      /\ app'.creds = app.creds /\ app'.phase = app.phase
      /\ app'.question = app.question /\ app'.content = app.content
      /\ \/ /\ q = app.question /\ q # 0 /\ app.content = 0
            /\ app'.selected = TRUE /\ app'.submitted = app.submitted
         \/ /\ q = app.content /\ q # 0
            /\ app'.submitted = TRUE /\ app'.selected = app.selected
  BY AnswerSent
<1> HIDE DEF q, f
<1>3. Attends' => Attends
  BY <1>2 DEF Attends, Welcome
<1>4. OnlyShown' /\ PhaseComes' /\ ContentComes'
  BY <1>2, <1>3, ScreenWaits DEF Following
<1>5. /\ \A i \in DOMAIN outbox : \E j \in DOMAIN outbox' : outbox'[j] = outbox[i]
      /\ \E j \in DOMAIN outbox' : outbox'[j] = f
  BY <1>1, <1>2, OutboxGrows
<1>6. \A r : r = q \/ Accounted(r) => Accounted(r)'
  BY <1>2, <1>5 DEF Accounted, f
<1>7. \A r : Open(r, cue)' <=> Open(r, cue)
  BY <1>2 DEF Open, Shown
<1>8. LocksAreAnswers'
  BY <1>2, <1>3, <1>6, <1>7 DEF Following, LocksAreAnswers
<1>9. QED
  BY <1>4, <1>8 DEF Following

LEMMA FollowingEmptied ==
  ASSUME SessionTypeOK, Following, Emptied
  PROVE  Following'
<1>1. /\ inbox' = <<>> /\ outbox' = <<>> /\ ~member'
      /\ row' # "none" => row # "none"
      /\ UNCHANGED <<token, live, cue, heard>>
  BY EmptiedFields
<1>2. /\ \A names : ~Coming(names)' /\ DOMAIN inbox' = {}
  BY <1>1 DEF Coming
<1>3. PhaseComes'
  BY <1>1 DEF PhaseComes
<1>4. CASE Drop
  <2>1. /\ app'.creds = app.creds /\ app'.question = app.question
        /\ app'.content = app.content /\ app'.selected = app.selected
        /\ app'.submitted = app.submitted
        /\ missed' = (missed \/ inbox # <<>>)
        /\ lost' = (lost \/ outbox # <<>> \/ AckUnderWay)
    BY <1>4, EmptiedFields DEF Drop, LoseFrames, Closed, SessionTypeOK, Apps
  <2>2. Attends' => Attends
    BY <1>1, <2>1 DEF Attends, Welcome
  <2>3. OnlyShown'
    BY <1>1, <1>2, <2>1 DEF Following, OnlyShown, Shown
  <2>4. LocksAreAnswers'
    <3>1. \A i \in DOMAIN outbox : lost'
      <4>1. outbox = <<>> => DOMAIN outbox = {}
        OBVIOUS
      <4>2. QED
        BY <2>1, <4>1
    <3>2. \A i \in DOMAIN inbox : inbox[i].name = "ANSWER_ACK" => lost'
      BY <2>1 DEF AckUnderWay
    <3>3. heard \subseteq heard' /\ (lost => lost')
      BY <1>1, <2>1
    <3>4. QED
      BY <1>1, <2>1, <2>2, <3>1, <3>2, <3>3, LocksWait DEF Following
  <2>5. ContentComes'
    <3>1. Fresh' => ~missed /\ inbox = <<>>
      BY <1>1, <2>1 DEF Fresh
    <3>2. inbox = <<>> => ~Coming(ContentNames)
      BY DEF Coming
    <3>3. Fresh' => Fresh
      BY <3>1 DEF Fresh
    <3>4. \A r : ShowsRound(r)' <=> ShowsRound(r)
      BY <2>1 DEF ShowsRound
    <3>5. RoundAt(cue)' = RoundAt(cue) /\ \A r : Shown(r, cue)' <=> Shown(r, cue)
      BY <1>1 DEF RoundAt, Shown
    <3>6. QED
      BY <1>2, <2>2, <3>1, <3>2, <3>3, <3>4, <3>5 DEF Following, ContentComes
  <2>6. QED
    BY <1>3, <2>3, <2>4, <2>5 DEF Following
<1>5. CASE LoadPage \/ LeaveRoom
  <2>1. /\ app'.question = 0 /\ app'.content = 0 /\ app'.selected = FALSE
        /\ app'.submitted = FALSE
    <3>1. \A c : LET a == Initial(c)
                 IN  /\ a.question = 0 /\ a.content = 0 /\ a.selected = FALSE
                     /\ a.submitted = FALSE
      BY DEF Initial
    <3>2. LET a == [Initial(NoCreds) EXCEPT !.status = "closed"]
          IN  /\ a.question = 0 /\ a.content = 0 /\ a.selected = FALSE
              /\ a.submitted = FALSE
      BY DEF Initial
    <3>3. CASE LoadPage
      BY <3>1, <3>3 DEF LoadPage
    <3>4. CASE LeaveRoom
      BY <3>2, <3>4 DEF LeaveRoom
    <3>5. QED
      BY <1>5, <3>3, <3>4
  <2>2. OnlyShown' /\ LocksAreAnswers'
    BY <1>2, <2>1 DEF OnlyShown, LocksAreAnswers
  <2>3. ~Fresh' \/ ~Attends'
    <3>1. CASE LoadPage
      BY <1>1, <3>1 DEF LoadPage, Fresh
    <3>2. CASE LeaveRoom
      <4>1. app' = [Initial(NoCreds) EXCEPT !.status = "closed"]
        BY <3>2 DEF LeaveRoom
      <4>2. app'.creds = NoCreds
        BY <4>1 DEF Initial
      <4>3. ~app'.creds.here
        BY <4>2 DEF NoCreds
      <4>4. QED
        BY <1>1, <4>3 DEF Attends, Welcome
    <3>3. QED
      BY <1>5, <3>1, <3>2
  <2>4. ContentComes'
    BY <2>3 DEF ContentComes
  <2>5. QED
    BY <1>3, <2>2, <2>4 DEF Following
<1>6. QED
  BY <1>4, <1>5 DEF Emptied

LEMMA LatestShrinks ==
  ASSUME SessionTypeOK, inbox # <<>>, inbox' = Tail(inbox), NEW names
  PROVE  /\ \A i \in DOMAIN inbox' : IsLatest(i, names)' =>
              /\ i + 1 \in DOMAIN inbox /\ IsLatest(i + 1, names)
              /\ inbox'[i] = inbox[i + 1]
         /\ inbox[1].name \in names /\ ~Coming(names)' => IsLatest(1, names)
<1>1. /\ \A i \in DOMAIN inbox' :
           i \in Nat /\ i + 1 \in DOMAIN inbox /\ inbox'[i] = inbox[i + 1]
      /\ \A i \in DOMAIN inbox :
           i # 1 => i - 1 \in DOMAIN inbox' /\ inbox[i] = inbox'[i - 1]
  BY InboxShrinks
<1>2. \A i \in DOMAIN inbox : i \in Nat /\ 1 <= i
  BY HasFrames
<1>3. ASSUME NEW i \in DOMAIN inbox', IsLatest(i, names)'
      PROVE  IsLatest(i + 1, names)
  <2>1. inbox[i + 1].name \in names
    BY <1>1, <1>3 DEF IsLatest
  <2>2. ASSUME NEW j \in DOMAIN inbox, inbox[j].name \in names
        PROVE  j <= i + 1
    <3>1. CASE j = 1
      BY <1>1, <3>1
    <3>2. CASE j # 1
      <4>1. j - 1 <= i
        BY <1>1, <1>3, <2>2, <3>2 DEF IsLatest
      <4>2. QED
        BY <1>1, <1>2, <4>1
    <3>3. QED
      BY <3>1, <3>2
  <2>3. QED
    BY <2>1, <2>2 DEF IsLatest
<1>4. ASSUME inbox[1].name \in names, ~Coming(names)'
      PROVE  IsLatest(1, names)
  <2>1. ASSUME NEW j \in DOMAIN inbox, inbox[j].name \in names
        PROVE  j <= 1
    BY <1>1, <1>2, <1>4, <2>1 DEF Coming
  <2>2. QED
    BY <1>4, <2>1 DEF IsLatest
<1>5. QED
  BY <1>1, <1>3, <1>4

LEMMA LatestGrows ==
  ASSUME SessionTypeOK, NEW f \in Frames, inbox' = inbox \o <<f>>, NEW names
  PROVE  /\ f.name \in names =>
              \A i \in DOMAIN inbox' : IsLatest(i, names)' => inbox'[i] = f
         /\ f.name \notin names =>
              \A i \in DOMAIN inbox' : IsLatest(i, names)' =>
                i \in DOMAIN inbox /\ IsLatest(i, names) /\ inbox'[i] = inbox[i]
<1>1. /\ Len(inbox') \in DOMAIN inbox' /\ inbox'[Len(inbox')] = f
      /\ \A i \in DOMAIN inbox :
           i \in DOMAIN inbox' /\ inbox'[i] = inbox[i] /\ i < Len(inbox')
      /\ \A i \in DOMAIN inbox' : i \in DOMAIN inbox \/ i = Len(inbox')
      /\ Len(inbox') \in Nat
  BY InboxGrows, HasFrames
<1>2. \A i \in DOMAIN inbox : i \in Nat
  BY HasFrames
<1>3. ASSUME f.name \in names, NEW i \in DOMAIN inbox', IsLatest(i, names)'
      PROVE  inbox'[i] = f
  <2>1. Len(inbox') <= i
    BY <1>1, <1>3 DEF IsLatest
  <2>2. i = Len(inbox')
    BY <1>1, <1>2, <2>1
  <2>3. QED
    BY <1>1, <2>2
<1>4. ASSUME f.name \notin names, NEW i \in DOMAIN inbox', IsLatest(i, names)'
      PROVE  i \in DOMAIN inbox /\ IsLatest(i, names) /\ inbox'[i] = inbox[i]
  BY <1>1, <1>4 DEF IsLatest
<1>5. QED
  BY <1>3, <1>4

(* A phone that has not lost the server's favour after a frame is a member. *)
LEMMA ReceivesAsMember ==
  ASSUME SessionTypeOK, Admission, Receive, Attends'
  PROVE  member /\ inbox[1].name \notin Ends
<1> DEFINE e == inbox[1]
<1>1. /\ inbox # <<>> /\ 1 \in DOMAIN inbox /\ e \in Frames
      /\ Reduces(app, e, app') /\ UNCHANGED <<member, row, token, live>>
  BY ReceiveFields DEF srvVars
<1>2. CASE e.name \in Ends
  <2>1. ~member /\ app'.creds = NoCreds
    BY <1>1, <1>2 DEF Admission, EndsAreLast, Reduces, Ends, Evictions
  <2>2. QED
    BY <1>1, <2>1 DEF Attends, Welcome, NoCreds
<1>3. CASE e.name \notin Ends /\ ~member
  <2>1. PICK i \in DOMAIN inbox : inbox[i].name \in Ends
    BY <1>1, <1>3 DEF Admission, EndsAreLast, Coming
  <2>2. ~Welcome
    BY <2>1 DEF Admission, EndsAreLast
  <2>3. Welcome'
    BY <1>1, <1>3 DEF Attends
  <2>4. e.name = "PLAYER_JOIN_ACK"
    BY <1>1, <1>3, <2>2, <2>3 DEF Reduces, Welcome
  <2>5. inbox[i].name \notin Admissions
    BY <1>1, <1>3, <2>1, <2>4 DEF Admission, OneAdmission, Admissions
  <2>6. Coming(Evictions)
    BY <2>1, <2>5 DEF Coming, Ends, Admissions
  <2>7. QED
    BY <1>1, <2>3, <2>6 DEF Admission, EndsAreLast, Welcome
<1>4. QED
  BY <1>2, <1>3

LEMMA FollowingReceive ==
  ASSUME SessionTypeOK, Admission, Following, Receive
  PROVE  Following'
<1> DEFINE e == inbox[1]
<1>1. /\ inbox # <<>> /\ 1 \in DOMAIN inbox /\ e \in Frames
      /\ Reduces(app, e, app')
      /\ UNCHANGED <<member, row, token, live, cue, heard, lost>>
      /\ missed' = (missed /\ e.name # "ROUND_START")
  BY ReceiveFields DEF srvVars
<1>2. /\ RoundAt(cue)' = RoundAt(cue) /\ PhaseAt(cue)' = PhaseAt(cue)
      /\ \A r : (Shown(r, cue)' <=> Shown(r, cue)) /\ (Open(r, cue)' <=> Open(r, cue))
  BY <1>1 DEF RoundAt, PhaseAt, Shown, Open
<1>3. CASE e.name \in Evictions
  <2>1. ~Attends' /\ ~member'
    <3>1. e.name \in Ends
      BY <1>3 DEF Ends
    <3>2. ~Attends'
      BY <3>1, ReceivesAsMember
    <3>3. QED
      BY <3>2 DEF Attends
  <2>2. inbox' = <<>> /\ DOMAIN inbox' = {}
    BY <1>3, ReceiveFields
  <2>3. app'.question = app.question /\ app'.content = app.content
    BY <1>1, <1>3 DEF Reduces, Evictions
  <2>4. OnlyShown'
    BY <1>2, <2>2, <2>3 DEF Following, OnlyShown
  <2>5. QED
    BY <2>1, <2>4 DEF Following, LocksAreAnswers, PhaseComes, ContentComes
<1>4. CASE e.name \notin Evictions
  <2>1. inbox' = Tail(inbox) /\ outbox' = outbox
    BY <1>4, ReceiveFields
  <2>2. /\ \A i \in DOMAIN inbox' :
             i \in Nat /\ i + 1 \in DOMAIN inbox /\ inbox'[i] = inbox[i + 1]
        /\ \A i \in DOMAIN inbox :
             i # 1 => i - 1 \in DOMAIN inbox' /\ inbox[i] = inbox'[i - 1]
        /\ \A names : Coming(names) <=> e.name \in names \/ Coming(names)'
    BY <1>1, <2>1, InboxShrinks
  <2>3. \A names :
          /\ \A i \in DOMAIN inbox' : IsLatest(i, names)' =>
               /\ i + 1 \in DOMAIN inbox /\ IsLatest(i + 1, names)
               /\ inbox'[i] = inbox[i + 1]
          /\ e.name \in names /\ ~Coming(names)' => IsLatest(1, names)
    BY <1>1, <2>1, LatestShrinks
  <2>4. OnlyShown'
    <3>1. app'.question # 0 => Shown(app'.question, cue)
      BY <1>1 DEF Following, OnlyShown, Reduces, Shows
    <3>2. app'.content # 0 => Shown(app'.content, cue)
      BY <1>1 DEF Following, OnlyShown, Reduces, Shows
    <3>3. \A i \in DOMAIN inbox' :
            inbox'[i].name \in Shows => Shown(inbox'[i].round, cue)
      BY <2>2 DEF Following, OnlyShown
    <3>4. QED
      BY <1>2, <3>1, <3>2, <3>3 DEF OnlyShown
  <2>5. PhaseComes'
    <3>1. SUFFICES ASSUME member'
                   PROVE  /\ \A i \in DOMAIN inbox' : IsLatest(i, PhaseNames)' =>
                               inbox'[i].phase = PhaseAt(cue)
                          /\ ~Coming(PhaseNames)' => app'.phase = PhaseAt(cue)
      BY <1>2 DEF PhaseComes
    <3>2. \A i \in DOMAIN inbox :
            IsLatest(i, PhaseNames) => inbox[i].phase = PhaseAt(cue)
      BY <1>1, <3>1 DEF Following, PhaseComes
    <3>3. ASSUME ~Coming(PhaseNames)'
          PROVE  app'.phase = PhaseAt(cue)
      <4>1. CASE e.name \in PhaseNames
        <5>1. e.phase = PhaseAt(cue)
          BY <1>1, <2>3, <3>2, <3>3, <4>1
        <5>2. QED
          BY <1>1, <4>1, <5>1 DEF Reduces
      <4>2. CASE e.name \notin PhaseNames
        <5>1. app.phase = PhaseAt(cue)
          BY <1>1, <2>2, <3>1, <3>3, <4>2 DEF Following, PhaseComes
        <5>2. QED
          BY <1>1, <1>4, <4>2, <5>1 DEF Reduces
      <4>3. QED
        BY <4>1, <4>2
    <3>4. QED
      BY <2>3, <3>2, <3>3
  <2>6. Attends' => Attends /\ member
    BY ReceivesAsMember DEF Attends
  <2>7. LocksAreAnswers'
    <3>1. SUFFICES ASSUME Attends', NEW r \in Rounds, Open(r, cue),
                          \/ app'.selected /\ app'.question = r
                          \/ app'.submitted /\ app'.content = r
                   PROVE  Accounted(r)'
      BY <1>2 DEF LocksAreAnswers
    <3>2. r # 0
      BY <3>1 DEF Rounds
    <3>3. \/ app.selected /\ app.question = r
          \/ app.submitted /\ app.content = r
      BY <1>1, <3>1, <3>2 DEF Reduces
    <3>4. ~(e.name = "ANSWER_ACK" /\ e.resets)
      BY <1>1, <3>1 DEF Reduces
    <3>5. Accounted(r)
      BY <2>6, <3>1, <3>3 DEF Following, LocksAreAnswers
    <3>6. \A i \in DOMAIN inbox :
            inbox[i].name = "ANSWER_ACK" /\ inbox[i].resets =>
              i - 1 \in DOMAIN inbox' /\ inbox[i] = inbox'[i - 1]
      BY <2>2, <3>4
    <3> HIDE DEF e
    <3>7. QED
      BY <1>1, <2>1, <3>5, <3>6 DEF Accounted
  <2>8. ContentComes'
    <3> DEFINE r == RoundAt(cue)
    <3>1. SUFFICES ASSUME Attends', Fresh', Shown(r, cue)
                   PROVE  /\ \A i \in DOMAIN inbox' : IsLatest(i, ContentNames)' =>
                               /\ inbox'[i].name = ShowEvent(Kinds[r])
                               /\ inbox'[i].round = r
                          /\ ~Coming(ContentNames)' => ShowsRound(r)'
      BY <1>2 DEF ContentComes
    <3>2. Fresh
      BY <1>1, <2>2, <2>6, <3>1 DEF Fresh
    <3>3. /\ \A i \in DOMAIN inbox : IsLatest(i, ContentNames) =>
               inbox[i].name = ShowEvent(Kinds[r]) /\ inbox[i].round = r
          /\ ~Coming(ContentNames) => ShowsRound(r)
      BY <2>6, <3>1, <3>2 DEF Following, ContentComes
    <3>4. ASSUME ~Coming(ContentNames)'
          PROVE  IF IsQuiz(r) THEN app'.content = 0 /\ app'.question = r
                              ELSE app'.content = r
      <4>1. CASE e.name \in ContentNames
        <5>1. e.name = ShowEvent(Kinds[r]) /\ e.round = r
          BY <1>1, <2>3, <3>3, <3>4, <4>1
        <5>2. QED
          BY <1>1, <5>1 DEF Reduces, ShowEvent, IsQuiz
      <4>2. CASE e.name \notin ContentNames
        <5>1. ShowsRound(r)
          BY <2>2, <3>3, <3>4, <4>2
        <5>2. app'.content = app.content /\ app'.question = app.question
          BY <1>1, <4>2 DEF Reduces, ContentNames, Shows
        <5>3. QED
          BY <5>1, <5>2 DEF ShowsRound
      <4>3. QED
        BY <4>1, <4>2
    <3>5. ~Coming(ContentNames)' => ShowsRound(r)'
      BY <1>2, <3>4 DEF ShowsRound
    <3>6. QED
      BY <2>3, <3>3, <3>5
  <2>9. QED
    BY <2>4, <2>5, <2>7, <2>8 DEF Following
<1>5. QED
  BY <1>3, <1>4

LEMMA FollowingHandleJoin ==
  ASSUME SessionTypeOK, Admission, Following, HandleJoin
  PROVE  Following'
<1> DEFINE c == outbox[1].creds
<1>1. /\ outbox # <<>> /\ 1 \in DOMAIN outbox /\ Asks(1)
      /\ outbox' = Tail(outbox)
      /\ UNCHANGED <<app, live, cue, heard, missed, lost>>
  BY JoinHandled
<1>2. Asked
  BY <1>1 DEF Asked
<1>3. ~member /\ ~Coming(Admissions \cup Ends) /\ c = app.creds
  BY <1>1, <1>2 DEF Admission, OneAdmission
<1>4. ~Coming(Ends)
  BY <1>3 DEF Coming
<1>5. inbox = <<>> /\ DOMAIN inbox = {}
  BY <1>3, <1>4 DEF Admission, EndsAreLast
<1>6. /\ RoundAt(cue)' = RoundAt(cue) /\ PhaseAt(cue)' = PhaseAt(cue)
      /\ \A r : /\ Shown(r, cue)' <=> Shown(r, cue)
                /\ Open(r, cue)' <=> Open(r, cue)
                /\ ShowsRound(r)' <=> ShowsRound(r)
      /\ cue \in Cues
  BY <1>1 DEF RoundAt, PhaseAt, Shown, Open, ShowsRound, SessionTypeOK
<1>7. CASE ~(\E avatar \in BOOLEAN : Admits(avatar))
  <2>1. PICK x \in {"fatal", "join"} : Rejects(x) /\ ~Welcome
    <3>1. \/ ~Found(c) /\ Rejects("fatal")
          \/ Found(c) /\ Known(c) /\ c.token # token /\ Rejects("join")
          \/ Found(c) /\ ~Known(c) /\ Rejects("join")
      BY <1>7, JoinHandled
    <3>2. ~Found(c) => ~Welcome
      BY <1>3 DEF Found, Welcome
    <3>3. c.token # token => ~Welcome
      BY <1>3 DEF Welcome
    <3>4. ~Known(c) => ~Welcome
      BY <1>3 DEF Known, Welcome, NoCreds
    <3>5. QED
      BY <3>1, <3>2, <3>3, <3>4
  <2> DEFINE f == Rejected(x)
  <2>2. /\ f \in Frames /\ f.name = "PLAYER_JOIN_REJECTED"
        /\ inbox' = inbox \o <<f>> /\ UNCHANGED <<member, row, token>>
    BY <2>1, FrameTypes DEF Rejects
  <2> HIDE DEF f
  <2>3. \A i \in DOMAIN inbox' : inbox'[i] = f
    BY <1>5, <2>2, InboxGrows
  <2>4. ~Attends' /\ ~member'
    BY <1>1, <1>3, <2>1, <2>2 DEF Attends, Welcome
  <2>5. OnlyShown'
    BY <1>1, <1>6, <2>2, <2>3 DEF Following, OnlyShown, Shows
  <2>6. QED
    BY <2>4, <2>5 DEF Following, LocksAreAnswers, PhaseComes, ContentComes
<1>8. ASSUME NEW avatar \in BOOLEAN, Admits(avatar)
      PROVE  Following'
  <2> DEFINE new == [token |-> FreshToken, avatar |-> avatar, here |-> TRUE]
             f == Ack(new)
             g == RoomState
  <2>1. /\ f \in Frames /\ f.name = "PLAYER_JOIN_ACK"
        /\ g \in Frames /\ g.name = "ROOM_STATE_UPDATE" /\ g.phase = PhaseAt(cue)
    <3>1. new \in Credentials
      BY AckTyped
    <3> HIDE DEF new
    <3>2. f \in Frames /\ f.name = "PLAYER_JOIN_ACK"
      BY <3>1, FrameTypes
    <3>3. QED
      BY <1>6, <3>2, RoomStateType
  <2>2. inbox' = inbox \o <<f, g>>
    BY <1>8 DEF Admits
  <2> HIDE DEF f, g, new
  <2>3. /\ \A i \in DOMAIN inbox' :
             \/ i = Len(inbox') - 1 /\ inbox'[i] = f
             \/ i = Len(inbox') /\ inbox'[i] = g
        /\ Len(inbox') \in DOMAIN inbox' /\ inbox'[Len(inbox')] = g
        /\ Len(inbox') \in Nat
    BY <1>5, <2>1, <2>2, HasFrames, TwoMore
  <2>4. /\ Coming(PhaseNames)' /\ ~Coming(ContentNames)'
        /\ ~Coming({"ROUND_START"})'
        /\ \A i \in DOMAIN inbox' : inbox'[i].name \notin Shows \cup ContentNames
        /\ \A i \in DOMAIN inbox' : inbox'[i].name \in PhaseNames =>
             inbox'[i].phase = PhaseAt(cue)
    BY <2>1, <2>3 DEF PhaseNames, ContentNames, Shows, Coming
  <2>5. Welcome \/ PhaseAt(cue) = "lobby"
    <3>1. \/ Found(c) /\ Known(c) /\ c.token = token
          \/ Found(c) /\ ~Known(c) /\ PhaseAt(cue) = "lobby"
          \/ \E x \in {"fatal", "join"} : Rejects(x)
      BY JoinHandled
    <3>2. ~\E x \in {"fatal", "join"} : Rejects(x)
      <4>1. SUFFICES ASSUME NEW x \in {"fatal", "join"}, Rejects(x) PROVE FALSE
        OBVIOUS
      <4>2. member' = member
        BY <4>1 DEF Rejects
      <4>3. QED
        BY <1>3, <1>8, <4>2 DEF Admits
    <3>3. Found(c) /\ Known(c) /\ c.token = token => Welcome
      BY <1>3 DEF Found, Known, Welcome
    <3>4. QED
      BY <3>1, <3>2, <3>3
  <2>6. Welcome \/ \A r : ~Shown(r, cue)
    BY <1>6, <2>5, CueFacts
  <2>7. OnlyShown'
    BY <1>1, <1>6, <2>4 DEF Following, OnlyShown
  <2>8. PhaseComes'
    BY <1>6, <2>4 DEF PhaseComes, IsLatest
  <2>9. ContentComes'
    <3>1. SUFFICES ASSUME Attends', Fresh', Shown(RoundAt(cue), cue)
                   PROVE  /\ \A i \in DOMAIN inbox' : ~IsLatest(i, ContentNames)'
                          /\ ShowsRound(RoundAt(cue))
      BY <1>6 DEF ContentComes
    <3>2. Fresh /\ Attends /\ ~Coming(ContentNames)
      BY <1>1, <1>5, <2>4, <2>6, <3>1 DEF Fresh, Attends, Coming
    <3>3. ShowsRound(RoundAt(cue))
      BY <3>1, <3>2 DEF Following, ContentComes
    <3>4. QED
      BY <2>4, <3>3 DEF IsLatest
  <2>10. LocksAreAnswers'
    <3>1. SUFFICES ASSUME NEW r \in Rounds, Open(r, cue),
                          \/ app.selected /\ app.question = r
                          \/ app.submitted /\ app.content = r
                   PROVE  Accounted(r)'
      BY <1>1, <1>6 DEF LocksAreAnswers
    <3>2. Attends
      BY <2>6, <3>1 DEF Open, Attends
    <3>3. Accounted(r)
      BY <3>1, <3>2 DEF Following, LocksAreAnswers
    <3>4. ASSUME NEW i \in DOMAIN outbox, outbox[i] = AnswerFrame(r)
          PROVE  \E j \in DOMAIN outbox' : outbox'[j] = AnswerFrame(r)
      <4>1. i # 1
        BY <1>1, <3>4 DEF Asks, AnswerFrame
      <4>2. QED
        BY <1>1, <3>4, <4>1, OutboxShrinks
    <3>5. QED
      BY <1>1, <1>5, <3>3, <3>4 DEF Accounted
  <2>11. QED
    BY <2>7, <2>8, <2>9, <2>10 DEF Following
<1>9. QED
  BY <1>7, <1>8

(* A frame that is no part of the game leaves the screen in step. *)
LEMMA ScreenGrows ==
  ASSUME SessionTypeOK, OnlyShown, PhaseComes, ContentComes,
         NEW f \in Frames, inbox' = inbox \o <<f>>,
         f.name \notin PhaseNames \cup ContentNames,
         UNCHANGED <<app, cue, missed, member>>, Attends' => Attends
  PROVE  OnlyShown' /\ PhaseComes' /\ ContentComes'
<1>1. /\ RoundAt(cue)' = RoundAt(cue) /\ PhaseAt(cue)' = PhaseAt(cue)
      /\ \A r : /\ Shown(r, cue)' <=> Shown(r, cue)
                /\ ShowsRound(r)' <=> ShowsRound(r)
  BY DEF RoundAt, PhaseAt, Shown, ShowsRound
<1>2. /\ \A i \in DOMAIN inbox' :
           \/ i \in DOMAIN inbox /\ inbox'[i] = inbox[i]
           \/ inbox'[i] = f
      /\ \A names : Coming(names)' <=> Coming(names) \/ f.name \in names
  BY InboxGrows
<1>3. /\ f.name \notin PhaseNames /\ f.name \notin ContentNames
      /\ f.name \notin Shows /\ f.name \notin {"ROUND_START"}
  BY DEF ContentNames
<1>4. \A names : f.name \notin names =>
        \A i \in DOMAIN inbox' : IsLatest(i, names)' =>
          i \in DOMAIN inbox /\ IsLatest(i, names) /\ inbox'[i] = inbox[i]
  BY LatestGrows
<1>5. OnlyShown'
  BY <1>1, <1>2, <1>3 DEF OnlyShown
<1>6. PhaseComes'
  BY <1>1, <1>2, <1>3, <1>4 DEF PhaseComes
<1>7. Fresh' => Fresh
  BY <1>2, <1>3 DEF Fresh
<1>8. ContentComes'
  BY <1>1, <1>2, <1>3, <1>4, <1>7 DEF ContentComes
<1>9. QED
  BY <1>5, <1>6, <1>8

(* Answers of a phone that counts on its place are a member's. *)
LEMMA AnswersAsMember ==
  ASSUME SessionTypeOK, Admission, HandleAnswer, Attends
  PROVE  member
<1>1. SUFFICES ASSUME ~member PROVE FALSE
  OBVIOUS
<1>2. Welcome
  BY <1>1 DEF Attends
<1>3. link = "open" /\ ~Asks(1)
  BY AnswerFields
<1>4. ~Coming(Ends)
  BY <1>2 DEF Admission, EndsAreLast, Coming
<1>5. app.creds # NoCreds
  BY <1>2 DEF Welcome, NoCreds
<1>6. \A i \in DOMAIN outbox : ~Asks(i)
  BY <1>3, <1>5 DEF Admission, OneAdmission
<1>7. ~Asked
  BY <1>6 DEF Asked
<1>8. QED
  BY <1>1, <1>3, <1>4, <1>5, <1>7 DEF Admission, EndsAreLast

LEMMA FollowingHandleAnswer ==
  ASSUME SessionTypeOK, Admission, Following, HandleAnswer
  PROVE  Following'
<1> DEFINE q == outbox[1].round
<1>1. /\ outbox # <<>> /\ outbox' = Tail(outbox)
      /\ UNCHANGED <<app, member, row, token, live, cue, missed, lost>>
      /\ heard \subseteq heard'
  BY AnswerFields
<1>2. Attends' <=> Attends
  BY <1>1 DEF Attends, Welcome
<1>3. ASSUME inbox' = inbox
      PROVE  OnlyShown' /\ PhaseComes' /\ ContentComes'
  BY <1>1, <1>2, <1>3, ScreenWaits DEF Following
<1>4. ASSUME NEW b \in BOOLEAN, inbox' = inbox \o <<AnswerAck(b)>>
      PROVE  /\ OnlyShown' /\ PhaseComes' /\ ContentComes'
             /\ \A i \in DOMAIN inbox : i \in DOMAIN inbox' /\ inbox'[i] = inbox[i]
             /\ b => \E i \in DOMAIN inbox' :
                       inbox'[i].name = "ANSWER_ACK" /\ inbox'[i].resets
  <2> DEFINE f == AnswerAck(b)
  <2>1. f \in Frames /\ f.name = "ANSWER_ACK" /\ f.resets = b
    BY FrameTypes
  <2>2. inbox' = inbox \o <<f>>
    BY <1>4
  <2> HIDE DEF f
  <2>3. f.name \notin PhaseNames \cup ContentNames
    BY <2>1 DEF PhaseNames, ContentNames, Shows
  <2>4. OnlyShown' /\ PhaseComes' /\ ContentComes'
    BY <1>1, <1>2, <2>1, <2>2, <2>3, ScreenGrows DEF Following
  <2>5. QED
    BY <2>1, <2>2, <2>4, InboxGrows
<1>5. \/ inbox' = inbox
      \/ \E b \in BOOLEAN : inbox' = inbox \o <<AnswerAck(b)>>
  BY AnswerFields
<1>6. OnlyShown' /\ PhaseComes' /\ ContentComes'
  BY <1>3, <1>4, <1>5
<1>7. LocksAreAnswers'
  <2>1. SUFFICES ASSUME Attends, NEW r \in Rounds, Open(r, cue),
                        \/ app.selected /\ app.question = r
                        \/ app.submitted /\ app.content = r
                 PROVE  Accounted(r)'
    <3>1. \A r : Open(r, cue)' <=> Open(r, cue)
      BY <1>1 DEF Open, Shown
    <3>2. QED
      BY <1>1, <1>2, <3>1 DEF LocksAreAnswers
  <2>2. member
    BY <2>1, AnswersAsMember
  <2>3. Accounted(r)
    BY <2>1 DEF Following, LocksAreAnswers
  <2>4. \A i \in DOMAIN inbox : i \in DOMAIN inbox' /\ inbox'[i] = inbox[i]
    BY <1>4, <1>5
  <2>5. CASE outbox[1] = AnswerFrame(r)
    <3>1. q = r
      BY <2>5 DEF AnswerFrame
    <3>2. \/ r \in heard'
          \/ inbox' = inbox \o <<AnswerAck(TRUE)>>
      BY <2>1, <2>2, <3>1, AnswerFields
    <3>3. QED
      BY <1>4, <3>2 DEF Accounted
  <2>6. CASE outbox[1] # AnswerFrame(r)
    <3>1. ASSUME NEW i \in DOMAIN outbox, outbox[i] = AnswerFrame(r)
          PROVE  \E j \in DOMAIN outbox' : outbox'[j] = AnswerFrame(r)
      BY <1>1, <2>6, <3>1, OutboxShrinks
    <3>2. QED
      BY <1>1, <2>3, <2>4, <3>1 DEF Accounted
  <2>7. QED
    BY <2>5, <2>6
<1>8. QED
  BY <1>6, <1>7 DEF Following

(* What is shown and what is revealed stays so. *)
LEMMA ShownMore ==
  ASSUME NEW n \in Nat, NEW r
  PROVE  /\ Shown(r, n) => Shown(r, n + 1)
         /\ Open(r, n + 1) /\ Shown(r, n) => Open(r, n)
         /\ Script[n + 1].name \in Shows /\ Script[n + 1].round = r => Shown(r, n + 1)
<1>1. \A i \in 1..n : i \in 1..(n + 1)
  OBVIOUS
<1>2. n + 1 \in 1..(n + 1)
  OBVIOUS
<1>3. QED
  BY <1>1, <1>2 DEF Open, Shown, ShownIn, RevealedIn, Shows

(* The round at an event is shown by it, or was by an earlier one of its own. *)
LEMMA ShownNow ==
  ASSUME NEW n \in Cues, n + 1 \in 1..Len(Script), Shown(RoundAt(n + 1), n + 1)
  PROVE  LET e == Script[n + 1]
             r == RoundAt(n + 1)
         IN  \/ e.name = ShowEvent(Kinds[r]) /\ e.round = r
             \/ /\ e.name \notin ContentNames
                /\ RoundAt(n) = r /\ Shown(r, n)
<1> DEFINE m == n + 1
           r == RoundAt(n + 1)
           o == Offset(Kinds, n + 1)
<1>1. Len(Script) \in Nat /\ n \in Nat /\ m \in Nat /\ m - 1 = n
  BY ScriptIs, KindsLength, ScriptLength DEF Cues
<1>2. r = RoundOf(Kinds, m) /\ r \in Rounds /\ o \in 1..8
      /\ m = 7 * (r - 1) + o /\ r \in Nat
  BY RoundAtCue, ScriptIs, Places DEF Rounds
<1>3. m \in Cues
  BY <1>1 DEF Cues
<1>4. o >= 4
  <2>1. 7 * (r - 1) + 4 <= m
    BY <1>3, ShownAtCue
  <2>2. o \in 1..8 /\ m = 7 * (r - 1) + o /\ r \in Nat
    BY <1>2
  <2> HIDE DEF m, r, o
  <2>3. QED
    BY ONLY <2>1, <2>2
<1>5. /\ Script[m].round = r
      /\ Script[m].name \in Shows <=> Offset(Kinds, m) = 4
      /\ Script[m].name \in Shows => Script[m].name = ShowEvent(Kinds[r])
      /\ Script[m].name = "ROUND_START" <=> Offset(Kinds, m) = 1
  BY <1>2, ScriptIs, EventNames
<1>6. CASE o = 4
  BY <1>5, <1>6
<1>7. CASE o # 4
  <2>1. Script[m].name \notin ContentNames
    BY <1>4, <1>5, <1>7 DEF ContentNames
  <2>2. n \in 1..Len(Script) /\ RoundOf(Kinds, n) = r
    BY <1>1, <1>2, <1>4, ScriptIs, Previous
  <2>3. RoundAt(n) = r
    BY <2>2, RoundAtCue
  <2>4. 7 * (r - 1) + 4 <= n
    <3>1. /\ o \in 1..8 /\ m = 7 * (r - 1) + o /\ r \in Nat
          /\ m - 1 = n /\ n \in Nat
      BY <1>1, <1>2
    <3> HIDE DEF m, r, o
    <3>2. QED
      BY ONLY <1>4, <1>7, <3>1
  <2>5. Shown(r, n)
    BY <1>2, <2>4, ShownAtCue
  <2>6. QED
    BY <2>1, <2>3, <2>5
<1>8. QED
  BY <1>6, <1>7

LEMMA FollowingBroadcast ==
  ASSUME SessionTypeOK, Admission, Following, Broadcast
  PROVE  Following'
<1> DEFINE f == Script[cue + 1]
           r == RoundAt(cue + 1)
<1>1. /\ cue + 1 \in 1..Len(Script) /\ cue' = cue + 1 /\ cue + 1 \in Cues
      /\ cue \in Cues /\ f \in Frames
      /\ live' => live
      /\ \/ member /\ inbox' = inbox \o <<f>> /\ missed' = missed
         \/ ~member /\ missed' = TRUE /\ inbox' = inbox
      /\ UNCHANGED <<app, outbox, member, row, token, heard, lost>>
  BY BroadcastFields
<1>2. cue \in Nat
  BY <1>1, ScriptIs, KindsLength, ScriptLength DEF Cues
<1>3. Attends' => Attends
  BY <1>1 DEF Attends, Welcome
<1>4. /\ \A q : Shown(q, cue)' <=> Shown(q, cue + 1)
      /\ \A q : Open(q, cue)' <=> Open(q, cue + 1)
      /\ RoundAt(cue)' = r /\ PhaseAt(cue)' = PhaseAt(cue + 1)
      /\ \A q : ShowsRound(q)' <=> ShowsRound(q)
  BY <1>1 DEF Shown, Open, RoundAt, PhaseAt, ShowsRound
<1>5. /\ f.name \in ScriptNames
      /\ f.name \in Shows => Shown(f.round, cue + 1)
      /\ f.name \in PhaseNames => f.phase = PhaseAt(cue + 1)
      /\ f.name \notin PhaseNames => PhaseAt(cue + 1) = PhaseAt(cue)
  <2>1. f.name \in ScriptNames
    BY <1>1, ScriptIs, EventNames
  <2>2. f.name \in Shows => Shown(f.round, cue + 1)
    BY <1>2, ShownMore
  <2>3. f.name \in PhaseNames <=> f.name = "GAME_PHASE_CHANGE"
    BY <2>1 DEF ScriptNames, Shows, Reveals, PhaseNames
  <2>4. PhaseAt(cue + 1) = IF f.name = "GAME_PHASE_CHANGE"
                           THEN f.phase ELSE PhaseAt(cue)
    BY <1>2, PhaseAtCue
  <2>5. QED
    BY <2>1, <2>2, <2>3, <2>4
<1>6. Shown(r, cue + 1) => \/ f.name = ShowEvent(Kinds[r]) /\ f.round = r
                           \/ /\ f.name \notin ContentNames
                              /\ RoundAt(cue) = r /\ Shown(r, cue)
  BY <1>1, ShownNow
<1>7. \A q : /\ Shown(q, cue) => Shown(q, cue + 1)
             /\ Open(q, cue + 1) /\ Shown(q, cue) => Open(q, cue)
  BY <1>2, ShownMore
<1> HIDE DEF f, r
<1>8. ASSUME inbox' = inbox \o <<f>>
      PROVE  /\ \A i \in DOMAIN inbox : i \in DOMAIN inbox' /\ inbox'[i] = inbox[i]
             /\ \A i \in DOMAIN inbox' :
                  (i \in DOMAIN inbox /\ inbox'[i] = inbox[i]) \/ inbox'[i] = f
             /\ \A names : Coming(names)' <=> Coming(names) \/ f.name \in names
             /\ \A names : f.name \in names =>
                  \A i \in DOMAIN inbox' : IsLatest(i, names)' => inbox'[i] = f
             /\ \A names : f.name \notin names =>
                  \A i \in DOMAIN inbox' : IsLatest(i, names)' =>
                    i \in DOMAIN inbox /\ IsLatest(i, names) /\ inbox'[i] = inbox[i]
  BY <1>1, <1>8, InboxGrows, LatestGrows
<1>9. OnlyShown'
  <2>1. \A i \in DOMAIN inbox' :
          inbox'[i].name \in Shows => Shown(inbox'[i].round, cue + 1)
    <3>1. CASE inbox' = inbox
      BY <1>7, <3>1 DEF Following, OnlyShown
    <3>2. CASE inbox' = inbox \o <<f>>
      BY <1>5, <1>7, <1>8, <3>2 DEF Following, OnlyShown
    <3>3. QED
      BY <1>1, <3>1, <3>2
  <2>2. QED
    BY <1>1, <1>4, <1>7, <2>1 DEF Following, OnlyShown
<1>10. PhaseComes'
  <2>1. SUFFICES ASSUME member, inbox' = inbox \o <<f>>
                 PROVE  PhaseComes'
    BY <1>1 DEF PhaseComes
  <2>2. CASE f.name \in PhaseNames
    BY <1>4, <1>5, <1>8, <2>1, <2>2 DEF PhaseComes
  <2>3. CASE f.name \notin PhaseNames
    BY <1>1, <1>4, <1>5, <1>8, <2>1, <2>3 DEF Following, PhaseComes
  <2>4. QED
    BY <2>2, <2>3
<1>11. LocksAreAnswers'
  <2>1. SUFFICES ASSUME Attends, NEW q \in Rounds, Open(q, cue + 1),
                        \/ app.selected /\ app.question = q
                        \/ app.submitted /\ app.content = q
                 PROVE  Accounted(q)'
    BY <1>1, <1>3, <1>4 DEF LocksAreAnswers
  <2>2. Shown(q, cue)
    <3>1. q # 0
      BY <2>1 DEF Rounds
    <3>2. QED
      BY <2>1, <3>1 DEF Following, OnlyShown
  <2>3. Accounted(q)
    BY <1>7, <2>1, <2>2 DEF Following, LocksAreAnswers
  <2>4. \A i \in DOMAIN inbox : i \in DOMAIN inbox' /\ inbox'[i] = inbox[i]
    BY <1>1, <1>8
  <2>5. QED
    BY <1>1, <2>3, <2>4 DEF Accounted
<1>12. ContentComes'
  <2>1. SUFFICES ASSUME Attends', Fresh', Shown(r, cue + 1)
                 PROVE  /\ \A i \in DOMAIN inbox' : IsLatest(i, ContentNames)' =>
                             /\ inbox'[i].name = ShowEvent(Kinds[r])
                             /\ inbox'[i].round = r
                        /\ ~Coming(ContentNames)' => ShowsRound(r)
    BY <1>4 DEF ContentComes
  <2>2. member /\ inbox' = inbox \o <<f>> /\ missed' = missed
    BY <1>1, <2>1 DEF Fresh
  <2>3. CASE f.name = ShowEvent(Kinds[r]) /\ f.round = r
    <3>1. f.name \in ContentNames
      BY <2>3 DEF ShowEvent, ContentNames, Shows
    <3>2. QED
      BY <1>8, <2>2, <2>3, <3>1
  <2>4. CASE f.name \notin ContentNames /\ RoundAt(cue) = r /\ Shown(r, cue)
    <3>1. f.name \notin {"ROUND_START"}
      BY <2>4 DEF ContentNames
    <3>2. Fresh
      BY <1>1, <1>8, <2>1, <2>2, <3>1 DEF Fresh
    <3>3. /\ \A i \in DOMAIN inbox : IsLatest(i, ContentNames) =>
               inbox[i].name = ShowEvent(Kinds[r]) /\ inbox[i].round = r
          /\ ~Coming(ContentNames) => ShowsRound(r)
      BY <1>3, <2>1, <2>4, <3>2 DEF Following, ContentComes
    <3>4. QED
      BY <1>8, <2>2, <2>4, <3>3
  <2>5. QED
    BY <1>6, <2>1, <2>3, <2>4
<1>13. QED
  BY <1>9, <1>10, <1>11, <1>12 DEF Following

LEMMA FollowingEvict ==
  ASSUME SessionTypeOK, Following, Evict
  PROVE  Following'
<1>1. /\ ~member' /\ (row' = "none" \/ ~live') /\ UNCHANGED <<app, cue>>
      /\ \/ inbox' = inbox
         \/ \E x \in Evictions : inbox' = inbox \o <<Event(x, 0, "-")>>
  BY EvictFields
<1>2. ~Attends'
  BY <1>1 DEF Attends, Welcome
<1>3. \A r : Shown(r, cue)' <=> Shown(r, cue)
  BY <1>1 DEF Shown
<1>4. OnlyShown'
  <2>1. CASE inbox' = inbox
    BY <1>1, <1>3, <2>1 DEF Following, OnlyShown
  <2>2. ASSUME NEW x \in Evictions, inbox' = inbox \o <<Event(x, 0, "-")>>
        PROVE  OnlyShown'
    <3> DEFINE f == Event(x, 0, "-")
    <3>1. f \in Frames /\ f.name = x
      BY FrameTypes
    <3>2. inbox' = inbox \o <<f>>
      BY <2>2
    <3> HIDE DEF f
    <3>3. f.name \notin Shows
      BY <3>1 DEF Evictions, Shows
    <3>4. \A i \in DOMAIN inbox' :
            (i \in DOMAIN inbox /\ inbox'[i] = inbox[i]) \/ inbox'[i] = f
      BY <3>1, <3>2, InboxGrows
    <3>5. QED
      BY <1>1, <1>3, <3>3, <3>4 DEF Following, OnlyShown
  <2>3. QED
    BY <1>1, <2>1, <2>2
<1>5. QED
  BY <1>1, <1>2, <1>4 DEF Following, LocksAreAnswers, PhaseComes, ContentComes

LEMMA FollowingStep ==
  ASSUME SessionTypeOK, Admission, Following, [Next]_vars
  PROVE  Following'
BY FollowingWaits, FollowingAnswer, FollowingEmptied, FollowingReceive,
   FollowingHandleJoin, FollowingHandleAnswer, FollowingBroadcast, FollowingEvict
   DEF Next, Phone, Server, Emptied

(* What is under way and what the phone has made of what has come say the    *)
(* same of the room's phase, of the question or content of the round, and of *)
(* the player's answers.                                                     *)
THEOREM PhonesFollow == Spec => []Following
<1>1. Init => SessionTypeOK /\ Admission /\ Following
  BY SessionInit, AdmissionInit, FollowingInit
<1>2. SessionTypeOK /\ Admission /\ Following /\ [Next]_vars
        => (SessionTypeOK /\ Admission /\ Following)'
  BY SessionTyped, AdmissionStep, FollowingStep
<1>3. QED
  BY <1>1, <1>2, PTL DEF Spec

(* A phone that has missed nothing of the round is locked only by an answer  *)
(* that the server holds or will hear of (handleAnswer, ANSWER_ACK), or that *)
(* was lost with its socket, whatever was sent and dropped before.           *)
THEOREM LocksAreHeard == Spec => []LockedMeansHeard
<1>1. SessionTypeOK /\ Following => LockedMeansHeard
  <2> DEFINE r == Screen.round
  <2>1. SUFFICES ASSUME SessionTypeOK, Following, InStep, Locked,
                        Screen.what \in {"quiz", "game"}, Open(r, cue)
                 PROVE  \/ r \in heard \/ lost \/ AckUnderWay
                        \/ \E i \in DOMAIN outbox : outbox[i] = AnswerFrame(r)
    BY DEF LockedMeansHeard
  <2>2. Attends
    BY <2>1 DEF InStep, Attends
  <2>3. \/ app.selected /\ app.question = r
        \/ app.submitted /\ app.content = r
    BY <2>1, OnScreen
  <2>4. r \in Rounds
    BY <2>1, CueFacts DEF Open, SessionTypeOK
  <2> HIDE DEF r
  <2>5. Accounted(r)
    BY <2>1, <2>2, <2>3, <2>4 DEF Following, LocksAreAnswers
  <2>6. QED
    BY <2>5 DEF Accounted, AckUnderWay
<1>2. QED
  BY <1>1, SessionTypeCorrect, PhonesFollow, PTL

(* A phone that has missed nothing of the round, and has handled all that was *)
(* sent, shows what the room is at (renderApp, clientSocketReducer).          *)
THEOREM ScreensFollow == Spec => []ScreenFollowsGame
<1>1. SessionTypeOK /\ Admission /\ Following => ScreenFollowsGame
  <2> DEFINE r == RoundAt(cue)
  <2>1. SUFFICES ASSUME SessionTypeOK, Admission, Following, InStep, ~missed
                 PROVE  \/ Screen = Expected(cue)
                        \/ PhaseAt(cue) = "playing" /\ ~Shown(r, cue)
                        \/ PhaseAt(cue) = "leaderboard" /\ app.final
    BY DEF ScreenFollowsGame
  <2>2. app.joined /\ member /\ inbox = <<>>
    BY <2>1 DEF InStep
  <2>3. \A names : ~Coming(names)
    BY <2>2 DEF Coming
  <2>4. app.error # "fatal" /\ Screen = JoinedScreen
    BY <2>1, <2>2 DEF Admission, AppIsSane, Screen, SessionTypeOK, Apps
  <2>5. app.phase = PhaseAt(cue)
    BY <2>1, <2>2, <2>3 DEF Following, PhaseComes
  <2>6. /\ cue \in Cues /\ PhaseAt(cue) \in Phases
        /\ PhaseAt(cue) = "reveal" => Shown(r, cue)
        /\ Shown(r, cue) => r \in Rounds
    BY <2>1, CueFacts DEF SessionTypeOK
  <2>7. CASE Shown(r, cue) /\ PhaseAt(cue) \in {"playing", "reveal"}
    <3>1. ShowsRound(r)
      BY <2>1, <2>2, <2>3, <2>7 DEF Following, ContentComes, Attends, Fresh
    <3>2. r # 0
      BY <2>6, <2>7 DEF Rounds
    <3>3. Gameplay = Show(IF IsQuiz(r) THEN "quiz" ELSE "game", r)
      BY <3>1, <3>2 DEF ShowsRound, Gameplay
    <3>4. JoinedScreen = Gameplay
      BY <2>5, <2>7 DEF JoinedScreen
    <3>5. QED
      BY <2>4, <2>7, <3>3, <3>4 DEF Expected
  <2>8. CASE PhaseAt(cue) \notin {"playing", "reveal"}
    BY <2>4, <2>5, <2>6, <2>8 DEF JoinedScreen, Expected, Phases
  <2>9. QED
    BY <2>6, <2>7, <2>8
<1>2. QED
  BY <1>1, SessionTypeCorrect, AdmissionsAreOrderly, PhonesFollow, PTL
===============================================================================
