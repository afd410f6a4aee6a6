----------------------------- MODULE AnswerService -----------------------------
(***************************************************************************)
(* answer.service.ts: the answer window of the room.  A window is an       *)
(* object the handlers hold on to across their awaits, so its content is   *)
(* kept per round even after the map no longer has it.                     *)
(*                                                                         *)
(* An INSERT and the handler's continuation are one step, because nothing  *)
(* between the two reads a value the continuation writes.                  *)
(***************************************************************************)
EXTENDS GameData

VARIABLES
  window,     \* windows.get(roomId).roundId, or NoRound
  submitted,  \* round -> keys of its window's `submitted`
  progress,   \* round -> keys of its window's `progress`
  visited,    \* round -> players the loop over `progress` has passed
  saving,     \* round -> player -> what its INSERT in flight came from
  finalizing, \* rounds whose finalizeWindow() is awaiting a query
  accepted    \* history: round -> players acknowledged with accepted: true

answerVars ==
  <<window, submitted, progress, visited, saving, finalizing, accepted>>

SaveKinds == {"none", "submit", "snapshot"}

AnswerTypeOK ==
  /\ window \in RoundNumbers \cup {NoRound}
  /\ submitted \in [RoundNumbers -> SUBSET Players]
  /\ progress \in [RoundNumbers -> SUBSET Players]
  /\ visited \in [RoundNumbers -> SUBSET Players]
  /\ saving \in [RoundNumbers -> [Players -> SaveKinds]]
  /\ finalizing \subseteq RoundNumbers
  /\ accepted \in [RoundNumbers -> SUBSET Players]

AnswerInit ==
  /\ window = NoRound
  /\ submitted = [r \in RoundNumbers |-> {}]
  /\ progress = [r \in RoundNumbers |-> {}]
  /\ visited = [r \in RoundNumbers |-> {}]
  /\ saving = [r \in RoundNumbers |-> [p \in Players |-> "none"]]
  /\ finalizing = {}
  /\ accepted = [r \in RoundNumbers |-> {}]

AddTo(f, r, p) == [f EXCEPT ![r] = @ \cup {p}]
RemoveFrom(f, r, p) == [f EXCEPT ![r] = @ \ {p}]

\* submit() and submitRound(): the guards, then the synchronous part of
\* persistSubmission().  A rejected submission changes nothing.
Submit(p, r) ==
  /\ p \in conn
  /\ window = r
  /\ p \notin submitted[r]
  /\ submitted' = AddTo(submitted, r, p)
  /\ saving' = [saving EXCEPT ![r][p] = "submit"]
  /\ UNCHANGED <<window, progress, visited, finalizing, accepted>>

\* updateRoundProgress(): only a minigame keeps snapshots.
Progress(p, r) ==
  /\ p \in conn
  /\ window = r
  /\ r \in Minigame
  /\ p \notin submitted[r]
  /\ progress' = AddTo(progress, r, p)
  /\ UNCHANGED <<window, submitted, visited, saving, finalizing, accepted>>

\* allConnectedAnswered(): counts, on both sides.
AllConnectedAnswered(sub) ==
  /\ conn # {}
  /\ Cardinality(sub) >= Cardinality(conn)

\* The INSERT succeeds: the player exists and has no row for the round.
CanInsert(p, r) == p \in roster /\ p \notin rows[r]

InsertAnswer(p, r) ==
  /\ rows' = AddTo(rows, r, p)
  /\ UNCHANGED <<roster, online, total, removed, conn, faults>>

\* The INSERT throws anything but a unique violation: the player has no row
\* any more, or the query fails - and may have been committed all the same.
InsertThrows(p, r) ==
  \/ p \notin roster /\ UNCHANGED dataVars
  \/ /\ Fail
     /\ \/ UNCHANGED rows
        \/ CanInsert(p, r) /\ rows' = AddTo(rows, r, p)
     /\ UNCHANGED <<roster, online, total, removed, conn>>

\* Mutant of Unsaved: the snapshots of players whose socket is gone are skipped.
UnsavedConnected(r, sub, vis) == (progress[r] \cap conn) \ (sub \cup vis)

\* What the loop over `progress` saves next.
Unsaved(r, sub, vis) == progress[r] \ (sub \cup vis)

\* One turn of persistProgressSnapshots() from the window contents sub and vis
\* and the inserts sav: start saving some snapshot, if one is left.
NextSnapshot(r, p, sub, vis, sav) ==
  /\ p \in Unsaved(r, sub, vis)
  /\ submitted' = [submitted EXCEPT ![r] = sub \cup {p}]
  /\ visited' = [visited EXCEPT ![r] = vis \cup {p}]
  /\ saving' = [sav EXCEPT ![r][p] = "snapshot"]
  /\ finalizing' = finalizing \cup {r}
  /\ UNCHANGED window

\* Nothing is left: the window goes, whichever round it belongs to by now.
\* FINALIZED(r) is published in this step.
LastSnapshot(r, sub, vis, sav) ==
  /\ Unsaved(r, sub, vis) = {}
  /\ submitted' = [submitted EXCEPT ![r] = sub]
  /\ visited' = [visited EXCEPT ![r] = vis]
  /\ saving' = sav
  /\ finalizing' = finalizing \ {r}
  /\ window' = NoRound

\* The INSERTs of the round that are no longer in flight once p's has ended.
Settled(p, r) == [saving EXCEPT ![r][p] = "none"]

\* Mutant of ForgetSubmission: the window keeps the submission.
ForgetNothing(p, r) ==
  /\ saving' = Settled(p, r)
  /\ UNCHANGED <<window, submitted, progress, visited, finalizing, accepted>>

\* A failed submission of p is forgotten, so p may answer again.  If the loop
\* had met p's older snapshot while the INSERT was in flight, it has skipped it.
ForgetSubmission(p, r) ==
  /\ submitted' = RemoveFrom(submitted, r, p)
  /\ saving' = Settled(p, r)
  /\ IF r \in finalizing /\ p \in progress[r]
     THEN visited' \in {visited, AddTo(visited, r, p)}
     ELSE UNCHANGED visited
  /\ UNCHANGED <<window, progress, finalizing, accepted>>
===============================================================================
