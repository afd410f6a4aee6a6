----------------------------- MODULE FlowEditor -----------------------------
(***************************************************************************)
(* The editor of a game flow (host/screens/FlowEditor.tsx, with            *)
(* flowMutations.ts, flow-api.ts and palette.ts): what its effects and the *)
(* host's hand do to its state, the record "e".                            *)
(*                                                                         *)
(* Its flow starts as the room's, as the app knew it when the tab was      *)
(* opened; a catalog is fetched at first and again whenever the lobby is   *)
(* rendered anew, since initialFlow is then a new array; an edit is saved  *)
(* when no other follows it for a while.  Left out are what is shown while *)
(* saving and the drags that end elsewhere.                                *)
(***************************************************************************)
EXTENDS GameFlow, Serpentine

NoEditor == [open |-> FALSE, flow |-> <<>>, catalog |-> {},
             fetch |-> "none", unsaved |-> FALSE]

\* The effect that fetches: whether it replaces a flow that is too short is
\* settled by the room's flow at that time.
FetchFor(known) == IF Len(known) < MinBlocks THEN "draft" ELSE "keep"

\* The mount: the first run of the autosave's effect is skipped.
Mounted(known) ==
    [open |-> TRUE, flow |-> ToFlowItems(known), catalog |-> Palette,
     fetch |-> FetchFor(known), unsaved |-> FALSE]

\* The lobby is rendered: a fetch under way is no longer listened to.
Rerendered(e, known) ==
    IF e.open THEN [e EXCEPT !.fetch = FetchFor(known)] ELSE e

\* setFlow(): the autosave's timer starts anew.
Edited(e, flow) == [e EXCEPT !.flow = flow, !.unsaved = TRUE]

\* fetchCatalog() has answered, with the palette if the server did not.
Fetched(e) ==
    UNION {LET got == [e EXCEPT !.catalog = blocks, !.fetch = "none"]
           IN  IF e.fetch = "draft"
               THEN {Edited(got, flow) :
                        flow \in RandomFlowsFrom(blocks, DefaultSize)}
               ELSE {got} :
            blocks \in {Catalog, Palette}}

\* The gear of a block: setQuestions() and setMinigameTime().
GearEdits(e) ==
    LET places(blocks) == {i \in DOMAIN e.flow : e.flow[i].block \in blocks}
    IN  {SetQuestions(e.flow, i, v) :
            i \in places(Themes), v \in 0..(MaxQuestions + 1)}
        \cup {SetMinigameTime(e.flow, i,
                  ClampMinigameTime(e.flow[i].time, e.flow[i].block) + step) :
            i \in places(Minigames), step \in {-TimeStep, TimeStep}}

\* The cross of a block, the plus and the size picker.
ListEdits(e) ==
    LET n == Len(e.flow)
    IN  (IF n <= MinBlocks THEN {} ELSE {RemoveAt(e.flow, i) : i \in 1..n})
        \cup (IF n >= MaxBlocks THEN {}
              ELSE {Append(e.flow, CreateFlowItem(b)) : b \in e.catalog})
        \cup UNION {RandomFlowsFrom(e.catalog, size) :
                        size \in MinBlocks..MaxBlocks}

\* A drop from the palette adds a block however many there are, one from
\* within the flow moves it.
DropEdits(e) ==
    LET n == Len(e.flow)
        drops == {DropIndex(n, cursor) : cursor \in Cursors(n)}
    IN  {InsertBlock(e.flow, index, CreateFlowItem(b)) :
            index \in drops, b \in e.catalog}
        \cup {MoveBlock(e.flow, from, index) :
            from \in 0..(n - 1), index \in drops}

\* What the host's hand can do to a flow.
Edits(e) == GearEdits(e) \cup ListEdits(e) \cup DropEdits(e)
=============================================================================
