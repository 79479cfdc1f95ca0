------------------------------- MODULE Timeline -------------------------------
(* What a page makes of the frames of a turn (see LiveView for how they    *)
(* come to it): apply of svelte/src/lib/live/timeline.svelte.js folds them *)
(* into a list of items. The frames are those of the loop and of its       *)
(* Recorder (agent/trace.py), over the executions of the turn; any of them *)
(* may have been dropped on the way.                                       *)
(*                                                                         *)
(* A piece of thought or text, and a run of code, is a number. The calls   *)
(* of a model by code, replies, notes and errors, whose items      *)
(* stand for themselves, are left out, and so are times and models.        *)
EXTENDS Naturals, Sequences, SequencesExt, FiniteSets

CONSTANTS
    MaxSteps,   \* settings.agent_max_steps
    MaxPieces,  \* bound of the model: pieces the model says
    MaxStarts,  \* bound of the model: executions of the turn
    MaxLost,    \* bound of the model: frames dropped on the way
    MaxGaps     \* bound of the model: gaps the page is told of

VARIABLES
    turn,     \* the turn
    items,    \* what the page shows
    blocks,   \* its map from a step and a type to an item
    codes,    \* its map from the index of a block to an item
    applied,  \* history: the frames since the last reset
    lost,     \* frames dropped so far
    gaps      \* gaps so far

page == <<items, blocks, codes, applied>>
vars == <<turn, items, blocks, codes, applied, lost, gaps>>

Types == {"think", "text"}
Steps == 1..MaxSteps

\* A thought of white space only.
Blank == 0

TypeOK ==
    /\ turn \in [at : {"between", "ask", "reply", "code", "over", "down"}, step : 0..MaxSteps,
                 n : 0..MaxPieces, run : Nat, starts : 0..MaxStarts, back : {"between", "reply"}]
    /\ \A i \in DOMAIN items : items[i].type \in Types \cup {"code"}
    /\ \A key \in DOMAIN blocks : blocks[key] \in Nat
    /\ \A step \in DOMAIN codes : codes[step] \in Nat
    /\ lost \in 0..MaxLost /\ gaps \in 0..MaxGaps

Init ==
    /\ turn = [at |-> "down", step |-> 0, n |-> 0, run |-> 0, starts |-> 0, back |-> "between"]
    /\ items = <<>> /\ blocks = <<>> /\ codes = <<>>
    /\ applied = <<>> /\ lost = 0 /\ gaps = 0

Frame(kind, step, n) == [kind |-> kind, step |-> step, n |-> n]

-----------------------------------------------------------------------------
(* The page.                                                               *)

\* The item of a new id, at the end of the list.
Push(item) == Append(items, item)
NewId == Len(applied) + 1
Item(type, step, pieces) ==
    [id |-> NewId, type |-> type, step |-> step, pieces |-> pieces, streaming |-> TRUE, output |-> 0]

With(function, key, value) == [k \in DOMAIN function \cup {key} |->
                                   IF k = key THEN value ELSE function[k]]
Without(function, key) == [k \in DOMAIN function \ {key} |-> function[k]]
Changed(id, change(_)) == [i \in DOMAIN items |-> IF items[i].id = id THEN change(items[i]) ELSE items[i]]

\* The key of ensureBlock.
Key(step, type) == <<step, type>>

\* block.think and block.text
Block(frame) ==
    LET key == Key(frame.step, frame.kind)
    IN  /\ IF key \in DOMAIN blocks
           THEN /\ items' = Changed(blocks[key], LAMBDA item : [item EXCEPT !.pieces = Append(@, frame.n)])
                /\ UNCHANGED blocks
           ELSE /\ items' = Push(Item(frame.kind, frame.step, <<frame.n>>))
                /\ blocks' = With(blocks, key, NewId)
        /\ UNCHANGED codes

\* Only white space.
IsBlank(item) == \A i \in DOMAIN item.pieces : item.pieces[i] = Blank

\* step.end: the blocks of the step do not grow any more, and a thought of
\* white space is taken away.
StepEnd(frame) ==
    LET think == Key(frame.step, "think")
        text == Key(frame.step, "text")
        ids == {blocks[key] : key \in {think, text} \cap DOMAIN blocks}
        still == [i \in DOMAIN items |->
                     IF items[i].id \in ids THEN [items[i] EXCEPT !.streaming = FALSE] ELSE items[i]]
        blank == {items[i].id : i \in {j \in DOMAIN items :
                     think \in DOMAIN blocks /\ items[j].id = blocks[think] /\ IsBlank(items[j])}}
    IN  /\ items' = SelectSeq(still, LAMBDA item : item.id \notin blank)
        /\ blocks' = IF blank # {} THEN Without(blocks, think) ELSE blocks
        /\ UNCHANGED codes

\* code.start
CodeStart(frame) ==
    /\ items' = Push(Item("code", frame.step, <<frame.n>>))
    /\ codes' = With(codes, frame.step, NewId)
    /\ UNCHANGED blocks

\* The item of a block of code.
CodeOf(step) == IF step \in DOMAIN codes THEN {codes[step]} ELSE {}

\* code.end: of the item that has the index, if there is one.
CodeEnd(frame) ==
    /\ items' = [i \in DOMAIN items |->
                    IF items[i].id \in CodeOf(frame.step)
                    THEN [items[i] EXCEPT !.streaming = FALSE, !.output = frame.n] ELSE items[i]]
    /\ UNCHANGED <<blocks, codes>>

\* apply
Apply(frame) ==
    /\ \/ frame.kind \in Types /\ Block(frame)
       \/ frame.kind = "reply" /\ StepEnd(frame)
       \/ frame.kind = "code" /\ CodeStart(frame)
       \/ frame.kind = "output" /\ CodeEnd(frame)
    /\ applied' = Append(applied, frame)

\* onGap: reset, after frames were trimmed before the page had them.
Gap ==
    /\ applied # <<>> /\ gaps < MaxGaps
    /\ gaps' = gaps + 1
    /\ items' = <<>> /\ blocks' = <<>> /\ codes' = <<>> /\ applied' = <<>>
    /\ UNCHANGED <<turn, lost>>

\* A frame comes to the page, in its order, or it was dropped on the way.
Emit(kind, step, n) ==
    /\ \/ Apply(Frame(kind, step, n)) /\ UNCHANGED lost
       \/ lost < MaxLost /\ lost' = lost + 1 /\ UNCHANGED page
    /\ UNCHANGED gaps

-----------------------------------------------------------------------------
(* The turn.                                                               *)

\* An execution begins: the first, or one from a checkpoint. That is before a
\* step or, when its code was running, before the run of that code.
Start ==
    /\ turn.at = "down" /\ turn.starts < MaxStarts
    /\ turn' = [turn EXCEPT !.at = turn.back, !.starts = @ + 1]
    /\ UNCHANGED <<lost, gaps>> /\ UNCHANGED page

\* Recorder.request
Request ==
    /\ turn.at = "between" /\ turn.step < MaxSteps
    /\ turn' = [turn EXCEPT !.at = "ask", !.step = @ + 1]
    /\ UNCHANGED <<lost, gaps>> /\ UNCHANGED page

\* Recorder.raw, of a delta
Say(type) ==
    /\ turn.at = "ask" /\ turn.n < MaxPieces
    /\ turn' = [turn EXCEPT !.n = @ + 1]
    /\ \E piece \in {turn.n + 1} \cup (IF type = "think" THEN {Blank} ELSE {}) :
           Emit(type, turn.step, piece)

\* Recorder.reply
Reply ==
    /\ turn.at = "ask"
    /\ turn' = [turn EXCEPT !.at = "reply"]
    /\ Emit("reply", turn.step, 0)

\* code_started: the index of a block is its step.
CodeStarted ==
    /\ turn.at = "reply"
    /\ turn' = [turn EXCEPT !.at = "code", !.run = @ + 1]
    /\ Emit("code", turn.step, turn.run + 1)

\* code_finished
CodeFinished ==
    /\ turn.at = "code"
    /\ turn' = [turn EXCEPT !.at = "between"]
    /\ Emit("output", turn.step, turn.run)

End ==
    /\ turn.at \in {"between", "reply"}
    /\ turn' = [turn EXCEPT !.at = "over"]
    /\ UNCHANGED <<lost, gaps>> /\ UNCHANGED page

\* The instance ends. A reply that was not stored is asked for again.
Crash ==
    /\ turn.at \notin {"over", "down"}
    /\ \E again \in BOOLEAN :
        /\ again => turn.at \in {"ask", "reply"}
        /\ turn.at = "ask" => again
        /\ turn' = [turn EXCEPT !.at = "down", !.step = IF again THEN @ - 1 ELSE @,
                        !.back = IF turn.at \in {"reply", "code"} /\ ~again THEN "reply" ELSE "between"]
    /\ UNCHANGED <<lost, gaps>> /\ UNCHANGED page

Next ==
    \/ Start \/ Request \/ Reply \/ CodeStarted \/ CodeFinished \/ End \/ Crash
    \/ \E type \in Types : Say(type)
    \/ Gap

Spec == Init /\ [][Next]_vars

-----------------------------------------------------------------------------
(* Properties.                                                             *)

Received(kind, step) == SelectSeq(applied, LAMBDA frame : frame.kind = kind /\ frame.step = step)
Shown(type, step) == SelectSeq(items, LAMBDA item : item.type = type /\ item.step = step)
Solid(pieces) == SelectSeq(pieces, LAMBDA piece : piece # Blank)

\* ensureBlock: what the page shows of a step is what was said in that step, of
\* each kind, once and in order, whatever else came in between or was lost; of
\* a step that was executed again it shows both, one after the other.
TextIsOfItsStep ==
    \A type \in Types, step \in Steps :
        LET shown == Shown(type, step)
            received == Received(type, step)
        IN  Solid(FlattenSeq([i \in DOMAIN shown |-> shown[i].pieces]))
            = Solid([i \in DOMAIN received |-> received[i].n])

\* code.end: the output under a piece of code is its own, unless the start of
\* a later run of that code did not reach the page.
OutputIsOwn ==
    \A i \in DOMAIN items :
        LET item == items[i]
        IN  item.type = "code" /\ item.output # 0 =>
            \/ item.output = item.pieces[1]
            \/ /\ \E k \in DOMAIN applied : applied[k] = Frame("output", item.step, item.output)
               /\ ~\E k \in DOMAIN applied : applied[k] = Frame("code", item.step, item.output)
=============================================================================
