------------------------------ MODULE LiveView ------------------------------
(***************************************************************************)
(* What a turn does, as it is shown while it does it: frames in a buffer   *)
(* of the instance, a stream in Redis, and a page that reads the stream.   *)
(*                                                                         *)
(* Sources: agent/live.py, agent/trace.py (Recorder), agent/runtime.py     *)
(* (the ends of run_turn and resume_turn), janitor.py (_reap),             *)
(* api/routes/public/live.py, svelte/src/lib/live/stream.js.               *)
(*                                                                         *)
(* One turn and one page.  What is shown are numbered pieces; text that    *)
(* follows text is put into the same frame as long as that waits.          *)
(***************************************************************************)
EXTENDS Naturals, Sequences, SequencesExt, FiniteSets

CONSTANTS
    MaxPieces,  \* bound of the model: what the turn says
    MaxText,    \* settings.live_max_text, in pieces
    Queue,      \* settings.live_queue
    Batch,      \* settings.live_batch
    MaxFrames,  \* settings.live_max_bytes, in frames
    Keep,       \* settings.live_buffer
    MaxRuns     \* bound of the model: executions of the turn

VARIABLES
    row,      \* the turn in the database: "running" or "over"
    runs,     \* executions so far
    run,      \* "on", "closing" (live.end), "off"
    said,     \* pieces so far
    buffer,   \* frames that wait
    flight,   \* the batch that is being written
    frames,   \* frames encoded by this execution
    full,
    stream,   \* entries of the stream
    entries,  \* ids given out
    lost,     \* history: pieces that were dropped, or not written
    page,     \* the page: "new", "row" (it has the turn's row), "open", "done"
    after,    \* the id it has come to
    got,      \* the pieces it has
    told,     \* the row it was given, and the turn.end
    cut       \* history: pieces trimmed before the page had them

writer == <<row, runs, run, said, buffer, flight, frames, full, stream, entries, lost>>
reader == <<page, after, got, told, cut>>
vars == <<row, runs, run, said, buffer, flight, frames, full, stream, entries, lost,
          page, after, got, told, cut>>

\* turn.end, of a turn that is over or of one that is only paused.
Ends == {"end", "stop"}
Frame(kind, pieces) == [kind |-> kind, pieces |-> pieces]
Pieces(fs) == UNION {ToSet(fs[i].pieces) : i \in 1..Len(fs)}
NotTold == [row |-> "running", why |-> ""]

TypeOK ==
    /\ row \in {"running", "over"} /\ run \in {"on", "closing", "off"} /\ runs \in 0..MaxRuns
    /\ said \in 0..MaxPieces
    /\ Len(buffer) <= Queue /\ Len(flight) <= Batch + 1
    /\ Pieces(buffer) \cup Pieces(flight) \cup Pieces(stream) \cup lost \subseteq 1..said
    /\ page \in {"new", "row", "open", "done"} /\ after \in 0..entries

Init ==
    /\ row = "running" /\ runs = 0 /\ run = "off" /\ said = 0
    /\ buffer = <<>> /\ flight = <<>> /\ frames = 0 /\ full = FALSE
    /\ stream = <<>> /\ entries = 0 /\ lost = {}
    /\ page = "new" /\ after = 0 /\ got = <<>> /\ told = NotTold /\ cut = {}

\* begin: a new Live, whatever an earlier execution has left in the stream.
Begin ==
    /\ run = "off" /\ row = "running" /\ runs < MaxRuns
    /\ runs' = runs + 1 /\ run' = "on"
    /\ buffer' = <<>> /\ flight' = <<>> /\ frames' = 0 /\ full' = FALSE
    /\ UNCHANGED <<row, said, stream, entries, lost>> /\ UNCHANGED reader

\* _push: what finds no place is dropped.
Push(frame) ==
    IF (full /\ frame.kind \notin Ends) \/ Len(buffer) >= Queue
      THEN lost' = lost \cup ToSet(frame.pieces) /\ UNCHANGED buffer
      ELSE buffer' = Append(buffer, frame) /\ UNCHANGED lost

\* append
Say ==
    /\ run = "on" /\ row = "running" /\ said < MaxPieces
    /\ said' = said + 1
    /\ LET n == Len(buffer) IN
       IF ~full /\ n > 0 /\ buffer[n].kind = "text" /\ Len(buffer[n].pieces) < MaxText
         THEN /\ buffer' = [buffer EXCEPT ![n].pieces = Append(@, said')]
              /\ UNCHANGED lost
         ELSE Push(Frame("text", <<said'>>))
    /\ UNCHANGED <<row, runs, run, flight, frames, full, stream, entries>>
    /\ UNCHANGED reader

\* _batch: once so much was encoded, only the end is kept.
Take ==
    LET n == IF Len(buffer) < Batch THEN Len(buffer) ELSE Batch
        room == IF MaxFrames > frames THEN MaxFrames - frames ELSE 1
        m == IF full \/ n < room THEN n ELSE room
        rest == SubSeq(buffer, m + 1, Len(buffer))
        fills == ~full /\ frames + m >= MaxFrames
    IN
    /\ flight = <<>> /\ buffer # <<>> /\ run \in {"on", "closing"}
    /\ frames' = frames + m
    /\ full' = (full \/ fills)
    /\ flight' = SubSeq(buffer, 1, m) \o (IF fills THEN <<Frame("note", <<>>)>> ELSE <<>>)
    /\ buffer' = IF fills THEN SelectSeq(rest, LAMBDA f : f.kind \in Ends) ELSE rest
    /\ lost' = IF fills THEN lost \cup Pieces(rest) ELSE lost
    /\ UNCHANGED <<row, runs, run, said, stream, entries>> /\ UNCHANGED reader

\* Entries at the end of the stream, which is cut at its head.
Added(fs) ==
    LET all == stream \o [i \in 1..Len(fs) |->
                    [id |-> entries + i, kind |-> fs[i].kind, pieces |-> fs[i].pieces]]
        n == IF Len(all) > Keep THEN Len(all) - Keep ELSE 0
    IN
    /\ entries' = entries + Len(fs)
    /\ stream' = SubSeq(all, n + 1, Len(all))
    /\ cut' = cut \cup (Pieces(SubSeq(all, 1, n)) \ ToSet(got))

\* flush: the pipeline is written,
Write ==
    /\ flight # <<>>
    /\ Added(flight) /\ flight' = <<>>
    /\ UNCHANGED <<row, runs, run, said, buffer, frames, full, lost>>
    /\ UNCHANGED <<page, after, got, told>>

\* ... or fails, or the task is cancelled by stop: the batch is lost.
Lose ==
    /\ flight # <<>>
    /\ lost' = lost \cup Pieces(flight) /\ flight' = <<>>
    /\ UNCHANGED <<row, runs, run, said, buffer, frames, full, stream, entries>>
    /\ UNCHANGED reader

\* The turn is finished: its row first.
Finish ==
    /\ run = "on" /\ row = "running"
    /\ row' = "over"
    /\ UNCHANGED <<runs, run, said, buffer, flight, frames, full, stream, entries, lost>>
    /\ UNCHANGED reader

\* turn.end and live.end; after a resume also for a turn that is only paused.
End ==
    /\ run = "on" /\ (row = "over" \/ runs > 1)
    /\ run' = "closing"
    /\ Push(Frame(IF row = "over" THEN "end" ELSE "stop", <<>>))
    /\ UNCHANGED <<row, runs, said, flight, frames, full, stream, entries>> /\ UNCHANGED reader

\* stop has flushed what there was.
Closed ==
    /\ run = "closing" /\ buffer = <<>> /\ flight = <<>>
    /\ run' = "off"
    /\ UNCHANGED <<row, runs, said, buffer, flight, frames, full, stream, entries, lost>>
    /\ UNCHANGED reader

\* The process ends; a first execution that is paused ends with it.
Crash ==
    /\ run # "off"
    /\ run' = "off"
    /\ lost' = lost \cup Pieces(buffer) \cup Pieces(flight)
    /\ buffer' = <<>> /\ flight' = <<>>
   
    /\ UNCHANGED <<row, runs, said, frames, full, stream, entries>> /\ UNCHANGED reader

\* The janitor takes a turn that went silent as failed, and seals its stream.
Seal ==
    /\ run = "off" /\ row = "running" /\ runs > 0
    /\ row' = "over"
    /\ IF stream = <<>> THEN UNCHANGED <<stream, entries, cut>> ELSE Added(<<Frame("end", <<>>)>>)
    /\ UNCHANGED <<runs, run, said, buffer, flight, frames, full, lost, page, after, got, told>>

\* The page asks for a snapshot: the row,
SnapshotRow ==
    /\ page = "new"
    /\ page' = "row" /\ told' = [told EXCEPT !.row = row]
    /\ UNCHANGED <<after, got, cut>> /\ UNCHANGED writer

\* Mutant: the page does not go on from the last frame it was fed.
FeedAgain(fs) ==
    /\ got' = got \o FlattenSeq([i \in 1..Len(fs) |-> fs[i].pieces])
    /\ UNCHANGED after

Feed(fs) ==
    /\ got' = got \o FlattenSeq([i \in 1..Len(fs) |-> fs[i].pieces])
    /\ after' = IF fs = <<>> THEN after ELSE fs[Len(fs)].id

\* ... and what the stream has after the last frame.  It is done if the row
\* says so, or a frame does.
SnapshotFrames ==
    LET new == SelectSeq(stream, LAMBDA e : e.id > after)
        ends == {new[i].kind : i \in 1..Len(new)} \cap Ends
    IN
    /\ page = "row"
    /\ Feed(new)
    /\ page' = IF ends # {} \/ told.row = "over" THEN "done" ELSE "open"
    /\ told' = [told EXCEPT !.why = IF "stop" \in ends THEN "stop" ELSE IF ends # {} THEN "end" ELSE @]
    /\ UNCHANGED cut /\ UNCHANGED writer

\* follow, one entry; a turn.end is the last.
Receive ==
    LET new == SelectSeq(stream, LAMBDA e : e.id > after) IN
    /\ page = "open" /\ new # <<>>
    /\ Feed(<<new[1]>>)
    /\ IF new[1].kind \in Ends
         THEN page' = "done" /\ told' = [told EXCEPT !.why = new[1].kind]
         ELSE UNCHANGED <<page, told>>
    /\ UNCHANGED cut /\ UNCHANGED writer

\* The connection ends; the page takes a snapshot from where it is.
Disconnect ==
    /\ page = "open"
    /\ page' = "new"
    /\ UNCHANGED <<after, got, told, cut>> /\ UNCHANGED writer

\* _pump: a store that cannot be read is told as the end.
Broken ==
    /\ page = "open"
    /\ page' = "done"
    /\ UNCHANGED <<after, got, told, cut>> /\ UNCHANGED writer

Next ==
    \/ Begin \/ Say \/ Take \/ Write \/ Lose \/ Finish \/ End \/ Closed \/ Crash \/ Seal
    \/ SnapshotRow \/ SnapshotFrames \/ Receive \/ Disconnect \/ Broken

Spec == Init /\ [][Next]_vars

-----------------------------------------------------------------------------
(* Properties.                                                             *)

\* The page shows every piece once and in order, through any number of
\* connections.  One that was given the end, and not that of a turn that is
\* only paused, has every piece that was not lost before it was written or cut
\* from the stream.
PageIsTrue ==
    /\ \A i \in 1..Len(got) - 1 : got[i] < got[i + 1]
    /\ told.why = "end" => 1..said \subseteq ToSet(got) \cup lost \cup cut
=============================================================================
