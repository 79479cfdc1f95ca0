---------------------------- MODULE Conversation ----------------------------
(* What a turn remembers: the tree of turns, the segments of messages that *)
(* settled turns leave in turn_messages, and the history a new or resumed  *)
(* turn is given. agent/segments.py, database/repositories/segment.py,     *)
(* TurnRepository.create, turns.route, runtime.run_turn and resume_turn,   *)
(* the command /load.                                                      *)
(*                                                                         *)
(* A message is the turn that added it, its number and its role; a size is *)
(* a count of messages. The snapshot of the system prompt that a segment   *)
(* carries is left out, and so is whose message a reply quotes: the owner  *)
(* is any earlier turn, or none where no row names one (see Sender).       *)
EXTENDS Naturals, SequencesExt

CONSTANTS
    MaxTurns,   \* bound of the model: turns of the chat
    Depth,      \* settings.lineage_depth
    Budget,     \* settings.history_max_bytes, in messages
    MaxSaid,    \* bound of the model: messages one turn adds
    MaxStops    \* bound of the model: stops of an instance, and failures of dispatch

VARIABLES
    turn,    \* the row and the execution of each turn
    seg,     \* turn -> the segment stored for it, <<>> when there is none
    stops    \* stops and failures so far

vars == <<turn, seg, stops>>

Turns == 1..MaxTurns
Message == [of : Turns, n : 1..MaxSaid, role : {"user", "assistant"}]

\* No checkpoint of the turn is stored.
NoCheckpoint == [read |-> <<>>, messages |-> <<>>]

Absent ==
    [at |-> "absent", parent |-> 0, read |-> <<>>, messages |-> <<>>, base |-> 0,
     said |-> 0, checkpoint |-> NoCheckpoint, late |-> FALSE, settledParent |-> FALSE]

TypeOK ==
    /\ turn \in [Turns -> [at : {"absent", "routed", "made", "run", "down", "saved", "settled"},
                           parent : 0..MaxTurns, read : Seq(Message),
                           messages : Seq(Message), base : Nat, said : 0..MaxSaid,
                           checkpoint : [read : Seq(Message), messages : Seq(Message)],
                           late : BOOLEAN, settledParent : BOOLEAN]]
    /\ seg \in [Turns -> Seq(Message)]
    /\ stops \in 0..MaxStops

Init ==
    /\ turn = [t \in Turns |-> Absent]
    /\ seg = [t \in Turns |-> <<>>]
    /\ stops = 0

-----------------------------------------------------------------------------
(* Segments.                                                               *)

\* tidy: what follows the last reply of the model is dropped.
Tidy(messages) ==
    LET replies == {i \in DOMAIN messages : messages[i].role = "assistant"}
    IN  IF replies = {} THEN <<>> ELSE SubSeq(messages, 1, Max(replies))

\* A message equal to the one before it is skipped.
Deduped(messages) ==
    FoldLeft(LAMBDA kept, m : IF kept # <<>> /\ Last(kept) = m THEN kept ELSE Append(kept, m),
             <<>>, messages)

Normalized(messages) == Deduped(Tidy(messages))

\* save: a segment without a reply leaves what is stored as it is.
Stored(t, messages) ==
    LET kept == Normalized(messages)
    IN  IF kept = <<>> THEN seg ELSE [seg EXCEPT ![t] = kept]

\* The query LINEAGE: the turn a, its parent and so on, Depth steps up.
Up(a) ==
    LET up[b \in Turns \cup {0}, depth \in 0..Depth] ==
            IF b = 0 THEN <<>>
            ELSE <<b>> \o (IF depth < Depth THEN up[turn[b].parent, depth + 1] ELSE <<>>)
    IN  up[a, 0]

\* Its rows, newest first: only the turns with a stored segment have one.
Rows(a) == SelectSeq(Up(a), LAMBDA b : seg[b] # <<>>)

\* How many rows fit the budget: the newest always does.
Fitting(rows) ==
    LET size(k) == FoldLeft(LAMBDA sum, b : sum + Len(seg[b]), 0, SubSeq(rows, 1, k))
    IN  Max({k \in 0..Len(rows) : \A j \in 1..k : j = 1 \/ size(j) <= Budget})

\* load: the kept segments, oldest first.
History(parent) ==
    LET rows == Rows(parent)
        kept == SubSeq(rows, 1, Fitting(rows))
    IN  Deduped(FlattenSeq([i \in DOMAIN kept |-> seg[kept[Len(kept) + 1 - i]]]))

-----------------------------------------------------------------------------
(* Turns.                                                                  *)

\* The parent had settled, with a segment.
ParentIsSettled(t) ==
    LET parent == turn[t].parent
    IN  parent # 0 /\ turn[parent].at = "settled" /\ seg[parent] # <<>>

Said(t, role) == [of |-> t, n |-> turn[t].said + 1, role |-> role]

\* owner: the turn whose message is replied to, where a row names one.
Answered(t) == 0..(t - 1)

\* route: the turn is created below the owner. The row is RUNNING from here on.
Route(t, owner) ==
    /\ turn[t].at = "absent" /\ \A u \in 1..(t - 1) : turn[u].at # "absent"
    /\ turn' = [turn EXCEPT ![t].at = "routed", ![t].parent = owner]
    /\ UNCHANGED <<seg, stops>>

\* What a turn is made of: a message or the button under one, the output of a
\* watch or the time of a task, each of them a reply or not;
Handle(t) == \E owner \in Answered(t) : Route(t, owner)
HandleCallback(t) == Handle(t)
RunWatch(t) == Handle(t)
RunScheduled(t) == Handle(t)

\* an inline query, which replies to nothing;
HandleInline(t) == Route(t, 0)

\* the button that tries a turn again, as a reply to what that one replied to,
\* whose row may have come late.
RetryTurn(t, origin) ==
    /\ turn[origin].at # "absent"
    /\ \E owner \in Answered(t) :
           /\ owner = turn[origin].parent \/ turn[origin].parent = 0
           /\ Route(t, owner)

\* dispatch, from route on: the task of the turn is made when the language of the
\* user is known. Where that fails the row is left RUNNING until it is claimed.
Dispatch(t) ==
    /\ turn[t].at = "routed"
    /\ turn' = [turn EXCEPT ![t].at = "made"]
    /\ UNCHANGED <<seg, stops>>
DispatchFails(t) ==
    /\ stops < MaxStops /\ stops' = stops + 1
    /\ turn[t].at = "routed"
    /\ turn' = [turn EXCEPT ![t].at = "down"]
    /\ UNCHANGED seg

\* run_turn: the history, then the message of the user.
Begin(t) ==
    LET history == History(turn[t].parent)
        asked == Append(history, Said(t, "user"))
    IN  /\ turn[t].at = "made"
        /\ turn' = [turn EXCEPT ![t] =
               [@ EXCEPT !.at = "run", !.read = history, !.messages = asked,
                         !.base = Len(history), !.said = @ + 1,
                         !.settledParent = ParentIsSettled(t)]]
        /\ UNCHANGED <<seg, stops>>

\* The loop adds a reply of the model, or the outputs of the reply's blocks.
Add(t) ==
    /\ turn[t].at = "run" /\ turn[t].said < MaxSaid
    /\ LET role == IF Last(turn[t].messages).role = "user" THEN "assistant" ELSE "user"
       IN  turn' = [turn EXCEPT ![t].messages = Append(@, Said(t, role)), ![t].said = @ + 1]
    /\ UNCHANGED <<seg, stops>>

\* checkpoints.save, within the loop (see AgentLoop).
Checkpoint(t) ==
    /\ turn[t].at = "run"
    /\ turn[t].checkpoint.messages # turn[t].messages
    /\ turn' = [turn EXCEPT ![t].checkpoint =
                    [read |-> turn[t].read, messages |-> turn[t].messages]]
    /\ UNCHANGED <<seg, stops>>

\* A variant: the history of the turn is stored with what it added.
OwnAndHistory(t) == turn[t].messages

\* messages[base:]
Own(t) == SubSeq(turn[t].messages, turn[t].base + 1, Len(turn[t].messages))

\* The segment is stored and the turn becomes row; the descendants that have
\* read their history and go on have read it too early.
Leave(t, row, messages) ==
    /\ seg' = Stored(t, messages)
    /\ turn' = [u \in Turns |->
           IF u = t THEN row
           ELSE IF seg' # seg /\ turn[u].at \in {"run", "down", "saved"} /\ t \in ToSet(Up(turn[u].parent))
                THEN [turn[u] EXCEPT !.late = TRUE]
                ELSE turn[u]]

\* The loop ended, well or badly, or the turn was stopped: the segment is
\* stored, before the row is finished.
End(t) == turn[t].at = "run" /\ Leave(t, [turn[t] EXCEPT !.at = "saved"], Own(t)) /\ UNCHANGED stops

\* /load: the turn is made, its two messages are stored and it is finished,
\* without a run.
LoadRepository(t) ==
    LET loaded == <<Said(t, "user"), [Said(t, "assistant") EXCEPT !.n = 2]>>
    IN  /\ turn[t].at = "made" /\ turn[t].said = 0
        /\ Leave(t, [turn[t] EXCEPT !.at = "saved", !.messages = loaded, !.said = 2], loaded)
        /\ UNCHANGED stops

\* finish, and checkpoints.clear: of the execution nothing is left.
Finish(t) ==
    /\ turn[t].at = "saved"
    /\ turn' = [turn EXCEPT ![t] = [Absent EXCEPT !.at = "settled", !.parent = turn[t].parent]]
    /\ UNCHANGED <<seg, stops>>

\* The instance shuts down: the segment is stored and the row stays RUNNING.
Pause(t) ==
    /\ stops < MaxStops /\ stops' = stops + 1
    /\ turn[t].at = "run"
    /\ Leave(t, [turn[t] EXCEPT !.at = "down"], Own(t))

\* The instance dies, at any point.
Die(t) ==
    /\ stops < MaxStops /\ stops' = stops + 1
    /\ turn[t].at \in {"routed", "made", "run", "saved"}
    /\ turn' = [turn EXCEPT ![t].at = "down"]
    /\ UNCHANGED seg

\* resume_turn: the messages of the checkpoint, or the history and the message
\* of the user again. The base is the length of the history as it is now.
Resume(t) ==
    LET history == History(turn[t].parent)
        again == turn[t].checkpoint = NoCheckpoint
    IN  /\ turn[t].at = "down"
        /\ again => turn[t].said < MaxSaid
        /\ turn' = [turn EXCEPT ![t] =
               [@ EXCEPT !.at = "run", !.base = Len(history),
                         !.read = IF again THEN history ELSE turn[t].checkpoint.read,
                         !.messages = IF again THEN Append(history, Said(t, "user"))
                                      ELSE turn[t].checkpoint.messages,
                         !.said = IF again THEN @ + 1 ELSE @,
                         !.late = IF again THEN FALSE ELSE @,
                         !.settledParent = IF again THEN ParentIsSettled(t) ELSE @]]
        /\ UNCHANGED <<seg, stops>>

Root(t) ==
    LET root[b \in Turns] == IF turn[b].parent = 0 THEN b ELSE root[turn[b].parent]
    IN  root[t]

\* purge: the segments of a conversation without a recent turn are deleted.
\* Nothing runs in it: no turn lasts as long as segments are kept.
Purge(r) ==
    LET tree == {t \in Turns : turn[t].at # "absent" /\ Root(t) = r}
    IN  /\ tree # {} /\ \A t \in tree : turn[t].at = "settled"
        /\ \E t \in tree : seg[t] # <<>>
        /\ seg' = [t \in Turns |-> IF t \in tree THEN <<>> ELSE seg[t]]
        /\ UNCHANGED <<turn, stops>>

Next ==
    \/ \E t \in Turns : Handle(t) \/ HandleCallback(t) \/ RunWatch(t) \/ RunScheduled(t) \/ HandleInline(t)
    \/ \E t, origin \in Turns : RetryTurn(t, origin)
    \/ \E t \in Turns : Dispatch(t) \/ DispatchFails(t)
    \/ \E t \in Turns : Begin(t) \/ Add(t) \/ Checkpoint(t) \/ End(t) \/ LoadRepository(t)
    \/ \E t \in Turns : Finish(t) \/ Pause(t) \/ Die(t) \/ Resume(t)
    \/ \E r \in Turns : Purge(r)

Spec == Init /\ [][Next]_vars

-----------------------------------------------------------------------------
(* Properties.                                                             *)

\* What a turn added itself.
Added(t) == SelectSeq(turn[t].messages, LAMBDA m : m.of = t)

\* segments.save: a turn that ended has stored what it added, all of it and
\* nothing else, unless the segment of a turn above it was stored after it had
\* read its history: then a resume cuts its messages at the wrong place.
OwnIsStored ==
    \A t \in Turns : turn[t].at = "saved" /\ ~turn[t].late =>
        seg[t] = Normalized(Added(t)) \/ Normalized(Added(t)) = <<>>

\* lineage: a turn begun after its parent settled has the parent's whole
\* segment before its own messages, over the budget or not; no message of an
\* earlier turn reaches it twice, unless a turn above was late.
MemoryIsWhole ==
    \A t \in Turns : turn[t].at = "run" =>
        /\ turn[t].settledParent => IsSuffix(seg[turn[t].parent], turn[t].read)
        /\ (\A u \in Turns : ~turn[u].late) => IsInjective(turn[t].messages)
=============================================================================
