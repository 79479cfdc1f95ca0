------------------------------ MODULE Devtools ------------------------------
(***************************************************************************)
(* The client's end of a DevTools connection (chrome/cdp.py on             *)
(* chrome/ws.py): numbered calls, one at a time, answers kept by number    *)
(* until their call asks for them, events put aside, and drain, which      *)
(* reads with a short timeout between calls. The browser is outside: it    *)
(* answers calls in any order, late or never, and sends events.            *)
(***************************************************************************)
EXTENDS Integers, Sequences

CONSTANTS Keep,        \* answers kept, 200 in the source
          MaxCalls,    \* bound: calls
          MaxEvents    \* bound: events the browser sends

VARIABLES
    calls,       \* _id
    unanswered,  \* calls the browser has and has not answered
    wire,        \* what the browser sent: numbers of calls, or Event
    answers,     \* the numbers in _answers, the oldest first
    waiting,     \* the call in _wait, or 0
    outcome,     \* outcome[i]: what call i ended with
    taken,       \* answers read from the connection (history)
    torn,        \* a frame was left half read: no frame begins where the next is read
    sent

vars == <<calls, unanswered, wire, answers, waiting, outcome, taken, torn, sent>>

Event == 0
NoCall == 0

Init ==
    /\ calls = 0 /\ unanswered = {} /\ wire = <<>> /\ answers = <<>>
    /\ waiting = NoCall /\ outcome = <<>> /\ taken = {} /\ torn = FALSE /\ sent = 0

(* call: the next number, under the lock to its end. *)
Call ==
    /\ waiting = NoCall /\ calls < MaxCalls
    /\ calls' = calls + 1
    /\ unanswered' = unanswered \cup {calls + 1}
    /\ waiting' = calls + 1
    /\ outcome' = Append(outcome, "none")
    /\ UNCHANGED <<wire, answers, taken, torn, sent>>

Answer(i) ==
    /\ i \in unanswered
    /\ unanswered' = unanswered \ {i}
    /\ wire' = Append(wire, i)
    /\ UNCHANGED <<calls, answers, waiting, outcome, taken, torn, sent>>

Happen ==
    /\ sent < MaxEvents
    /\ sent' = sent + 1
    /\ wire' = Append(wire, Event)
    /\ UNCHANGED <<calls, unanswered, answers, waiting, outcome, taken, torn>>

(* An answer is kept; above the limit the oldest one goes. *)
Kept(i) == LET more == Append(answers, i) IN
           IF Len(more) > Keep THEN Tail(more) ELSE more

(* One whole frame, answer or event. *)
Frame ==
    /\ wire # <<>> /\ ~torn
    /\ wire' = Tail(wire)
    /\ IF Head(wire) = Event THEN UNCHANGED <<answers, taken>>
       ELSE answers' = Kept(Head(wire)) /\ taken' = taken \cup {Head(wire)}

Ended(what) == outcome' = [outcome EXCEPT ![waiting] = what] /\ waiting' = NoCall

Stored == {answers[i] : i \in 1..Len(answers)}

(* _wait, in the order of its loop: the stored answer first. *)
Found ==
    /\ waiting # NoCall
    /\ \E i \in 1..Len(answers) :
        /\ answers[i] = waiting
        /\ answers' = SubSeq(answers, 1, i - 1) \o SubSeq(answers, i + 1, Len(answers))
    /\ Ended("answer")
    /\ UNCHANGED <<calls, unanswered, wire, taken, torn, sent>>

Receive ==
    /\ waiting # NoCall /\ waiting \notin Stored
    /\ Frame
    /\ UNCHANGED <<calls, unanswered, waiting, outcome, torn, sent>>

(* The time is up, the socket is quiet or closed, or what is read makes no *)
(* sense any more.                                                         *)
GiveUp ==
    /\ waiting # NoCall /\ waiting \notin Stored
    /\ Ended("silence")
    /\ UNCHANGED <<calls, unanswered, wire, answers, taken, torn, sent>>

(* drain: what has come, without waiting for a call. *)
Drain ==
    /\ waiting = NoCall
    /\ Frame
    /\ UNCHANGED <<calls, unanswered, waiting, outcome, torn, sent>>

(* The short timeout of drain strikes between the head of a frame and its  *)
(* body: _read took the head, and the body is read as a head next.         *)
DrainTorn ==
    /\ waiting = NoCall /\ wire # <<>> /\ ~torn
    /\ torn' = TRUE
    /\ UNCHANGED <<calls, unanswered, wire, answers, waiting, outcome, taken, sent>>

Next == \/ Call \/ Happen \/ Found \/ Receive \/ GiveUp \/ Drain \/ DrainTorn
        \/ \E i \in 1..MaxCalls : Answer(i)

Spec == Init /\ [][Next]_vars
-----------------------------------------------------------------------------
TypeOK ==
    /\ calls \in 0..MaxCalls /\ waiting \in 0..calls
    /\ unanswered \subseteq 1..calls /\ taken \subseteq 1..calls
    /\ Stored \subseteq 1..calls /\ Len(answers) <= Keep
    /\ torn \in BOOLEAN

(* A call gets the answer to itself, however late the answers of calls     *)
(* given up before it come, and its own is never thrown away to make room  *)
(* for theirs (cdp.py, _wait).                                                       *)
AnswersAreOwn ==
    /\ \A i \in 1..calls : outcome[i] = "answer" => i \in taken
    /\ waiting # NoCall /\ waiting \in taken => waiting \in Stored
=============================================================================
