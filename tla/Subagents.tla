------------------------------- MODULE Subagents -------------------------------
(* Turns that run below a turn, whoever waits for them and how they are    *)
(* stopped with it: agent/subagents.py, run_subagent_turn and              *)
(* spawn_subagent_task of agent/runtime.py, the end of resume_turn,        *)
(* turns.alive and stop, TurnRepository.create_subagent and reap_stale.    *)
(*                                                                         *)
(* An instance keeps one event for each subagent in _events, which a wait  *)
(* creates, spawn_subagent_task replaces and a wait that ends takes away:  *)
(* who still holds the old one keeps an event of its own. Nothing in the   *)
(* code spawns a subagent at this commit; one is taken to be spawned by an *)
(* instance that is not shutting down.                                     *)
EXTENDS Naturals, Sequences

CONSTANTS
    Children,   \* the subagents of one turn
    Instances,
    Waiters,    \* calls of wait_subagents, each for every subagent
    Order       \* the order in which a wait takes them

VARIABLES
    child,    \* the row and the task of each subagent
    slot,     \* _events: "none", "clear" or "set"
    waiter,   \* the waits
    down      \* instances that shut down

vars == <<child, slot, waiter, down>>

NoInstance == "none"
At(c) == child[c].at

\* What became of a subagent that left its row RUNNING.
Reasons == {"no", "paused", "interrupted", "crashed"}

TypeOK ==
    /\ child \in [Children -> [row : {"none", "running", "over"},
                               at : {"none", "spawned", "run", "closing", "store", "notify", "gone"},
                               inst : Instances \cup {NoInstance}, flag : BOOLEAN,
                               cancel : BOOLEAN, status : {"running", "over"}, left : Reasons,
                               asked : BOOLEAN, late : BOOLEAN]]
    /\ slot \in [Instances -> [Children -> {"none", "clear", "set"}]]
    /\ waiter \in [Waiters -> [at : {"new", "next", "loop", "wait", "done"},
                               inst : Instances \cup {NoInstance}, left : Seq(Children),
                               holds : {"slot", "clear", "set"}, listens : BOOLEAN,
                               mail : SUBSET Children, timedOut : BOOLEAN]]
    /\ down \subseteq Instances

Init ==
    /\ child = [c \in Children |->
                   [row |-> "none", at |-> "none", inst |-> NoInstance, flag |-> FALSE,
                    cancel |-> FALSE, status |-> "over", left |-> "no", asked |-> FALSE,
                    late |-> FALSE]]
    /\ slot = [i \in Instances |-> [c \in Children |-> "none"]]
    /\ waiter = [w \in Waiters |->
                    [at |-> "new", inst |-> NoInstance, left |-> <<>>, holds |-> "clear",
                     listens |-> FALSE, mail |-> {}, timedOut |-> FALSE]]
    /\ down = {}

-----------------------------------------------------------------------------
(* The events of an instance.                                              *)

\* Is w at the subagent c, with an event of the instance i?
Holds(w, i, c) ==
    /\ waiter[w].at \in {"loop", "wait"} /\ waiter[w].inst = i
    /\ Head(waiter[w].left) = c /\ waiter[w].holds = "slot"

\* The entries of the subagents cs are replaced: who holds an old event keeps it.
Detached(i, cs) ==
    [w \in Waiters |->
        IF \E c \in cs : Holds(w, i, c)
        THEN [waiter[w] EXCEPT !.holds = slot[i][Head(waiter[w].left)]] ELSE waiter[w]]

\* mark_subagent_done
Marked(i, c) == IF slot[i][c] = "clear" THEN [slot EXCEPT ![i][c] = "set"] ELSE slot

IsSet(w) ==
    LET c == Head(waiter[w].left)
    IN  IF waiter[w].holds = "slot" THEN slot[waiter[w].inst][c] = "set" ELSE waiter[w].holds = "set"

-----------------------------------------------------------------------------
(* A subagent.                                                             *)

\* create_subagent, spawn_subagent_task and register_subagent_task
Spawn(c, i) ==
    /\ At(c) = "none" /\ i \notin down
    /\ child' = [child EXCEPT ![c].row = "running", ![c].at = "spawned", ![c].inst = i]
    /\ waiter' = Detached(i, {c})
    /\ slot' = [slot EXCEPT ![i][c] = "clear"]
    /\ UNCHANGED down

\* alive: whatever was asked before is forgotten.
Begin(c) ==
    /\ At(c) = "spawned" /\ ~child[c].cancel
    /\ child' = [child EXCEPT ![c].at = "run", ![c].flag = FALSE, ![c].late = child[c].asked]
    /\ UNCHANGED <<slot, waiter, down>>

\* A task that is cancelled before it has come so far: nothing of it is left
\* but the row, unless it had come to its finally.
CancelledEarly(c) ==
    /\ At(c) = "spawned" /\ child[c].cancel
    /\ child' = [child EXCEPT ![c].at = "gone", ![c].cancel = FALSE, ![c].left = "interrupted"]
    /\ UNCHANGED <<slot, waiter, down>>

\* _execute returns, paused only in a shutdown, or the timeout passes.
Executed(c) ==
    /\ At(c) = "run"
    /\ \E status \in {"running", "over"} :
        /\ status = "running" => child[c].inst \in down
        /\ child' = [child EXCEPT ![c].at = "closing", ![c].status = status]
    /\ UNCHANGED <<slot, waiter, down>>

\* The heartbeat sees the flag.
Beat(c) ==
    /\ At(c) = "run" /\ child[c].flag /\ ~child[c].cancel
    /\ child' = [child EXCEPT ![c].cancel = TRUE]
    /\ UNCHANGED <<slot, waiter, down>>

\* except CancelledError
Cancelled(c) ==
    /\ At(c) = "run" /\ child[c].cancel
    /\ child' = [child EXCEPT ![c].at = "store", ![c].cancel = FALSE,
                    ![c].status = IF child[c].inst \in down /\ ~child[c].flag
                                  THEN "running" ELSE "over"]
    /\ UNCHANGED <<slot, waiter, down>>

\* alive ends; it suppresses a cancellation.
Closed(c) ==
    /\ At(c) = "closing"
    /\ child' = [child EXCEPT ![c].at = "store", ![c].cancel = FALSE]
    /\ UNCHANGED <<slot, waiter, down>>

\* finally: the flag is cleared and the row finished, or left for a recovery
\* which passes over subagents.
Store(c) ==
    /\ At(c) = "store" /\ ~child[c].cancel
    /\ child' = [child EXCEPT ![c].at = "notify",
                    ![c].row = IF child[c].status = "over" THEN "over" ELSE @,
                    ![c].left = IF child[c].status = "running" THEN "paused" ELSE @,
                    ![c].flag = IF child[c].status = "over" THEN FALSE ELSE @]
    /\ UNCHANGED <<slot, waiter, down>>

\* A cancellation that comes here ends the task at once.
Interrupted(c) ==
    /\ At(c) \in {"store", "notify"} /\ child[c].cancel
    /\ child' = [child EXCEPT ![c].at = "gone", ![c].cancel = FALSE,
                    ![c].left = IF child[c].row = "running" THEN "interrupted" ELSE @]
    /\ UNCHANGED <<slot, waiter, down>>

\* A variant: the waits are told before the row is finished.
NotifyFirst(c) ==
    /\ At(c) \in {"store", "notify"} /\ ~child[c].cancel
    /\ child' = IF At(c) = "notify" THEN [child EXCEPT ![c].at = "gone"] ELSE child
    /\ slot' = Marked(child[c].inst, c)
    /\ waiter' = [w \in Waiters |->
                     IF waiter[w].listens THEN [waiter[w] EXCEPT !.mail = @ \cup {c}] ELSE waiter[w]]
    /\ UNCHANGED down

\* notify_subagent_done: here, and by a message to the other instances.
Notify(c) ==
    /\ At(c) = "notify" /\ ~child[c].cancel
    /\ child' = [child EXCEPT ![c].at = "gone"]
    /\ slot' = Marked(child[c].inst, c)
    /\ waiter' = [w \in Waiters |->
                     IF waiter[w].listens THEN [waiter[w] EXCEPT !.mail = @ \cup {c}] ELSE waiter[w]]
    /\ UNCHANGED down

\* reap_stale: an hour later, a row that nobody beats for.
Reap(c) ==
    /\ child[c].row = "running" /\ At(c) = "gone"
    /\ child' = [child EXCEPT ![c].row = "over"]
    /\ UNCHANGED <<slot, waiter, down>>

-----------------------------------------------------------------------------
(* The end of the parent, and of an instance.                              *)

\* cancel_subagents_of, of one that is RUNNING: its task, if that is known
\* here and not done, is cancelled; then the flag is set.
Ask(c, i) ==
    /\ child[c].row = "running" /\ ~child[c].asked
    /\ child' = [child EXCEPT ![c].asked = TRUE, ![c].flag = TRUE,
                    ![c].cancel = @ \/ (child[c].inst = i /\ At(c) # "gone")]
    /\ UNCHANGED <<slot, waiter, down>>

\* set_shutting_down; once the grace is over drain cancels what is alive.
ShutDown(i) ==
    /\ i \notin down
    /\ down' = down \cup {i}
    /\ UNCHANGED <<child, slot, waiter>>

Drain(c) ==
    /\ child[c].inst \in down /\ At(c) \in {"run", "closing"} /\ ~child[c].cancel
    /\ child' = [child EXCEPT ![c].cancel = TRUE]
    /\ UNCHANGED <<slot, waiter, down>>

\* The instance ends: its tasks, its waits and its events with it.
Crash(i) ==
    /\ i \in down
    /\ \E c \in Children : child[c].inst = i /\ At(c) \notin {"none", "gone"}
    /\ child' = [c \in Children |->
                    IF child[c].inst = i /\ At(c) \notin {"none", "gone"}
                    THEN [child[c] EXCEPT !.at = "gone", !.cancel = FALSE,
                             !.left = IF child[c].row = "running" THEN "crashed" ELSE @]
                    ELSE child[c]]
    /\ waiter' = [w \in Waiters |->
                     IF waiter[w].inst = i THEN [waiter[w] EXCEPT !.at = "done", !.timedOut = TRUE,
                                                     !.left = <<>>, !.mail = {}, !.listens = FALSE]
                                           ELSE waiter[w]]
    /\ slot' = [slot EXCEPT ![i] = [c \in Children |-> "none"]]
    /\ UNCHANGED down

-----------------------------------------------------------------------------
(* wait_subagents.                                                         *)

\* setdefault for each, then the subscription, which may fail.
WaitStart(w, i) ==
    /\ waiter[w].at = "new" /\ i \notin down
    /\ \A c \in Children : child[c].row # "none"
    /\ slot' = [slot EXCEPT ![i] = [c \in Children |-> IF @[c] = "none" THEN "clear" ELSE @[c]]]
    /\ \E listens \in BOOLEAN :
           waiter' = [waiter EXCEPT ![w] = [@ EXCEPT !.at = "next", !.inst = i, !.left = Order,
                                                     !.listens = listens]]
    /\ UNCHANGED <<child, down>>

\* The listener takes a message.
Hear(w, c) ==
    /\ waiter[w].listens /\ c \in waiter[w].mail
    /\ waiter' = [waiter EXCEPT ![w].mail = @ \ {c}]
    /\ slot' = Marked(waiter[w].inst, c)
    /\ UNCHANGED <<child, down>>

\* The next subagent: the event of the instance, or one that nobody else sees.
WaitNext(w) ==
    /\ waiter[w].at = "next" /\ waiter[w].left # <<>>
    /\ waiter' = [waiter EXCEPT ![w].at = "loop",
                     ![w].holds = IF slot[waiter[w].inst][Head(waiter[w].left)] = "none"
                                  THEN "clear" ELSE "slot"]
    /\ UNCHANGED <<child, slot, down>>

GoOn(w) == [waiter EXCEPT ![w].at = "next", ![w].left = Tail(@), ![w].holds = "clear"]

\* The event is set, or the row is read: over, or not yet.
WaitLoop(w) ==
    LET c == Head(waiter[w].left)
    IN  /\ waiter[w].at = "loop"
        /\ IF IsSet(w)
           THEN waiter' = GoOn(w) /\ UNCHANGED slot
           ELSE IF child[c].row = "over"
                THEN /\ waiter' = GoOn(w)
                     /\ slot' = IF waiter[w].holds = "slot" THEN Marked(waiter[w].inst, c) ELSE slot
                ELSE waiter' = [waiter EXCEPT ![w].at = "wait"] /\ UNCHANGED slot
        /\ UNCHANGED <<child, down>>

\* The event is set, or three seconds have passed.
WaitWakes(w) ==
    /\ waiter[w].at = "wait"
    /\ waiter' = [waiter EXCEPT ![w].at = "loop"]
    /\ UNCHANGED <<child, slot, down>>

\* The timeout of the whole wait.
WaitTimesOut(w) ==
    /\ waiter[w].at \in {"next", "loop"} /\ waiter[w].left # <<>>
    /\ waiter' = [waiter EXCEPT ![w].at = "next", ![w].left = <<>>, ![w].holds = "clear",
                                ![w].timedOut = TRUE]
    /\ UNCHANGED <<child, slot, down>>

\* finally: the events are taken away, those of other waits with them.
WaitEnd(w) ==
    LET i == waiter[w].inst
    IN  /\ waiter[w].at = "next" /\ waiter[w].left = <<>>
        /\ waiter' = [Detached(i, Children) EXCEPT ![w] =
                         [@ EXCEPT !.at = "done", !.listens = FALSE, !.mail = {}]]
        /\ slot' = [slot EXCEPT ![i] = [c \in Children |-> "none"]]
        /\ UNCHANGED <<child, down>>

Next ==
    \/ \E c \in Children, i \in Instances : Spawn(c, i) \/ Ask(c, i)
    \/ \E c \in Children :
        \/ Begin(c) \/ CancelledEarly(c) \/ Executed(c) \/ Beat(c) \/ Cancelled(c) \/ Closed(c)
        \/ Store(c) \/ Interrupted(c) \/ Notify(c) \/ Reap(c) \/ Drain(c)
    \/ \E i \in Instances : ShutDown(i) \/ Crash(i)
    \/ \E w \in Waiters, i \in Instances : WaitStart(w, i)
    \/ \E w \in Waiters, c \in Children : Hear(w, c)
    \/ \E w \in Waiters :
        WaitNext(w) \/ WaitLoop(w) \/ WaitWakes(w) \/ WaitTimesOut(w) \/ WaitEnd(w)

Spec == Init /\ [][Next]_vars

-----------------------------------------------------------------------------
(* Properties.                                                             *)

\* wait_subagents: one that ends before its timeout has waited for each of its
\* subagents to be over; only one that was paused for a shutdown, and that
\* nothing will resume, is told of as if it were.
WaitedForAll ==
    \A w \in Waiters : waiter[w].at = "done" /\ ~waiter[w].timedOut =>
        \A c \in Children : child[c].row = "over" \/ child[c].left = "paused"

\* run_subagent_turn: a subagent whose task is gone is over, unless it was
\* paused, its instance ended, or the end of its parent interrupted it before
\* it ran or while it stored its result.
LeftForAReason ==
    \A c \in Children : At(c) = "gone" /\ child[c].row = "running" => child[c].left # "no"

\* cancel_subagents_of: a subagent that still runs after its parent asked it to
\* stop is about to, on whichever instance; only one that had not begun yet has
\* forgotten it.
StopIsHeeded ==
    \A c \in Children : child[c].asked /\ At(c) = "run" =>
        child[c].flag \/ child[c].cancel \/ child[c].late
=============================================================================
