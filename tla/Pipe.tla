-------------------------------- MODULE Pipe --------------------------------
(* The command /pipe: the lines of a message run one after the other, each *)
(* as a turn below the one before, and the dict of the pipes that /pipe,   *)
(* /stop and /wipe cancel. telegram/handlers/commands/pipe.py, stop.py and *)
(* wipe.py; one chat on one instance. A task's cancellation strikes at its *)
(* next await, wherever that is.                                           *)
EXTENDS Naturals

CONSTANTS
    MaxPipes,   \* bound of the model: commands /pipe given
    Lines       \* lines of each command

VARIABLES
    entry,   \* _ACTIVE_PIPELINES of the chat: a pipe, or 0
    pipe,    \* the task of each pipe
    row      \* pipe -> line -> the status of its turn

vars == <<entry, pipe, row>>

Pipes == 1..MaxPipes

TypeOK ==
    /\ entry \in 0..MaxPipes
    /\ pipe \in [Pipes -> [at : {"none", "born", "route", "run", "check", "ended"},
                           line : 1..Lines, cancel : BOOLEAN, told : BOOLEAN,
                           usurped : BOOLEAN, swallowed : BOOLEAN]]
    /\ row \in [Pipes -> [1..Lines -> {"none", "running", "done", "failed", "cancelled", "gone"}]]

Task(at) ==
    [at |-> at, line |-> 1, cancel |-> FALSE, told |-> FALSE, usurped |-> FALSE, swallowed |-> FALSE]

Init ==
    /\ entry = 0
    /\ pipe = [p \in Pipes |-> Task("none")]
    /\ row = [p \in Pipes |-> [i \in 1..Lines |-> "none"]]

Live(p) == pipe[p].at \notin {"none", "ended"}

Row(p) == row[p][pipe[p].line]
RowIs(p, status) == row' = [row EXCEPT ![p][pipe[p].line] = status]

-----------------------------------------------------------------------------
(* Commands.                                                               *)

\* cancel_pipeline: the entry is removed, and its task is cancelled.
Cancelled(p) ==
    IF p = entry /\ Live(p) THEN [pipe[p] EXCEPT !.cancel = TRUE, !.told = TRUE] ELSE pipe[p]

\* pipe_handler
Command(p) ==
    /\ pipe[p].at = "none" /\ \A q \in 1..(p - 1) : pipe[q].at # "none"
    /\ pipe' = [q \in Pipes |-> IF q = p THEN Task("born") ELSE Cancelled(q)]
    /\ entry' = p
    /\ UNCHANGED row

\* stop_handler: the pipe of the chat, whatever message the command replies to.
Stop ==
    /\ entry # 0 /\ entry' = 0
    /\ pipe' = [q \in Pipes |-> Cancelled(q)]
    /\ UNCHANGED row

\* turns.stop: the task in which the turn runs is cancelled; that is the pipe's.
StopTurn(p) ==
    /\ pipe[p].at = "run" /\ ~pipe[p].cancel
    /\ pipe' = [pipe EXCEPT ![p].cancel = TRUE, ![p].told = TRUE]
    /\ UNCHANGED <<entry, row>>

\* wipe_handler: the pipe as for /stop, then the rows of all turns.
Wipe ==
    /\ \E p \in Pipes, i \in 1..Lines : row[p][i] \notin {"none", "gone"}
    /\ entry' = 0
    /\ pipe' = [q \in Pipes |->
           IF pipe[q].at = "run" THEN [pipe[q] EXCEPT !.cancel = TRUE, !.told = TRUE]
           ELSE Cancelled(q)]
    /\ row' = [q \in Pipes |-> [i \in 1..Lines |->
                   IF row[q][i] = "none" THEN "none" ELSE "gone"]]

-----------------------------------------------------------------------------
(* The task of a pipe.                                                     *)

\* finally: the entry of the chat is removed, whoever's it is.
Ends(p) ==
    /\ entry' = 0
    /\ pipe' = [q \in Pipes |->
           IF q = p THEN Task("ended")
           ELSE IF q = entry THEN [pipe[q] EXCEPT !.usurped = TRUE] ELSE pipe[q]]

\* The task runs for the first time; a task cancelled before that never runs.
Start(p) ==
    /\ pipe[p].at = "born"
    /\ pipe' = [pipe EXCEPT ![p] = IF @.cancel THEN Task("ended") ELSE [@ EXCEPT !.at = "route"]]
    /\ UNCHANGED <<entry, row>>

\* turns.route: the turn of the line, below the turn of the line before.
Route(p) ==
    /\ pipe[p].at = "route" /\ ~pipe[p].cancel
    /\ RowIs(p, "running")
    /\ pipe' = [pipe EXCEPT ![p].at = "run"]
    /\ UNCHANGED entry

\* run_turn ends by itself; a row that was wiped is not finished.
RunEnds(p) ==
    /\ pipe[p].at = "run" /\ ~pipe[p].cancel
    /\ \E status \in {"done", "failed"} : RowIs(p, IF Row(p) = "gone" THEN "gone" ELSE status)
    /\ pipe' = [pipe EXCEPT ![p].at = "check"]
    /\ UNCHANGED entry

\* run_turn takes the cancellation for a /stop: the turn is cancelled, or left
\* RUNNING by an instance that shuts down, and run_turn returns.
RunIsStopped(p) ==
    /\ pipe[p].at = "run" /\ pipe[p].cancel
    /\ \E status \in {"cancelled", "running"} : RowIs(p, IF Row(p) = "gone" THEN "gone" ELSE status)
    /\ pipe' = [pipe EXCEPT ![p].at = "check", ![p].cancel = FALSE]
    /\ UNCHANGED entry

\* The cancellation strikes while alive waits for its cancelled heartbeat,
\* which suppresses it: the turn is done all the same.
RunSwallows(p) ==
    /\ pipe[p].at = "run" /\ pipe[p].cancel
    /\ RowIs(p, IF Row(p) = "gone" THEN "gone" ELSE "done")
    /\ pipe' = [pipe EXCEPT ![p].at = "check", ![p].cancel = FALSE, ![p].swallowed = TRUE]
    /\ UNCHANGED entry

\* The cancellation strikes outside that: while the turn is routed, before or
\* after it is created, while it is set up or torn down, or while its row is
\* read.
Interrupted(p) ==
    /\ pipe[p].at \in {"route", "run", "check"} /\ pipe[p].cancel
    /\ RowIs(p, Row(p)) \/ (pipe[p].at = "route" /\ RowIs(p, "running"))
    /\ Ends(p)

\* Mutant: a turn that failed does not stop the pipe.
GoesOnRegardless(p) == Row(p) # "gone"

\* The row of the turn is read; only a turn that is done lets the pipe go on.
GoesOn(p) == Row(p) = "done"

Check(p) ==
    /\ pipe[p].at = "check" /\ ~pipe[p].cancel
    /\ IF GoesOn(p) /\ pipe[p].line < Lines
       THEN /\ pipe' = [pipe EXCEPT ![p].at = "route", ![p].line = @ + 1]
            /\ UNCHANGED entry
       ELSE Ends(p)
    /\ UNCHANGED row

Next ==
    \/ Stop \/ Wipe
    \/ \E p \in Pipes :
        \/ Command(p) \/ StopTurn(p) \/ Start(p) \/ Route(p) \/ RunEnds(p)
        \/ RunIsStopped(p) \/ RunSwallows(p) \/ Interrupted(p) \/ Check(p)

Spec == Init /\ [][Next]_vars

-----------------------------------------------------------------------------
(* Properties.                                                             *)

\* cancel_pipeline: a pipe that goes on, and that nobody stopped, is the one
\* /stop would reach, so a chat has one; but for a pipe whose entry an earlier
\* pipe removed when it ended.
LiveIsEntered ==
    \A p \in Pipes : Live(p) /\ ~pipe[p].told => entry = p \/ pipe[p].usurped

\* _run_pipe: a line has a turn only if the turn of each line before it was
\* done, or wiped since.
LinesFollow ==
    \A p \in Pipes, i \in 2..Lines : row[p][i] # "none" => row[p][i - 1] \in {"done", "gone"}

\* What a step may do: a pipe that was stopped starts no further turn, unless the
\* cancellation came when a turn was all but over.
StoppedStartsNone ==
    \A p \in Pipes : pipe[p].at = "route" /\ pipe'[p].at = "run" =>
        ~pipe[p].told \/ pipe[p].swallowed
=============================================================================
