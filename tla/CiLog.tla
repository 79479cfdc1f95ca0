--------------------------------- MODULE CiLog ---------------------------------
(* The log of a CI job while it runs: the runner appends what the command  *)
(* prints to a file and publishes it, a connection sends the page first    *)
(* what the file has, then what is published, and at the end the rest of   *)
(* the file. github/ci/runner.py, stream_run of api/routes/public/ci.py,   *)
(* the page components/live/CiRun.svelte.                                  *)
(*                                                                         *)
(* A chunk of output is its number. Metrics travel the same way and are    *)
(* left out. The log of the whole run is the same with another file: that  *)
(* one gets the output of its jobs only when they are over.                *)
EXTENDS Naturals, Sequences, FiniteSets

CONSTANTS
    MaxChunks,    \* bound of the model: what the command prints
    MaxConnects   \* bound of the model: connections of the page

VARIABLES
    whole,     \* is it the log of the whole run?
    exists,    \* is there a log?
    file,      \* what it has
    printed,   \* chunks printed
    tasks,     \* chunks whose publication is under way
    ended,     \* the runner is done, or gone
    over,      \* the run's row is final
    conn,      \* the connection
    logs,      \* what the page shows
    shown      \* history: what the page was told at the end of a connection

vars == <<whole, exists, file, printed, tasks, ended, over, conn, logs, shown>>

Chunk == 0..MaxChunks
NotTold == [status |-> FALSE, size |-> 0, all |-> FALSE]

TypeOK ==
    /\ whole \in BOOLEAN /\ exists \in BOOLEAN /\ file \in Seq(Chunk)
    /\ printed \in 0..MaxChunks /\ tasks \subseteq 1..printed /\ {ended, over} \subseteq BOOLEAN
    /\ conn \in [at : {"off", "read", "open", "check"}, offset : Nat, queue : Seq(Chunk),
                 count : 0..MaxConnects, sent : Nat, late : BOOLEAN]
    /\ logs \in Seq(Chunk)
    /\ shown \in [status : BOOLEAN, size : Nat, all : BOOLEAN]

Init ==
    /\ whole \in BOOLEAN /\ exists = FALSE /\ file = <<>>
    /\ printed = 0 /\ tasks = {} /\ ended = FALSE /\ over = FALSE
    /\ conn = [at |-> "off", offset |-> 0, queue |-> <<>>, count |-> 0, sent |-> 0, late |-> FALSE]
    /\ logs = <<>>
    /\ shown = NotTold

Numbers(n) == [i \in 1..n |-> i]

-----------------------------------------------------------------------------
(* The runner.                                                             *)

\* The file is begun with a line of its own.
Start ==
    /\ ~exists /\ ~ended
    /\ exists' = TRUE /\ file' = <<0>>
    /\ UNCHANGED <<whole, printed, tasks, ended, over, conn, logs, shown>>

\* _read_output: the file first, then a task of the loop for the message.
Output ==
    /\ exists /\ ~ended /\ printed < MaxChunks
    /\ printed' = printed + 1
    /\ file' = IF whole THEN file ELSE Append(file, printed')
    /\ tasks' = tasks \cup {printed'}
    /\ UNCHANGED <<whole, exists, ended, over, conn, logs, shown>>

\* The tasks do not wait for each other.
Publish(chunk) ==
    /\ chunk \in tasks
    /\ tasks' = tasks \ {chunk}
    /\ conn' = IF conn.at \in {"open", "check"} THEN [conn EXCEPT !.queue = Append(@, chunk)] ELSE conn
    /\ UNCHANGED <<whole, exists, file, printed, ended, over, logs, shown>>

\* A publication that fails is not noticed.
Drop(chunk) ==
    /\ chunk \in tasks
    /\ tasks' = tasks \ {chunk}
    /\ UNCHANGED <<whole, exists, file, printed, ended, over, conn, logs, shown>>

\* The run ends: what its jobs have printed is put into its log, and then the
\* row is finished.
Finish ==
    /\ ~ended /\ exists
    /\ file' = IF whole THEN file \o Numbers(printed) ELSE file
    /\ ended' = TRUE /\ over' = TRUE
    /\ UNCHANGED <<whole, exists, printed, tasks, conn, logs, shown>>

\* The runner dies with its instance.
Die ==
    /\ ~ended
    /\ ended' = TRUE /\ tasks' = {}
    /\ UNCHANGED <<whole, exists, file, printed, over, conn, logs, shown>>

\* The janitor takes a run whose lease lapsed for crashed; a runner that lives
\* on makes it go on with its next stage (see CiRun).
Lapse ==
    /\ ~over \/ ~ended
    /\ over' = ~over
    /\ UNCHANGED <<whole, exists, file, printed, tasks, ended, conn, logs, shown>>

-----------------------------------------------------------------------------
(* The page and its connection.                                            *)

\* stream_run reads the file, and the page takes it for all there is.
Connect ==
    /\ conn.at = "off" /\ conn.count < MaxConnects
    /\ conn' = [at |-> "read", offset |-> Len(file), queue |-> <<>>,
                count |-> conn.count + 1, sent |-> Len(file), late |-> ended /\ tasks = {}]
    /\ logs' = IF exists THEN file ELSE logs
    /\ shown' = NotTold
    /\ UNCHANGED <<whole, exists, file, printed, tasks, ended, over>>

\* The subscription: what was published since then has passed.
Subscribe ==
    /\ conn.at = "read"
    /\ conn' = [conn EXCEPT !.at = "open"]
    /\ UNCHANGED <<whole, exists, file, printed, tasks, ended, over, logs, shown>>

\* get_message: one, or none within a second.
Message ==
    /\ conn.at = "open"
    /\ IF conn.queue = <<>>
       THEN conn' = [conn EXCEPT !.at = "check"] /\ UNCHANGED logs
       ELSE /\ conn' = [conn EXCEPT !.at = "check", !.queue = Tail(@), !.sent = @ + 1]
            /\ logs' = Append(logs, Head(conn.queue))
    /\ UNCHANGED <<whole, exists, file, printed, tasks, ended, over, shown>>

\* What the file has got since it was read.
Rest == SubSeq(file, conn.offset + 1, Len(file))

\* The row is read; the end of a run ends the connection.
Check ==
    /\ conn.at = "check"
    /\ IF over
       THEN /\ logs' = logs \o Rest
            /\ conn' = [conn EXCEPT !.at = "off", !.queue = <<>>]
            /\ shown' = [status |-> TRUE, size |-> Len(file), all |-> conn.late]
       ELSE conn' = [conn EXCEPT !.at = "open"] /\ UNCHANGED <<logs, shown>>
    /\ UNCHANGED <<whole, exists, file, printed, tasks, ended, over>>

\* The connection breaks; an EventSource connects again, as it does after an end.
Break ==
    /\ conn.at \in {"read", "open", "check"}
    /\ conn' = [conn EXCEPT !.at = "off", !.queue = <<>>]
    /\ UNCHANGED <<whole, exists, file, printed, tasks, ended, over, logs, shown>>

Next ==
    \/ Start \/ Output \/ Finish \/ Die \/ Lapse \/ Connect \/ Subscribe \/ Message \/ Check \/ Break
    \/ \E chunk \in Chunk : Publish(chunk) \/ Drop(chunk)

Spec == Init /\ [][Next]_vars

-----------------------------------------------------------------------------
(* Properties.                                                             *)

\* A page that was told the end of the run shows everything its log has,
\* whatever was not published, or published before the subscription; one that
\* connected after the end, and the last publication, shows exactly the log.
LogIsShown ==
    shown.status =>
        /\ \A n \in 1..shown.size : \E i \in DOMAIN logs : logs[i] = file[n]
        /\ shown.all => logs = SubSeq(file, 1, shown.size)

\* A chunk reaches a page at most twice by one connection: by the file and by
\* the message.
NoThirdTime ==
    \A chunk \in 1..printed : Cardinality({i \in DOMAIN logs : logs[i] = chunk}) <= 2
=============================================================================
