------------------------------- MODULE Spool --------------------------------
(***************************************************************************)
(* The directory of a block: a script that runs apart from the server, its *)
(* output, the file with the number it is known by and the file it leaves  *)
(* its exit code in; and a reader that tails the output until it is over.  *)
(* The server may end and another one reads the directory.                 *)
(*                                                                         *)
(* Source: agent/spool.py (BashSpool).  The loop only names the directory  *)
(* in its checkpoint; the class is used by the tests.                      *)
(*                                                                         *)
(* One directory.  Processes are numbered as they are launched.            *)
(***************************************************************************)
EXTENDS Naturals

CONSTANTS
    MaxRuns,    \* bound of the model: launches
    MaxOutput   \* bound of the model: lines of output

Processes == 1..MaxRuns
Absent == [by |-> 0, code |-> "absent"]
Codes == {"ok", "failed"}

VARIABLES
    proc,    \* of each process: "none", "running", "trap", "zombie", "gone"
    code,    \* of each process: what it ends with
    latest,  \* the process last launched
    meta,    \* meta_file: the process in it, 0 for no file
    exit,    \* exit_code_file: who wrote it, and what
    out,     \* stdout_file: its lines
    alone,   \* was no other process of the directory there at the launch
    server,  \* processes that are children of the server that runs
    tail,    \* the reader: how far it is, and what it does next
    offset,  \* lines it has given
    seen     \* the probe: status and code, and was it being written

vars == <<proc, code, latest, meta, exit, out, alone, server, tail, offset, seen>>

Nothing == [status |-> "none", code |-> "none", torn |-> FALSE]
There(p) == proc[p] \in {"running", "trap"}

TypeOK ==
    /\ proc \in [Processes -> {"none", "running", "trap", "zombie", "gone"}]
    /\ code \in [Processes -> Codes \cup {"killed"}]
    /\ latest \in 0..MaxRuns /\ meta \in 0..MaxRuns
    /\ exit \in [by : 0..MaxRuns, code : Codes \cup {"absent", "empty", "killed"}]
    /\ out \in 0..MaxOutput /\ offset \in 0..MaxOutput
    /\ server \subseteq Processes
    /\ tail \in {"off", "read", "probe", "again", "last", "over"}

Init ==
    /\ proc = [p \in Processes |-> "none"]
    /\ code = [p \in Processes |-> "ok"]
    /\ latest = 0 /\ meta = 0 /\ exit = Absent /\ out = 0 /\ alone = TRUE
    /\ server = {} /\ tail = "off" /\ offset = 0 /\ seen = Nothing

\* prepare: what an earlier run has left is removed; launch, as far as the
\* process.  Whoever still writes to the old output writes to no file.
Prepare ==
    /\ latest < MaxRuns /\ tail \in {"off", "over"} /\ meta = latest
    /\ latest' = latest + 1
    /\ proc' = [proc EXCEPT ![latest'] = "running"]
    /\ server' = server \cup {latest'}
    /\ alone' = (\A p \in Processes : proc[p] \in {"none", "gone"})
    /\ meta' = 0 /\ exit' = Absent /\ out' = 0
    /\ tail' = "off" /\ offset' = 0 /\ seen' = Nothing
    /\ UNCHANGED code

\* launch, from there: its number is written.
Launch ==
    /\ meta # latest /\ latest \in server
    /\ meta' = latest /\ tail' = "read"
    /\ UNCHANGED <<proc, code, latest, exit, out, alone, server, offset, seen>>

\* The script says something.
Output(p) ==
    /\ proc[p] = "running" /\ p = latest /\ out < MaxOutput
    /\ out' = out + 1
    /\ UNCHANGED <<proc, code, latest, meta, exit, alone, server, tail, offset, seen>>

\* It ends, or is terminated: the shell opens the file for the code,
Trap(p, c) ==
    /\ proc[p] = "running"
    /\ proc' = [proc EXCEPT ![p] = "trap"]
    /\ code' = [code EXCEPT ![p] = c]
    /\ exit' = [by |-> p, code |-> "empty"]
    /\ UNCHANGED <<latest, meta, out, alone, server, tail, offset, seen>>

\* ... and writes it.
Trapped(p) ==
    /\ proc[p] = "trap"
    /\ proc' = [proc EXCEPT ![p] = IF p \in server THEN "zombie" ELSE "gone"]
    /\ exit' = [by |-> p, code |-> code[p]]
    /\ UNCHANGED <<code, latest, meta, out, alone, server, tail, offset, seen>>

\* It is killed, by terminate after its grace or by the system.
Kill(p) ==
    /\ There(p)
    /\ proc' = [proc EXCEPT ![p] = IF p \in server THEN "zombie" ELSE "gone"]
    /\ code' = [code EXCEPT ![p] = "killed"]
    /\ UNCHANGED <<latest, meta, exit, out, alone, server, tail, offset, seen>>

\* _watch_proc: the code of a process that has left none.
WatchProc(p) ==
    /\ proc[p] = "zombie" /\ p \in server
    /\ proc' = [proc EXCEPT ![p] = "gone"]
    /\ exit' = IF exit = Absent THEN [by |-> p, code |-> code[p]] ELSE exit
    /\ UNCHANGED <<code, latest, meta, out, alone, server, tail, offset, seen>>

\* The server ends; what it launched goes on.
Crash ==
    /\ server # {} /\ meta = latest
    /\ server' = {}
    /\ proc' = [p \in Processes |-> IF proc[p] = "zombie" THEN "gone" ELSE proc[p]]
    /\ tail' = IF tail = "over" THEN "over" ELSE "read"
    /\ offset' = IF tail = "over" THEN offset ELSE 0
    /\ seen' = IF tail = "over" THEN seen ELSE Nothing
    /\ UNCHANGED <<code, latest, meta, exit, out, alone>>

\* A code that cannot be read counts as none.
ReadCode == IF exit.code = "empty" THEN "ok" ELSE exit.code

\* tail: what is new,
Read ==
    /\ tail = "read"
    /\ offset' = out /\ tail' = "probe"
    /\ UNCHANGED <<proc, code, latest, meta, exit, out, alone, server, seen>>

\* ... probe, which looks twice for the code of who is gone,
Probe ==
    /\ tail \in {"probe", "again"}
    /\ \/ /\ exit # Absent
          /\ tail' = "last"
          /\ seen' = [status |-> "finished", code |-> ReadCode, torn |-> exit.code = "empty"]
       \/ /\ exit = Absent /\ proc[meta] \in {"running", "trap", "zombie"} /\ tail = "probe"
          /\ tail' = "read" /\ UNCHANGED seen
       \/ /\ exit = Absent /\ proc[meta] = "gone"
          /\ IF tail = "probe"
               THEN tail' = "again" /\ UNCHANGED seen
               ELSE tail' = "last" /\ seen' = [Nothing EXCEPT !.status = "dead", !.code = "killed"]
    /\ UNCHANGED <<proc, code, latest, meta, exit, out, alone, server, offset>>

\* ... and once more when it is over.
Last ==
    /\ tail = "last"
    /\ offset' = out /\ tail' = "over"
    /\ UNCHANGED <<proc, code, latest, meta, exit, out, alone, server, seen>>

Next ==
    \/ \E p \in Processes :
        \/ Output(p) \/ Trapped(p) \/ Kill(p) \/ WatchProc(p)
        \/ \E c \in Codes : Trap(p, c)
    \/ Prepare \/ Launch \/ Crash \/ Read \/ Probe \/ Last

Spec == Init /\ [][Next]_vars

-----------------------------------------------------------------------------
(* Properties.                                                             *)

\* What the reader is told when it is over is what the process it was for did,
\* and all of its output is given: unless a process of an earlier launch was
\* still there, or the code was read while it was being written.
TailIsTrue ==
    tail = "over" /\ alone /\ ~seen.torn =>
        /\ ~There(latest)
        /\ seen.code = code[latest]
        /\ offset = out
=============================================================================
