------------------------------ MODULE ScaleSet ------------------------------
(***************************************************************************)
(* Runners for the jobs of a repository: a controller holds the lock of    *)
(* the repository, polls the queue of a scale set at GitHub, takes jobs    *)
(* and launches runners on machines of the pool, each with a row and a     *)
(* watcher.  Module Pool has the stores behind a machine.                  *)
(*                                                                         *)
(* Sources: pool/ci/controller.py, supervisor.py, scaleset.py, repos.py.   *)
(*                                                                         *)
(* One repository, enabled and disabled as its user likes.  Jobs are       *)
(* numbered as they are queued, and the message that offers a job has its  *)
(* number.  What GitHub does is external.                                  *)
(***************************************************************************)
EXTENDS Naturals, Sequences, FiniteSets

CONSTANTS
    Instances,
    Machines,
    Nobody,
    Limit,      \* PoolCiRepo.jobs
    MaxJobs,    \* bound of the model: jobs
    MaxRows,    \* bound of the model: runners
    MaxFaults   \* bound of the model: see Fault

VARIABLES
     \* of the row of the repository
    lock,     \* who has keys.ci
    job,      \* of each job, at GitHub
    queue,    \* messages of the scale set that are not acknowledged
    session,  \* whose message session is open at GitHub
    mach,     \* of each machine; "popped" is in no set of Redis
    runner,   \* of each machine: its runner
    task,     \* of each machine: the job its runner has, 0 for none
    rows,     \* PoolCiJob: its machine, status and who watches it
    pc,       \* of each controller
    sess,     \* of each controller: it has a session
    last,     \* of each controller: last_message
    hand,     \* of each controller: the message in hand
    count,    \* of each controller: jobs assigned, as it was told
    left,     \* of each controller: launches to go
    hold,     \* of each controller: the machine it launches on
        \* what close_orphans has read
    overlap,  \* two controllers were at work at a time
    stray,    \* machines whose launch or end was cut short
    dropped,  \* jobs whose message was, between its number and acquire
    faults

github == <<job, queue, session>>
pool == <<mach, runner, task>>
own == <<sess, last, hand, count, left, hold>>
noted == <<overlap, stray, dropped>>
vars == <<lock, github, pool, rows, pc, own, noted, faults>>

AllJobs == 1..MaxJobs
None == 0

TypeOK ==
    /\ lock \in Instances \cup {Nobody} /\ session \in Instances \cup {Nobody}
    /\ job \in [AllJobs -> {"none", "available", "acquired", "running", "over"}]
    /\ queue \subseteq AllJobs /\ dropped \subseteq AllJobs
    /\ mach \in [Machines -> {"idle", "popped", "ci", "gone"}]
    /\ runner \in [Machines -> {"none", "waits", "works", "ended"}]
    /\ task \in [Machines -> 0..MaxJobs]
    /\ \A r \in 1..Len(rows) :
          rows[r] \in [machine : Machines,
                       status : {"assigned", "ended", "lost"},
                       by : Instances \cup {Nobody, "cancelled", "closing"}]
    /\ pc \in [Instances -> {"off", "top", "ack", "acquire", "scale", "launch",
                             "dispatch", "note", "farewell"}]
    /\ sess \in [Instances -> BOOLEAN]
    /\ last \in [Instances -> 0..MaxJobs] /\ hand \in [Instances -> 0..MaxJobs]
    /\ count \in [Instances -> 0..MaxJobs] /\ left \in [Instances -> 0..Limit]
    /\ hold \in [Instances -> Machines \cup {Nobody}]
    /\ stray \subseteq Machines
    /\ overlap \in BOOLEAN /\ faults \in 0..MaxFaults

Init ==
    /\ lock = Nobody /\ session = Nobody
    /\ job = [j \in AllJobs |-> "none"] /\ queue = {}
    /\ mach = [m \in Machines |-> "idle"] /\ runner = [m \in Machines |-> "none"]
    /\ task = [m \in Machines |-> None] /\ rows = <<>>
    /\ pc = [i \in Instances |-> "off"]
    /\ sess = [i \in Instances |-> FALSE] /\ last = [i \in Instances |-> 0]
    /\ hand = [i \in Instances |-> None] /\ count = [i \in Instances |-> 0]
    /\ left = [i \in Instances |-> 0] /\ hold = [i \in Instances |-> Nobody]
    /\ overlap = FALSE /\ stray = {} /\ dropped = {} /\ faults = 0

Fault == faults < MaxFaults /\ faults' = faults + 1
Goto(i, p) == pc' = [pc EXCEPT ![i] = p]

\* running_jobs.
Unfinished == {r \in 1..Len(rows) : rows[r].status = "assigned"}

\* totalAssignedJobs.
Assigned == Cardinality({j \in AllJobs : job[j] \in {"acquired", "running"}})

-----------------------------------------------------------------------------
(* The supervisor and the life of a controller.                            *)

\* tick schedules a controller for a repository that is enabled, and it gets
\* the lock.
Serve(i) ==
    /\ pc[i] = "off"
    /\ lock = Nobody
    /\ lock' = i
    /\ overlap' = (overlap \/ \E k \in Instances : pc[k] # "off")
    /\ Goto(i, "top")
    /\ UNCHANGED <<github, pool, rows, own, stray, dropped, faults>>

\* The lock is lost, and the next look at it ends the loop.
LoseLock(i) ==
    /\ lock = i
    /\ IF pc[i] = "off" THEN UNCHANGED faults ELSE Fault
    /\ lock' = Nobody
    /\ UNCHANGED <<github, pool, rows, pc, own, noted>>

Leave(i) ==
    /\ pc[i] = "top"
    /\ lock # i
    /\ Goto(i, "farewell")
    /\ UNCHANGED <<lock, github, pool, rows, own, noted, faults>>

\* What is cut short: a message between its number and acquire, a launch
\* between the command and its row.
CutJobs(i) == IF hand[i] = None THEN dropped ELSE dropped \cup {hand[i]}
CutMachine(i) == IF pc[i] = "note" THEN stray \cup {hold[i]} ELSE stray

\* The repository is disabled, or the instance stops: the task is cancelled,
\* wherever it waits; _launch does not put its machine back.
Drop(i) ==
    /\ pc[i] \notin {"off", "farewell"}
    /\ Goto(i, "farewell")
    /\ dropped' = CutJobs(i) /\ stray' = CutMachine(i)
    /\ hand' = [hand EXCEPT ![i] = None] /\ hold' = [hold EXCEPT ![i] = Nobody]
    /\ UNCHANGED <<lock, github, pool, rows, sess, last, count, left, overlap, faults>>

Watched(i, by) ==
    [r \in 1..Len(rows) |-> IF rows[r].by = i THEN [rows[r] EXCEPT !.by = by] ELSE rows[r]]

Reset(i) ==
    /\ sess' = [sess EXCEPT ![i] = FALSE]
    /\ last' = [last EXCEPT ![i] = 0]
    /\ hand' = [hand EXCEPT ![i] = None]
    /\ count' = [count EXCEPT ![i] = 0]
    /\ left' = [left EXCEPT ![i] = 0]
    /\ hold' = [hold EXCEPT ![i] = Nobody]

\* _farewell, and the lock is released.
Farewell(i) ==
    /\ pc[i] = "farewell"
    /\ rows' = Watched(i, "cancelled")
    /\ session' = IF sess[i] /\ session = i THEN Nobody ELSE session
    /\ lock' = IF lock = i THEN Nobody ELSE lock
    /\ Goto(i, "off") /\ Reset(i)
    /\ UNCHANGED <<job, queue, pool, noted, faults>>

\* The process dies with its watchers: those that were between the end of the
\* row and forget leave the machine as it is.
Crash(i) ==
    /\ pc[i] # "off"
    /\ Fault
    /\ rows' = Watched(i, Nobody)
    /\ dropped' = CutJobs(i) /\ stray' = CutMachine(i)
    /\ Goto(i, "off") /\ Reset(i)
    /\ UNCHANGED <<lock, github, pool, overlap>>

-----------------------------------------------------------------------------
(* The loop.                                                               *)

\* Mutant: the number of the last message outlives its session.
ResetSession(i) == sess' = [sess EXCEPT ![i] = FALSE] /\ UNCHANGED last

\* _stumble with a status of RESET_STATUSES.
Stumble(i) == sess' = [sess EXCEPT ![i] = FALSE] /\ last' = [last EXCEPT ![i] = 0]

\* The session is gone, or another one is open.
Refused(i) ==
    /\ pc[i] \in {"top", "ack", "acquire"}
    /\ IF sess[i] THEN session # i ELSE session # Nobody
    /\ Goto(i, "top") /\ Stumble(i)
    /\ hand' = [hand EXCEPT ![i] = None]
    /\ dropped' = IF pc[i] = "acquire" THEN CutJobs(i) ELSE dropped
    /\ UNCHANGED <<lock, github, pool, rows, count, left, hold, overlap, stray, faults>>

\* _prepare.
Open(i) ==
    /\ pc[i] = "top"
    /\ ~sess[i] /\ session = Nobody
    /\ session' = i
    /\ sess' = [sess EXCEPT ![i] = TRUE]
    /\ count' = [count EXCEPT ![i] = Assigned]
    /\ Goto(i, "scale")
    /\ UNCHANGED <<lock, job, queue, pool, rows, last, hand, left, hold, noted, faults>>

Live(i) == sess[i] /\ session = i
Unread(i) == {q \in queue : q > last[i]}

\* poll: the next message, and its statistics.
Poll(i) ==
    /\ pc[i] = "top" /\ Live(i)
    /\ Unread(i) # {}
    /\ LET q == CHOOSE q \in Unread(i) : \A p \in Unread(i) : q <= p IN
          /\ hand' = [hand EXCEPT ![i] = q]
          /\ last' = [last EXCEPT ![i] = q]
    /\ count' = [count EXCEPT ![i] = Assigned]
    /\ Goto(i, "ack")
    /\ UNCHANGED <<lock, github, pool, rows, sess, left, hold, noted, faults>>

\* ... or none for STATS_EVERY polls, or a message that offers nothing.
Quiet(i) ==
    /\ pc[i] = "top" /\ Live(i)
    /\ Unread(i) = {}
    /\ count' = [count EXCEPT ![i] = Assigned]
    /\ Goto(i, "scale")
    /\ UNCHANGED <<lock, github, pool, rows, sess, last, hand, left, hold, noted, faults>>

Ack(i) ==
    /\ pc[i] = "ack" /\ Live(i)
    /\ queue' = queue \ {hand[i]}
    /\ Goto(i, "acquire")
    /\ UNCHANGED <<lock, job, session, pool, rows, own, noted, faults>>

\* Neither of the two comes through, with a session that stays: the number
\* of the message has been taken for read.
CallFails(i) ==
    /\ pc[i] \in {"ack", "acquire"}
    /\ Fault
    /\ Goto(i, "top")
    /\ dropped' = CutJobs(i)
    /\ hand' = [hand EXCEPT ![i] = None]
    /\ UNCHANGED <<lock, github, pool, rows, sess, last, count, left, hold, overlap, stray>>

Acquire(i) ==
    /\ pc[i] = "acquire" /\ Live(i)
    /\ job' = [job EXCEPT ![hand[i]] = IF @ = "available" THEN "acquired" ELSE @]
    /\ hand' = [hand EXCEPT ![i] = None]
    /\ Goto(i, "scale")
    /\ UNCHANGED <<lock, queue, session, pool, rows, sess, last, count, left, hold, noted, faults>>

Least(a, b) == IF a <= b THEN a ELSE b
Less(a, b) == IF a <= b THEN 0 ELSE a - b

\* _scale, as far as its loop.
Scale(i) ==
    LET live == Cardinality(Unfinished) IN
    /\ pc[i] = "scale"
    /\ left' = [left EXCEPT ![i] = Least(Less(count[i], live), Less(Limit, live))]
    /\ count' = [count EXCEPT ![i] = 0]
    /\ Goto(i, IF left'[i] = 0 THEN "top" ELSE "launch")
    /\ UNCHANGED <<lock, github, pool, rows, sess, last, hand, hold, noted, faults>>

\* grab_idle.
Grab(i, m) ==
    /\ pc[i] = "launch"
    /\ mach[m] = "idle"
    /\ mach' = [mach EXCEPT ![m] = "popped"]
    /\ hold' = [hold EXCEPT ![i] = m]
    /\ Goto(i, "dispatch")
    /\ UNCHANGED <<lock, github, runner, task, rows, sess, last, hand, count, left, noted, faults>>

NoMachine(i) ==
    /\ pc[i] = "launch"
    /\ \A m \in Machines : mach[m] # "idle"
    /\ left' = [left EXCEPT ![i] = 0]
    /\ Goto(i, "top")
    /\ UNCHANGED <<lock, github, pool, rows, sess, last, hand, count, hold, noted, faults>>

\* _launch: jit, _occupy and the command.
Dispatch(i) ==
    /\ pc[i] = "dispatch"
    /\ IF mach[hold[i]] = "gone" THEN UNCHANGED <<mach, runner>>
       ELSE mach' = [mach EXCEPT ![hold[i]] = "ci"] /\ runner' = [runner EXCEPT ![hold[i]] = "waits"]
    /\ Goto(i, "note")
    /\ UNCHANGED <<lock, github, task, rows, own, noted, faults>>

\* ... and its row and its watcher.
Note(i) ==
    /\ pc[i] = "note"
    /\ Len(rows) < MaxRows
    /\ rows' = Append(rows, [machine |-> hold[i], status |-> "assigned", by |-> i])
    /\ left' = [left EXCEPT ![i] = @ - 1]
    /\ hold' = [hold EXCEPT ![i] = Nobody]
    /\ Goto(i, IF left'[i] = 0 THEN "top" ELSE "launch")
    /\ UNCHANGED <<lock, github, pool, sess, last, hand, count, noted, faults>>

\* A launch that fails offers its machine again, whatever the machine was
\* told; an error that is no OpsError ends the controller.
LaunchFails(i) ==
    /\ pc[i] \in {"dispatch", "note"}
    /\ Fault
    /\ mach' = [mach EXCEPT ![hold[i]] = IF @ = "gone" THEN @ ELSE "idle"]
    /\ stray' = CutMachine(i)
    /\ hold' = [hold EXCEPT ![i] = Nobody]
    /\ left' = [left EXCEPT ![i] = 0]
    /\ Goto(i, "top") \/ Goto(i, "farewell")
    /\ UNCHANGED <<lock, github, runner, task, rows, sess, last, hand, count, overlap, dropped>>

-----------------------------------------------------------------------------
(* Watchers and rows without one.                                          *)

\* collect has the result, or gives up on a machine.
Watch(r) ==
    /\ rows[r].by \in Instances
    /\ LET m == rows[r].machine IN
       \/ runner[m] = "ended" /\ UNCHANGED faults
       \/ mach[m] = "gone" /\ UNCHANGED faults
       \/ Fault
    /\ rows' = [rows EXCEPT ![r].status = "ended", ![r].by = "closing"]
    /\ UNCHANGED <<lock, github, pool, pc, own, noted>>

Cancelled(r) ==
    /\ rows[r].by = "cancelled"
    /\ rows' = [rows EXCEPT ![r].status = "ended", ![r].by = "closing"]
    /\ UNCHANGED <<lock, github, pool, pc, own, noted, faults>>

\* Its job ends with a runner.
JobsWithout(m) == [j \in AllJobs |-> IF runner[m] = "works" /\ j = task[m] THEN "over" ELSE job[j]]

\* shutdown and registry.forget.
Forget(r) ==
    LET m == rows[r].machine IN
    /\ rows[r].by = "closing"
    /\ rows' = [rows EXCEPT ![r].by = Nobody]
    /\ mach' = [mach EXCEPT ![m] = "gone"]
    /\ runner' = [runner EXCEPT ![m] = "ended"]
    /\ job' = JobsWithout(m)
    /\ task' = [task EXCEPT ![m] = None]
    /\ UNCHANGED <<lock, queue, session, pc, own, noted, faults>>

\* A process that ends before it comes to that.
Unforgotten(r) ==
    /\ rows[r].by = "closing"
    /\ Fault
    /\ rows' = [rows EXCEPT ![r].by = Nobody]
    /\ stray' = stray \cup {rows[r].machine}
    /\ UNCHANGED <<lock, github, pool, pc, own, overlap, dropped>>

\* close_orphans writes off the rows whose machine is gone; a row that ended
\* after it was read and before it is written is written off too.
CloseOrphans ==
    \E late \in SUBSET {r \in 1..Len(rows) : rows[r].status = "ended"} :
        /\ Unfinished # {}
        /\ rows' = [r \in 1..Len(rows) |->
                       IF r \in Unfinished \cup late /\ mach[rows[r].machine] = "gone"
                       THEN [rows[r] EXCEPT !.status = "lost"] ELSE rows[r]]
        /\ UNCHANGED <<lock, github, pool, pc, own, noted, faults>>

-----------------------------------------------------------------------------
(* Machines, runners and GitHub.                                           *)

Dies(m) ==
    /\ mach[m] # "gone"
    /\ mach' = [mach EXCEPT ![m] = "gone"]
    /\ runner' = [runner EXCEPT ![m] = IF @ = "none" THEN @ ELSE "ended"]
    /\ job' = JobsWithout(m)
    /\ task' = [task EXCEPT ![m] = None]
    /\ UNCHANGED <<lock, queue, session, rows, pc, own, noted, faults>>

TakeJob(m, j) ==
    /\ runner[m] = "waits"
    /\ job[j] = "acquired"
    /\ runner' = [runner EXCEPT ![m] = "works"]
    /\ task' = [task EXCEPT ![m] = j]
    /\ job' = [job EXCEPT ![j] = "running"]
    /\ UNCHANGED <<lock, queue, session, mach, rows, pc, own, noted, faults>>

\* A runner is for one job, or for none in its time.
RunnerEnds(m) ==
    /\ runner[m] \in {"waits", "works"}
    /\ runner' = [runner EXCEPT ![m] = "ended"]
    /\ job' = JobsWithout(m)
    /\ task' = [task EXCEPT ![m] = None]
    /\ UNCHANGED <<lock, queue, session, mach, rows, pc, own, noted, faults>>

Queue(j) ==
    /\ job[j] = "none"
    /\ \A k \in 1..(j - 1) : job[k] # "none"
    /\ job' = [job EXCEPT ![j] = "available"]
    /\ queue' = queue \cup {j}
    /\ UNCHANGED <<lock, session, pool, rows, pc, own, noted, faults>>

SessionLapses ==
    /\ session # Nobody
    /\ IF sess[session] THEN Fault ELSE UNCHANGED faults
    /\ session' = Nobody
    /\ UNCHANGED <<lock, job, queue, pool, rows, pc, own, noted>>

Step(i) ==
    \/ Serve(i) \/ LoseLock(i) \/ Leave(i) \/ Drop(i) \/ Farewell(i) \/ Crash(i)
    \/ Refused(i) \/ Open(i) \/ Poll(i) \/ Quiet(i) \/ Ack(i) \/ CallFails(i) \/ Acquire(i)
    \/ Scale(i) \/ NoMachine(i) \/ Dispatch(i) \/ Note(i) \/ LaunchFails(i)
    \/ \E m \in Machines : Grab(i, m)

World ==
    \/ SessionLapses \/ CloseOrphans
    \/ \E j \in AllJobs : Queue(j)
    \/ \E r \in 1..Len(rows) : Watch(r) \/ Cancelled(r) \/ Forget(r) \/ Unforgotten(r)
    \/ \E m \in Machines :
          Dies(m) \/ RunnerEnds(m) \/ \E j \in AllJobs : TakeJob(m, j)

Next == World \/ \E i \in Instances : Step(i)

Spec == Init /\ [][Next]_vars

-----------------------------------------------------------------------------
(* Properties.                                                             *)

\* A machine with a runner of the repository is in a row that counts against
\* its limit, or about to be or to go, unless its launch or its end was cut
\* short; and the rows that count are no more than the limit, unless two
\* controllers were at work at a time.
RunnersAreCounted ==
    /\ \A m \in Machines :
          mach[m] = "ci" =>
              \/ m \in stray
              \/ \E i \in Instances : hold[i] = m
              \/ \E r \in 1..Len(rows) : rows[r].machine = m /\ (r \in Unfinished \/ rows[r].by = "closing")
    /\ overlap \/ Cardinality(Unfinished) <= Limit

\* A job GitHub offers is offered until it is taken: its message is in the
\* queue and ahead of who reads it, or in hand, unless a call failed after its
\* number was taken for read.
OffersAreKept ==
    \A j \in AllJobs :
        job[j] = "available" =>
            \/ j \in dropped
            \/ \E i \in Instances : hand[i] = j
            \/ j \in queue /\ \A i \in Instances : sess[i] => last[i] < j
=============================================================================
