-------------------------------- MODULE CiRun --------------------------------
(***************************************************************************)
(* Native CI: a push, or a request to run again, becomes a row of ci_runs; *)
(* the worker of one of the processes claims it, checks the commit out and *)
(* runs its targets as jobs, those of a stage side by side; a lease is     *)
(* renewed while a command runs; a janitor in every process reports the    *)
(* runs whose lease is over as crashed.                                    *)
(*                                                                         *)
(* Sources: database/repositories/ci.py, github/ci/service.py, worker.py,  *)
(* runner.py, janitor.py, checks.py.                                       *)
(*                                                                         *)
(* A lease is over or not: the monitor of a command renews it every 5 s of *)
(* the 30 s, so it cannot run out under a live monitor.  Logs, metrics,    *)
(* worktrees and the link from a run to a check are left out: the run's    *)
(* own check_run_id is never set, so the janitor never calls GitHub.       *)
(***************************************************************************)
EXTENDS Naturals, FiniteSets

CONSTANTS
    Workers,    \* processes with runs_worker
    Nobody,
    CiTargets,  \* targets named ci-*
    CdTargets,  \* targets named cd-*, for the default branch
    MaxRuns,    \* bound of the model: rows of ci_runs
    MaxFaults   \* bound of the model: exceptions and deaths of a process

ASSUME CiAssumption ==
    /\ Nobody \notin Workers
    /\ CiTargets \cap CdTargets = {}
    /\ MaxRuns \in Nat /\ MaxFaults \in Nat

Runs == 1..MaxRuns
Targets == CiTargets \cup CdTargets

VARIABLES
    status,     \* CiRun.status, "none" before the row exists
    trunk,      \* CiRun.is_default_branch
    lapsed,     \* runs whose lease_until has passed
    host,       \* of each run: the process that executes it
    at,         \* of each run: the place in execute_run
    found,      \* of each run: the targets of its justfile or Makefile
    job,        \* CiJob.status by target
    check,      \* the check run GitHub shows by target
    task,       \* the place in _run_job by target
    beats,      \* of each run: targets whose command has a live monitor
    stale,      \* of each janitor: what find_stale_runs returned
    claims,     \* of each run: how often it was claimed
    faults

rowVars == <<status, trunk, lapsed, claims>>
jobVars == <<job, check, task, beats>>
vars == <<rowVars, host, at, found, jobVars, stale, faults>>

Ended == {"success", "failure", "crash"}
Places == {"none", "checkout", "broken", "discover", "plan", "ci", "deploy", "cd", "report", "over"}
Live == {"create", "check", "start", "command", "exited", "tell"}
JobStates == {"none", "pending", "in_progress", "success", "failure"}
CheckStates == {"none", "in_progress", "success", "failure"}
TaskStates == {"none", "done", "raised"} \cup Live

TypeOK ==
    /\ status \in [Runs -> {"none", "pending", "in_progress"} \cup Ended]
    /\ trunk \in [Runs -> BOOLEAN]
    /\ lapsed \subseteq {r \in Runs : status[r] # "none"}
    /\ host \in [Runs -> Workers \cup {Nobody}]
    /\ at \in [Runs -> Places]
    /\ found \in [Runs -> SUBSET Targets]
    /\ job \in [Runs -> [Targets -> JobStates]]
    /\ check \in [Runs -> [Targets -> CheckStates]]
    /\ task \in [Runs -> [Targets -> TaskStates]]
    /\ beats \in [Runs -> SUBSET Targets]
    /\ \A r \in Runs : beats[r] \subseteq {t \in found[r] : task[r][t] = "command"}
    /\ stale \in [Workers -> SUBSET Runs]
    /\ claims \in [Runs -> Nat]
    /\ faults \in 0..MaxFaults

Init ==
    /\ status = [r \in Runs |-> "none"]
    /\ trunk = [r \in Runs |-> FALSE]
    /\ lapsed = {}
    /\ host = [r \in Runs |-> Nobody]
    /\ at = [r \in Runs |-> "none"]
    /\ found = [r \in Runs |-> {}]
    /\ job = [r \in Runs |-> [t \in Targets |-> "none"]]
    /\ check = [r \in Runs |-> [t \in Targets |-> "none"]]
    /\ task = [r \in Runs |-> [t \in Targets |-> "none"]]
    /\ beats = [r \in Runs |-> {}]
    /\ stale = [w \in Workers |-> {}]
    /\ claims = [r \in Runs |-> 0]
    /\ faults = 0

-----------------------------------------------------------------------------
(* Rows.                                                                   *)

Missing(r) == status[r] = "none" /\ \A q \in Runs : q < r => status[q] # "none"

EnqueueRun(r, main) ==
    /\ Missing(r)
    /\ status' = [status EXCEPT ![r] = "pending"]
    /\ trunk' = [trunk EXCEPT ![r] = main]
    /\ UNCHANGED <<lapsed, claims, host, at, found, jobVars, stale, faults>>

\* enqueue_from_webhook of a push, or of a check to run again, whose sender or
\* owner is on the whitelist; rerequest_run, with the branch of the old run.
Push(r) == \E main \in BOOLEAN : EnqueueRun(r, main)

\* The worker of w awaits execute_run.
Busy(w) == \E r \in Runs : host[r] = w /\ at[r] \notin {"none", "over"}

First(r) == status[r] = "pending" /\ \A q \in Runs : status[q] = "pending" => r <= q

\* claim_next: the row is locked until it is in_progress.
Claim(w, r) ==
    /\ ~Busy(w)
    /\ First(r)
    /\ status' = [status EXCEPT ![r] = "in_progress"]
    /\ lapsed' = lapsed \ {r}
    /\ host' = [host EXCEPT ![r] = w]
    /\ at' = [at EXCEPT ![r] = "checkout"]
    /\ claims' = [claims EXCEPT ![r] = @ + 1]
    /\ UNCHANGED <<trunk, found, jobVars, stale, faults>>

\* 30 s without a renewal: nobody is alive to renew, or nobody is meant to.
Lapse(r) ==
    /\ status[r] = "in_progress" \/ at[r] \notin {"none", "over"}
    /\ r \notin lapsed
    /\ beats[r] = {}
    /\ lapsed' = lapsed \cup {r}
    /\ UNCHANGED <<status, trunk, claims, host, at, found, jobVars, stale, faults>>

\* renew_lease asks for a run in progress, whoever executes it.
Renew(r) ==
    /\ beats[r] # {}
    /\ status[r] = "in_progress"
    /\ r \in lapsed
    /\ lapsed' = lapsed \ {r}
    /\ UNCHANGED <<status, trunk, claims, host, at, found, jobVars, stale, faults>>

FinishRun(r, s) == status' = [status EXCEPT ![r] = s]

-----------------------------------------------------------------------------
(* execute_run.                                                            *)

Go(r, from, to) == at[r] = from /\ at' = [at EXCEPT ![r] = to]

Step(r, from, to) ==
    /\ Go(r, from, to)
    /\ UNCHANGED <<trunk, lapsed, claims, host, stale, faults>>

\* _sync_repo and _create_worktree, which no monitor watches.
CheckOut(r) == Step(r, "checkout", "discover") /\ UNCHANGED <<status, found, jobVars>>
CheckOutFails(r) == Step(r, "checkout", "broken") /\ UNCHANGED <<status, found, jobVars>>
FinishBroken(r) == Step(r, "broken", "over") /\ FinishRun(r, "failure") /\ UNCHANGED <<found, jobVars>>

\* discover_targets.
Discover(r) ==
    /\ Step(r, "discover", "plan")
    /\ \E T \in SUBSET Targets : found' = [found EXCEPT ![r] = T]
    /\ UNCHANGED <<status, jobVars>>

\* No targets: the run is a success, and a neutral check says why.
NoTargets(r) ==
    /\ found[r] = {}
    /\ Step(r, "plan", "over")
    /\ FinishRun(r, "success")
    /\ UNCHANGED <<found, jobVars>>

\* asyncio.gather over a stage: finish_run with in_progress, then the tasks.
Gather(r, T) ==
    /\ FinishRun(r, "in_progress")
    /\ task' = [task EXCEPT ![r] = [t \in Targets |-> IF t \in T THEN "create" ELSE @[t]]]
    /\ UNCHANGED <<found, job, check, beats>>

Ci(r) == found[r] \cap CiTargets
Cd(r) == found[r] \cap CdTargets

StartCi(r) == Ci(r) # {} /\ Step(r, "plan", "ci") /\ Gather(r, Ci(r))

NoCi(r) ==
    /\ Ci(r) = {}
    /\ found[r] # {}
    /\ Step(r, "plan", "deploy")
    /\ UNCHANGED <<status, found, jobVars>>

Returned(r, T) == \A t \in T : task[r][t] = "done"

CiReturned(r) ==
    /\ Returned(r, Ci(r))
    /\ Step(r, "ci", "deploy")
    /\ UNCHANGED <<status, found, jobVars>>

\* Each task returned 0.
AllOk(r, T) == \A t \in T : job[r][t] = "success"

\* Mutant: a deployment does not wait for the result of ci.
DeployableUnseen(r) == trunk[r] /\ Cd(r) # {}

Deployable(r) == AllOk(r, Ci(r)) /\ trunk[r] /\ Cd(r) # {}

StartCd(r) == Deployable(r) /\ Step(r, "deploy", "cd") /\ Gather(r, Cd(r))

NoCd(r) ==
    /\ ~Deployable(r)
    /\ Step(r, "deploy", "report")
    /\ UNCHANGED <<status, found, jobVars>>

CdReturned(r) ==
    /\ Returned(r, Cd(r))
    /\ Step(r, "cd", "report")
    /\ UNCHANGED <<status, found, jobVars>>

\* Mutant: the codes of cd are not looked at.
FinalOkCi(r) == AllOk(r, Ci(r))

FinalOk(r) == AllOk(r, Ci(r)) /\ AllOk(r, {t \in Cd(r) : task[r][t] # "none"})

Report(r) ==
    /\ Step(r, "report", "over")
    /\ FinishRun(r, IF FinalOk(r) THEN "success" ELSE "failure")
    /\ UNCHANGED <<found, jobVars>>

\* A task raised: gather raises it, the other tasks of the stage run on.
GatherRaises(r) ==
    /\ \E t \in found[r] : task[r][t] = "raised"
    /\ at[r] \in {"ci", "cd"}
    /\ Step(r, at[r], "over")
    /\ UNCHANGED <<status, found, jobVars>>

\* The database fails a step of execute_run itself; the worker logs it.
Raise(r) ==
    /\ at[r] \notin {"none", "over", "ci", "cd"}
    /\ faults < MaxFaults
    /\ faults' = faults + 1
    /\ Go(r, at[r], "over")
    /\ UNCHANGED <<rowVars, host, found, jobVars, stale>>

-----------------------------------------------------------------------------
(* _run_job and _run_command_pty.                                          *)

Move(r, t, from, to) ==
    /\ task[r][t] = from
    /\ task' = [task EXCEPT ![r][t] = to]
    /\ UNCHANGED <<rowVars, host, at, found, stale, faults>>

CreateJob(r, t) ==
    /\ Move(r, t, "create", "check")
    /\ job' = [job EXCEPT ![r][t] = "pending"]
    /\ UNCHANGED <<check, beats>>

\* create_check_run answers with an id, or with None.
CreateCheck(r, t) ==
    /\ Move(r, t, "check", "start")
    /\ \E c \in {"in_progress", "none"} : check' = [check EXCEPT ![r][t] = c]
    /\ UNCHANGED <<job, beats>>

StartJob(r, t) ==
    /\ Move(r, t, "start", "command")
    /\ job' = [job EXCEPT ![r][t] = "in_progress"]
    /\ beats' = [beats EXCEPT ![r] = @ \cup {t}]
    /\ UNCHANGED check

CommandExits(r, t) ==
    /\ Move(r, t, "command", "exited")
    /\ beats' = [beats EXCEPT ![r] = @ \ {t}]
    /\ UNCHANGED <<job, check>>

\* finish_job by the exit code.
FinishJob(r, t) ==
    /\ Move(r, t, "exited", "tell")
    /\ \E s \in {"success", "failure"} : job' = [job EXCEPT ![r][t] = s]
    /\ UNCHANGED <<check, beats>>

\* update_check_run, whose False nobody looks at.
TellGithub(r, t) ==
    /\ Move(r, t, "tell", "done")
    /\ \/ check[r][t] = "in_progress" /\ check' = [check EXCEPT ![r][t] = job[r][t]]
       \/ UNCHANGED check
    /\ UNCHANGED <<job, beats>>

\* GitHub, the database or the command's start raises; GitHub may have done
\* what it was asked for.
TaskRaises(r, t) ==
    /\ task[r][t] \in Live
    /\ faults < MaxFaults
    /\ faults' = faults + 1
    /\ task' = [task EXCEPT ![r][t] = "raised"]
    /\ beats' = [beats EXCEPT ![r] = @ \ {t}]
    /\ \/ task[r][t] = "check" /\ check' = [check EXCEPT ![r][t] = "in_progress"]
       \/ task[r][t] = "tell" /\ check[r][t] = "in_progress"
             /\ check' = [check EXCEPT ![r][t] = job[r][t]]
       \/ UNCHANGED check
    /\ UNCHANGED <<rowVars, host, at, found, job, stale>>

\* record_metrics or renew_lease raises: the monitor's task is over, the
\* command is not.
MonitorDies(r, t) ==
    /\ t \in beats[r]
    /\ faults < MaxFaults
    /\ faults' = faults + 1
    /\ beats' = [beats EXCEPT ![r] = @ \ {t}]
    /\ UNCHANGED <<rowVars, host, at, found, job, check, task, stale>>

-----------------------------------------------------------------------------
(* The janitor, and the death of a process.                                *)

\* Mutant: a janitor asks for the runs of its own process.
FindStaleOwn(w) ==
    /\ stale[w] = {}
    /\ LET S == {r \in lapsed : status[r] = "in_progress" /\ host[r] = w} IN
        /\ S # {}
        /\ stale' = [stale EXCEPT ![w] = S]
    /\ UNCHANGED <<rowVars, host, at, found, jobVars, faults>>

FindStale(w) ==
    /\ stale[w] = {}
    /\ LET S == {r \in lapsed : status[r] = "in_progress"} IN
        /\ S # {}
        /\ stale' = [stale EXCEPT ![w] = S]
    /\ UNCHANGED <<rowVars, host, at, found, jobVars, faults>>

\* Mutant: a stale run is put back into the queue.
MarkPending(w, r) ==
    /\ r \in stale[w]
    /\ stale' = [stale EXCEPT ![w] = @ \ {r}]
    /\ FinishRun(r, "pending")
    /\ UNCHANGED <<trunk, lapsed, claims, host, at, found, jobVars, faults>>

\* finish_run, whatever has become of the run since it was read.
MarkCrashed(w, r) ==
    /\ r \in stale[w]
    /\ stale' = [stale EXCEPT ![w] = @ \ {r}]
    /\ FinishRun(r, "crash")
    /\ UNCHANGED <<trunk, lapsed, claims, host, at, found, jobVars, faults>>

\* The process is killed, or stopped, and started again.
Crash(w) ==
    LET mine == {r \in Runs : host[r] = w} IN
    /\ faults < MaxFaults
    /\ faults' = faults + 1
    /\ host' = [r \in Runs |-> IF r \in mine THEN Nobody ELSE host[r]]
    /\ at' = [r \in Runs |-> IF r \in mine THEN "over" ELSE at[r]]
    /\ task' = [r \in Runs |->
          IF r \in mine THEN [t \in Targets |-> IF task[r][t] \in Live THEN "raised" ELSE task[r][t]]
                        ELSE task[r]]
    /\ beats' = [r \in Runs |-> IF r \in mine THEN {} ELSE beats[r]]
    /\ stale' = [stale EXCEPT ![w] = {}]
    /\ UNCHANGED <<rowVars, found, job, check>>

Execution(r) ==
    \/ CheckOut(r) \/ CheckOutFails(r) \/ FinishBroken(r) \/ Discover(r) \/ NoTargets(r)
    \/ StartCi(r) \/ NoCi(r) \/ CiReturned(r) \/ StartCd(r) \/ NoCd(r) \/ CdReturned(r)
    \/ Report(r) \/ GatherRaises(r)

Task(r, t) ==
    \/ CreateJob(r, t) \/ CreateCheck(r, t) \/ StartJob(r, t) \/ CommandExits(r, t)
    \/ FinishJob(r, t) \/ TellGithub(r, t)

Janitor(w) == FindStale(w) \/ \E r \in Runs : MarkCrashed(w, r)

Next ==
    \/ \E r \in Runs :
        \/ Push(r) \/ (\E w \in Workers : Claim(w, r))
        \/ Lapse(r) \/ Renew(r) \/ Execution(r) \/ Raise(r)
        \/ \E t \in Targets : Task(r, t) \/ TaskRaises(r, t) \/ MonitorDies(r, t)
    \/ \E w \in Workers : Janitor(w) \/ Crash(w)

Spec == Init /\ [][Next]_vars

\* Processes run on, commands end, and 30 s pass.
FairSpec ==
    /\ Spec
    /\ WF_vars(\E w \in Workers, r \in Runs : Claim(w, r))
    /\ WF_vars(\E w \in Workers : Janitor(w))
    /\ \A r \in Runs :
        /\ WF_vars(Lapse(r)) /\ WF_vars(Execution(r))
        /\ \A t \in Targets : WF_vars(Task(r, t))

-----------------------------------------------------------------------------
(* Properties.                                                             *)

\* A green run is one whose every ci target succeeded, and every cd target on
\* the default branch: no late janitor, orphan task or fault paints it green.
GreenIsEarned ==
    \A r \in Runs : status[r] = "success" =>
        /\ AllOk(r, Ci(r))
        /\ trunk[r] => AllOk(r, Cd(r))

\* A deployment, which sees the secrets, runs on the default branch only, and
\* only when the whole ci stage of this run has succeeded.
DeployAfterGreen ==
    \A r \in Runs : (\E t \in CdTargets : task[r][t] # "none") =>
        trunk[r] /\ AllOk(r, Ci(r))

\* No run is executed twice: a lapsed lease is never handed out again, so a
\* deployment is never repeated.
ExecutedOnce == \A r \in Runs : claims[r] <= 1

\* GitHub never shows a verdict the job's row does not have, whatever dies
\* between the two.
ChecksAgree ==
    \A r \in Runs, t \in Targets : check[r][t] \in {"success", "failure"} => job[r][t] = check[r][t]

\* Every run ends: a lost executor, a raised task and a dead monitor end in a
\* crashed run, and a run marked too early ends with its late verdict.
EveryRunEnds == []<>(\A r \in Runs : status[r] \notin {"pending", "in_progress"})
=============================================================================
