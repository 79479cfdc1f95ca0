---------------------------- MODULE TurnRecovery ----------------------------
(***************************************************************************)
(* The life of an agent turn across several service instances: the row in  *)
(* PostgreSQL, the asyncio task that executes it (run_turn, resume_turn),  *)
(* its heartbeat, the stop button, the graceful pause at shutdown, the     *)
(* recovery supervisor that takes orphaned turns over, and the janitor.    *)
(*                                                                         *)
(* Sources: agent/turns.py, agent/recovery.py, agent/cancel.py,            *)
(* agent/runtime.py, database/repositories/turn.py, janitor.py, app.py.    *)
(*                                                                         *)
(* An executor is named <<t, k>>: k = 0 is the task that created the turn, *)
(* k >= 1 the task started by the k-th successful claim_for_recovery.      *)
(* Timestamps are abstracted to the comparisons the code makes on them.    *)
(***************************************************************************)
EXTENDS Integers, FiniteSets

CONSTANTS
    Instances,      \* service processes, by settings.instance_id
    Turns,          \* top-level turns (is_subagent is false)
    NoInstance,     \* instance_id of a turn not created yet
    MaxRecoveries,  \* claim_for_recovery(max_recoveries=3), reap_stale's 3
    BeatLoss,       \* TRUE: beats may fail for turn_stale_after on end
    MaxCrashes      \* bound of the model: kills of a process

ASSUME RecoveryAssumption ==
    /\ NoInstance \notin Instances
    /\ MaxRecoveries \in Nat
    /\ BeatLoss \in BOOLEAN
    /\ MaxCrashes \in Nat

VARIABLES
    phase,      \* lifespan of each process
    found,      \* turns a sweep or a tick has read and not claimed yet
    status,     \* Turn.status, "none" before the row exists
    instance,   \* Turn.instance_id
    heartbeat,  \* age class of Turn.heartbeat_at, Null when it is NULL
    created,    \* age class of Turn.created_at
    attempts,   \* Turn.recovery_attempts
    asked,      \* the cancel key in Redis
    pc, home, ending,   \* of each executor: where it is, on which instance,
                        \* and the status its finally block will write
    crashes,    \* kills so far
    lost,       \* history: an executor of the turn vanished unfinished
    overtaken   \* history: claimed or failed while one was tearing down

rowVars == <<status, instance, heartbeat, created, attempts>>
execVars == <<pc, home, ending>>
vars == <<phase, found, rowVars, asked, execVars, crashes, lost, overtaken>>

Null == -1                    \* heartbeat_at IS NULL
Attempts == 0..MaxRecoveries
Terminal == {"DONE", "FAILED", "CANCELLED"}

Preparing == {"claimed", "entering"}      \* the task runs, alive() not yet entered
Active == Preparing \cup {"working"}
Leaving == {"leaving", "saving"}          \* inside the finally block
Live == Active \cup Leaving
Over == {"none", "gone", "killed"}

TypeOK ==
    /\ phase \in [Instances -> {"down", "sweeping", "up", "draining"}]
    /\ found \in [Instances -> SUBSET Turns]
    /\ status \in [Turns -> {"none", "RUNNING"} \cup Terminal]
    /\ instance \in [Turns -> Instances \cup {NoInstance}]
    /\ heartbeat \in [Turns -> {Null, 0, 1, 2}]
    /\ created \in [Turns -> 0..3]
    /\ attempts \in [Turns -> Attempts]
    /\ asked \in [Turns -> BOOLEAN]
    /\ pc \in [Turns -> [Attempts -> Live \cup Over]]
    /\ home \in [Turns -> [Attempts -> Instances \cup {NoInstance}]]
    /\ ending \in [Turns -> [Attempts -> {"none", "RUNNING"} \cup Terminal]]
    /\ crashes \in 0..MaxCrashes
    /\ lost \in [Turns -> BOOLEAN]
    /\ overtaken \in [Turns -> BOOLEAN]

Init ==
    /\ phase = [i \in Instances |-> "down"]
    /\ found = [i \in Instances |-> {}]
    /\ status = [t \in Turns |-> "none"]
    /\ instance = [t \in Turns |-> NoInstance]
    /\ heartbeat = [t \in Turns |-> Null]
    /\ created = [t \in Turns |-> 0]
    /\ attempts = [t \in Turns |-> 0]
    /\ asked = [t \in Turns |-> FALSE]
    /\ pc = [t \in Turns |-> [k \in Attempts |-> "none"]]
    /\ home = [t \in Turns |-> [k \in Attempts |-> NoInstance]]
    /\ ending = [t \in Turns |-> [k \in Attempts |-> "none"]]
    /\ crashes = 0
    /\ lost = [t \in Turns |-> FALSE]
    /\ overtaken = [t \in Turns |-> FALSE]

-----------------------------------------------------------------------------
(* The age classes.  heartbeat: 0 younger than turn_stale_after, 1 older,  *)
(* 2 older than twice that.  created: the same, and 3 older than an hour.  *)

Coalesce(t) == IF heartbeat[t] = Null THEN created[t] ELSE heartbeat[t]

Older(age, cap) == IF age < cap THEN age + 1 ELSE age

IsActive(t) == \E k \in Attempts : pc[t][k] \in Active
IsLeaving(t) == \E k \in Attempts : pc[t][k] \in Leaving
HasExecutor(t) == \E k \in Attempts : pc[t][k] \in Live

\* Mutant: a beat does not write heartbeat_at.
BeatUnwritten(t) ==
    /\ status[t] = "RUNNING"
    /\ \E k \in Attempts : pc[t][k] = "working"
    /\ created' = [created EXCEPT ![t] = Older(@, 3)]
    /\ heartbeat' = [heartbeat EXCEPT ![t] = IF @ = Null THEN Null ELSE Older(@, 2)]
    /\ UNCHANGED <<phase, found, status, instance, attempts, asked,
                   execVars, crashes, lost, overtaken>>

\* Time passes with the beats arriving: _beat rewrites heartbeat_at.
Beat(t) ==
    /\ status[t] = "RUNNING"
    /\ \E k \in Attempts : pc[t][k] = "working"
    /\ created' = [created EXCEPT ![t] = Older(@, 3)]
    /\ heartbeat' = [heartbeat EXCEPT ![t] = 0]
    /\ UNCHANGED <<phase, found, status, instance, attempts, asked,
                   execVars, crashes, lost, overtaken>>

\* turn_stale_after passes without a beat.  An executor that prepares or
\* works is assumed to beat within that time unless BeatLoss.
Silence(t) ==
    /\ status[t] = "RUNNING"
    /\ BeatLoss \/ ~IsActive(t)
    /\ created' = [created EXCEPT ![t] = Older(@, 3)]
    /\ heartbeat' = [heartbeat EXCEPT ![t] = IF @ = Null THEN Null ELSE Older(@, 2)]
    /\ <<created', heartbeat'>> # <<created, heartbeat>>
    /\ UNCHANGED <<phase, found, status, instance, attempts, asked,
                   execVars, crashes, lost, overtaken>>

-----------------------------------------------------------------------------
(* The process: app.lifespan.                                              *)

FindResumable == {t \in Turns : status[t] = "RUNNING"
                                /\ (heartbeat[t] = Null \/ heartbeat[t] >= 1)}

\* Mutant: the comparison with NULL is not true, so a sealed turn is not found.
FindStaleBeaten == {t \in Turns : status[t] = "RUNNING" /\ heartbeat[t] >= 1}

FindStaleRunning == {t \in Turns : status[t] = "RUNNING" /\ Coalesce(t) >= 1}

Start(i) ==
    /\ phase[i] = "down"
    /\ phase' = [phase EXCEPT ![i] = "sweeping"]
    /\ found' = [found EXCEPT ![i] = FindResumable]
    /\ UNCHANGED <<rowVars, asked, execVars, crashes, lost, overtaken>>

\* startup_sweep returned: the loops start and requests are served.
Ready(i) ==
    /\ phase[i] = "sweeping"
    /\ found[i] = {}
    /\ phase' = [phase EXCEPT ![i] = "up"]
    /\ UNCHANGED <<found, rowVars, asked, execVars, crashes, lost, overtaken>>

\* turns.drain: set_shutting_down.  The loops, the supervisor's among them,
\* are stopped only after drain has returned.
Shutdown(i) ==
    /\ phase[i] = "up"
    /\ phase' = [phase EXCEPT ![i] = "draining"]
    /\ UNCHANGED <<found, rowVars, asked, execVars, crashes, lost, overtaken>>

\* Nothing runs here any more: the loops are stopped and the process exits.
Exit(i) ==
    /\ phase[i] = "draining"
    /\ \A t \in Turns, k \in Attempts : home[t][k] # i
    /\ phase' = [phase EXCEPT ![i] = "down"]
    /\ found' = [found EXCEPT ![i] = {}]
    /\ UNCHANGED <<rowVars, asked, execVars, crashes, lost, overtaken>>

\* kill -9, OOM, a reboot, or drain giving up on a task that hangs.
Crash(i) ==
    /\ phase[i] # "down"
    /\ crashes < MaxCrashes
    /\ crashes' = crashes + 1
    /\ phase' = [phase EXCEPT ![i] = "down"]
    /\ found' = [found EXCEPT ![i] = {}]
    /\ pc' = [t \in Turns |-> [k \in Attempts |->
                  IF home[t][k] = i THEN "killed" ELSE pc[t][k]]]
    /\ home' = [t \in Turns |-> [k \in Attempts |->
                  IF home[t][k] = i THEN NoInstance ELSE home[t][k]]]
    /\ ending' = [t \in Turns |-> [k \in Attempts |->
                  IF home[t][k] = i THEN "none" ELSE ending[t][k]]]
    /\ lost' = [t \in Turns |-> lost[t] \/ \E k \in Attempts : home[t][k] = i]
    /\ UNCHANGED <<rowVars, asked, overtaken>>

-----------------------------------------------------------------------------
(* The executor.                                                           *)

\* turns.route creates the row and dispatch starts run_turn.
Create(i, t) ==
    /\ phase[i] \in {"up", "draining"}
    /\ status[t] = "none"
    /\ status' = [status EXCEPT ![t] = "RUNNING"]
    /\ instance' = [instance EXCEPT ![t] = i]
    /\ heartbeat' = [heartbeat EXCEPT ![t] = 0]
    /\ pc' = [pc EXCEPT ![t][0] = "entering"]
    /\ home' = [home EXCEPT ![t][0] = i]
    /\ UNCHANGED <<phase, found, created, attempts, asked, ending, crashes, lost, overtaken>>

\* The task of executor <<t, k>> is over.
Quit(t, k, p) ==
    /\ pc' = [pc EXCEPT ![t][k] = p]
    /\ home' = [home EXCEPT ![t][k] = NoInstance]
    /\ ending' = [ending EXCEPT ![t][k] = "none"]

\* resume_turn reads the row again and goes on while it is RUNNING.
ResumeRead(t, k) ==
    /\ pc[t][k] = "claimed"
    /\ status[t] = "RUNNING"
    /\ pc' = [pc EXCEPT ![t][k] = "entering"]
    /\ UNCHANGED <<phase, found, rowVars, asked, home, ending, crashes,
                   lost, overtaken>>

ResumeGivesUp(t, k) ==
    /\ pc[t][k] = "claimed"
    /\ status[t] # "RUNNING"
    /\ Quit(t, k, "gone")
    /\ UNCHANGED <<phase, found, rowVars, asked, crashes, lost, overtaken>>

\* The bot is not served here, or the setup before the try block raises: the
\* task ends and its finally block is never reached.
SetupFails(t, k) ==
    /\ pc[t][k] \in Preparing
    /\ Quit(t, k, "killed")
    /\ lost' = [lost EXCEPT ![t] = TRUE]
    /\ UNCHANGED <<phase, found, rowVars, asked, crashes, overtaken>>

\* turns.alive: registers the task, clears the cancel key, starts to beat.
Enter(t, k) ==
    /\ pc[t][k] = "entering"
    /\ pc' = [pc EXCEPT ![t][k] = "working"]
    /\ asked' = [asked EXCEPT ![t] = FALSE]
    /\ UNCHANGED <<phase, found, rowVars, home, ending, crashes, lost, overtaken>>

Leave(t, k, s) ==
    /\ pc' = [pc EXCEPT ![t][k] = "leaving"]
    /\ ending' = [ending EXCEPT ![t][k] = s]
    /\ UNCHANGED <<phase, found, asked, home, crashes, lost, overtaken>>

\* Mutant: seal does not clear the heartbeat.
NeverSealed(t) == IF t \in Turns THEN heartbeat ELSE heartbeat

\* TurnRepository.seal: heartbeat_at := NULL where the turn is RUNNING.
Sealed(t) == IF status[t] = "RUNNING"
             THEN [heartbeat EXCEPT ![t] = Null] ELSE heartbeat

\* loop.run returned ok: finish_or_continue seals the turn.
WorkOk(t, k) ==
    /\ pc[t][k] = "working"
    /\ Leave(t, k, "DONE")
    /\ heartbeat' = Sealed(t)
    /\ UNCHANGED <<status, instance, created, attempts>>

\* loop.run failed or raised: the note and the retry button are
\* left out.
WorkFailed(t, k) ==
    /\ pc[t][k] = "working"
    /\ Leave(t, k, "FAILED")
    /\ UNCHANGED rowVars

\* loop.run saw is_shutting_down at a step boundary, or drain's deadline
\* cancelled the task and the stop button had not.
WorkPaused(t, k) ==
    /\ pc[t][k] = "working"
    /\ phase[home[t][k]] = "draining"
    /\ Leave(t, k, "RUNNING")
    /\ UNCHANGED rowVars

\* CancelledError from the stop button, drain's deadline or _beat's stall
\* check.  One that is not taken for a shutdown ends the turn; one that is
\* has the effect of WorkPaused.
WorkCancelled(t, k) ==
    /\ pc[t][k] = "working"
    /\ phase[home[t][k]] # "draining" \/ asked[t]
    /\ Leave(t, k, "CANCELLED")
    /\ UNCHANGED rowVars

\* The finally block, first half: the cancel key is cleared unless the turn
\* is paused, and the turn is sealed.
Teardown(t, k) ==
    /\ pc[t][k] = "leaving"
    /\ pc' = [pc EXCEPT ![t][k] = "saving"]
    /\ asked' = IF ending[t][k] = "RUNNING" THEN asked ELSE [asked EXCEPT ![t] = FALSE]
    /\ heartbeat' = Sealed(t)
    /\ UNCHANGED <<phase, found, status, instance, created, attempts,
                   home, ending, crashes, lost, overtaken>>

\* The finally block, second half: segments.save, then TurnRepository.finish,
\* which writes the status whatever the row holds by then.
Finish(t, k) ==
    /\ pc[t][k] = "saving"
    /\ ending[t][k] # "RUNNING"
    /\ Quit(t, k, "gone")
    /\ status' = [status EXCEPT ![t] = ending[t][k]]
    /\ heartbeat' = [heartbeat EXCEPT ![t] = Null]
    /\ UNCHANGED <<phase, found, instance, created, attempts, asked,
                   crashes, lost, overtaken>>

\* The finally block of a paused turn: segments.save and nothing more.
FinishPaused(t, k) ==
    /\ pc[t][k] = "saving"
    /\ ending[t][k] = "RUNNING"
    /\ Quit(t, k, "gone")
    /\ UNCHANGED <<phase, found, rowVars, asked, crashes, lost, overtaken>>

-----------------------------------------------------------------------------
(* The stop button, the supervisor and the janitor.                        *)

\* /stop lists the turns that are RUNNING with a fresh heartbeat.
Stop(t) ==
    /\ \E i \in Instances : phase[i] \in {"up", "draining"}
    /\ status[t] = "RUNNING"
    /\ Coalesce(t) = 0
    /\ asked' = [asked EXCEPT ![t] = TRUE]
    /\ UNCHANGED <<phase, found, rowVars, execVars, crashes, lost, overtaken>>

Tick(i) ==
    /\ phase[i] \in {"up", "draining"}
    /\ found[i] = {}
    /\ FindStaleRunning # {}
    /\ found' = [found EXCEPT ![i] = FindStaleRunning]
    /\ UNCHANGED <<phase, rowVars, asked, execVars, crashes, lost, overtaken>>

\* claim_for_recovery's verdict on a row it has locked.
Claimable(i, t) ==
    /\ status[t] = "RUNNING"
    /\ heartbeat[t] = Null \/ instance[t] = i \/ heartbeat[t] >= 1

Overtake(T) == overtaken' = [t \in Turns |-> overtaken[t] \/ (t \in T /\ IsLeaving(t))]

RecoverSkip(i, t) ==
    /\ t \in found[i]
    /\ ~Claimable(i, t)
    /\ found' = [found EXCEPT ![i] = @ \ {t}]
    /\ UNCHANGED <<phase, rowVars, asked, execVars, crashes, lost, overtaken>>

\* The poison pill: no notification, no resume.
RecoverPoisoned(i, t) ==
    /\ t \in found[i]
    /\ Claimable(i, t)
    /\ attempts[t] >= MaxRecoveries
    /\ found' = [found EXCEPT ![i] = @ \ {t}]
    /\ status' = [status EXCEPT ![t] = "FAILED"]
    /\ heartbeat' = [heartbeat EXCEPT ![t] = Null]
    /\ Overtake({t})
    /\ UNCHANGED <<phase, instance, created, attempts, asked, execVars, crashes, lost>>

\* The claim commits and resume_turn starts as a task of this instance.
RecoverClaim(i, t) ==
    /\ t \in found[i]
    /\ Claimable(i, t)
    /\ attempts[t] < MaxRecoveries
    /\ found' = [found EXCEPT ![i] = @ \ {t}]
    /\ attempts' = [attempts EXCEPT ![t] = @ + 1]
    /\ instance' = [instance EXCEPT ![t] = i]
    /\ heartbeat' = [heartbeat EXCEPT ![t] = 0]
    /\ pc' = [pc EXCEPT ![t][attempts[t] + 1] = "claimed"]
    /\ home' = [home EXCEPT ![t][attempts[t] + 1] = i]
    /\ Overtake({t})
    /\ UNCHANGED <<phase, status, created, asked, ending, crashes, lost>>

\* Mutant: an hour-old turn is reaped although it beats.
ReapableByAge == {t \in Turns : status[t] = "RUNNING"
                                /\ (attempts[t] >= MaxRecoveries \/ created[t] >= 3)}

Reapable == {t \in Turns : /\ status[t] = "RUNNING"
                           /\ Coalesce(t) >= 2
                           /\ attempts[t] >= MaxRecoveries \/ created[t] >= 3}

\* Janitor._reap: reap_stale(2 * turn_stale_after).
Reap(i) ==
    /\ phase[i] \in {"up", "draining"}
    /\ Reapable # {}
    /\ status' = [t \in Turns |-> IF t \in Reapable THEN "FAILED" ELSE status[t]]
    /\ heartbeat' = [t \in Turns |-> IF t \in Reapable THEN Null ELSE heartbeat[t]]
    /\ Overtake(Reapable)
    /\ UNCHANGED <<phase, found, instance, created, attempts, asked, execVars, crashes, lost>>

-----------------------------------------------------------------------------
Process(i) == Start(i) \/ Ready(i) \/ Shutdown(i) \/ Exit(i) \/ Crash(i)

Work(t, k) == WorkOk(t, k) \/ WorkFailed(t, k) \/ WorkPaused(t, k) \/ WorkCancelled(t, k)

Executor(t, k) ==
    \/ ResumeRead(t, k) \/ ResumeGivesUp(t, k) \/ SetupFails(t, k) \/ Enter(t, k)
    \/ Work(t, k) \/ Teardown(t, k) \/ Finish(t, k) \/ FinishPaused(t, k)

Recover(i, t) == RecoverSkip(i, t) \/ RecoverPoisoned(i, t) \/ RecoverClaim(i, t)

Next ==
    \/ \E i \in Instances : Process(i) \/ Tick(i) \/ Reap(i)
    \/ \E i \in Instances, t \in Turns : Create(i, t) \/ Recover(i, t)
    \/ \E t \in Turns : Stop(t) \/ Beat(t) \/ Silence(t)
    \/ \E t \in Turns, k \in Attempts : Executor(t, k)

Spec == Init /\ [][Next]_vars

\* A process that is down is started again by its supervisor, its tasks and
\* its loops keep being scheduled, a turn that no one beats grows old.
Fairness ==
    /\ \A i \in Instances : WF_vars(Start(i)) /\ WF_vars(Ready(i)) /\ WF_vars(Tick(i))
    /\ \A i \in Instances, t \in Turns : WF_vars(Recover(i, t))
    /\ \A t \in Turns : WF_vars(Silence(t))
    /\ \A t \in Turns, k \in Attempts : WF_vars(Executor(t, k))

FairSpec == Spec /\ Fairness

-----------------------------------------------------------------------------
(* Properties.                                                             *)

\* Two tasks prepare or execute the same turn at once only after a claim or
\* the janitor took the row from an executor inside its finally block: seal
\* has cleared heartbeat_at there, so the turn looks abandoned.  Beats that
\* fail for turn_stale_after are the other way, and excluded by ~BeatLoss.
DuplicateOnlyByOvertaking ==
    \A t \in Turns : \A j, k \in Attempts :
        (pc[t][j] \in Active /\ pc[t][k] \in Active /\ j # k)
            => overtaken[t] \/ BeatLoss

\* An executor that writes its verdict with finish writes it to a turn that
\* is still RUNNING, so a settled turn is not settled a second time, except
\* after overtaking (finish itself never looks at the row).
SettledOnce ==
    [][\A t \in Turns : (status[t] \in Terminal /\ status'[t] # status[t])
                            => overtaken[t] \/ BeatLoss]_vars

\* No step revives a settled turn: seal, beat, claim and the pause of a
\* late executor all leave a terminal status terminal, overtaken or not.
NeverRevived ==
    [][\A t \in Turns : status[t] \in Terminal => status'[t] \in Terminal]_vars

\* A live heartbeat means somebody is (or was, before a kill) executing the
\* turn: a row whose every executor ended in an orderly way is never left
\* RUNNING with a fresh heartbeat, which would hide it from the sweep.
PausedIsVisible ==
    \A t \in Turns :
        (status[t] = "RUNNING" /\ ~HasExecutor(t) /\ ~lost[t] /\ ~overtaken[t]
            /\ ~BeatLoss) => heartbeat[t] = Null

\* Every turn is settled in the end, whatever is killed or paused meanwhile.
EveryTurnSettles ==
    \A t \in Turns : (status[t] = "RUNNING") ~> (status[t] \in Terminal)

-----------------------------------------------------------------------------
(* What the documentation says and the code does not do.                   *)

=============================================================================
