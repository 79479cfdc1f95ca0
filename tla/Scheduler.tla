------------------------------ MODULE Scheduler ------------------------------
(***************************************************************************)
(* One row of scheduled_tasks: the runner claims it when it is due, fires  *)
(* a reminder or an agent turn, and moves it on to its next occurrence.    *)
(* A claim is only a lease on next_run_at, so the row can come due while   *)
(* an earlier fire is still about; active_turn_id is what tells them apart.*)
(*                                                                         *)
(* Sources: scheduler/runner.py, database/repositories/schedule.py,        *)
(* agent/runtime.py (run_scheduled), scheduler/service.py (advance).       *)
(* Rows do not touch one another, so one is modelled.  Time is what        *)
(* next_run_at means: due, the end of a lease, or the next occurrence.  A  *)
(* turn that lost its process is run on by the recovery (TurnRecovery).    *)
(***************************************************************************)
EXTENDS Naturals, FiniteSets

CONSTANTS
    Fires,          \* tasks of _safe_fire that can be under way, any process
    MaxTurns,       \* bound of the model: turns of the row
    MaxOccurrences, \* bound of the model: times the row comes due by its plan
    MaxFailed,      \* bound of the model: turns that fail
    MaxFaults,      \* bound of the model: see faults
    LeaseRunsOut    \* a fire may be late for its lease

VARIABLES
    kind, recurring, enabled, \* columns of the row
    alive,      \* the row exists
    next,       \* next_run_at
    active,     \* active_turn_id, 0 for NULL
    turns,      \* status of each turn
    fires,      \* each fire: where it is and its turn
    sent,       \* reminders sent
    occurred,   \* times the row came due by its plan
    removed,    \* a user deleted the row
    faults      \* kills, shutdowns, exceptions, and leases that ran out first

row == <<kind, recurring, enabled, alive, next, active, removed>>
vars == <<row, turns, fires, sent, occurred, faults>>

Turns == 1..MaxTurns
Turned(s) == {n \in Turns : turns[n] \in s}
Idle == [pc |-> "idle", turn |-> 0]

TypeOK ==
    /\ kind \in {"remind", "task"} /\ recurring \in BOOLEAN /\ enabled \in BOOLEAN
    /\ alive \in BOOLEAN /\ removed \in BOOLEAN /\ removed => ~alive
    /\ next \in {"due", "leased", "later"}
    /\ active \in 0..MaxTurns
    /\ active # 0 => turns[active] # "none"
    /\ turns \in [Turns -> {"none", "running", "done", "failed"}]
    /\ fires \in [Fires -> [pc : {"idle", "claimed", "routed", "running", "over"}, turn : 0..MaxTurns]]
    /\ sent \in Nat
    /\ occurred \in 0..MaxOccurrences
    /\ faults \in 0..MaxFaults

Init ==
    /\ kind \in {"remind", "task"}
    /\ recurring \in BOOLEAN
    /\ enabled = TRUE
    /\ alive = TRUE
    /\ next = "later"
    /\ active = 0
    /\ turns = [n \in Turns |-> "none"]
    /\ fires = [f \in Fires |-> Idle]
    /\ sent = 0
    /\ occurred = 0
    /\ removed = FALSE
    /\ faults = 0

Fault ==
    /\ faults < MaxFaults
    /\ faults' = faults + 1

Goto(f, pc) == fires' = [fires EXCEPT ![f].pc = pc]

\* A fire that is not simply waiting for its turn.
Loose(f) ==
    /\ fires[f].pc # "idle"
    /\ fires[f].pc = "running" => turns[fires[f].turn] # "running"

\* Time passes; a fire that is late for its lease is a fault.
Due ==
    /\ alive
    /\ next # "due"
    /\ next = "later" => occurred < MaxOccurrences
    /\ next' = "due"
    /\ occurred' = IF next = "later" THEN occurred + 1 ELSE occurred
    /\ IF \E f \in Fires : Loose(f) THEN LeaseRunsOut /\ Fault ELSE UNCHANGED faults
    /\ UNCHANGED <<kind, recurring, enabled, alive, active, removed, turns, fires, sent>>

\* fired, and the same assignments in claim: on to the next occurrence.
MoveOn ==
    /\ active' = 0
    /\ alive' = (alive /\ recurring)
    /\ next' = "later"
    /\ UNCHANGED <<kind, recurring, enabled, removed>>

-----------------------------------------------------------------------------
(* ScheduleRepository.claim, on a locked row.                              *)

IsDue == alive /\ enabled /\ next = "due"

\* The turn is running or is being recovered: look again after a lease.
ClaimRunning ==
    /\ IsDue
    /\ active # 0
    /\ turns[active] = "running"
    /\ next' = "leased"
    /\ UNCHANGED <<kind, recurring, enabled, alive, active, removed, turns, fires, sent, occurred, faults>>

\* Mutant: a turn that is done is left to the fire that may be gone.
ClaimDoneNever == FALSE

\* The turn was finished, perhaps after the process that fired it died.
ClaimDone ==
    /\ IsDue
    /\ active # 0
    /\ turns[active] = "done"
    /\ MoveOn
    /\ UNCHANGED <<turns, fires, sent, occurred, faults>>

\* Mutant: a row is claimed whatever became of its turn.
ClaimAny(f) ==
    /\ IsDue
    /\ fires[f].pc = "idle"
    /\ Goto(f, "claimed")
    /\ active' = 0
    /\ next' = "leased"
    /\ UNCHANGED <<kind, recurring, enabled, alive, removed, turns, sent, occurred, faults>>

\* No turn, or one that failed or was stopped: fire.
Claim(f) ==
    /\ IsDue
    /\ active # 0 => turns[active] = "failed"
    /\ fires[f].pc = "idle"
    /\ Goto(f, "claimed")
    /\ active' = 0
    /\ next' = "leased"
    /\ UNCHANGED <<kind, recurring, enabled, alive, removed, turns, sent, occurred, faults>>

-----------------------------------------------------------------------------
(* Runner._safe_fire.                                                      *)

\* The bot is not served here: try again in 15 seconds.
BotMissing(f) ==
    /\ fires[f].pc = "claimed"
    /\ fires' = [fires EXCEPT ![f] = Idle]
    /\ active' = 0
    /\ next' = "leased"
    /\ UNCHANGED <<kind, recurring, enabled, alive, removed, turns, sent, occurred, faults>>

Send(f) ==
    /\ kind = "remind"
    /\ fires[f].pc = "claimed"
    /\ sent' = sent + 1
    /\ Goto(f, "over")
    /\ UNCHANGED <<row, turns, occurred, faults>>

\* turns.route: the turn is committed.
Route(f) ==
    /\ kind = "task"
    /\ fires[f].pc = "claimed"
    /\ \E n \in Turns :
        /\ turns[n] = "none"
        /\ \A m \in Turns : m < n => turns[m] # "none"
        /\ turns' = [turns EXCEPT ![n] = "running"]
        /\ fires' = [fires EXCEPT ![f] = [pc |-> "routed", turn |-> n]]
    /\ UNCHANGED <<row, sent, occurred, faults>>

\* bind_turn, an UPDATE that may find no row; then run_turn.
Bind(f) ==
    /\ fires[f].pc = "routed"
    /\ active' = IF alive THEN fires[f].turn ELSE active
    /\ Goto(f, "running")
    /\ UNCHANGED <<kind, recurring, enabled, alive, next, removed, turns, sent, occurred, faults>>

\* Whoever executes the turn ends it.
TurnEnds(n) ==
    /\ turns[n] = "running"
    /\ \E s \in {"done", "failed"} :
        /\ s = "failed" => Cardinality(Turned({"failed"})) < MaxFailed
        /\ turns' = [turns EXCEPT ![n] = s]
    /\ UNCHANGED <<row, fires, sent, occurred, faults>>

Return(f) ==
    /\ fires[f].pc = "running"
    /\ turns[fires[f].turn] # "running"
    /\ Goto(f, "over")
    /\ UNCHANGED <<row, turns, sent, occurred, faults>>

\* run_turn returns with the turn still running: paused for a shutdown, or an
\* exception before its try block.
Pause(f) ==
    /\ fires[f].pc = "running"
    /\ turns[fires[f].turn] = "running"
    /\ Fault
    /\ Goto(f, "over")
    /\ UNCHANGED <<row, turns, sent, occurred>>

\* The fire raises and is advanced like one that succeeded.
Raise(f) ==
    /\ fires[f].pc \in {"claimed", "routed"}
    /\ Fault
    /\ Goto(f, "over")
    /\ UNCHANGED <<row, turns, sent, occurred>>

\* _advance: get_any, then fired.
Advance(f) ==
    /\ fires[f].pc = "over"
    /\ fires' = [fires EXCEPT ![f] = Idle]
    /\ IF alive THEN MoveOn ELSE UNCHANGED row
    /\ UNCHANGED <<turns, sent, occurred, faults>>

\* A process is killed with whatever fires it had; or _advance raises twice.
Crash ==
    /\ Fault
    /\ \E S \in SUBSET {f \in Fires : fires[f].pc # "idle"} :
        /\ S # {}
        /\ fires' = [f \in Fires |-> IF f \in S THEN Idle ELSE fires[f]]
    /\ UNCHANGED <<row, turns, sent, occurred>>

-----------------------------------------------------------------------------
(* What users do.                                                          *)

SetEnabled ==
    /\ alive
    /\ enabled' = ~enabled
    /\ UNCHANGED <<kind, recurring, alive, next, active, removed, turns, fires, sent, occurred, faults>>

Remove ==
    /\ alive
    /\ alive' = FALSE
    /\ removed' = TRUE
    /\ active' = 0
    /\ UNCHANGED <<kind, recurring, enabled, next, turns, fires, sent, occurred, faults>>

Fire(f) ==
    \/ BotMissing(f) \/ Send(f) \/ Route(f) \/ Bind(f) \/ Return(f) \/ Advance(f)

Next ==
    \/ Due \/ ClaimRunning \/ ClaimDone \/ Crash \/ SetEnabled \/ Remove
    \/ \E f \in Fires : Claim(f) \/ Fire(f) \/ Pause(f) \/ Raise(f)
    \/ \E n \in Turns : TurnEnds(n)

Spec == Init /\ [][Next]_vars

Claims == ClaimRunning \/ ClaimDone \/ \E f \in Fires : Claim(f)

\* Time passes, the runner ticks, started tasks of a process run on, a turn is
\* ended by its process or by the recovery, and a bot that is not served here
\* is served the time after next.
FairSpec ==
    /\ Spec
    /\ WF_vars(Due) /\ WF_vars(Claims)
    /\ \A f \in Fires : WF_vars(Fire(f))
    /\ SF_vars(\E f \in Fires : Send(f) \/ Route(f))
    /\ \A n \in Turns : WF_vars(TurnEnds(n))

-----------------------------------------------------------------------------
(* Properties.                                                             *)

Made == Turned({"running", "done", "failed"})
Running == Turned({"running"})
Attempts == Cardinality(Made) + sent

\* An occurrence is fired once, and once more for each fault and for each turn
\* that fails, whose row may be claimed before its own fire moves it on: a lease
\* that runs out over a long turn, a recovered turn and a done one add nothing.
OncePerOccurrence == Attempts <= occurred + faults + Cardinality(Turned({"failed"}))

\* Without a fault and a failed turn no two turns of the row run at a time,
\* however long a turn takes and however often the row comes due under it.
ParallelOnlyAfterFault ==
    faults = 0 /\ Turned({"failed"}) = {} => Cardinality(Running) <= 1

\* A task that is due comes to rest at its next occurrence: no death of a
\* process and no long turn leaves it claimed for good.
Rests == (alive /\ enabled /\ next = "due") ~> (~alive \/ ~enabled \/ next = "later")
=============================================================================
