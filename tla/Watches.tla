------------------------------- MODULE Watches -------------------------------
(***************************************************************************)
(* One row of ssh_watches: the watchdog of an instance claims it when it   *)
(* is due, runs its command on the host, and tells the chat when its       *)
(* condition begins or ceases to hold.  The claim is a lease on            *)
(* next_run_at and a batch is worked off one by one, so another watchdog   *)
(* may take the row while the first still has it, with what it read.       *)
(*                                                                         *)
(* Sources: ssh/watchdog.py, ssh/watches.py, database/repositories/watch.py*)
(* api/routes/cli/automation.py, api/routes/admin/watches.py.              *)
(*                                                                         *)
(* What a command prints is a record of what conditions look at: the words *)
(* in it, its first number and the exit code.                              *)
(***************************************************************************)
EXTENDS Integers

CONSTANTS
    Dogs,       \* instances with a watchdog
    Condition,  \* of the watch: kind, operator, number, needle
    Outputs,    \* what the command may print
    NoOutput,   \* last_output is NULL
    MaxFails,   \* MAX_FAILS
    MaxMishaps  \* bound of the model: see Mishap

VARIABLES
    wrow,       \* the row: there, enabled, alerting, lastOutput, fails, next
    dog,        \* of each watchdog: where it is, and the row and result it has
    told,       \* notices that it fires, less those that it recovered
    toldDisabled,             \* the chat knows that the watch is off
    mishaps

watchVars == <<wrow, dog, told, toldDisabled, mishaps>>

Idle == [pc |-> "idle", alerting |-> FALSE, last |-> NoOutput, output |-> NoOutput, fires |-> FALSE]
Pcs == {"idle", "claimed", "ran", "alert", "notify", "check", "raised"}

TypeOK ==
    /\ wrow \in [there : BOOLEAN, enabled : BOOLEAN, alerting : BOOLEAN,
                 last : Outputs \cup {NoOutput}, fails : Nat, next : {"due", "leased", "later"}]
    /\ dog \in [Dogs -> [pc : Pcs, alerting : BOOLEAN, last : Outputs \cup {NoOutput},
                         output : Outputs \cup {NoOutput}, fires : BOOLEAN]]
    /\ told \in Int /\ toldDisabled \in BOOLEAN
    /\ mishaps \in 0..MaxMishaps

\* watch_add.
Added == [there |-> TRUE, enabled |-> TRUE, alerting |-> FALSE, last |-> NoOutput,
          fails |-> 0, next |-> "later"]

Init ==
    /\ wrow = Added
    /\ dog = [d \in Dogs |-> Idle]
    /\ told = 0 /\ toldDisabled = FALSE
    /\ mishaps = 0

Mishap == mishaps < MaxMishaps /\ mishaps' = mishaps + 1

-----------------------------------------------------------------------------
(* Conditions.                                                             *)

Compare(op, left, right) ==
    CASE op = "==" -> left = right
      [] op = "!=" -> left # right
      [] op = ">" -> left > right
      [] op = "<" -> left < right
      [] op = ">=" -> left >= right
      [] op = "<=" -> left <= right

\* parse accepts it: what a kind needs is there, and operators compare.
Parses(c) ==
    \/ c.kind \in {"changed", "always", "empty", "not_empty"}
    \/ c.kind \in {"exit", "number"} /\ c.operator \in {"==", "!=", ">", "<", ">=", "<="}
    \/ c.kind \in {"contains", "not_contains", "matches"} /\ c.needle # ""

\* The condition holds of an output, given the one before.
Evaluate(c, o, previous) ==
    CASE c.kind = "always" -> TRUE
      [] c.kind = "changed" -> previous # NoOutput /\ o.words # previous.words
      [] c.kind = "empty" -> o.words = {}
      [] c.kind = "not_empty" -> o.words # {}
      [] c.kind = "exit" -> Compare(c.operator, o.exit, c.number)
      [] c.kind \in {"contains", "matches"} -> c.needle \in o.words
      [] c.kind = "not_contains" -> c.needle \notin o.words
      [] c.kind = "number" -> o.hasNumber /\ Compare(c.operator, o.number, c.number)

-----------------------------------------------------------------------------
(* The watchdog.                                                           *)

Set(d, pc) == dog' = [dog EXCEPT ![d].pc = pc]
Rest(d) == dog' = [dog EXCEPT ![d] = Idle]

\* Time passes: its interval, or a lease; under a watchdog that has it, late.
Due ==
    /\ wrow.next # "due"
    /\ wrow' = [wrow EXCEPT !.next = "due"]
    /\ IF \E d \in Dogs : dog[d].pc # "idle" THEN Mishap ELSE UNCHANGED mishaps
    /\ UNCHANGED <<dog, told, toldDisabled>>

Claim(d) ==
    /\ dog[d].pc = "idle"
    /\ wrow.there /\ wrow.enabled /\ wrow.next = "due"
    /\ wrow' = [wrow EXCEPT !.next = "leased"]
    /\ dog' = [dog EXCEPT ![d] =
                 [pc |-> "claimed", alerting |-> wrow.alerting, last |-> wrow.last,
                  output |-> NoOutput, fires |-> FALSE]]
    /\ UNCHANGED <<told, toldDisabled, mishaps>>

\* _reschedule, on the row as it is now.
Rescheduled(failed, output) ==
    LET fails == IF failed THEN wrow.fails + 1 ELSE 0
    IN  IF ~wrow.there THEN wrow
        ELSE [wrow EXCEPT !.fails = fails,
                          !.last = IF output = NoOutput THEN @ ELSE output,
                          !.next = "later",
                          !.enabled = @ /\ fails < MaxFails]

\* The bot is not served here: as if all were well.
BotMissing(d) ==
    /\ dog[d].pc = "claimed"
    /\ wrow' = Rescheduled(FALSE, NoOutput)
    /\ Rest(d)
    /\ UNCHANGED <<told, toldDisabled, mishaps>>

\* run_once: the command ran, however it exited.
Runs(d, o) ==
    /\ dog[d].pc = "claimed"
    /\ Parses(Condition)
    /\ dog' = [dog EXCEPT ![d].pc = "ran", ![d].output = o,
                          ![d].fires = Evaluate(Condition, o, dog[d].last)]
    /\ UNCHANGED <<wrow, told, toldDisabled, mishaps>>

\* The host refuses, is away or takes too long.
Refused(d) ==
    /\ dog[d].pc = "claimed"
    /\ wrow' = Rescheduled(TRUE, NoOutput)
    /\ Set(d, "check")
    /\ UNCHANGED <<told, toldDisabled, mishaps>>

\* The failure that turned it off is told.
TellDisabled(d) ==
    /\ dog[d].pc = "check"
    /\ toldDisabled' = (toldDisabled \/ (wrow.there /\ wrow.fails = MaxFails))
    /\ Rest(d)
    /\ UNCHANGED <<wrow, told, mishaps>>

\* The result is written, then alerting, in two transactions.
Saved(d) ==
    /\ dog[d].pc = "ran"
    /\ wrow' = Rescheduled(FALSE, dog[d].output)
    /\ Set(d, "alert")
    /\ UNCHANGED <<told, toldDisabled, mishaps>>

Alert(d) ==
    /\ dog[d].pc = "alert"
    /\ wrow' = IF wrow.there THEN [wrow EXCEPT !.alerting = dog[d].fires] ELSE wrow
    /\ IF dog[d].fires # dog[d].alerting THEN Set(d, "notify") ELSE Rest(d)
    /\ UNCHANGED <<told, toldDisabled, mishaps>>

\* _notify: a message, or a turn for a watch with a task.
Notify(d) ==
    /\ dog[d].pc = "notify"
    /\ told' = IF dog[d].fires THEN told + 1 ELSE told - 1
    /\ Rest(d)
    /\ UNCHANGED <<wrow, toldDisabled, mishaps>>

\* A message that is refused, or anything else: tick counts a failure.
Raises(d) ==
    /\ dog[d].pc \in {"claimed", "ran", "alert", "notify", "check"}
    /\ Mishap
    /\ wrow' = Rescheduled(TRUE, NoOutput)
    /\ Rest(d)
    /\ UNCHANGED <<told, toldDisabled>>

Crash(d) ==
    /\ dog[d].pc # "idle"
    /\ Mishap
    /\ Rest(d)
    /\ UNCHANGED <<wrow, told, toldDisabled>>

-----------------------------------------------------------------------------
(* What users and admins do.                                               *)

Pause ==
    /\ wrow.there /\ wrow.enabled
    /\ wrow' = [wrow EXCEPT !.enabled = FALSE]
    /\ UNCHANGED <<dog, told, toldDisabled, mishaps>>

Resume ==
    /\ wrow.there /\ ~wrow.enabled
    /\ wrow' = [wrow EXCEPT !.enabled = TRUE, !.fails = 0]
    /\ toldDisabled' = FALSE
    /\ UNCHANGED <<dog, told, mishaps>>

\* By its number, by /tasks clear, or with its host.
Remove ==
    /\ wrow.there
    /\ wrow' = [wrow EXCEPT !.there = FALSE]
    /\ UNCHANGED <<dog, told, toldDisabled, mishaps>>

Step(d) ==
    \/ BotMissing(d) \/ Refused(d) \/ TellDisabled(d) \/ Saved(d) \/ Alert(d) \/ Notify(d)
    \/ \E o \in Outputs : Runs(d, o)

Next ==
    \/ Due \/ Pause \/ Resume \/ Remove
    \/ \E d \in Dogs : Claim(d) \/ Step(d) \/ Raises(d) \/ Crash(d)

Spec == Init /\ [][Next]_watchVars

-----------------------------------------------------------------------------
(* Properties.                                                             *)

Resting == \A d \in Dogs : dog[d].pc = "idle"

\* Without a death, a failed send and a watchdog that is late for its lease the
\* chat was told what the row says: each beginning of an alert once, each end
\* once, through every refusal, pause and missing bot.
ChatKnows ==
    mishaps = 0 /\ Resting /\ wrow.there =>
        told = (IF wrow.alerting THEN 1 ELSE 0)

\* A watch that failed too often is off, and but for a mishap somebody told the
\* chat before the watchdog went on.
OffIsTold ==
    wrow.there /\ wrow.fails >= MaxFails =>
        ~wrow.enabled /\ (mishaps = 0 /\ Resting => toldDisabled)
=============================================================================
