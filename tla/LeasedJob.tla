------------------------------ MODULE LeasedJob ------------------------------
(***************************************************************************)
(* What webhook_deliveries promises, as a table of jobs, to who puts rows  *)
(* into it, whoever claims them (module Deliveries implements it).         *)
(* A row is taken as often as it must be, by one worker after another or   *)
(* by two whose claims overlap, and several rows at once; it is settled    *)
(* only by somebody who took it, stays settled, and is not left lying.     *)
(***************************************************************************)
EXTENDS Naturals

CONSTANT Jobs

VARIABLES
    state,  \* of each job: "absent", "open", "settled" or "gone"
    tries   \* of each job: how often it was taken

vars == <<state, tries>>

Init ==
    /\ state = [j \in Jobs |-> "absent"]
    /\ tries = [j \in Jobs |-> 0]

Becomes(j, s) == state'[j] = s /\ tries'[j] = tries[j]

Arrive(j) == state[j] = "absent" /\ Becomes(j, "open")

Take(j) == state[j] = "open" /\ state'[j] = "open" /\ tries'[j] = tries[j] + 1

Settle(j) == state[j] = "open" /\ tries[j] > 0 /\ Becomes(j, "settled")

\* Old rows are purged, whatever became of them.
Purge(j) == state[j] \in {"open", "settled"} /\ Becomes(j, "gone")

Next ==
    \A j \in Jobs :
        Arrive(j) \/ Take(j) \/ Settle(j) \/ Purge(j) \/ Becomes(j, state[j])

Safety == Init /\ [][Next]_vars

Spec ==
    /\ Safety
    /\ \A j \in Jobs : state[j] = "open" ~> state[j] # "open"
=============================================================================
