------------------------------- MODULE Keeper -------------------------------
(***************************************************************************)
(* The machines of the pool are runs of a workflow in the repository of a  *)
(* donor (module Donors).  The keeper of each instance brings the runs of  *)
(* a donor to their number, under a lock that it does not renew.           *)
(*                                                                         *)
(* Sources: pool/keeper.py.  One donor, that is enabled.                   *)
(***************************************************************************)
EXTENDS Naturals, FiniteSets

CONSTANTS
    Instances,
    Nobody,
    Target,      \* PoolDonor.jobs
    Burst,       \* pool_launch_burst
    MaxRuns      \* bound of the model: runs

VARIABLES
    lock,      \* who has keys.keeper
    pc,        \* of each instance
    found,     \* of each instance: the runs it has listed
    left,      \* of each instance: dispatches to go
    run,       \* of each run, at GitHub
    old,       \* runs that are older than pool_job_ttl
    blind      \* a keeper did not see all runs there were, or was not alone

keeper == <<lock, pc, found, left, blind>>
vars == <<keeper, run, old>>

Runs == 1..MaxRuns

TypeOK ==
    /\ lock \in Instances \cup {Nobody}
    /\ pc \in [Instances -> {"idle", "running", "queued", "dispatch"}]
    /\ found \in [Instances -> SUBSET Runs] /\ left \in [Instances -> 0..Burst]
    /\ run \in [Runs -> {"none", "accepted", "queued", "running", "over"}]
    /\ old \subseteq Runs /\ blind \in BOOLEAN

Init ==
    /\ lock = Nobody /\ pc = [i \in Instances |-> "idle"]
    /\ found = [i \in Instances |-> {}] /\ left = [i \in Instances |-> 0]
    /\ blind = FALSE
    /\ run = [r \in Runs |-> "none"] /\ old = {}

Listed == {r \in Runs : run[r] \in {"queued", "running"}}
Live == {r \in Runs : run[r] \in {"accepted", "queued", "running"}}

-----------------------------------------------------------------------------
(* The keeper.                                                             *)

Goto(i, p) == pc' = [pc EXCEPT ![i] = p]

\* tick: the lock of the donor is free, and the runs that run are listed,
ListRunning(i) ==
    /\ pc[i] = "idle"
    /\ lock = Nobody
    /\ lock' = i
    /\ found' = [found EXCEPT ![i] = {r \in Runs : run[r] = "running"}]
    /\ Goto(i, "running")
    /\ UNCHANGED <<left, blind, run, old>>

\* ... and then those that wait: one that starts in between is in no list.
ListQueued(i) ==
    /\ pc[i] = "running"
    /\ found' = [found EXCEPT ![i] = @ \cup {r \in Runs : run[r] = "queued"}]
    /\ Goto(i, "queued")
    /\ UNCHANGED <<lock, left, blind, run, old>>

AtWork(i) == \E k \in Instances \ {i} : pc[k] # "idle"
Least(a, b) == IF a <= b THEN a ELSE b
Missing(i) ==
    LET kept == Cardinality(found[i] \ old) IN IF kept < Target THEN Target - kept ELSE 0

\* reconcile: old runs are cancelled, a burst of them, and none is counted.
Reconcile(i) ==
    /\ pc[i] = "queued"
    /\ left' = [left EXCEPT ![i] = Least(Missing(i), Burst)]
    /\ blind' = (blind \/ AtWork(i) \/ ~(Live \subseteq found[i]))
    /\ \E gone \in SUBSET (found[i] \cap old) :
          /\ Cardinality(gone) = Least(Cardinality(found[i] \cap old), Burst)
          /\ run' = [r \in Runs |-> IF r \in gone THEN "over" ELSE run[r]]
    /\ Goto(i, "dispatch")
    /\ UNCHANGED <<lock, found, old>>

\* A dispatch is accepted; its run is listed a little later.
Dispatch(i) ==
    /\ pc[i] = "dispatch" /\ left[i] > 0
    /\ \E r \in Runs :
          /\ run[r] = "none"
          /\ \A q \in 1..(r - 1) : run[q] # "none"
          /\ run' = [run EXCEPT ![r] = "accepted"]
    /\ left' = [left EXCEPT ![i] = @ - 1]
    /\ UNCHANGED <<lock, pc, found, blind, old>>

\* All done, an error of GitHub's, or the end of the process.
Leave(i) ==
    /\ pc[i] # "idle"
    /\ Goto(i, "idle")
    /\ left' = [left EXCEPT ![i] = 0] /\ found' = [found EXCEPT ![i] = {}]
    /\ lock' = IF lock = i THEN Nobody ELSE lock
    /\ UNCHANGED <<blind, run, old>>

\* The lock has its time, and is not renewed.
LockLapses ==
    /\ lock # Nobody
    /\ lock' = Nobody
    /\ UNCHANGED <<pc, found, left, blind, run, old>>

-----------------------------------------------------------------------------
(* Runs.                                                                   *)

Appear(r) ==
    /\ run[r] = "accepted"
    /\ run' = [run EXCEPT ![r] = "queued"]
    /\ UNCHANGED <<keeper, old>>

Start(r) ==
    /\ run[r] = "queued"
    /\ run' = [run EXCEPT ![r] = "running"]
    /\ UNCHANGED <<keeper, old>>

Age(r) ==
    /\ r \in Listed \ old
    /\ old' = old \cup {r}
    /\ UNCHANGED <<keeper, run>>

RunEnds(r) ==
    /\ r \in Listed
    /\ run' = [run EXCEPT ![r] = "over"]
    /\ UNCHANGED <<keeper, old>>

Next ==
    \/ LockLapses
    \/ \E i \in Instances :
        ListRunning(i) \/ ListQueued(i) \/ Reconcile(i) \/ Dispatch(i) \/ Leave(i)
    \/ \E r \in Runs : Appear(r) \/ Start(r) \/ Age(r) \/ RunEnds(r)

Spec == Init /\ [][Next]_vars

-----------------------------------------------------------------------------
(* Properties.                                                             *)

\* A donor has no more young runs than it is to have, unless a keeper did not
\* see one that was there - not listed yet, or moved from a list it had not
\* read to one it had - or was not alone.
RunsAreCounted == blind \/ Cardinality(Live \ old) <= Target
=============================================================================
