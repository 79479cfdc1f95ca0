------------------------------ MODULE MCAgent -------------------------------
(* The agent at work: what it says in the chat, its subagents, its browser; *)
(* and the machines it works on, with their keeper, donors and CI runners.  *)
(* The components do not touch one another in the models: a behaviour is    *)
(* one of the component that on names (a text is the sender with that       *)
(* text), the others stay as they begin, and the state graph is the sum of  *)
(* theirs.                                                                  *)
EXTENDS Sender, TLC

CONSTANTS
    Children, Instances, Waiters, Order, Machines, Nobody, Limit, MaxJobs, MaxRows,
    MaxFaults, Target, Burst, MaxRuns, Operators, Jobs, MaxTokens, Procs, Does, MaxTabs,
    MaxProfiles, Letters, MaxCommands

CONSTANTS c1, c2   \* subagents

VARIABLES
    on,   \* the component whose behaviour it is
    child, slot, waiter, down,
    lock, job, queue, ciSession, mach, runner, task, jobRows, pc, sess, last, hand,
    assigned, left, hold, overlap, stray, dropped, faults,
    keeperLock, keeperPc, listed, toGo, runs, old, blind,
    token, enabled, secret, operator, mine, issued, mixed, donorJob, knows,
    stateFile, profiles, launched, owner, opened, place, field, clicks, conns, stage, kind,
    tab, snap, try, calls, meant, before, hit, commands, webFaults, tabRaced

Sub == INSTANCE Subagents
Ci == INSTANCE ScaleSet WITH
    session <- ciSession, rows <- jobRows, count <- assigned
Fleet == INSTANCE Keeper WITH
    lock <- keeperLock, pc <- keeperPc, found <- listed, left <- toGo, run <- runs
Donor == INSTANCE Donors WITH
    at <- operator, job <- donorJob
Web == INSTANCE Browser WITH
    file <- stateFile, conn <- conns, faults <- webFaults, raced <- tabRaced

ASSUME SenderAssumption ==
    /\ IsFiniteSet(Callers) /\ Attempts \in Nat /\ MaxShown \in Nat /\ MaxTroubles \in Nat
    /\ Parts \in [Texts -> [media : Nat, document : Nat]]
    /\ \A t \in Texts : Parts[t].document <= Parts[t].media

ASSUME SubAssumption ==
    /\ Sub!NoInstance \notin Instances
    /\ Order \in Seq(Children) /\ \A c \in Children : \E k \in 1..Len(Order) : Order[k] = c

ASSUME ScaleAssumption ==
    /\ Nobody \notin Instances /\ "cancelled" \notin Instances /\ "closing" \notin Instances
    /\ Nobody \notin Machines
    /\ Limit \in Nat /\ MaxJobs \in Nat /\ MaxFaults \in Nat

ASSUME KeeperAssumption ==
    /\ Nobody \notin Instances
    /\ Target \in Nat /\ Burst \in Nat /\ MaxRuns \in Nat

ASSUME DonorsAssumption == MaxTokens \in Nat

ASSUME BrowserAssumption ==
    /\ MaxTabs \in Nat /\ MaxProfiles \in Nat /\ Letters \in Nat /\ Letters > 1
    /\ \A p, q \in Procs : Does[p] \cap Web!Pages # {} /\ Does[q] \cap Web!Pages # {} => p = q

\* A text is not the name of a component.
ASSUME NamesAssumption == Texts \cap {"subagents", "ci", "keeper", "donors", "browser"} = {}

subVars ==
    <<child, slot, waiter, down>>
ciVars ==
    <<lock, job, queue, ciSession, mach, runner, task, jobRows, pc, sess, last, hand,
    assigned, left, hold, overlap, stray, dropped, faults>>
fleetVars ==
    <<keeperLock, keeperPc, listed, toGo, runs, old, blind>>
donorVars ==
    <<token, enabled, secret, operator, mine, issued, mixed, donorJob, knows>>
webVars ==
    <<stateFile, profiles, launched, owner, opened, place, field, clicks, conns, stage,
    kind, tab, snap, try, calls, meant, before, hit, commands, webFaults, tabRaced>>

\* The variables of a component that is not on.
NoSub ==
    child = 0 /\ slot = 0 /\ waiter = 0 /\ down = 0
NoCi ==
    lock = 0 /\ job = 0 /\ queue = 0 /\ ciSession = 0 /\ mach = 0 /\ runner = 0 /\ task = 0
    /\ jobRows = 0 /\ pc = 0 /\ sess = 0 /\ last = 0 /\ hand = 0 /\ assigned = 0 /\ left = 0
    /\ hold = 0 /\ overlap = 0 /\ stray = 0 /\ dropped = 0 /\ faults = 0
NoFleet ==
    keeperLock = 0 /\ keeperPc = 0 /\ listed = 0 /\ toGo = 0 /\ runs = 0 /\ old = 0 /\ blind
    = 0
NoDonor ==
    token = 0 /\ enabled = 0 /\ secret = 0 /\ operator = 0 /\ mine = 0 /\ issued = 0 /\
    mixed = 0 /\ donorJob = 0 /\ knows = 0
NoWeb ==
    stateFile = 0 /\ profiles = 0 /\ launched = 0 /\ owner = 0 /\ opened = 0 /\ place = 0 /\
    field = 0 /\ clicks = 0 /\ conns = 0 /\ stage = 0 /\ kind = 0 /\ tab = 0 /\ snap = 0 /\
    try = 0 /\ calls = 0 /\ meant = 0 /\ before = 0 /\ hit = 0 /\ commands = 0 /\ webFaults
    = 0 /\ tabRaced = 0

AgentInit ==
    /\ on \in Texts \cup {"subagents", "ci", "keeper", "donors", "browser"}
    /\ Init
    /\ IF on = "subagents" THEN Sub!Init ELSE NoSub
    /\ IF on = "ci" THEN Ci!Init ELSE NoCi
    /\ IF on = "keeper" THEN Fleet!Init ELSE NoFleet
    /\ IF on = "donors" THEN Donor!Init ELSE NoDonor
    /\ IF on = "browser" THEN Web!Init ELSE NoWeb

\* The sender is on with one of its texts: what is said of others has other keys.
\* What callers at work together do to one another is seen with the sticker, which
\* may be one message or two.
Says(t) ==
    /\ \A k \in Callers : text'[k] \in Edits \cup {t, NoText}
    /\ t = "a" => Cardinality({k \in Callers : at'[k] # "idle"}) <= 1

AgentNext ==
    \/ on \in Texts /\ Next /\ Says(on)
       /\ UNCHANGED <<on, subVars, ciVars, fleetVars, donorVars, webVars>>
    \/ on = "subagents" /\ Sub!Next
       /\ UNCHANGED <<on, vars, ciVars, fleetVars, donorVars, webVars>>
    \/ on = "ci" /\ Ci!Next
       /\ UNCHANGED <<on, vars, subVars, fleetVars, donorVars, webVars>>
    \/ on = "keeper" /\ Fleet!Next
       /\ UNCHANGED <<on, vars, subVars, ciVars, donorVars, webVars>>
    \/ on = "donors" /\ Donor!Next
       /\ UNCHANGED <<on, vars, subVars, ciVars, fleetVars, webVars>>
    \/ on = "browser" /\ Web!Next
       /\ UNCHANGED <<on, vars, subVars, ciVars, fleetVars, donorVars>>

allVars ==
    <<on, vars, subVars, ciVars, fleetVars, donorVars, webVars>>

AgentSpec == AgentInit /\ [][AgentNext]_allVars

-----------------------------------------------------------------------------
(* The instance.                                                           *)

\* A text of one message, and a sticker: it and its caption, or a document.
TextAndSticker ==
    ("a" :> [media |-> 1, document |-> 0]) @@ ("b" :> [media |-> 2, document |-> 1])

TwoChildren == <<c1, c2>>

TwoPrograms ==
    ("p1" :> {"start", "stop", "switch", "new", "close", "back", "forward", "click", "type", "retype"})
    @@ ("p2" :> {"start", "switch", "block", "new"})

Symmetry == Permutations(Instances) \cup Permutations(Machines)

-----------------------------------------------------------------------------
(* Properties of the components.  Each one includes the types of theirs.   *)

\* See Sender: an answer is said once, and the rows are those of the messages.
ChatIsTrue == on \in Texts => TypeOK /\ SaidOnce /\ RowsAreTrue

\* See Subagents: who waited has waited for all, who left without them had a
\* reason, and a stop is heeded on whichever instance the subagent is.
SubagentsAreTrue ==
    on = "subagents" =>
        Sub!TypeOK /\ Sub!WaitedForAll /\ Sub!LeftForAReason /\ Sub!StopIsHeeded

\* See ScaleSet: no more runners are launched than the jobs that GitHub assigned
\* and the limit explain, and a job that is offered is not forgotten.  See Keeper
\* and Donors: a repository has as many runs as it is to have, and the token they
\* are given.
RunnersAreTrue ==
    /\ on = "ci" => Ci!TypeOK /\ Ci!RunnersAreCounted /\ Ci!OffersAreKept
    /\ on = "keeper" => Fleet!TypeOK /\ Fleet!RunsAreCounted
    /\ on = "donors" => Donor!TypeOK /\ Donor!SecretsFit

\* See Browser: a command acts on the active tab and says what it did, and the file
\* is that of the browser.
BrowserIsTrue ==
    on = "browser" => Web!TypeOK /\ Web!ActsOnActive /\ Web!DoneAsTold /\ Web!FileIsTrue
=============================================================================
