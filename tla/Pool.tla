-------------------------------- MODULE Pool --------------------------------
(***************************************************************************)
(* The machines of the pool: their rows in Postgres, their keys and the    *)
(* set of idle ones in Redis, the daemon inside each, and the handlers     *)
(* that register, take, assign, destroy and reap them.  A handler is a     *)
(* sequence of commands to two stores, and nothing is locked across them.  *)
(*                                                                         *)
(* Sources: pool/registry.py, pool/leases.py, pool/channel.py (tell,       *)
(* pull), pool/ci/controller.py (_launch, _watch), api/routes/machines.py, *)
(* machine/daemon.py.  A key stands for its payload: nothing reads the     *)
(* state in it.  The four deletions of forget are one step.                *)
(***************************************************************************)
EXTENDS Integers, Sequences, FiniteSets, SequencesExt, FiniteSetTheorems, SequenceTheorems, TLAPS

CONSTANTS
    Machines,
    Users,
    Takers,     \* requests of take that can be under way
    Nobody,
    Limit,      \* pool_max_machines
    Ci,         \* a scale set controller is at work
    MaxFaults   \* bound of the model: see faults

ASSUME PoolAssumption ==
    /\ Nobody \notin Users /\ Nobody \notin Machines
    /\ Limit \in Nat \ {0} /\ MaxFaults \in Nat /\ Ci \in BOOLEAN

VARIABLES
    state,      \* PoolMachine.state, "none" before the row exists
    gone,       \* gone_at is set
    owner,      \* user_id
    open,       \* PoolLease rows that are not released
    key,        \* keys.machine exists
    idle,       \* keys.idle
    inbox,      \* keys.inbox
    queue,      \* keys.pending
    token,      \* the token of the machine is valid
    daemon,     \* the process inside the job
    polling,    \* its request for commands waits at the server
    beat,       \* the server's handler of its heartbeat
    killer,     \* destroy or forget of the machine
    takers,     \* requests of take
    launch,     \* the controller's _launch and _watch
    served,     \* leases and runners given to the machine
    stranded,   \* machines that a fault took off the offer, see IdleIsOffered
    faults      \* keys that expired under a live daemon, a Redis that came back
                \* empty, deaths, lost answers

row == <<state, gone, owner, open>>
redis == <<key, idle, inbox, queue>>
remote == <<token, daemon, polling>>
procs == <<beat, killer, takers, launch>>
ghost == <<served, stranded>>
vars == <<row, redis, remote, procs, ghost, faults>>

NoTake == [pc |-> "none", user |-> Nobody, machine |-> Nobody, left |-> 0]
NoLaunch == [pc |-> "none", machine |-> Nobody]

TypeOK ==
    /\ state \in [Machines -> {"none", "idle", "leased", "ci"}]
    /\ gone \in [Machines -> BOOLEAN]
    /\ owner \in [Machines -> Users \cup {Nobody}]
    /\ \A m \in Machines : state[m] = "leased" <=> owner[m] # Nobody
    /\ open \in [Machines -> Nat]
    /\ key \in [Machines -> BOOLEAN]
    /\ idle \subseteq Machines
    /\ inbox \in [Machines -> Seq({"assign", "run", "shutdown"})]
    /\ queue \in Seq(Users)
    /\ token \in [Machines -> BOOLEAN]
    /\ daemon \in [Machines -> {"off", "row", "listed", "up", "stopped"}]
    /\ polling \in [Machines -> BOOLEAN]
    /\ beat \in [Machines -> {"none", "found", "missing", "revive", "reviveIdle", "list"}]
    /\ killer \in [Machines -> {"none", "told", "revoked", "closed", "deleted"}]
    /\ takers \in [Takers -> [pc : {"none", "waiting", "popped", "binding", "bound", "marked"},
                              user : Users \cup {Nobody}, machine : Machines \cup {Nobody},
                              left : 0..Limit]]
    /\ launch \in [pc : {"none", "popped", "jit", "marked", "occupied", "sent", "watching"},
                   machine : Machines \cup {Nobody}]
    /\ served \in [Machines -> Nat]
    /\ stranded \subseteq Machines
    /\ faults \in 0..MaxFaults

Init ==
    /\ state = [m \in Machines |-> "none"]
    /\ gone = [m \in Machines |-> FALSE]
    /\ owner = [m \in Machines |-> Nobody]
    /\ open = [m \in Machines |-> 0]
    /\ key = [m \in Machines |-> FALSE]
    /\ idle = {}
    /\ inbox = [m \in Machines |-> <<>>]
    /\ queue = <<>>
    /\ token = [m \in Machines |-> FALSE]
    /\ daemon = [m \in Machines |-> "off"]
    /\ polling = [m \in Machines |-> FALSE]
    /\ beat = [m \in Machines |-> "none"]
    /\ killer = [m \in Machines |-> "none"]
    /\ takers = [r \in Takers |-> NoTake]
    /\ launch = NoLaunch
    /\ served = [m \in Machines |-> 0]
    /\ stranded = {}
    /\ faults = 0

Live(m) == state[m] # "none" /\ ~gone[m]
Mine(u) == {m \in Machines : state[m] = "leased" /\ ~gone[m] /\ owner[m] = u}
Tell(m, frame) == inbox' = [inbox EXCEPT ![m] = Append(@, frame)]
Fault == faults < MaxFaults /\ faults' = faults + 1

-----------------------------------------------------------------------------
(* A machine registers, beats and asks for commands.                       *)

RegisterRow(m) ==
    /\ daemon[m] = "off"
    /\ daemon' = [daemon EXCEPT ![m] = "row"]
    /\ state' = [state EXCEPT ![m] = "idle"]
    /\ UNCHANGED <<gone, owner, open, redis, token, polling, procs, ghost, faults>>

RegisterRedis(m) ==
    /\ daemon[m] = "row"
    /\ daemon' = [daemon EXCEPT ![m] = "listed"]
    /\ key' = [key EXCEPT ![m] = TRUE]
    /\ idle' = idle \cup {m}
    /\ UNCHANGED <<row, inbox, queue, token, polling, procs, ghost, faults>>

\* The token is issued, the answer arrives and the daemon serves.
Registered(m) ==
    /\ daemon[m] = "listed"
    /\ token' = [token EXCEPT ![m] = TRUE]
    /\ daemon' = [daemon EXCEPT ![m] = "up"]
    /\ UNCHANGED <<row, redis, polling, procs, ghost, faults>>

\* The job ends: a registration that failed, a cancelled run.
JobEnds(m) ==
    /\ daemon[m] \in {"row", "listed", "up"}
    /\ daemon' = [daemon EXCEPT ![m] = "stopped"]
    /\ UNCHANGED <<row, redis, token, polling, procs, ghost, faults>>

\* A key lives for pool_machine_ttl after the last beat.
Expire(m) ==
    /\ key[m]
    /\ IF daemon[m] = "stopped" THEN UNCHANGED faults ELSE Fault
    /\ key' = [key EXCEPT ![m] = FALSE]
    /\ UNCHANGED <<row, idle, inbox, queue, remote, procs, ghost>>

\* Redis comes back empty.  A beat that had found its key writes it again, and
\* nothing lists the machine.
Flush ==
    /\ Fault
    /\ key' = [m \in Machines |-> FALSE]
    /\ idle' = {}
    /\ inbox' = [m \in Machines |-> <<>>]
    /\ queue' = <<>>
    /\ stranded' = stranded \cup {m \in Machines : beat[m] = "found"}
    /\ UNCHANGED <<row, remote, procs, served>>

BeatTo(m, pc) == beat' = [beat EXCEPT ![m] = pc]

Beat(m) ==
    /\ daemon[m] = "up"
    /\ token[m]
    /\ beat[m] = "none"
    /\ BeatTo(m, IF key[m] THEN "found" ELSE "missing")
    /\ UNCHANGED <<row, redis, remote, killer, takers, launch, ghost, faults>>

BeatFound(m) ==
    /\ beat[m] = "found"
    /\ key' = [key EXCEPT ![m] = TRUE]
    /\ BeatTo(m, "none")
    /\ UNCHANGED <<row, idle, inbox, queue, remote, killer, takers, launch, ghost, faults>>

\* revive reads the row; 410 for a machine that is gone, which the daemon
\* takes for a bad connection.
ReviveRead(m) ==
    /\ beat[m] = "missing"
    /\ BeatTo(m, IF ~Live(m) THEN "none" ELSE IF state[m] = "idle" THEN "reviveIdle" ELSE "revive")
    /\ UNCHANGED <<row, redis, remote, killer, takers, launch, ghost, faults>>

ReviveSet(m) ==
    /\ beat[m] \in {"revive", "reviveIdle"}
    /\ key' = [key EXCEPT ![m] = TRUE]
    /\ BeatTo(m, IF beat[m] = "reviveIdle" THEN "list" ELSE "found")
    /\ UNCHANGED <<row, idle, inbox, queue, remote, killer, takers, launch, ghost, faults>>

\* Mutant: a revived machine is not offered again.
ReviveUnlisted(m) ==
    /\ beat[m] = "list"
    /\ BeatTo(m, "found")
    /\ UNCHANGED <<row, redis, remote, killer, takers, launch, ghost, faults>>

ReviveList(m) ==
    /\ beat[m] = "list"
    /\ idle' = idle \cup {m}
    /\ BeatTo(m, "found")
    /\ UNCHANGED <<row, key, inbox, queue, remote, killer, takers, launch, ghost, faults>>

\* GET commands: a beat that returned true, then pull waits for frames.
PollStart(m) ==
    /\ daemon[m] = "up"
    /\ token[m]
    /\ key[m] \/ Live(m)
    /\ ~polling[m]
    /\ polling' = [polling EXCEPT ![m] = TRUE]
    /\ UNCHANGED <<row, redis, token, daemon, procs, ghost, faults>>

\* lpop, and the daemon dispatches what it gets.
PollFrames(m) ==
    /\ polling[m]
    /\ inbox[m] # <<>>
    /\ inbox' = [inbox EXCEPT ![m] = <<>>]
    /\ polling' = [polling EXCEPT ![m] = FALSE]
    /\ daemon' = [daemon EXCEPT ![m] = IF Contains(inbox[m], "shutdown") THEN "stopped" ELSE @]
    /\ UNCHANGED <<row, key, idle, queue, token, procs, ghost, faults>>

\* lpop, and the answer does not arrive.
PollLost(m) ==
    /\ polling[m]
    /\ inbox[m] # <<>>
    /\ Fault
    /\ inbox' = [inbox EXCEPT ![m] = <<>>]
    /\ polling' = [polling EXCEPT ![m] = FALSE]
    /\ UNCHANGED <<row, key, idle, queue, token, daemon, procs, ghost>>

PollEmpty(m) ==
    /\ polling[m]
    /\ inbox[m] = <<>> \/ daemon[m] = "stopped"
    /\ polling' = [polling EXCEPT ![m] = FALSE]
    /\ UNCHANGED <<row, redis, token, daemon, procs, ghost, faults>>

-----------------------------------------------------------------------------
(* destroy: the user, the idle limit, the operator or a ghost; and forget, *)
(* on its own when the key of a machine is missing.                        *)

KillTo(m, pc) == killer' = [killer EXCEPT ![m] = pc]

Destroy(m) ==
    /\ Live(m)
    /\ killer[m] = "none"
    /\ Tell(m, "shutdown")
    /\ KillTo(m, "told")
    /\ UNCHANGED <<row, key, idle, queue, remote, beat, takers, launch, ghost, faults>>

Revoke(m) ==
    /\ killer[m] = "told"
    /\ token' = [token EXCEPT ![m] = FALSE]
    /\ KillTo(m, "revoked")
    /\ UNCHANGED <<row, redis, daemon, polling, beat, takers, launch, ghost, faults>>

\* _close_lease: the latest open one.
CloseLease(m) ==
    /\ killer[m] = "revoked"
    /\ open' = [open EXCEPT ![m] = IF @ = 0 THEN 0 ELSE @ - 1]
    /\ KillTo(m, "closed")
    /\ UNCHANGED <<state, gone, owner, redis, remote, beat, takers, launch, ghost, faults>>

ForgetRedis(m) ==
    /\ killer[m] = "closed"
    /\ idle' = idle \ {m}
    /\ key' = [key EXCEPT ![m] = FALSE]
    /\ inbox' = [inbox EXCEPT ![m] = <<>>]
    /\ KillTo(m, "deleted")
    /\ UNCHANGED <<row, queue, remote, beat, takers, launch, ghost, faults>>

ForgetRow(m) ==
    /\ killer[m] = "deleted"
    /\ gone' = [gone EXCEPT ![m] = TRUE]
    /\ KillTo(m, "none")
    /\ UNCHANGED <<state, owner, open, redis, remote, beat, takers, launch, ghost, faults>>

\* registry.reap: a live row without a key.
Reap(m) ==
    /\ Live(m)
    /\ ~key[m]
    /\ killer[m] = "none"
    /\ KillTo(m, "closed")
    /\ UNCHANGED <<row, redis, remote, beat, takers, launch, ghost, faults>>

\* Mutant: leases of machines that are gone stay open.
NoStray(m) == FALSE /\ UNCHANGED vars

\* _close_stray_leases.
CloseStray(m) ==
    /\ gone[m]
    /\ open[m] > 0
    /\ open' = [open EXCEPT ![m] = 0]
    /\ UNCHANGED <<state, gone, owner, redis, remote, procs, ghost, faults>>

-----------------------------------------------------------------------------
(* take.                                                                   *)

TakerTo(r, pc) == takers' = [takers EXCEPT ![r].pc = pc]
MachineOf(r) == takers[r].machine

\* zrem: a user is in the queue once at most.
LeaveQueue(u) ==
    queue' = IF Contains(queue, u)
             THEN RemoveAt(queue, CHOOSE i \in DOMAIN queue : queue[i] = u) ELSE queue

\* The ghosts of the user are destroyed first; then the limit, and the queue.
Take(r, u) ==
    /\ takers[r].pc = "none"
    /\ \A m \in Mine(u) : key[m]
    /\ \E n \in 1..Limit :
        /\ Cardinality(Mine(u)) + n <= Limit
        /\ takers' = [takers EXCEPT ![r] = [pc |-> "waiting", user |-> u, machine |-> Nobody, left |-> n]]
    /\ queue' = IF Contains(queue, u) THEN queue ELSE Append(queue, u)
    /\ UNCHANGED <<row, key, idle, inbox, remote, beat, killer, launch, ghost, faults>>

\* The first of those that wait with the fewest machines.
MyTurn(u) ==
    LET held(i) == Cardinality(Mine(queue[i])) IN
    queue # <<>> =>
        \E i \in DOMAIN queue :
            /\ queue[i] = u
            /\ \A j \in DOMAIN queue \ {i} : held(i) < held(j) \/ (held(i) = held(j) /\ i < j)

Holding(r) == takers[r].pc \in {"popped", "binding", "bound", "marked"}

\* Mutant: the name is read from the set but not taken out.
GrabPeeked(r) ==
    /\ takers[r].pc = "waiting"
    /\ MyTurn(takers[r].user)
    /\ \E m \in idle :
        /\ key[m]
        /\ takers' = [takers EXCEPT ![r].pc = "popped", ![r].machine = m]
    /\ UNCHANGED <<row, redis, remote, beat, killer, launch, ghost, faults>>

\* grab_idle: zpopmin, until a name is alive.
Grab(r) ==
    /\ takers[r].pc = "waiting"
    /\ MyTurn(takers[r].user)
    /\ \E m \in idle :
        /\ key[m]
        /\ idle' = idle \ {m}
        /\ takers' = [takers EXCEPT ![r].pc = "popped", ![r].machine = m]
    /\ UNCHANGED <<row, key, inbox, queue, remote, beat, killer, launch, ghost, faults>>

\* A name that is not alive is popped and forgotten.
Vanished ==
    /\ launch.pc = "none" \/ \E r \in Takers : takers[r].pc = "waiting"
    /\ \E m \in idle :
        /\ ~key[m]
        /\ killer[m] = "none"
        /\ idle' = idle \ {m}
        /\ KillTo(m, "closed")
    /\ UNCHANGED <<row, key, inbox, queue, remote, beat, takers, launch, ghost, faults>>

\* The row is gone: the next name.
BindNone(r) ==
    /\ takers[r].pc = "popped"
    /\ ~Live(MachineOf(r))
    /\ takers' = [takers EXCEPT ![r].pc = "waiting", ![r].machine = Nobody]
    /\ UNCHANGED <<row, redis, remote, beat, killer, launch, ghost, faults>>

BindRead(r) ==
    /\ takers[r].pc = "popped"
    /\ Live(MachineOf(r))
    /\ TakerTo(r, "binding")
    /\ UNCHANGED <<row, redis, remote, beat, killer, launch, ghost, faults>>

\* The UPDATE does not look at the state of the row again.
BindCommit(r) ==
    /\ takers[r].pc = "binding"
    /\ state' = [state EXCEPT ![MachineOf(r)] = "leased"]
    /\ owner' = [owner EXCEPT ![MachineOf(r)] = takers[r].user]
    /\ open' = [open EXCEPT ![MachineOf(r)] = @ + 1]
    /\ served' = [served EXCEPT ![MachineOf(r)] = @ + 1]
    /\ TakerTo(r, "bound")
    /\ UNCHANGED <<gone, redis, remote, beat, killer, launch, stranded, faults>>

\* registry.mark makes the key, there or not.
BindMark(r) ==
    /\ takers[r].pc = "bound"
    /\ key' = [key EXCEPT ![MachineOf(r)] = TRUE]
    /\ idle' = idle \ {MachineOf(r)}
    /\ TakerTo(r, "marked")
    /\ UNCHANGED <<row, inbox, queue, remote, beat, killer, launch, ghost, faults>>

\* The lease token and the frame; the last one leaves the queue.
Assign(r) ==
    /\ takers[r].pc = "marked"
    /\ Tell(MachineOf(r), "assign")
    /\ IF takers[r].left = 1
       THEN takers' = [takers EXCEPT ![r] = NoTake] /\ LeaveQueue(takers[r].user)
       ELSE /\ takers' = [takers EXCEPT ![r].pc = "waiting", ![r].machine = Nobody, ![r].left = @ - 1]
            /\ UNCHANGED queue
    /\ UNCHANGED <<row, key, idle, remote, beat, killer, launch, ghost, faults>>

\* The deadline.
GiveUp(r) ==
    /\ takers[r].pc = "waiting"
    /\ takers' = [takers EXCEPT ![r] = NoTake]
    /\ LeaveQueue(takers[r].user)
    /\ UNCHANGED <<row, key, idle, inbox, remote, beat, killer, launch, ghost, faults>>

\* The process of the request dies, or an exception leaves it.
TakerDies(r) ==
    /\ takers[r].pc # "none"
    /\ Fault
    /\ takers' = [takers EXCEPT ![r] = NoTake]
    /\ stranded' = IF Holding(r) THEN stranded \cup {MachineOf(r)} ELSE stranded
    /\ UNCHANGED <<row, redis, remote, beat, killer, launch, served>>

\* _waiting: an entry three pool_take_wait old is dropped.
QueueExpires(u) ==
    /\ Contains(queue, u)
    /\ \A r \in Takers : takers[r].user # u
    /\ LeaveQueue(u)
    /\ UNCHANGED <<row, key, idle, inbox, remote, procs, ghost, faults>>

-----------------------------------------------------------------------------
(* The scale set controller gives a machine to a CI runner.                *)

LaunchTo(pc) == launch' = [launch EXCEPT !.pc = pc]

LaunchGrab ==
    /\ Ci
    /\ launch.pc = "none"
    /\ \E m \in idle :
        /\ key[m]
        /\ idle' = idle \ {m}
        /\ launch' = [pc |-> "popped", machine |-> m]
    /\ UNCHANGED <<row, key, inbox, queue, remote, beat, killer, takers, ghost, faults>>

LaunchJit ==
    /\ launch.pc = "popped"
    /\ LaunchTo("jit")
    /\ UNCHANGED <<row, redis, remote, beat, killer, takers, ghost, faults>>

OccupyMark ==
    /\ launch.pc = "jit"
    /\ key' = [key EXCEPT ![launch.machine] = TRUE]
    /\ idle' = idle \ {launch.machine}
    /\ LaunchTo("marked")
    /\ UNCHANGED <<row, inbox, queue, remote, beat, killer, takers, ghost, faults>>

OccupyRow ==
    /\ launch.pc = "marked"
    /\ state' = [state EXCEPT ![launch.machine] = "ci"]
    /\ owner' = [owner EXCEPT ![launch.machine] = Nobody]
    /\ LaunchTo("occupied")
    /\ UNCHANGED <<gone, open, redis, remote, beat, killer, takers, ghost, faults>>

LaunchSend ==
    /\ launch.pc = "occupied"
    /\ Tell(launch.machine, "run")
    /\ served' = [served EXCEPT ![launch.machine] = @ + 1]
    /\ LaunchTo("sent")
    /\ UNCHANGED <<row, key, idle, queue, remote, beat, killer, takers, stranded, faults>>

LaunchStarted ==
    /\ launch.pc = "sent"
    /\ LaunchTo("watching")
    /\ UNCHANGED <<row, redis, remote, beat, killer, takers, ghost, faults>>

\* jit, the row, the command or start_job raises: the machine is idle again,
\* in Redis, and perhaps with a runner.
LaunchFails ==
    /\ launch.pc \in {"popped", "jit", "marked", "occupied", "sent"}
    /\ Fault
    /\ key' = [key EXCEPT ![launch.machine] = TRUE]
    /\ idle' = idle \cup {launch.machine}
    /\ launch' = NoLaunch
    /\ UNCHANGED <<row, inbox, queue, remote, beat, killer, takers, ghost>>

\* The finally of _watch.
RunnerEnds ==
    /\ launch.pc = "watching"
    /\ killer[launch.machine] = "none"
    /\ Tell(launch.machine, "shutdown")
    /\ KillTo(launch.machine, "closed")
    /\ launch' = NoLaunch
    /\ UNCHANGED <<row, key, idle, queue, remote, beat, takers, ghost, faults>>

LaunchDies ==
    /\ launch.pc # "none"
    /\ Fault
    /\ launch' = NoLaunch
    /\ stranded' = stranded \cup {launch.machine}
    /\ UNCHANGED <<row, redis, remote, beat, killer, takers, served>>

-----------------------------------------------------------------------------
Daemon(m) ==
    \/ RegisterRow(m) \/ RegisterRedis(m) \/ Registered(m) \/ JobEnds(m)
    \/ Beat(m) \/ PollStart(m) \/ PollFrames(m) \/ PollLost(m) \/ PollEmpty(m)

Beating(m) == BeatFound(m) \/ ReviveRead(m) \/ ReviveSet(m) \/ ReviveList(m)

Killing(m) == Revoke(m) \/ CloseLease(m) \/ ForgetRedis(m) \/ ForgetRow(m)

Taking(r) ==
    \/ Grab(r) \/ BindNone(r) \/ BindRead(r) \/ BindCommit(r) \/ BindMark(r) \/ Assign(r)

Launching ==
    \/ LaunchGrab \/ LaunchJit \/ OccupyMark \/ OccupyRow \/ LaunchSend \/ LaunchStarted
    \/ LaunchFails \/ RunnerEnds \/ LaunchDies

Next ==
    \/ \E m \in Machines :
        Daemon(m) \/ Expire(m) \/ Beating(m) \/ Destroy(m) \/ Killing(m) \/ Reap(m) \/ CloseStray(m)
    \/ \E r \in Takers : Taking(r) \/ GiveUp(r) \/ TakerDies(r) \/ \E u \in Users : Take(r, u)
    \/ \E u \in Users : QueueExpires(u)
    \/ Vanished \/ Launching \/ Flush

Spec == Init /\ [][Next]_vars

\* The keeper ticks: it reaps and closes; a handler that has begun goes on.
FairSpec ==
    /\ Spec
    /\ \A m \in Machines : WF_vars(Killing(m)) /\ WF_vars(CloseStray(m)) /\ SF_vars(Reap(m))
    /\ \A r \in Takers : WF_vars(BindCommit(r) \/ BindMark(r) \/ Assign(r))

-----------------------------------------------------------------------------
(* Properties.                                                             *)

\* A machine serves one lease or one runner, and one more only for a fault: a
\* key that ran out under a live daemon, or a launch that failed half way.  One
\* that is being destroyed may be revived and taken while its row is there.
ServesOnce ==
    \A m \in Machines : Live(m) /\ killer[m] = "none" => served[m] <= 1 + faults

InHand(m) ==
    \/ \E r \in Takers : Holding(r) /\ MachineOf(r) = m
    \/ launch.machine = m

\* An idle machine that beats is on offer, after Redis came back empty too;
\* what takes it off for good is the death of a request that had it in hand,
\* or a beat that was half done when Redis went.
IdleIsOffered ==
    \A m \in Machines \ stranded :
        (state[m] = "idle" /\ Live(m) /\ key[m] /\ beat[m] # "list" /\ killer[m] = "none"
            /\ ~InHand(m)) => m \in idle

\* What the row and the keys say of a machine is so: an idle one is offered to
\* whoever waits for one, and no variable leaves its range, its limits included.
OffersAreTrue == TypeOK /\ IdleIsOffered

\* The lease of a machine that is gone is closed in the end, also when the
\* machine was lost while it was being taken.
LeasesClose == \A m \in Machines : gone[m] ~> open[m] = 0

-----------------------------------------------------------------------------
(* What the documentation says and the code does not do.                   *)

\* docs/pool.md: release destroys the machine, so one that is gone for the
\* server has stopped or is about to be told to.
GoneIsTold ==
    \A m \in Machines :
        (gone[m] /\ served[m] > 0 /\ ~token[m] /\ killer[m] = "none" /\ daemon[m] = "up")
            => Contains(inbox[m], "shutdown")

-----------------------------------------------------------------------------
(* Proofs of ServesOnce and OffersAreTrue, for any number of machines, users *)
(* and takers and any bound on the faults.  That leases are closed in the    *)
(* end is left to the run.                                                   *)

\* What the requests and the controller have in hand is a machine.
Handed ==
    /\ \A r \in Takers :
        /\ takers[r].pc # "none" => takers[r].user \in Users /\ takers[r].left \in 1..Limit
        /\ IF Holding(r) THEN MachineOf(r) \in Machines ELSE MachineOf(r) = Nobody
    /\ IF launch.pc = "none" THEN launch.machine = Nobody ELSE launch.machine \in Machines

\* A machine that is not registered yet is nowhere in Redis and in no hand.
Fresh ==
    \A m \in Machines :
        /\ daemon[m] \in {"off", "row"} =>
             ~key[m] /\ beat[m] = "none" /\ m \notin idle /\ ~polling[m] /\ ~InHand(m)
        /\ daemon[m] = "off" <=> state[m] = "none"
        /\ daemon[m] = "off" => killer[m] = "none"

\* The row of a machine that was given away is not idle any more, and a beat that
\* found it so does not offer it.
Placed ==
    /\ \A r \in Takers : takers[r].pc \in {"bound", "marked"} => state[MachineOf(r)] # "idle"
    /\ launch.pc \in {"occupied", "sent", "watching"} => state[launch.machine] # "idle"
    /\ \A m \in Machines : beat[m] = "revive" => state[m] # "idle"

\* An idle machine is on offer, or a beat is about to put it there: one that is
\* half done, or the next one that finds the key missing.
Offered ==
    \A m \in Machines \ stranded :
        (state[m] = "idle" /\ Live(m) /\ killer[m] = "none" /\ ~InHand(m)) =>
            \/ m \in idle
            \/ beat[m] = "list"
            \/ ~key[m] /\ beat[m] \in {"none", "missing", "reviveIdle"}
Typed == TypeOK /\ Handed

-----------------------------------------------------------------------------
(* What a step does to the requests and to their queue.                    *)

Requests ==
    [pc : {"none", "waiting", "popped", "binding", "bound", "marked"},
     user : Users \cup {Nobody}, machine : Machines \cup {Nobody}, left : 0..Limit]
InHands == {"popped", "binding", "bound", "marked"}

\* A request as Handed has it, and the step that writes it.
Fits(t) ==
    /\ t \in Requests
    /\ t.pc # "none" => t.user \in Users /\ t.left \in 1..Limit
    /\ IF t.pc \in InHands THEN t.machine \in Machines ELSE t.machine = Nobody
Writes(r, t) == takers' = [takers EXCEPT ![r] = t]

\* A request is as the types and Handed have it.
LEMMA RequestFits == ASSUME Typed, NEW r \in Takers PROVE Fits(takers[r])
  BY DEF Typed, TypeOK, Handed, Holding, MachineOf, Fits, Requests, InHands

\* What is written over a request fits, and the other requests stay.
LEMMA Written ==
  ASSUME Typed, NEW r \in Takers, NEW t, Fits(t), Writes(r, t), UNCHANGED launch
  PROVE  /\ takers' \in [Takers -> Requests] /\ Handed'
         /\ takers'[r] = t /\ \A q \in Takers : q # r => takers'[q] = takers[q]
<1>1. takers \in [Takers -> Requests]
  BY DEF Typed, TypeOK, Requests
<1>2. takers' \in [Takers -> Requests]
  BY <1>1 DEF Fits, Writes
<1>3. takers'[r] = t /\ \A q \in Takers : q # r => takers'[q] = takers[q]
  BY <1>1 DEF Writes
<1>4. ASSUME NEW q \in Takers PROVE Fits(takers'[q])
  BY <1>3, RequestFits
<1>5. Handed'
  BY <1>4 DEF Typed, Handed, Holding, MachineOf, Fits, InHands
<1> QED BY <1>2, <1>3, <1>5

\* Who leaves the queue leaves a queue of users.
LEMMA QueueLeft == ASSUME queue \in Seq(Users), NEW u, LeaveQueue(u) PROVE queue' \in Seq(Users)
<1>1. CASE ~Contains(queue, u)
  BY <1>1 DEF LeaveQueue
<1>2. CASE Contains(queue, u)
  <2>0. DOMAIN queue = 1..Len(queue)
    BY LenProperties
  <2>1. PICK i \in 1..Len(queue) : queue' = RemoveAt(queue, i)
    BY <1>2, <2>0 DEF LeaveQueue, Contains
  <2>2. Len(queue) \in Nat /\ i \in Nat /\ 1 <= i /\ i <= Len(queue)
    BY <2>1, LenProperties
  <2>3. \A j \in 1..Len(queue) : queue[j] \in Users
    BY ElementOfSeq
  <2>4. SubSeq(queue, 1, i - 1) \in Seq(Users)
    BY <2>2, <2>3, SubSeqProperties
  <2>5. SubSeq(queue, i + 1, Len(queue)) \in Seq(Users)
    BY <2>2, <2>3, SubSeqProperties
  <2>6. ASSUME NEW s \in Seq(Users), NEW t \in Seq(Users) PROVE s \o t \in Seq(Users)
    BY ConcatProperties
  <2>7. SubSeq(queue, 1, i - 1) \o SubSeq(queue, i + 1, Len(queue)) \in Seq(Users)
    BY <2>4, <2>5, <2>6
  <2> QED BY <2>1, <2>7 DEF RemoveAt
<1> QED BY <1>1, <1>2

\* The hands stay as they are.
LEMMA SameHands == UNCHANGED <<takers, launch>> => \A m \in Machines : InHand(m)' <=> InHand(m)
  BY DEF InHand, Holding, MachineOf

\* A request goes on with the machine that it has.
LEMMA GoesOn ==
  ASSUME Typed, NEW r \in Takers, NEW pc \in InHands, takers[r].pc \in InHands,
         TakerTo(r, pc), UNCHANGED launch
  PROVE  /\ takers' \in [Takers -> Requests] /\ Handed'
         /\ \A m \in Machines : InHand(m)' <=> InHand(m)
         /\ \A q \in Takers : takers'[q].machine = takers[q].machine /\ (q # r => takers'[q].pc = takers[q].pc)
         /\ takers'[r].pc = pc
<1> DEFINE t == [takers[r] EXCEPT !.pc = pc]
<1>1. takers \in [Takers -> Requests]
  BY DEF Typed, TypeOK, Requests
<1>2. Writes(r, t)
  BY <1>1 DEF TakerTo, Writes
<1>3. t \in Requests /\ t.pc = pc /\ t.user = takers[r].user /\ t.machine = takers[r].machine /\ t.left = takers[r].left
  BY <1>1 DEF Requests, InHands
<1>4. Fits(t)
  BY <1>3, RequestFits DEF Fits, InHands
<1>5. /\ takers' \in [Takers -> Requests] /\ Handed'
      /\ takers'[r] = t /\ \A q \in Takers : q # r => takers'[q] = takers[q]
  <2> HIDE DEF t
  <2> QED BY <1>2, <1>4, Written
<1>6. \A q \in Takers : takers'[q].machine = takers[q].machine /\ (q # r => takers'[q].pc = takers[q].pc)
  BY <1>3, <1>5
<1>7. \A q \in Takers : Holding(q)' <=> Holding(q)
  BY <1>3, <1>5 DEF Holding, InHands
<1>8. \A m \in Machines : InHand(m)' <=> InHand(m)
  BY <1>6, <1>7 DEF InHand, MachineOf
<1> QED BY <1>3, <1>5, <1>6, <1>8

\* A request that has its machine waits for the next one, or is over.
LEMMA Assigned ==
  ASSUME Typed, NEW r \in Takers, Assign(r)
  PROVE  /\ takers'[r].pc \in {"none", "waiting"} /\ takers[r].pc = "marked" /\ MachineOf(r) \in Machines
         /\ \A q \in Takers : q # r => takers'[q] = takers[q]
         /\ \A m \in Machines : InHand(m)' => InHand(m)
         /\ \A m \in Machines : m # MachineOf(r) => (InHand(m)' <=> InHand(m))
<1>1. takers[r].pc = "marked" /\ MachineOf(r) \in Machines /\ UNCHANGED launch
  BY RequestFits DEF Assign, Fits, InHands, MachineOf
<1>2. takers'[r].pc \in {"none", "waiting"} /\ \A q \in Takers : q # r => takers'[q] = takers[q]
  BY DEF Assign, NoTake, Typed, TypeOK
<1>3. ~Holding(r)' /\ \A q \in Takers : q # r => (Holding(q)' <=> Holding(q)) /\ takers'[q].machine = takers[q].machine
  BY <1>2 DEF Holding
<1> QED BY <1>1, <1>2, <1>3 DEF InHand, MachineOf

-----------------------------------------------------------------------------
(* Types, and the invariants of a machine on its way.                      *)

\* A step keeps the types, and leaves a machine in every hand that has one.
LEMMA TypedStep == Typed /\ Fresh /\ [Next]_vars => Typed'
<1> SUFFICES ASSUME Typed, Fresh, [Next]_vars PROVE Typed'
  OBVIOUS
<1> USE PoolAssumption
<1>1. ASSUME NEW m \in Machines, RegisterRow(m) PROVE Typed'
  <2>1. state[m] = "none"
    BY <1>1 DEF RegisterRow, Fresh
  <2>2. /\ state' \in [Machines -> {"none", "idle", "leased", "ci"}] /\ owner' = owner
        /\ \A n \in Machines : state'[n] = "leased" <=> owner[n] # Nobody
    BY <1>1, <2>1 DEF RegisterRow, Typed, TypeOK
  <2>3. TypeOK'
    BY <1>1, <2>2 DEF RegisterRow, Typed, TypeOK, redis, procs, ghost
  <2>4. Handed'
    BY <1>1 DEF RegisterRow, Typed, Handed, Holding, MachineOf, procs
  <2> QED BY <2>3, <2>4 DEF Typed
<1>2. ASSUME NEW m \in Machines, RegisterRedis(m) PROVE Typed'
  BY <1>2 DEF RegisterRedis, row, procs, ghost, Typed, TypeOK, Handed, Holding, MachineOf
<1>3. ASSUME NEW m \in Machines, Registered(m) PROVE Typed'
  BY <1>3 DEF Registered, row, redis, procs, ghost, Typed, TypeOK, Handed, Holding, MachineOf
<1>4. ASSUME NEW m \in Machines, JobEnds(m) PROVE Typed'
  BY <1>4 DEF JobEnds, row, redis, procs, ghost, Typed, TypeOK, Handed, Holding, MachineOf
<1>5. ASSUME NEW m \in Machines, Expire(m) PROVE Typed'
  BY <1>5 DEF Expire, row, remote, procs, ghost, Fault, Typed, TypeOK, Handed, Holding, MachineOf
<1>6. ASSUME NEW m \in Machines, Beat(m) PROVE Typed'
  BY <1>6 DEF Beat, row, redis, remote, ghost, BeatTo, Typed, TypeOK, Handed, Holding, MachineOf
<1>7. ASSUME NEW m \in Machines, BeatFound(m) PROVE Typed'
  BY <1>7 DEF BeatFound, row, remote, ghost, BeatTo, Typed, TypeOK, Handed, Holding, MachineOf
<1>8. ASSUME NEW m \in Machines, ReviveRead(m) PROVE Typed'
  BY <1>8 DEF ReviveRead, row, redis, remote, ghost, BeatTo, Typed, TypeOK, Handed, Holding,
         MachineOf
<1>9. ASSUME NEW m \in Machines, ReviveSet(m) PROVE Typed'
  BY <1>9 DEF ReviveSet, row, remote, ghost, BeatTo, Typed, TypeOK, Handed, Holding, MachineOf
<1>10. ASSUME NEW m \in Machines, ReviveList(m) PROVE Typed'
  BY <1>10 DEF ReviveList, row, remote, ghost, BeatTo, Typed, TypeOK, Handed, Holding, MachineOf
<1>11. ASSUME NEW m \in Machines, PollStart(m) PROVE Typed'
  BY <1>11 DEF PollStart, row, redis, procs, ghost, Typed, TypeOK, Handed, Holding, MachineOf
<1>12. ASSUME NEW m \in Machines, PollFrames(m) PROVE Typed'
  BY <1>12 DEF PollFrames, row, procs, ghost, Typed, TypeOK, Handed, Holding, MachineOf
<1>13. ASSUME NEW m \in Machines, PollLost(m) PROVE Typed'
  BY <1>13 DEF PollLost, row, procs, ghost, Fault, Typed, TypeOK, Handed, Holding, MachineOf
<1>14. ASSUME NEW m \in Machines, PollEmpty(m) PROVE Typed'
  BY <1>14 DEF PollEmpty, row, redis, procs, ghost, Typed, TypeOK, Handed, Holding, MachineOf
<1>15. ASSUME NEW m \in Machines, Destroy(m) PROVE Typed'
  BY <1>15 DEF Destroy, row, remote, ghost, Tell, KillTo, Typed, TypeOK, Handed, Holding, MachineOf
<1>16. ASSUME NEW m \in Machines, Revoke(m) PROVE Typed'
  BY <1>16 DEF Revoke, row, redis, ghost, KillTo, Typed, TypeOK, Handed, Holding, MachineOf
<1>17. ASSUME NEW m \in Machines, CloseLease(m) PROVE Typed'
  BY <1>17 DEF CloseLease, redis, remote, ghost, KillTo, Typed, TypeOK, Handed, Holding, MachineOf
<1>18. ASSUME NEW m \in Machines, ForgetRedis(m) PROVE Typed'
  BY <1>18 DEF ForgetRedis, row, remote, ghost, KillTo, Typed, TypeOK, Handed, Holding, MachineOf
<1>19. ASSUME NEW m \in Machines, ForgetRow(m) PROVE Typed'
  BY <1>19 DEF ForgetRow, redis, remote, ghost, KillTo, Typed, TypeOK, Handed, Holding, MachineOf
<1>20. ASSUME NEW m \in Machines, Reap(m) PROVE Typed'
  BY <1>20 DEF Reap, row, redis, remote, ghost, KillTo, Typed, TypeOK, Handed, Holding, MachineOf
<1>21. ASSUME NEW m \in Machines, CloseStray(m) PROVE Typed'
  BY <1>21 DEF CloseStray, redis, remote, procs, ghost, Typed, TypeOK, Handed, Holding, MachineOf
<1>22. ASSUME NEW r \in Takers, Grab(r) PROVE Typed'
  <2>0. PICK x \in idle : takers' = [takers EXCEPT ![r].pc = "popped", ![r].machine = x]
    BY <1>22 DEF Grab
  <2>x. x \in Machines /\ takers[r].pc = "waiting"
    BY <1>22 DEF Grab, Typed, TypeOK
  <2> DEFINE t == [takers[r] EXCEPT !.pc = "popped", !.machine = x]
  <2>1. Writes(r, t)
    BY <1>22, <2>0, ZenonT(60) DEF Grab, Writes, Typed, TypeOK
  <2>2. Fits(t)
    BY <2>x, RequestFits DEF Fits, Requests, InHands
  <2>3. takers' \in [Takers -> Requests] /\ Handed'
    <3>1. UNCHANGED launch
      BY <1>22 DEF Grab
    <3> HIDE DEF t
    <3> QED BY <2>1, <2>2, <3>1, Written
  <2> HIDE DEF t
  <2>4. TypeOK'
    BY <1>22, <2>3 DEF Grab, row, remote, ghost, Typed, TypeOK, Requests
  <2> QED BY <2>3, <2>4 DEF Typed
<1>23. ASSUME NEW r \in Takers, BindNone(r) PROVE Typed'
  <2> DEFINE t == [takers[r] EXCEPT !.pc = "waiting", !.machine = Nobody]
  <2>1. Writes(r, t)
    BY <1>23 DEF BindNone, Writes, Typed, TypeOK
  <2>2. Fits(t)
    BY <1>23, RequestFits DEF BindNone, Fits, Requests, InHands, MachineOf
  <2>3. takers' \in [Takers -> Requests] /\ Handed'
    <3>1. UNCHANGED launch
      BY <1>23 DEF BindNone
    <3> HIDE DEF t
    <3> QED BY <2>1, <2>2, <3>1, Written
  <2> HIDE DEF t
  <2>4. TypeOK'
    BY <1>23, <2>3 DEF BindNone, row, redis, remote, ghost, Typed, TypeOK, Requests
  <2> QED BY <2>3, <2>4 DEF Typed
<1>24. ASSUME NEW r \in Takers, BindRead(r) PROVE Typed'
  <2>1. "binding" \in InHands /\ takers[r].pc \in InHands /\ TakerTo(r, "binding") /\ UNCHANGED launch
    BY <1>24 DEF BindRead, InHands
  <2>3. takers' \in [Takers -> Requests] /\ Handed'
    BY <2>1, GoesOn
  <2>4. TypeOK'
    BY <1>24, <2>3 DEF BindRead, row, redis, remote, ghost, Typed, TypeOK, Requests
  <2> QED BY <2>3, <2>4 DEF Typed
<1>25. ASSUME NEW r \in Takers, BindCommit(r) PROVE Typed'
  <2>1. "bound" \in InHands /\ takers[r].pc \in InHands /\ TakerTo(r, "bound") /\ UNCHANGED launch
    BY <1>25 DEF BindCommit, InHands
  <2>3. takers' \in [Takers -> Requests] /\ Handed'
    BY <2>1, GoesOn
  <2>4. MachineOf(r) \in Machines /\ takers[r].user \in Users /\ takers[r].user # Nobody
    BY <1>25, RequestFits DEF BindCommit, Fits, InHands, MachineOf
  <2>5. /\ state' \in [Machines -> {"none", "idle", "leased", "ci"}]
        /\ owner' \in [Machines -> Users \cup {Nobody}]
        /\ \A m \in Machines : state'[m] = "leased" <=> owner'[m] # Nobody
    BY <1>25, <2>4 DEF BindCommit, Typed, TypeOK
  <2>6. open' \in [Machines -> Nat] /\ served' \in [Machines -> Nat]
    BY <1>25, <2>4 DEF BindCommit, Typed, TypeOK
  <2>7. TypeOK'
    BY <1>25, <2>3, <2>5, <2>6 DEF BindCommit, Typed, TypeOK, Requests, redis, remote
  <2> QED BY <2>3, <2>7 DEF Typed
<1>26. ASSUME NEW r \in Takers, BindMark(r) PROVE Typed'
  <2>1. "marked" \in InHands /\ takers[r].pc \in InHands /\ TakerTo(r, "marked") /\ UNCHANGED launch
    BY <1>26 DEF BindMark, InHands
  <2>3. takers' \in [Takers -> Requests] /\ Handed'
    BY <2>1, GoesOn
  <2>4. TypeOK'
    BY <1>26, <2>3 DEF BindMark, row, remote, ghost, Typed, TypeOK, Requests
  <2> QED BY <2>3, <2>4 DEF Typed
<1>27. ASSUME NEW r \in Takers, Assign(r) PROVE Typed'
  <2> DEFINE t == IF takers[r].left = 1 THEN NoTake
                  ELSE [takers[r] EXCEPT !.pc = "waiting", !.machine = Nobody, !.left = takers[r].left - 1]
  <2>1. Writes(r, t)
    BY <1>27, ZenonT(60) DEF Assign, Writes, Typed, TypeOK
  <2>2. Fits(t)
    <3>1. CASE takers[r].left = 1
      BY <3>1 DEF Fits, Requests, InHands, NoTake
    <3>2. CASE takers[r].left # 1
      <4>1. takers[r] \in Requests /\ takers[r].user \in Users /\ takers[r].left \in 1..Limit
        BY <1>27, RequestFits DEF Assign, Fits
      <4>2. takers[r].left - 1 \in 1..Limit /\ takers[r].left - 1 \in 0..Limit
        BY <3>2, <4>1
      <4> QED BY <3>2, <4>1, <4>2 DEF Fits, Requests, InHands
    <3> QED BY <3>1, <3>2
  <2>3. takers' \in [Takers -> Requests] /\ Handed'
    <3>1. UNCHANGED launch
      BY <1>27 DEF Assign
    <3> HIDE DEF t
    <3> QED BY <2>1, <2>2, <3>1, Written
  <2> HIDE DEF t
  <2>4. queue' \in Seq(Users)
    <3>1. queue \in Seq(Users) /\ (UNCHANGED queue \/ LeaveQueue(takers[r].user))
      BY <1>27 DEF Assign, Typed, TypeOK
    <3> QED BY <3>1, QueueLeft
  <2>5. inbox' \in [Machines -> Seq({"assign", "run", "shutdown"})]
    <3>1. takers[r].machine \in Machines /\ inbox' = [inbox EXCEPT ![takers[r].machine] = Append(inbox[takers[r].machine], "assign")]
      BY <1>27, RequestFits DEF Assign, Tell, MachineOf, Fits, InHands
    <3>2. inbox \in [Machines -> Seq({"assign", "run", "shutdown"})]
      BY DEF Typed, TypeOK
    <3> QED BY <3>1, <3>2, AppendProperties
  <2>6. TypeOK'
    BY <1>27, <2>3, <2>4, <2>5 DEF Assign, Typed, TypeOK, Requests, row, remote, ghost
  <2> QED BY <2>3, <2>6 DEF Typed
<1>28. ASSUME NEW r \in Takers, GiveUp(r) PROVE Typed'
  <2> DEFINE t == NoTake
  <2>1. Writes(r, t)
    BY <1>28 DEF GiveUp, Writes, Typed, TypeOK, NoTake
  <2>2. Fits(t)
    BY <1>28, RequestFits DEF GiveUp, Fits, Requests, InHands, NoTake
  <2>3. takers' \in [Takers -> Requests] /\ Handed'
    <3>1. UNCHANGED launch
      BY <1>28 DEF GiveUp
    <3> HIDE DEF t
    <3> QED BY <2>1, <2>2, <3>1, Written
  <2> HIDE DEF t
  <2>q. queue' \in Seq(Users)
    <3>1. queue \in Seq(Users) /\ LeaveQueue(takers[r].user)
      BY <1>28 DEF GiveUp, Typed, TypeOK
    <3> QED BY <3>1, QueueLeft
  <2>4. TypeOK'
    BY <1>28, <2>3, <2>q DEF GiveUp, row, remote, ghost, Typed, TypeOK, Requests
  <2> QED BY <2>3, <2>4 DEF Typed
<1>29. ASSUME NEW r \in Takers, TakerDies(r) PROVE Typed'
  <2> DEFINE t == NoTake
  <2>1. Writes(r, t)
    BY <1>29 DEF TakerDies, Writes, Typed, TypeOK, NoTake
  <2>2. Fits(t)
    BY <1>29, RequestFits DEF TakerDies, Fits, Requests, InHands, NoTake, MachineOf
  <2>3. takers' \in [Takers -> Requests] /\ Handed'
    <3>1. UNCHANGED launch
      BY <1>29 DEF TakerDies
    <3> HIDE DEF t
    <3> QED BY <2>1, <2>2, <3>1, Written
  <2> HIDE DEF t
  <2>s. stranded' \subseteq Machines
    BY <1>29, RequestFits DEF TakerDies, Holding, MachineOf, Fits, InHands, Typed, TypeOK
  <2>4. TypeOK'
    BY <1>29, <2>3, <2>s, SMTT(30) DEF TakerDies, Typed, TypeOK, Requests, Fault, row, redis, remote
  <2> QED BY <2>3, <2>4 DEF Typed
<1>30. ASSUME NEW r \in Takers, NEW u \in Users, Take(r, u) PROVE Typed'
  <2>0. PICK n \in 1..Limit : takers' = [takers EXCEPT ![r] = [pc |-> "waiting", user |-> u, machine |-> Nobody, left |-> n]]
    BY <1>30 DEF Take
  <2> DEFINE t == [pc |-> "waiting", user |-> u, machine |-> Nobody, left |-> n]
  <2>1. Writes(r, t)
    BY <1>30, <2>0 DEF Take, Writes, Typed, TypeOK, NoTake
  <2>2. Fits(t)
    BY <1>30, <2>0, RequestFits DEF Take, Fits, Requests, InHands, NoTake
  <2>3. takers' \in [Takers -> Requests] /\ Handed'
    <3>1. UNCHANGED launch
      BY <1>30 DEF Take
    <3> HIDE DEF t
    <3> QED BY <2>1, <2>2, <3>1, Written
  <2> HIDE DEF t
  <2>q. queue' \in Seq(Users)
    BY <1>30 DEF Take, Typed, TypeOK
  <2>4. TypeOK'
    BY <1>30, <2>3, <2>q DEF Take, row, remote, ghost, Typed, TypeOK, Requests
  <2> QED BY <2>3, <2>4 DEF Typed
<1>31. ASSUME NEW u \in Users, QueueExpires(u) PROVE Typed'
  <2>q. queue' \in Seq(Users)
    <3>1. queue \in Seq(Users) /\ LeaveQueue(u)
      BY <1>31 DEF QueueExpires, Typed, TypeOK
    <3> QED BY <3>1, QueueLeft
  <2>1. TypeOK'
    BY <1>31, <2>q DEF QueueExpires, Typed, TypeOK, row, remote, procs, ghost
  <2>2. Handed'
    BY <1>31 DEF QueueExpires, Typed, Handed, Holding, MachineOf, procs
  <2> QED BY <2>1, <2>2 DEF Typed
<1>32. CASE Vanished
  BY <1>32 DEF Vanished, row, remote, ghost, KillTo, Typed, TypeOK, Handed, Holding, MachineOf
<1>33. CASE LaunchGrab
  BY <1>33 DEF LaunchGrab, row, remote, ghost, Typed, TypeOK, Handed, Holding, MachineOf
<1>34. CASE LaunchJit
  BY <1>34 DEF LaunchJit, row, redis, remote, ghost, LaunchTo, Typed, TypeOK, Handed, Holding,
         MachineOf
<1>35. CASE OccupyMark
  BY <1>35 DEF OccupyMark, row, remote, ghost, LaunchTo, Typed, TypeOK, Handed, Holding, MachineOf
<1>36. CASE OccupyRow
  <2>1. launch.machine \in Machines
    BY <1>36 DEF OccupyRow, Typed, Handed
  <2>2. /\ state' \in [Machines -> {"none", "idle", "leased", "ci"}]
        /\ owner' \in [Machines -> Users \cup {Nobody}]
        /\ \A m \in Machines : state'[m] = "leased" <=> owner'[m] # Nobody
    BY <1>36, <2>1 DEF OccupyRow, Typed, TypeOK
  <2>3. TypeOK'
    BY <1>36, <2>2 DEF OccupyRow, Typed, TypeOK, redis, remote, ghost, LaunchTo
  <2>4. Handed'
    BY <1>36 DEF OccupyRow, Typed, Handed, Holding, MachineOf, LaunchTo, TypeOK
  <2> QED BY <2>3, <2>4 DEF Typed
<1>37. CASE LaunchSend
  <2>1. launch.machine \in Machines
    BY <1>37 DEF LaunchSend, Typed, Handed
  <2>2. inbox' \in [Machines -> Seq({"assign", "run", "shutdown"})]
    <3>1. inbox' = [inbox EXCEPT ![launch.machine] = Append(inbox[launch.machine], "run")]
      BY <1>37 DEF LaunchSend, Tell
    <3>2. inbox \in [Machines -> Seq({"assign", "run", "shutdown"})]
      BY DEF Typed, TypeOK
    <3> QED BY <2>1, <3>1, <3>2, AppendProperties
  <2>3. served' \in [Machines -> Nat]
    BY <1>37, <2>1 DEF LaunchSend, Typed, TypeOK
  <2>4. launch' = [pc |-> "sent", machine |-> launch.machine]
    BY <1>37 DEF LaunchSend, LaunchTo, Typed, TypeOK
  <2>5. TypeOK'
    BY <1>37, <2>1, <2>2, <2>3, <2>4 DEF LaunchSend, Typed, TypeOK, row, remote
  <2>6. Handed'
    BY <1>37, <2>1, <2>4 DEF LaunchSend, Typed, Handed, Holding, MachineOf
  <2> QED BY <2>5, <2>6 DEF Typed
<1>38. CASE LaunchStarted
  BY <1>38 DEF LaunchStarted, row, redis, remote, ghost, LaunchTo, Typed, TypeOK, Handed, Holding,
         MachineOf
<1>39. CASE LaunchFails
  BY <1>39 DEF LaunchFails, row, remote, ghost, Fault, NoLaunch, Typed, TypeOK, Handed, Holding,
         MachineOf
<1>40. CASE RunnerEnds
  BY <1>40 DEF RunnerEnds, row, remote, ghost, Tell, KillTo, NoLaunch, Typed, TypeOK, Handed,
         Holding, MachineOf
<1>41. CASE LaunchDies
  BY <1>41 DEF LaunchDies, row, redis, remote, Fault, NoLaunch, Typed, TypeOK, Handed, Holding,
         MachineOf
<1>42. CASE Flush
  BY <1>42 DEF Flush, row, remote, procs, Fault, Typed, TypeOK, Handed, Holding, MachineOf
<1>43. CASE UNCHANGED vars
  BY <1>43 DEF vars, row, redis, remote, procs, ghost, Typed, TypeOK, Handed, Holding, MachineOf
<1> QED
  BY <1>1, <1>2, <1>3, <1>4, <1>5, <1>6, <1>7, <1>8, <1>9, <1>10, <1>11, <1>12, <1>13, <1>14, <1>15,
     <1>16, <1>17, <1>18, <1>19, <1>20, <1>21, <1>22, <1>23, <1>24, <1>25, <1>26, <1>27, <1>28,
     <1>29, <1>30, <1>31, <1>32, <1>33, <1>34, <1>35, <1>36, <1>37, <1>38, <1>39, <1>40, <1>41,
     <1>42, <1>43
  DEF Next, Daemon, Beating, Killing, Taking, Launching

\* A machine is in Redis or in a hand only after it has registered.
LEMMA FreshStep == Typed /\ Fresh /\ [Next]_vars => Fresh'
<1> SUFFICES ASSUME Typed, Fresh, [Next]_vars PROVE Fresh'
  OBVIOUS
<1> USE PoolAssumption
<1>1. ASSUME NEW m \in Machines, RegisterRow(m) PROVE Fresh'
  BY <1>1 DEF RegisterRow, row, redis, procs, ghost, Fresh, InHand, Holding, MachineOf, Typed,
         Handed, TypeOK
<1>2. ASSUME NEW m \in Machines, RegisterRedis(m) PROVE Fresh'
  BY <1>2 DEF RegisterRedis, row, procs, ghost, Fresh, InHand, Holding, MachineOf, Typed, Handed,
         TypeOK
<1>3. ASSUME NEW m \in Machines, Registered(m) PROVE Fresh'
  BY <1>3 DEF Registered, row, redis, procs, ghost, Fresh, InHand, Holding, MachineOf, Typed,
         Handed, TypeOK
<1>4. ASSUME NEW m \in Machines, JobEnds(m) PROVE Fresh'
  BY <1>4 DEF JobEnds, row, redis, procs, ghost, Fresh, InHand, Holding, MachineOf, Typed, Handed,
         TypeOK
<1>5. ASSUME NEW m \in Machines, Expire(m) PROVE Fresh'
  BY <1>5 DEF Expire, row, remote, procs, ghost, Fault, Fresh, InHand, Holding, MachineOf, Typed,
         Handed, TypeOK
<1>6. ASSUME NEW m \in Machines, Beat(m) PROVE Fresh'
  BY <1>6 DEF Beat, row, redis, remote, ghost, BeatTo, Fresh, InHand, Holding, MachineOf, Typed,
         Handed, TypeOK
<1>7. ASSUME NEW m \in Machines, BeatFound(m) PROVE Fresh'
  BY <1>7 DEF BeatFound, row, remote, ghost, BeatTo, Fresh, InHand, Holding, MachineOf, Typed,
         Handed, TypeOK
<1>8. ASSUME NEW m \in Machines, ReviveRead(m) PROVE Fresh'
  BY <1>8 DEF ReviveRead, row, redis, remote, ghost, BeatTo, Fresh, InHand, Holding, MachineOf,
         Typed, Handed, TypeOK
<1>9. ASSUME NEW m \in Machines, ReviveSet(m) PROVE Fresh'
  BY <1>9 DEF ReviveSet, row, remote, ghost, BeatTo, Fresh, InHand, Holding, MachineOf, Typed,
         Handed, TypeOK
<1>10. ASSUME NEW m \in Machines, ReviveList(m) PROVE Fresh'
  BY <1>10 DEF ReviveList, row, remote, ghost, BeatTo, Fresh, InHand, Holding, MachineOf, Typed,
         Handed, TypeOK
<1>11. ASSUME NEW m \in Machines, PollStart(m) PROVE Fresh'
  <2>1. UNCHANGED <<state, killer, daemon, key, beat, idle, takers, launch>> /\ daemon[m] = "up"
    BY <1>11 DEF PollStart, row, redis, procs
  <2>2. \A n \in Machines : n # m => polling'[n] = polling[n]
    BY <1>11 DEF PollStart, Typed, TypeOK
  <2> QED BY <2>1, <2>2, SameHands DEF Fresh
<1>12. ASSUME NEW m \in Machines, PollFrames(m) PROVE Fresh'
  <2>1. UNCHANGED <<state, killer, key, beat, idle, takers, launch>>
    BY <1>12 DEF PollFrames, row, procs
  <2>2. \A n \in Machines : /\ daemon'[n] = daemon[n] \/ (n = m /\ daemon'[m] = "stopped")
                            /\ polling'[n] => polling[n]
    BY <1>12 DEF PollFrames, Typed, TypeOK
  <2>3. daemon[m] \notin {"off", "row"}
    BY <1>12 DEF PollFrames, Fresh
  <2>4. ASSUME NEW n \in Machines
        PROVE  (daemon'[n] = "off" <=> daemon[n] = "off") /\ (daemon'[n] = "row" <=> daemon[n] = "row")
    <3>1. CASE n = m
      BY <2>2, <2>3, <3>1
    <3>2. CASE n # m
      BY <2>2, <3>2
    <3> QED BY <3>1, <3>2
  <2> QED BY <2>1, <2>2, <2>4, SameHands DEF Fresh
<1>13. ASSUME NEW m \in Machines, PollLost(m) PROVE Fresh'
  BY <1>13 DEF PollLost, row, procs, ghost, Fault, Fresh, InHand, Holding, MachineOf, Typed, Handed,
         TypeOK
<1>14. ASSUME NEW m \in Machines, PollEmpty(m) PROVE Fresh'
  <2>1. UNCHANGED <<state, killer, daemon, key, beat, idle, takers, launch>>
    BY <1>14 DEF PollEmpty, row, redis, procs
  <2>2. \A n \in Machines : polling'[n] => polling[n]
    BY <1>14 DEF PollEmpty, Typed, TypeOK
  <2> QED BY <2>1, <2>2, SameHands DEF Fresh
<1>15. ASSUME NEW m \in Machines, Destroy(m) PROVE Fresh'
  <2>1. UNCHANGED <<state, daemon, key, beat, idle, polling, takers, launch>> /\ state[m] # "none"
    BY <1>15 DEF Destroy, row, remote, Live
  <2>2. \A n \in Machines : n # m => killer'[n] = killer[n]
    BY <1>15 DEF Destroy, KillTo, Typed, TypeOK
  <2> QED BY <2>1, <2>2, SameHands DEF Fresh
<1>16. ASSUME NEW m \in Machines, Revoke(m) PROVE Fresh'
  BY <1>16 DEF Revoke, row, redis, ghost, KillTo, Fresh, InHand, Holding, MachineOf, Typed, Handed,
         TypeOK
<1>17. ASSUME NEW m \in Machines, CloseLease(m) PROVE Fresh'
  BY <1>17 DEF CloseLease, redis, remote, ghost, KillTo, Fresh, InHand, Holding, MachineOf, Typed,
         Handed, TypeOK
<1>18. ASSUME NEW m \in Machines, ForgetRedis(m) PROVE Fresh'
  BY <1>18 DEF ForgetRedis, row, remote, ghost, KillTo, Fresh, InHand, Holding, MachineOf, Typed,
         Handed, TypeOK
<1>19. ASSUME NEW m \in Machines, ForgetRow(m) PROVE Fresh'
  <2>1. UNCHANGED <<state, daemon, key, beat, idle, polling, takers, launch>> /\ killer' = [killer EXCEPT ![m] = "none"]
    BY <1>19 DEF ForgetRow, KillTo, redis, remote
  <2>2. \A n \in Machines : killer[n] = "none" => killer'[n] = "none"
    BY <2>1 DEF Typed, TypeOK
  <2> QED BY <2>1, <2>2, SameHands DEF Fresh
<1>20. ASSUME NEW m \in Machines, Reap(m) PROVE Fresh'
  <2>1. UNCHANGED <<state, daemon, key, beat, idle, polling, takers, launch>> /\ state[m] # "none"
    BY <1>20 DEF Reap, row, redis, remote, Live
  <2>2. \A n \in Machines : n # m => killer'[n] = killer[n]
    BY <1>20 DEF Reap, KillTo, Typed, TypeOK
  <2> QED BY <2>1, <2>2, SameHands DEF Fresh
<1>21. ASSUME NEW m \in Machines, CloseStray(m) PROVE Fresh'
  BY <1>21 DEF CloseStray, redis, remote, procs, ghost, Fresh, InHand, Holding, MachineOf, Typed,
         Handed, TypeOK
<1>22. ASSUME NEW r \in Takers, Grab(r) PROVE Fresh'
  BY <1>22 DEF Grab, row, remote, ghost, Fresh, InHand, Holding, MachineOf, Typed, Handed, TypeOK
<1>23. ASSUME NEW r \in Takers, BindNone(r) PROVE Fresh'
  BY <1>23 DEF BindNone, row, redis, remote, ghost, MachineOf, Fresh, InHand, Holding, Typed,
         Handed, TypeOK
<1>24. ASSUME NEW r \in Takers, BindRead(r) PROVE Fresh'
  BY <1>24 DEF BindRead, row, redis, remote, ghost, TakerTo, MachineOf, Fresh, InHand, Holding,
         Typed, Handed, TypeOK
<1>25. ASSUME NEW r \in Takers, BindCommit(r) PROVE Fresh'
  BY <1>25 DEF BindCommit, redis, remote, TakerTo, MachineOf, Fresh, InHand, Holding, Typed, Handed,
         TypeOK
<1>26. ASSUME NEW r \in Takers, BindMark(r) PROVE Fresh'
  <2>1. "marked" \in InHands /\ takers[r].pc \in InHands /\ TakerTo(r, "marked") /\ UNCHANGED launch
    BY <1>26 DEF BindMark, InHands
  <2>2. \A m \in Machines : InHand(m)' <=> InHand(m)
    BY <2>1, GoesOn
  <2>3. MachineOf(r) \in Machines /\ InHand(MachineOf(r))
    BY <1>26, RequestFits DEF BindMark, Fits, InHands, MachineOf, InHand, Holding
  <2>4. daemon[MachineOf(r)] \notin {"off", "row"}
    BY <2>3 DEF Fresh
  <2>5. /\ \A n \in Machines : n # MachineOf(r) => key'[n] = key[n]
        /\ idle' \subseteq idle /\ UNCHANGED <<daemon, polling, state, killer, beat>>
    BY <1>26 DEF BindMark, row, remote, Typed, TypeOK
  <2> QED BY <2>2, <2>4, <2>5 DEF Fresh
<1>27. ASSUME NEW r \in Takers, Assign(r) PROVE Fresh'
  <2>1. UNCHANGED <<state, killer, daemon, key, beat, idle, polling>>
    BY <1>27 DEF Assign, row, remote
  <2>2. \A m \in Machines : InHand(m)' => InHand(m)
    BY <1>27, Assigned
  <2> QED BY <2>1, <2>2 DEF Fresh
<1>28. ASSUME NEW r \in Takers, GiveUp(r) PROVE Fresh'
  BY <1>28 DEF GiveUp, row, remote, ghost, LeaveQueue, NoTake, Fresh, InHand, Holding, MachineOf,
         Typed, Handed, TypeOK
<1>29. ASSUME NEW r \in Takers, TakerDies(r) PROVE Fresh'
  BY <1>29 DEF TakerDies, row, redis, remote, Fault, MachineOf, NoTake, Fresh, InHand, Holding,
         Typed, Handed, TypeOK
<1>30. ASSUME NEW r \in Takers, NEW u \in Users, Take(r, u) PROVE Fresh'
  BY <1>30 DEF Take, row, remote, ghost, Fresh, InHand, Holding, MachineOf, Typed, Handed, TypeOK
<1>31. ASSUME NEW u \in Users, QueueExpires(u) PROVE Fresh'
  BY <1>31 DEF QueueExpires, row, remote, procs, ghost, LeaveQueue, Fresh, InHand, Holding,
         MachineOf, Typed, Handed, TypeOK
<1>32. CASE Vanished
  BY <1>32 DEF Vanished, row, remote, ghost, KillTo, Fresh, InHand, Holding, MachineOf, Typed,
         Handed, TypeOK
<1>33. CASE LaunchGrab
  BY <1>33 DEF LaunchGrab, row, remote, ghost, Fresh, InHand, Holding, MachineOf, Typed, Handed,
         TypeOK
<1>34. CASE LaunchJit
  BY <1>34 DEF LaunchJit, row, redis, remote, ghost, LaunchTo, Fresh, InHand, Holding, MachineOf,
         Typed, Handed, TypeOK
<1>35. CASE OccupyMark
  BY <1>35 DEF OccupyMark, row, remote, ghost, LaunchTo, Fresh, InHand, Holding, MachineOf, Typed,
         Handed, TypeOK
<1>36. CASE OccupyRow
  BY <1>36 DEF OccupyRow, redis, remote, ghost, LaunchTo, Fresh, InHand, Holding, MachineOf, Typed,
         Handed, TypeOK
<1>37. CASE LaunchSend
  BY <1>37 DEF LaunchSend, row, remote, Tell, LaunchTo, Fresh, InHand, Holding, MachineOf, Typed,
         Handed, TypeOK
<1>38. CASE LaunchStarted
  BY <1>38 DEF LaunchStarted, row, redis, remote, ghost, LaunchTo, Fresh, InHand, Holding,
         MachineOf, Typed, Handed, TypeOK
<1>39. CASE LaunchFails
  BY <1>39 DEF LaunchFails, row, remote, ghost, Fault, NoLaunch, Fresh, InHand, Holding, MachineOf,
         Typed, Handed, TypeOK
<1>40. CASE RunnerEnds
  BY <1>40 DEF RunnerEnds, row, remote, ghost, Tell, KillTo, NoLaunch, Fresh, InHand, Holding,
         MachineOf, Typed, Handed, TypeOK
<1>41. CASE LaunchDies
  BY <1>41 DEF LaunchDies, row, redis, remote, Fault, NoLaunch, Fresh, InHand, Holding, MachineOf,
         Typed, Handed, TypeOK
<1>42. CASE Flush
  BY <1>42 DEF Flush, row, remote, procs, Fault, Fresh, InHand, Holding, MachineOf, Typed, Handed,
         TypeOK
<1>43. CASE UNCHANGED vars
  BY <1>43 DEF vars, row, redis, remote, procs, ghost, Fresh, InHand, Holding, MachineOf, Typed,
         Handed, TypeOK
<1> QED
  BY <1>1, <1>2, <1>3, <1>4, <1>5, <1>6, <1>7, <1>8, <1>9, <1>10, <1>11, <1>12, <1>13, <1>14, <1>15,
     <1>16, <1>17, <1>18, <1>19, <1>20, <1>21, <1>22, <1>23, <1>24, <1>25, <1>26, <1>27, <1>28,
     <1>29, <1>30, <1>31, <1>32, <1>33, <1>34, <1>35, <1>36, <1>37, <1>38, <1>39, <1>40, <1>41,
     <1>42, <1>43
  DEF Next, Daemon, Beating, Killing, Taking, Launching

\* What was given away is not idle again, and no beat offers it.
LEMMA PlacedStep == Typed /\ Fresh /\ Placed /\ [Next]_vars => Placed'
<1> SUFFICES ASSUME Typed, Fresh, Placed, [Next]_vars PROVE Placed'
  OBVIOUS
<1> USE PoolAssumption
<1>1. ASSUME NEW m \in Machines, RegisterRow(m) PROVE Placed'
  BY <1>1 DEF RegisterRow, row, redis, procs, ghost, Placed, Fresh, InHand, Holding, MachineOf,
         Typed, Handed, TypeOK
<1>2. ASSUME NEW m \in Machines, RegisterRedis(m) PROVE Placed'
  BY <1>2 DEF RegisterRedis, row, procs, ghost, Placed, Fresh, InHand, Holding, MachineOf, Typed,
         Handed, TypeOK
<1>3. ASSUME NEW m \in Machines, Registered(m) PROVE Placed'
  BY <1>3 DEF Registered, row, redis, procs, ghost, Placed, Fresh, InHand, Holding, MachineOf,
         Typed, Handed, TypeOK
<1>4. ASSUME NEW m \in Machines, JobEnds(m) PROVE Placed'
  BY <1>4 DEF JobEnds, row, redis, procs, ghost, Placed, Fresh, InHand, Holding, MachineOf, Typed,
         Handed, TypeOK
<1>5. ASSUME NEW m \in Machines, Expire(m) PROVE Placed'
  BY <1>5 DEF Expire, row, remote, procs, ghost, Fault, Placed, Fresh, InHand, Holding, MachineOf,
         Typed, Handed, TypeOK
<1>6. ASSUME NEW m \in Machines, Beat(m) PROVE Placed'
  BY <1>6 DEF Beat, row, redis, remote, ghost, BeatTo, Placed, Fresh, InHand, Holding, MachineOf,
         Typed, Handed, TypeOK
<1>7. ASSUME NEW m \in Machines, BeatFound(m) PROVE Placed'
  BY <1>7 DEF BeatFound, row, remote, ghost, BeatTo, Placed, Fresh, InHand, Holding, MachineOf,
         Typed, Handed, TypeOK
<1>8. ASSUME NEW m \in Machines, ReviveRead(m) PROVE Placed'
  BY <1>8 DEF ReviveRead, row, redis, remote, ghost, BeatTo, Placed, Fresh, InHand, Holding,
         MachineOf, Typed, Handed, TypeOK, Live
<1>9. ASSUME NEW m \in Machines, ReviveSet(m) PROVE Placed'
  BY <1>9 DEF ReviveSet, row, remote, ghost, BeatTo, Placed, Fresh, InHand, Holding, MachineOf,
         Typed, Handed, TypeOK
<1>10. ASSUME NEW m \in Machines, ReviveList(m) PROVE Placed'
  BY <1>10 DEF ReviveList, row, remote, ghost, BeatTo, Placed, Fresh, InHand, Holding, MachineOf,
         Typed, Handed, TypeOK
<1>11. ASSUME NEW m \in Machines, PollStart(m) PROVE Placed'
  BY <1>11 DEF PollStart, row, redis, procs, ghost, Placed, Fresh, InHand, Holding, MachineOf,
         Typed, Handed, TypeOK
<1>12. ASSUME NEW m \in Machines, PollFrames(m) PROVE Placed'
  BY <1>12 DEF PollFrames, row, procs, ghost, Placed, Fresh, InHand, Holding, MachineOf, Typed,
         Handed, TypeOK
<1>13. ASSUME NEW m \in Machines, PollLost(m) PROVE Placed'
  BY <1>13 DEF PollLost, row, procs, ghost, Fault, Placed, Fresh, InHand, Holding, MachineOf, Typed,
         Handed, TypeOK
<1>14. ASSUME NEW m \in Machines, PollEmpty(m) PROVE Placed'
  BY <1>14 DEF PollEmpty, row, redis, procs, ghost, Placed, Fresh, InHand, Holding, MachineOf,
         Typed, Handed, TypeOK
<1>15. ASSUME NEW m \in Machines, Destroy(m) PROVE Placed'
  BY <1>15 DEF Destroy, row, remote, ghost, Tell, KillTo, Placed, Fresh, InHand, Holding, MachineOf,
         Typed, Handed, TypeOK
<1>16. ASSUME NEW m \in Machines, Revoke(m) PROVE Placed'
  BY <1>16 DEF Revoke, row, redis, ghost, KillTo, Placed, Fresh, InHand, Holding, MachineOf, Typed,
         Handed, TypeOK
<1>17. ASSUME NEW m \in Machines, CloseLease(m) PROVE Placed'
  BY <1>17 DEF CloseLease, redis, remote, ghost, KillTo, Placed, Fresh, InHand, Holding, MachineOf,
         Typed, Handed, TypeOK
<1>18. ASSUME NEW m \in Machines, ForgetRedis(m) PROVE Placed'
  BY <1>18 DEF ForgetRedis, row, remote, ghost, KillTo, Placed, Fresh, InHand, Holding, MachineOf,
         Typed, Handed, TypeOK
<1>19. ASSUME NEW m \in Machines, ForgetRow(m) PROVE Placed'
  BY <1>19 DEF ForgetRow, redis, remote, ghost, KillTo, Placed, Fresh, InHand, Holding, MachineOf,
         Typed, Handed, TypeOK
<1>20. ASSUME NEW m \in Machines, Reap(m) PROVE Placed'
  BY <1>20 DEF Reap, row, redis, remote, ghost, KillTo, Placed, Fresh, InHand, Holding, MachineOf,
         Typed, Handed, TypeOK
<1>21. ASSUME NEW m \in Machines, CloseStray(m) PROVE Placed'
  BY <1>21 DEF CloseStray, redis, remote, procs, ghost, Placed, Fresh, InHand, Holding, MachineOf,
         Typed, Handed, TypeOK
<1>22. ASSUME NEW r \in Takers, Grab(r) PROVE Placed'
  BY <1>22 DEF Grab, row, remote, ghost, Placed, Fresh, InHand, Holding, MachineOf, Typed, Handed,
         TypeOK
<1>23. ASSUME NEW r \in Takers, BindNone(r) PROVE Placed'
  BY <1>23 DEF BindNone, row, redis, remote, ghost, MachineOf, Placed, Fresh, InHand, Holding,
         Typed, Handed, TypeOK
<1>24. ASSUME NEW r \in Takers, BindRead(r) PROVE Placed'
  BY <1>24 DEF BindRead, row, redis, remote, ghost, TakerTo, MachineOf, Placed, Fresh, InHand,
         Holding, Typed, Handed, TypeOK
<1>25. ASSUME NEW r \in Takers, BindCommit(r) PROVE Placed'
  BY <1>25 DEF BindCommit, redis, remote, TakerTo, MachineOf, Placed, Fresh, InHand, Holding, Typed,
         Handed, TypeOK
<1>26. ASSUME NEW r \in Takers, BindMark(r) PROVE Placed'
  <2>1. "marked" \in InHands /\ takers[r].pc \in InHands /\ TakerTo(r, "marked") /\ UNCHANGED launch
    BY <1>26 DEF BindMark, InHands
  <2>2. /\ \A q \in Takers : takers'[q].machine = takers[q].machine /\ (q # r => takers'[q].pc = takers[q].pc)
        /\ takers'[r].pc = "marked"
    BY <2>1, GoesOn
  <2>3. takers[r].pc = "bound" /\ UNCHANGED <<state, launch, beat>>
    BY <1>26 DEF BindMark, row
  <2> QED BY <2>2, <2>3 DEF Placed, MachineOf
<1>27. ASSUME NEW r \in Takers, Assign(r) PROVE Placed'
  <2>1. UNCHANGED <<state, launch, beat>>
    BY <1>27 DEF Assign, row
  <2>2. takers'[r].pc \in {"none", "waiting"} /\ \A q \in Takers : q # r => takers'[q] = takers[q]
    BY <1>27, Assigned
  <2> QED BY <2>1, <2>2 DEF Placed, MachineOf
<1>28. ASSUME NEW r \in Takers, GiveUp(r) PROVE Placed'
  BY <1>28 DEF GiveUp, row, remote, ghost, LeaveQueue, NoTake, Placed, Fresh, InHand, Holding,
         MachineOf, Typed, Handed, TypeOK
<1>29. ASSUME NEW r \in Takers, TakerDies(r) PROVE Placed'
  BY <1>29 DEF TakerDies, row, redis, remote, Fault, MachineOf, NoTake, Placed, Fresh, InHand,
         Holding, Typed, Handed, TypeOK
<1>30. ASSUME NEW r \in Takers, NEW u \in Users, Take(r, u) PROVE Placed'
  BY <1>30 DEF Take, row, remote, ghost, Placed, Fresh, InHand, Holding, MachineOf, Typed, Handed,
         TypeOK
<1>31. ASSUME NEW u \in Users, QueueExpires(u) PROVE Placed'
  BY <1>31 DEF QueueExpires, row, remote, procs, ghost, LeaveQueue, Placed, Fresh, InHand, Holding,
         MachineOf, Typed, Handed, TypeOK
<1>32. CASE Vanished
  BY <1>32 DEF Vanished, row, remote, ghost, KillTo, Placed, Fresh, InHand, Holding, MachineOf,
         Typed, Handed, TypeOK
<1>33. CASE LaunchGrab
  BY <1>33 DEF LaunchGrab, row, remote, ghost, Placed, Fresh, InHand, Holding, MachineOf, Typed,
         Handed, TypeOK
<1>34. CASE LaunchJit
  BY <1>34 DEF LaunchJit, row, redis, remote, ghost, LaunchTo, Placed, Fresh, InHand, Holding,
         MachineOf, Typed, Handed, TypeOK
<1>35. CASE OccupyMark
  BY <1>35 DEF OccupyMark, row, remote, ghost, LaunchTo, Placed, Fresh, InHand, Holding, MachineOf,
         Typed, Handed, TypeOK
<1>36. CASE OccupyRow
  BY <1>36 DEF OccupyRow, redis, remote, ghost, LaunchTo, Placed, Fresh, InHand, Holding, MachineOf,
         Typed, Handed, TypeOK
<1>37. CASE LaunchSend
  BY <1>37 DEF LaunchSend, row, remote, Tell, LaunchTo, Placed, Fresh, InHand, Holding, MachineOf,
         Typed, Handed, TypeOK
<1>38. CASE LaunchStarted
  BY <1>38 DEF LaunchStarted, row, redis, remote, ghost, LaunchTo, Placed, Fresh, InHand, Holding,
         MachineOf, Typed, Handed, TypeOK
<1>39. CASE LaunchFails
  BY <1>39 DEF LaunchFails, row, remote, ghost, Fault, NoLaunch, Placed, Fresh, InHand, Holding,
         MachineOf, Typed, Handed, TypeOK
<1>40. CASE RunnerEnds
  BY <1>40 DEF RunnerEnds, row, remote, ghost, Tell, KillTo, NoLaunch, Placed, Fresh, InHand,
         Holding, MachineOf, Typed, Handed, TypeOK
<1>41. CASE LaunchDies
  BY <1>41 DEF LaunchDies, row, redis, remote, Fault, NoLaunch, Placed, Fresh, InHand, Holding,
         MachineOf, Typed, Handed, TypeOK
<1>42. CASE Flush
  BY <1>42 DEF Flush, row, remote, procs, Fault, Placed, Fresh, InHand, Holding, MachineOf, Typed,
         Handed, TypeOK
<1>43. CASE UNCHANGED vars
  BY <1>43 DEF vars, row, redis, remote, procs, ghost, Placed, Fresh, InHand, Holding, MachineOf,
         Typed, Handed, TypeOK
<1> QED
  BY <1>1, <1>2, <1>3, <1>4, <1>5, <1>6, <1>7, <1>8, <1>9, <1>10, <1>11, <1>12, <1>13, <1>14, <1>15,
     <1>16, <1>17, <1>18, <1>19, <1>20, <1>21, <1>22, <1>23, <1>24, <1>25, <1>26, <1>27, <1>28,
     <1>29, <1>30, <1>31, <1>32, <1>33, <1>34, <1>35, <1>36, <1>37, <1>38, <1>39, <1>40, <1>41,
     <1>42, <1>43
  DEF Next, Daemon, Beating, Killing, Taking, Launching

\* An idle machine stays on offer, or a beat is left that will offer it.
LEMMA OfferedStep == Typed /\ Fresh /\ Placed /\ Offered /\ [Next]_vars => Offered'
<1> SUFFICES ASSUME Typed, Fresh, Placed, Offered, [Next]_vars PROVE Offered'
  OBVIOUS
<1> USE PoolAssumption
<1>1. ASSUME NEW m \in Machines, RegisterRow(m) PROVE Offered'
  BY <1>1 DEF RegisterRow, row, redis, procs, ghost, Offered, Live, Placed, Fresh, InHand, Holding,
         MachineOf, Typed, Handed, TypeOK
<1>2. ASSUME NEW m \in Machines, RegisterRedis(m) PROVE Offered'
  BY <1>2 DEF RegisterRedis, row, procs, ghost, Offered, Live, Placed, Fresh, InHand, Holding,
         MachineOf, Typed, Handed, TypeOK
<1>3. ASSUME NEW m \in Machines, Registered(m) PROVE Offered'
  BY <1>3 DEF Registered, row, redis, procs, ghost, Offered, Live, Placed, Fresh, InHand, Holding,
         MachineOf, Typed, Handed, TypeOK
<1>4. ASSUME NEW m \in Machines, JobEnds(m) PROVE Offered'
  BY <1>4 DEF JobEnds, row, redis, procs, ghost, Offered, Live, Placed, Fresh, InHand, Holding,
         MachineOf, Typed, Handed, TypeOK
<1>5. ASSUME NEW m \in Machines, Expire(m) PROVE Offered'
  BY <1>5 DEF Expire, row, remote, procs, ghost, Fault, Offered, Live, Placed, Fresh, InHand,
         Holding, MachineOf, Typed, Handed, TypeOK
<1>6. ASSUME NEW m \in Machines, Beat(m) PROVE Offered'
  BY <1>6 DEF Beat, row, redis, remote, ghost, BeatTo, Offered, Live, Placed, Fresh, InHand,
         Holding, MachineOf, Typed, Handed, TypeOK
<1>7. ASSUME NEW m \in Machines, BeatFound(m) PROVE Offered'
  BY <1>7 DEF BeatFound, row, remote, ghost, BeatTo, Offered, Live, Placed, Fresh, InHand, Holding,
         MachineOf, Typed, Handed, TypeOK
<1>8. ASSUME NEW m \in Machines, ReviveRead(m) PROVE Offered'
  BY <1>8 DEF ReviveRead, row, redis, remote, ghost, BeatTo, Offered, Live, Placed, Fresh, InHand,
         Holding, MachineOf, Typed, Handed, TypeOK
<1>9. ASSUME NEW m \in Machines, ReviveSet(m) PROVE Offered'
  BY <1>9 DEF ReviveSet, row, remote, ghost, BeatTo, Offered, Live, Placed, Fresh, InHand, Holding,
         MachineOf, Typed, Handed, TypeOK
<1>10. ASSUME NEW m \in Machines, ReviveList(m) PROVE Offered'
  BY <1>10 DEF ReviveList, row, remote, ghost, BeatTo, Offered, Live, Placed, Fresh, InHand,
         Holding, MachineOf, Typed, Handed, TypeOK
<1>11. ASSUME NEW m \in Machines, PollStart(m) PROVE Offered'
  BY <1>11 DEF PollStart, row, redis, procs, ghost, Offered, Live, Placed, Fresh, InHand, Holding,
         MachineOf, Typed, Handed, TypeOK
<1>12. ASSUME NEW m \in Machines, PollFrames(m) PROVE Offered'
  BY <1>12 DEF PollFrames, row, procs, ghost, Offered, Live, Placed, Fresh, InHand, Holding,
         MachineOf, Typed, Handed, TypeOK
<1>13. ASSUME NEW m \in Machines, PollLost(m) PROVE Offered'
  BY <1>13 DEF PollLost, row, procs, ghost, Fault, Offered, Live, Placed, Fresh, InHand, Holding,
         MachineOf, Typed, Handed, TypeOK
<1>14. ASSUME NEW m \in Machines, PollEmpty(m) PROVE Offered'
  BY <1>14 DEF PollEmpty, row, redis, procs, ghost, Offered, Live, Placed, Fresh, InHand, Holding,
         MachineOf, Typed, Handed, TypeOK
<1>15. ASSUME NEW m \in Machines, Destroy(m) PROVE Offered'
  BY <1>15 DEF Destroy, row, remote, ghost, Tell, KillTo, Offered, Live, Placed, Fresh, InHand,
         Holding, MachineOf, Typed, Handed, TypeOK
<1>16. ASSUME NEW m \in Machines, Revoke(m) PROVE Offered'
  BY <1>16 DEF Revoke, row, redis, ghost, KillTo, Offered, Live, Placed, Fresh, InHand, Holding,
         MachineOf, Typed, Handed, TypeOK
<1>17. ASSUME NEW m \in Machines, CloseLease(m) PROVE Offered'
  BY <1>17 DEF CloseLease, redis, remote, ghost, KillTo, Offered, Live, Placed, Fresh, InHand,
         Holding, MachineOf, Typed, Handed, TypeOK
<1>18. ASSUME NEW m \in Machines, ForgetRedis(m) PROVE Offered'
  BY <1>18 DEF ForgetRedis, row, remote, ghost, KillTo, Offered, Live, Placed, Fresh, InHand,
         Holding, MachineOf, Typed, Handed, TypeOK
<1>19. ASSUME NEW m \in Machines, ForgetRow(m) PROVE Offered'
  BY <1>19 DEF ForgetRow, redis, remote, ghost, KillTo, Offered, Live, Placed, Fresh, InHand,
         Holding, MachineOf, Typed, Handed, TypeOK
<1>20. ASSUME NEW m \in Machines, Reap(m) PROVE Offered'
  BY <1>20 DEF Reap, row, redis, remote, ghost, KillTo, Offered, Live, Placed, Fresh, InHand,
         Holding, MachineOf, Typed, Handed, TypeOK
<1>21. ASSUME NEW m \in Machines, CloseStray(m) PROVE Offered'
  BY <1>21 DEF CloseStray, redis, remote, procs, ghost, Offered, Live, Placed, Fresh, InHand,
         Holding, MachineOf, Typed, Handed, TypeOK
<1>22. ASSUME NEW r \in Takers, Grab(r) PROVE Offered'
  <2>0. PICK x \in idle : /\ takers' = [takers EXCEPT ![r].pc = "popped", ![r].machine = x]
                          /\ idle' = idle \ {x} /\ key[x]
    BY <1>22 DEF Grab
  <2>1. takers[r].pc = "waiting" /\ x \in Machines
    BY <1>22 DEF Grab, Typed, TypeOK
  <2>2. /\ takers'[r].pc = "popped" /\ takers'[r].machine = x
        /\ \A q \in Takers : q # r => takers'[q] = takers[q]
    BY <2>0 DEF Typed, TypeOK
  <2>3. InHand(x)'
    BY <2>2 DEF InHand, Holding, MachineOf
  <2>4. \A m \in Machines : InHand(m) => InHand(m)'
    BY <1>22, <2>1, <2>2 DEF Grab, InHand, Holding, MachineOf
  <2>5. UNCHANGED <<state, gone, killer, beat, key, stranded>>
    BY <1>22 DEF Grab, row, ghost
  <2> QED BY <2>0, <2>3, <2>4, <2>5 DEF Offered, Live
<1>23. ASSUME NEW r \in Takers, BindNone(r) PROVE Offered'
  <2>1. takers[r].pc = "popped" /\ ~Live(MachineOf(r))
    BY <1>23 DEF BindNone
  <2>2. \A q \in Takers : q # r => takers'[q] = takers[q]
    BY <1>23 DEF BindNone, Typed, TypeOK
  <2>3. \A m \in Machines : m # MachineOf(r) /\ InHand(m) => InHand(m)'
    BY <1>23, <2>2 DEF BindNone, InHand, Holding, MachineOf
  <2>5. UNCHANGED <<state, gone, killer, beat, key, stranded, idle>>
    BY <1>23 DEF BindNone, row, redis, ghost
  <2> QED BY <2>1, <2>3, <2>5 DEF Offered, Live
<1>24. ASSUME NEW r \in Takers, BindRead(r) PROVE Offered'
  BY <1>24 DEF BindRead, row, redis, remote, ghost, TakerTo, MachineOf, Offered, Live, Placed,
         Fresh, InHand, Holding, Typed, Handed, TypeOK
<1>25. ASSUME NEW r \in Takers, BindCommit(r) PROVE Offered'
  BY <1>25, SMTT(30) DEF BindCommit, redis, remote, TakerTo, MachineOf, Offered, Live, Placed, Fresh, InHand,
         Holding, Typed, Handed, TypeOK
<1>26. ASSUME NEW r \in Takers, BindMark(r) PROVE Offered'
  <2>1. "marked" \in InHands /\ takers[r].pc \in InHands /\ TakerTo(r, "marked") /\ UNCHANGED launch
    BY <1>26 DEF BindMark, InHands
  <2>2. \A m \in Machines : InHand(m)' <=> InHand(m)
    BY <2>1, GoesOn
  <2>3. MachineOf(r) \in Machines /\ state[MachineOf(r)] # "idle"
    BY <1>26, RequestFits DEF BindMark, Fits, InHands, MachineOf, Placed
  <2>4. /\ \A n \in Machines : n # MachineOf(r) => key'[n] = key[n]
        /\ idle' = idle \ {MachineOf(r)} /\ UNCHANGED <<state, gone, killer, beat, stranded>>
    BY <1>26 DEF BindMark, row, ghost, Typed, TypeOK
  <2> QED BY <2>2, <2>3, <2>4 DEF Offered, Live
<1>27. ASSUME NEW r \in Takers, Assign(r) PROVE Offered'
  <2>1. UNCHANGED <<state, gone, killer, beat, key, stranded, idle>>
    BY <1>27 DEF Assign, row, ghost
  <2>2. takers[r].pc = "marked" /\ \A m \in Machines : m # MachineOf(r) => (InHand(m)' <=> InHand(m))
    BY <1>27, Assigned
  <2>3. state[MachineOf(r)] # "idle"
    BY <2>2 DEF Placed
  <2> QED BY <2>1, <2>2, <2>3 DEF Offered, Live
<1>28. ASSUME NEW r \in Takers, GiveUp(r) PROVE Offered'
  BY <1>28 DEF GiveUp, row, remote, ghost, LeaveQueue, NoTake, Offered, Live, Placed, Fresh, InHand,
         Holding, MachineOf, Typed, Handed, TypeOK
<1>29. ASSUME NEW r \in Takers, TakerDies(r) PROVE Offered'
  BY <1>29 DEF TakerDies, row, redis, remote, Fault, MachineOf, NoTake, Offered, Live, Placed,
         Fresh, InHand, Holding, Typed, Handed, TypeOK
<1>30. ASSUME NEW r \in Takers, NEW u \in Users, Take(r, u) PROVE Offered'
  <2>1. takers[r].pc = "none" /\ UNCHANGED <<state, gone, killer, beat, key, stranded, idle, launch>>
    BY <1>30 DEF Take, row, ghost
  <2>2. \A q \in Takers : q # r => takers'[q] = takers[q]
    BY <1>30 DEF Take, Typed, TypeOK
  <2>3. \A m \in Machines : InHand(m) => InHand(m)'
    BY <2>1, <2>2 DEF InHand, Holding, MachineOf
  <2> QED BY <2>1, <2>3 DEF Offered, Live
<1>31. ASSUME NEW u \in Users, QueueExpires(u) PROVE Offered'
  BY <1>31 DEF QueueExpires, row, remote, procs, ghost, LeaveQueue, Offered, Live, Placed, Fresh,
         InHand, Holding, MachineOf, Typed, Handed, TypeOK
<1>32. CASE Vanished
  <2>0. PICK x \in idle : killer[x] = "none" /\ idle' = idle \ {x} /\ KillTo(x, "closed")
    BY <1>32 DEF Vanished
  <2>1. x \in Machines /\ killer'[x] = "closed" /\ \A n \in Machines : n # x => killer'[n] = killer[n]
    BY <2>0 DEF KillTo, Typed, TypeOK
  <2>2. UNCHANGED <<state, gone, beat, key, stranded, takers, launch>>
    BY <1>32 DEF Vanished, row, ghost
  <2> QED BY <2>0, <2>1, <2>2, SameHands DEF Offered, Live
<1>33. CASE LaunchGrab
  <2>0. PICK x \in idle : launch' = [pc |-> "popped", machine |-> x] /\ idle' = idle \ {x}
    BY <1>33 DEF LaunchGrab
  <2>1. x \in Machines /\ launch.machine = Nobody
    BY <1>33 DEF LaunchGrab, Typed, TypeOK, Handed
  <2>2. InHand(x)' /\ \A m \in Machines : InHand(m) => InHand(m)'
    BY <1>33, <2>0, <2>1 DEF LaunchGrab, InHand, Holding, MachineOf
  <2>3. UNCHANGED <<state, gone, killer, beat, key, stranded>>
    BY <1>33 DEF LaunchGrab, row, ghost
  <2> QED BY <2>0, <2>2, <2>3 DEF Offered, Live
<1>34. CASE LaunchJit
  BY <1>34 DEF LaunchJit, row, redis, remote, ghost, LaunchTo, Offered, Live, Placed, Fresh, InHand,
         Holding, MachineOf, Typed, Handed, TypeOK
<1>35. CASE OccupyMark
  BY <1>35 DEF OccupyMark, row, remote, ghost, LaunchTo, Offered, Live, Placed, Fresh, InHand,
         Holding, MachineOf, Typed, Handed, TypeOK
<1>36. CASE OccupyRow
  BY <1>36 DEF OccupyRow, redis, remote, ghost, LaunchTo, Offered, Live, Placed, Fresh, InHand,
         Holding, MachineOf, Typed, Handed, TypeOK
<1>37. CASE LaunchSend
  BY <1>37 DEF LaunchSend, row, remote, Tell, LaunchTo, Offered, Live, Placed, Fresh, InHand,
         Holding, MachineOf, Typed, Handed, TypeOK
<1>38. CASE LaunchStarted
  BY <1>38 DEF LaunchStarted, row, redis, remote, ghost, LaunchTo, Offered, Live, Placed, Fresh,
         InHand, Holding, MachineOf, Typed, Handed, TypeOK
<1>39. CASE LaunchFails
  BY <1>39 DEF LaunchFails, row, remote, ghost, Fault, NoLaunch, Offered, Live, Placed, Fresh,
         InHand, Holding, MachineOf, Typed, Handed, TypeOK
<1>40. CASE RunnerEnds
  BY <1>40 DEF RunnerEnds, row, remote, ghost, Tell, KillTo, NoLaunch, Offered, Live, Placed, Fresh,
         InHand, Holding, MachineOf, Typed, Handed, TypeOK
<1>41. CASE LaunchDies
  BY <1>41 DEF LaunchDies, row, redis, remote, Fault, NoLaunch, Offered, Live, Placed, Fresh,
         InHand, Holding, MachineOf, Typed, Handed, TypeOK
<1>42. CASE Flush
  BY <1>42 DEF Flush, row, remote, procs, Fault, Offered, Live, Placed, Fresh, InHand, Holding,
         MachineOf, Typed, Handed, TypeOK
<1>43. CASE UNCHANGED vars
  BY <1>43 DEF vars, row, redis, remote, procs, ghost, Offered, Live, Placed, Fresh, InHand,
         Holding, MachineOf, Typed, Handed, TypeOK
<1> QED
  BY <1>1, <1>2, <1>3, <1>4, <1>5, <1>6, <1>7, <1>8, <1>9, <1>10, <1>11, <1>12, <1>13, <1>14, <1>15,
     <1>16, <1>17, <1>18, <1>19, <1>20, <1>21, <1>22, <1>23, <1>24, <1>25, <1>26, <1>27, <1>28,
     <1>29, <1>30, <1>31, <1>32, <1>33, <1>34, <1>35, <1>36, <1>37, <1>38, <1>39, <1>40, <1>41,
     <1>42, <1>43
  DEF Next, Daemon, Beating, Killing, Taking, Launching

-----------------------------------------------------------------------------
(* How often a machine may be given away.                                  *)

One(P) == IF P THEN 1 ELSE 0

\* The requests that are about to write a lease of the machine.
Owe(m) == {r \in Takers : takers[r].pc \in {"popped", "binding"} /\ MachineOf(r) = m}

\* What was given, or is about to be; and the chances to be given once more: on
\* offer, with the controller, not registered yet, about to be offered by a beat,
\* and a key that is missing, which a beat will find.
Spent(m) == served[m] + Cardinality(Owe(m))
Listed(m) == One(m \in idle)
Launched(m) == One(launch.machine = m /\ launch.pc \in {"popped", "jit", "marked", "occupied"})
Coming(m) == One(daemon[m] \in {"off", "row"})
Revived(m) == One(beat[m] \in {"missing", "reviveIdle", "list"})
Missed(m) == One(~key[m] /\ daemon[m] \in {"listed", "up"} /\ beat[m] \notin {"missing", "reviveIdle"})
Chances(m) == Listed(m) + Launched(m) + Coming(m) + Revived(m) + Missed(m)

\* Nobody destroys it.
Calm(m) == ~gone[m] /\ killer[m] = "none"

Budget ==
    \A m \in Machines :
        /\ IsFiniteSet(Owe(m))
        /\ Calm(m) => Spent(m) + Chances(m) <= 1 + faults

\* What one step adds to the chances of a machine it does not give away.
Cheap(m) == Chances(m)' <= Chances(m) + (faults' - faults)

\* Chances are counted.
LEMMA ChancesNat == \A m \in Machines : Chances(m) \in Nat
  BY DEF Chances, Listed, Launched, Coming, Revived, Missed, One

\* A machine that nobody destroys now was not being destroyed before.
LEMMA CalmStays ==
  ASSUME Typed, [Next]_vars, NEW x \in Machines, Calm(x)'
  PROVE  Calm(x)
<1>1. ASSUME NEW m \in Machines, Destroy(m) PROVE Calm(x)
  BY <1>1 DEF Destroy, KillTo, Calm, Typed, TypeOK, row
<1>2. ASSUME NEW m \in Machines, Revoke(m) PROVE Calm(x)
  BY <1>2 DEF Revoke, KillTo, Calm, Typed, TypeOK, row
<1>3. ASSUME NEW m \in Machines, CloseLease(m) PROVE Calm(x)
  BY <1>3 DEF CloseLease, KillTo, Calm, Typed, TypeOK, row
<1>4. ASSUME NEW m \in Machines, ForgetRedis(m) PROVE Calm(x)
  BY <1>4 DEF ForgetRedis, KillTo, Calm, Typed, TypeOK, row
<1>5. ASSUME NEW m \in Machines, ForgetRow(m) PROVE Calm(x)
  BY <1>5 DEF ForgetRow, KillTo, Calm, Typed, TypeOK, row
<1>6. ASSUME NEW m \in Machines, Reap(m) PROVE Calm(x)
  BY <1>6 DEF Reap, KillTo, Calm, Typed, TypeOK, row
<1>7. CASE Vanished
  BY <1>7 DEF Vanished, KillTo, Calm, Typed, TypeOK, Handed, row
<1>8. CASE RunnerEnds
  BY <1>8 DEF RunnerEnds, KillTo, Calm, Typed, TypeOK, Handed, row
<1>9. ASSUME NEW m \in Machines,
             \/ RegisterRow(m) \/ RegisterRedis(m) \/ Registered(m) \/ JobEnds(m) \/ Expire(m)
             \/ Beat(m) \/ BeatFound(m) \/ ReviveRead(m) \/ ReviveSet(m) \/ ReviveList(m)
             \/ PollStart(m) \/ PollFrames(m) \/ PollLost(m) \/ PollEmpty(m) \/ CloseStray(m)
      PROVE  Calm(x)
  <2>1. UNCHANGED <<gone, killer>>
    BY <1>9 DEF RegisterRow, RegisterRedis, Registered, JobEnds, Expire, Beat, BeatFound,
           ReviveRead, ReviveSet, ReviveList, PollStart, PollFrames, PollLost, PollEmpty,
           CloseStray, row, procs, BeatTo
  <2> QED BY <2>1 DEF Calm
<1>10. ASSUME NEW r \in Takers,
             \/ Grab(r) \/ BindNone(r) \/ BindRead(r) \/ BindCommit(r) \/ BindMark(r) \/ Assign(r)
             \/ GiveUp(r) \/ TakerDies(r) \/ \E u \in Users : Take(r, u)
      PROVE  Calm(x)
  <2>1. UNCHANGED <<gone, killer>>
    BY <1>10 DEF Grab, BindNone, BindRead, BindCommit, BindMark, Assign, GiveUp, TakerDies, Take,
           row
  <2> QED BY <2>1 DEF Calm
<1>11. ASSUME
             \/ LaunchGrab \/ LaunchJit \/ OccupyMark \/ OccupyRow \/ LaunchSend \/ LaunchStarted
             \/ LaunchFails \/ LaunchDies \/ Flush \/ (\E u \in Users : QueueExpires(u))
             \/ UNCHANGED vars
      PROVE  Calm(x)
  <2>1. UNCHANGED <<gone, killer>>
    BY <1>11 DEF LaunchGrab, LaunchJit, OccupyMark, OccupyRow, LaunchSend, LaunchStarted,
           LaunchFails, LaunchDies, Flush, QueueExpires, vars, row, procs
  <2> QED BY <2>1 DEF Calm
<1> QED
  BY <1>1, <1>2, <1>3, <1>4, <1>5, <1>6, <1>7, <1>8, <1>9, <1>10, <1>11
  DEF Next, Daemon, Beating, Killing, Taking, Launching

\* No step but one that gives a machine away, or a fault, adds to its chances.
LEMMA ChancesStep ==
  ASSUME Typed, Fresh, [Next]_vars, NEW x \in Machines, Calm(x), Calm(x)'
  PROVE  \/ Cheap(x)
         \/ LaunchSend /\ launch.machine = x
<1> USE PoolAssumption
<1>0. faults \in Nat
  BY DEF Typed, TypeOK
<1>1. ASSUME NEW m \in Machines, RegisterRow(m) PROVE Cheap(x)
  BY <1>0, <1>1 DEF RegisterRow, row, redis, procs, ghost, Cheap, Chances, Listed, Launched, Coming,
         Revived, Missed, One, Typed, TypeOK, Calm, Fresh
<1>2. ASSUME NEW m \in Machines, RegisterRedis(m) PROVE Cheap(x)
  BY <1>0, <1>2 DEF RegisterRedis, row, procs, ghost, Cheap, Chances, Listed, Launched, Coming,
         Revived, Missed, One, Typed, TypeOK, Calm, Fresh
<1>3. ASSUME NEW m \in Machines, Registered(m) PROVE Cheap(x)
  BY <1>0, <1>3 DEF Registered, row, redis, procs, ghost, Cheap, Chances, Listed, Launched, Coming,
         Revived, Missed, One, Typed, TypeOK, Calm
<1>4. ASSUME NEW m \in Machines, JobEnds(m) PROVE Cheap(x)
  BY <1>0, <1>4 DEF JobEnds, row, redis, procs, ghost, Cheap, Chances, Listed, Launched, Coming,
         Revived, Missed, One, Typed, TypeOK, Calm
<1>5. ASSUME NEW m \in Machines, Expire(m) PROVE Cheap(x)
  BY <1>0, <1>5 DEF Expire, row, remote, procs, ghost, Fault, Cheap, Chances, Listed, Launched,
         Coming, Revived, Missed, One, Typed, TypeOK, Calm
<1>6. ASSUME NEW m \in Machines, Beat(m) PROVE Cheap(x)
  BY <1>0, <1>6 DEF Beat, row, redis, remote, ghost, BeatTo, Cheap, Chances, Listed, Launched,
         Coming, Revived, Missed, One, Typed, TypeOK, Calm
<1>7. ASSUME NEW m \in Machines, BeatFound(m) PROVE Cheap(x)
  BY <1>0, <1>7 DEF BeatFound, row, remote, ghost, BeatTo, Cheap, Chances, Listed, Launched, Coming,
         Revived, Missed, One, Typed, TypeOK, Calm
<1>8. ASSUME NEW m \in Machines, ReviveRead(m) PROVE Cheap(x)
  BY <1>0, <1>8 DEF ReviveRead, row, redis, remote, ghost, BeatTo, Cheap, Chances, Listed, Launched,
         Coming, Revived, Missed, One, Typed, TypeOK, Calm
<1>9. ASSUME NEW m \in Machines, ReviveSet(m) PROVE Cheap(x)
  BY <1>0, <1>9 DEF ReviveSet, row, remote, ghost, BeatTo, Cheap, Chances, Listed, Launched, Coming,
         Revived, Missed, One, Typed, TypeOK, Calm
<1>10. ASSUME NEW m \in Machines, ReviveList(m) PROVE Cheap(x)
  BY <1>0, <1>10 DEF ReviveList, row, remote, ghost, BeatTo, Cheap, Chances, Listed, Launched,
         Coming, Revived, Missed, One, Typed, TypeOK, Calm
<1>11. ASSUME NEW m \in Machines, PollStart(m) PROVE Cheap(x)
  BY <1>0, <1>11 DEF PollStart, row, redis, procs, ghost, Cheap, Chances, Listed, Launched, Coming,
         Revived, Missed, One, Typed, TypeOK, Calm
<1>12. ASSUME NEW m \in Machines, PollFrames(m) PROVE Cheap(x)
  BY <1>0, <1>12 DEF PollFrames, row, procs, ghost, Cheap, Chances, Listed, Launched, Coming,
         Revived, Missed, One, Typed, TypeOK, Calm
<1>13. ASSUME NEW m \in Machines, PollLost(m) PROVE Cheap(x)
  BY <1>0, <1>13 DEF PollLost, row, procs, ghost, Fault, Cheap, Chances, Listed, Launched, Coming,
         Revived, Missed, One, Typed, TypeOK, Calm
<1>14. ASSUME NEW m \in Machines, PollEmpty(m) PROVE Cheap(x)
  BY <1>0, <1>14 DEF PollEmpty, row, redis, procs, ghost, Cheap, Chances, Listed, Launched, Coming,
         Revived, Missed, One, Typed, TypeOK, Calm
<1>15. ASSUME NEW m \in Machines, Destroy(m) PROVE Cheap(x)
  BY <1>0, <1>15 DEF Destroy, row, remote, ghost, Tell, KillTo, Cheap, Chances, Listed, Launched,
         Coming, Revived, Missed, One, Typed, TypeOK, Calm
<1>16. ASSUME NEW m \in Machines, Revoke(m) PROVE Cheap(x)
  BY <1>0, <1>16 DEF Revoke, row, redis, ghost, KillTo, Cheap, Chances, Listed, Launched, Coming,
         Revived, Missed, One, Typed, TypeOK, Calm
<1>17. ASSUME NEW m \in Machines, CloseLease(m) PROVE Cheap(x)
  BY <1>0, <1>17 DEF CloseLease, redis, remote, ghost, KillTo, Cheap, Chances, Listed, Launched,
         Coming, Revived, Missed, One, Typed, TypeOK, Calm
<1>18. ASSUME NEW m \in Machines, ForgetRedis(m) PROVE Cheap(x)
  BY <1>0, <1>18 DEF ForgetRedis, row, remote, ghost, KillTo, Cheap, Chances, Listed, Launched,
         Coming, Revived, Missed, One, Typed, TypeOK, Calm
<1>19. ASSUME NEW m \in Machines, ForgetRow(m) PROVE Cheap(x)
  BY <1>0, <1>19 DEF ForgetRow, redis, remote, ghost, KillTo, Cheap, Chances, Listed, Launched,
         Coming, Revived, Missed, One, Typed, TypeOK, Calm
<1>20. ASSUME NEW m \in Machines, Reap(m) PROVE Cheap(x)
  BY <1>0, <1>20 DEF Reap, row, redis, remote, ghost, KillTo, Cheap, Chances, Listed, Launched,
         Coming, Revived, Missed, One, Typed, TypeOK, Calm
<1>21. ASSUME NEW m \in Machines, CloseStray(m) PROVE Cheap(x)
  BY <1>0, <1>21 DEF CloseStray, redis, remote, procs, ghost, Cheap, Chances, Listed, Launched,
         Coming, Revived, Missed, One, Typed, TypeOK, Calm
<1>22. ASSUME NEW r \in Takers, Grab(r) PROVE Cheap(x)
  BY <1>0, <1>22, SMTT(30) DEF Grab, row, remote, ghost, Cheap, Chances, Listed, Launched, Coming, Revived,
         Missed, One, Typed, TypeOK, Calm
<1>23. ASSUME NEW r \in Takers, BindNone(r) PROVE Cheap(x)
  BY <1>0, <1>23 DEF BindNone, row, redis, remote, ghost, MachineOf, Cheap, Chances, Listed,
         Launched, Coming, Revived, Missed, One, Typed, TypeOK, Calm
<1>24. ASSUME NEW r \in Takers, BindRead(r) PROVE Cheap(x)
  BY <1>0, <1>24 DEF BindRead, row, redis, remote, ghost, TakerTo, MachineOf, Cheap, Chances,
         Listed, Launched, Coming, Revived, Missed, One, Typed, TypeOK, Calm
<1>25. ASSUME NEW r \in Takers, BindCommit(r) PROVE Cheap(x)
  BY <1>0, <1>25 DEF BindCommit, redis, remote, TakerTo, MachineOf, Cheap, Chances, Listed,
         Launched, Coming, Revived, Missed, One, Typed, TypeOK, Calm
<1>26. ASSUME NEW r \in Takers, BindMark(r) PROVE Cheap(x)
  BY <1>0, <1>26, SMTT(30) DEF BindMark, row, remote, ghost, TakerTo, MachineOf, Cheap, Chances, Listed,
         Launched, Coming, Revived, Missed, One, Typed, TypeOK, Calm
<1>27. ASSUME NEW r \in Takers, Assign(r) PROVE Cheap(x)
  BY <1>0, <1>27 DEF Assign, row, remote, ghost, Tell, MachineOf, Cheap, Chances, Listed, Launched,
         Coming, Revived, Missed, One, Typed, TypeOK, Calm
<1>28. ASSUME NEW r \in Takers, GiveUp(r) PROVE Cheap(x)
  BY <1>0, <1>28 DEF GiveUp, row, remote, ghost, Cheap, Chances, Listed, Launched, Coming, Revived,
         Missed, One, Typed, TypeOK, Calm
<1>29. ASSUME NEW r \in Takers, TakerDies(r) PROVE Cheap(x)
  BY <1>0, <1>29 DEF TakerDies, row, redis, remote, Fault, MachineOf, Cheap, Chances, Listed,
         Launched, Coming, Revived, Missed, One, Typed, TypeOK, Calm
<1>30. ASSUME NEW r \in Takers, NEW u \in Users, Take(r, u) PROVE Cheap(x)
  BY <1>0, <1>30 DEF Take, row, remote, ghost, Cheap, Chances, Listed, Launched, Coming, Revived,
         Missed, One, Typed, TypeOK, Calm
<1>31. ASSUME NEW u \in Users, QueueExpires(u) PROVE Cheap(x)
  BY <1>0, <1>31 DEF QueueExpires, row, remote, procs, ghost, Cheap, Chances, Listed, Launched,
         Coming, Revived, Missed, One, Typed, TypeOK, Calm
<1>32. ASSUME Vanished PROVE Cheap(x)
  BY <1>0, <1>32 DEF Vanished, row, remote, ghost, KillTo, Cheap, Chances, Listed, Launched, Coming,
         Revived, Missed, One, Typed, TypeOK, Calm, Handed
<1>33. ASSUME LaunchGrab PROVE Cheap(x)
  BY <1>0, <1>33 DEF LaunchGrab, row, remote, ghost, Cheap, Chances, Listed, Launched, Coming,
         Revived, Missed, One, Typed, TypeOK, Calm, Handed
<1>34. ASSUME LaunchJit PROVE Cheap(x)
  BY <1>0, <1>34 DEF LaunchJit, row, redis, remote, ghost, LaunchTo, Cheap, Chances, Listed,
         Launched, Coming, Revived, Missed, One, Typed, TypeOK, Calm, Handed
<1>35. ASSUME OccupyMark PROVE Cheap(x)
  BY <1>0, <1>35 DEF OccupyMark, row, remote, ghost, LaunchTo, Cheap, Chances, Listed, Launched,
         Coming, Revived, Missed, One, Typed, TypeOK, Calm, Handed
<1>36. ASSUME OccupyRow PROVE Cheap(x)
  BY <1>0, <1>36 DEF OccupyRow, redis, remote, ghost, LaunchTo, Cheap, Chances, Listed, Launched,
         Coming, Revived, Missed, One, Typed, TypeOK, Calm, Handed
<1>37. ASSUME LaunchSend PROVE Cheap(x) \/ (LaunchSend /\ launch.machine = x)
  BY <1>0, <1>37 DEF LaunchSend, row, remote, Tell, LaunchTo, Cheap, Chances, Listed, Launched,
         Coming, Revived, Missed, One, Typed, TypeOK, Calm, Handed
<1>38. ASSUME LaunchStarted PROVE Cheap(x)
  BY <1>0, <1>38 DEF LaunchStarted, row, redis, remote, ghost, LaunchTo, Cheap, Chances, Listed,
         Launched, Coming, Revived, Missed, One, Typed, TypeOK, Calm, Handed
<1>39. ASSUME LaunchFails PROVE Cheap(x)
  BY <1>0, <1>39 DEF LaunchFails, row, remote, ghost, Fault, NoLaunch, Cheap, Chances, Listed,
         Launched, Coming, Revived, Missed, One, Typed, TypeOK, Calm, Handed
<1>40. ASSUME RunnerEnds PROVE Cheap(x)
  BY <1>0, <1>40 DEF RunnerEnds, row, remote, ghost, Tell, KillTo, NoLaunch, Cheap, Chances, Listed,
         Launched, Coming, Revived, Missed, One, Typed, TypeOK, Calm, Handed
<1>41. ASSUME LaunchDies PROVE Cheap(x)
  BY <1>0, <1>41 DEF LaunchDies, row, redis, remote, Fault, NoLaunch, Cheap, Chances, Listed,
         Launched, Coming, Revived, Missed, One, Typed, TypeOK, Calm, Handed
<1>42. ASSUME Flush PROVE Cheap(x)
  BY <1>0, <1>42 DEF Flush, row, remote, procs, Fault, Cheap, Chances, Listed, Launched, Coming,
         Revived, Missed, One, Typed, TypeOK, Calm, Handed
<1>43. ASSUME UNCHANGED vars PROVE Cheap(x)
  BY <1>0, <1>43 DEF vars, row, redis, remote, procs, ghost, Cheap, Chances, Listed, Launched,
         Coming, Revived, Missed, One, Typed, TypeOK
<1> QED
  BY <1>1, <1>2, <1>3, <1>4, <1>5, <1>6, <1>7, <1>8, <1>9, <1>10, <1>11, <1>12, <1>13, <1>14, <1>15,
     <1>16, <1>17, <1>18, <1>19, <1>20, <1>21, <1>22, <1>23, <1>24, <1>25, <1>26, <1>27, <1>28,
     <1>29, <1>30, <1>31, <1>32, <1>33, <1>34, <1>35, <1>36, <1>37, <1>38, <1>39, <1>40, <1>41,
     <1>42, <1>43
  DEF Next, Daemon, Beating, Killing, Taking, Launching

\* Faults are counted and none is taken back.
LEMMA FaultsGrow ==
  ASSUME Typed, [Next]_vars PROVE faults \in Nat /\ faults' \in Nat /\ faults <= faults'
<1>1. faults \in Nat
  BY PoolAssumption DEF Typed, TypeOK
<1>2. faults' = faults \/ faults' = faults + 1
  BY ZenonT(60) DEF Next, Daemon, Beating, Killing, Taking, Launching, Fault, vars, RegisterRow, RegisterRedis,
         Registered, JobEnds, Expire, Beat, BeatFound, ReviveRead, ReviveSet, ReviveList, PollStart,
         PollFrames, PollLost, PollEmpty, Destroy, Revoke, CloseLease, ForgetRedis, ForgetRow, Reap,
         CloseStray, Grab, BindNone, BindRead, BindCommit, BindMark, Assign, GiveUp, TakerDies,
         Take, QueueExpires, Vanished, LaunchGrab, LaunchJit, OccupyMark, OccupyRow, LaunchSend,
         LaunchStarted, LaunchFails, RunnerEnds, LaunchDies, Flush
<1> QED BY <1>1, <1>2

\* A part of a set.
LEMMA Fewer ==
  ASSUME NEW T, IsFiniteSet(T), NEW U \in SUBSET T
  PROVE  /\ IsFiniteSet(U) /\ Cardinality(U) \in Nat /\ Cardinality(T) \in Nat
         /\ Cardinality(U) <= Cardinality(T)
  BY FS_Subset, FS_CardinalityType

\* One element more, at most.
LEMMA OneMore ==
  ASSUME NEW T, IsFiniteSet(T), NEW r, NEW U \in SUBSET (T \cup {r})
  PROVE  /\ IsFiniteSet(U) /\ Cardinality(U) \in Nat /\ Cardinality(T) \in Nat
         /\ Cardinality(U) <= Cardinality(T) + 1
<1>1. IsFiniteSet(T \cup {r}) /\ Cardinality(T) \in Nat /\ Cardinality(T \cup {r}) \in Nat
      /\ Cardinality(T \cup {r}) <= Cardinality(T) + 1
  BY FS_AddElement, FS_CardinalityType, SMTT(30)
<1>2. IsFiniteSet(U) /\ Cardinality(U) \in Nat /\ Cardinality(U) <= Cardinality(T \cup {r})
  BY <1>1, FS_Subset, FS_CardinalityType
<1> QED BY <1>1, <1>2

\* One element less, at least.
LEMMA OneLess ==
  ASSUME NEW T, IsFiniteSet(T), NEW r \in T, NEW U \in SUBSET (T \ {r})
  PROVE  /\ IsFiniteSet(U) /\ Cardinality(U) \in Nat /\ Cardinality(T) \in Nat
         /\ Cardinality(U) + 1 <= Cardinality(T)
<1>1. IsFiniteSet(T \ {r}) /\ Cardinality(T) \in Nat /\ Cardinality(T \ {r}) \in Nat
      /\ Cardinality(T \ {r}) = Cardinality(T) - 1
  BY FS_RemoveElement, FS_CardinalityType
<1>2. IsFiniteSet(U) /\ Cardinality(U) \in Nat /\ Cardinality(U) <= Cardinality(T \ {r})
  BY <1>1, FS_Subset, FS_CardinalityType
<1> QED BY <1>1, <1>2

\* A machine is given once more only at the cost of a chance.
LEMMA SpentStep ==
  ASSUME Typed, Fresh, [Next]_vars, NEW x \in Machines, IsFiniteSet(Owe(x))
  PROVE  /\ IsFiniteSet(Owe(x)')
         /\ Spent(x) \in Nat /\ Spent(x)' \in Nat
         /\ \/ Spent(x)' <= Spent(x) /\ ~(LaunchSend /\ launch.machine = x)
            \/ Spent(x)' <= Spent(x) + 1 /\ (Chances(x)' <= Chances(x) - 1)
<1>0. served \in [Machines -> Nat] /\ takers \in [Takers -> Requests] /\ launch.machine \in Machines \cup {Nobody}
  BY DEF Typed, TypeOK, Requests
<1>a. ASSUME Owe(x)' \subseteq Owe(x), served' = served, ~LaunchSend
      PROVE  IsFiniteSet(Owe(x)') /\ Spent(x) \in Nat /\ Spent(x)' \in Nat /\ Spent(x)' <= Spent(x)
  <2>1. PICK a \in Nat, b \in Nat : /\ a = Cardinality(Owe(x)) /\ b = Cardinality(Owe(x)') /\ b <= a
                                   /\ IsFiniteSet(Owe(x)')
    BY <1>a, Fewer
  <2> QED BY <1>0, <1>a, <2>1 DEF Spent
<1>1. ASSUME UNCHANGED <<takers, served>>, ~LaunchSend
      PROVE  IsFiniteSet(Owe(x)') /\ Spent(x) \in Nat /\ Spent(x)' \in Nat /\ Spent(x)' <= Spent(x)
  <2>1. Owe(x)' \subseteq Owe(x)
    BY <1>1 DEF Owe, MachineOf
  <2> QED BY <1>1, <1>a, <2>1
<1>2. ASSUME NEW r \in Takers, Grab(r)
      PROVE  /\ IsFiniteSet(Owe(x)') /\ Spent(x) \in Nat /\ Spent(x)' \in Nat
             /\ \/ Spent(x)' <= Spent(x) /\ ~LaunchSend
                \/ Spent(x)' <= Spent(x) + 1 /\ Chances(x)' <= Chances(x) - 1
  <2>1. PICK y \in idle : takers' = [takers EXCEPT ![r].pc = "popped", ![r].machine = y] /\ idle' = idle \ {y}
    BY <1>2 DEF Grab
  <2>2. takers[r].pc = "waiting" /\ UNCHANGED <<served, key, beat, launch, daemon>>
    BY <1>2 DEF Grab, remote, ghost
  <2>3. takers'[r].machine = y /\ \A q \in Takers : q # r => takers'[q] = takers[q]
    BY <1>0, <2>1 DEF Requests
  <2>4. ~LaunchSend
    BY <1>0, <2>1, <2>2, <2>3, Zenon DEF LaunchSend
  <2>5. CASE y # x
    <3>1. Owe(x)' \subseteq Owe(x)
      BY <2>3, <2>5 DEF Owe, MachineOf
    <3> QED BY <1>a, <2>2, <2>4, <3>1
  <2>6. CASE y = x
    <3>1. Owe(x)' \subseteq Owe(x) \cup {r}
      BY <2>3 DEF Owe, MachineOf
    <3>2. PICK a \in Nat, b \in Nat : /\ a = Cardinality(Owe(x)) /\ b = Cardinality(Owe(x)') /\ b <= a + 1
                                     /\ IsFiniteSet(Owe(x)')
      BY <3>1, OneMore
    <3>3. Listed(x) = 1 /\ Listed(x)' = 0
      BY <2>1, <2>6 DEF Listed, One
    <3>4. Launched(x)' = Launched(x) /\ Coming(x)' = Coming(x) /\ Revived(x)' = Revived(x) /\ Missed(x)' = Missed(x)
      BY <2>2 DEF Launched, Coming, Revived, Missed
    <3>5. Launched(x) \in Nat /\ Coming(x) \in Nat /\ Revived(x) \in Nat /\ Missed(x) \in Nat
      BY DEF Launched, Coming, Revived, Missed, One
    <3>6. Chances(x)' <= Chances(x) - 1
      BY <3>3, <3>4, <3>5 DEF Chances
    <3> QED BY <1>0, <2>2, <3>2, <3>6 DEF Spent
  <2> QED BY <2>5, <2>6
<1>3. ASSUME NEW r \in Takers, BindCommit(r)
      PROVE  IsFiniteSet(Owe(x)') /\ Spent(x) \in Nat /\ Spent(x)' \in Nat /\ Spent(x)' <= Spent(x) /\ ~LaunchSend
  <2>1. /\ takers[r].pc = "binding" /\ TakerTo(r, "bound") /\ MachineOf(r) \in Machines
        /\ served' = [served EXCEPT ![MachineOf(r)] = served[MachineOf(r)] + 1] /\ launch' = launch
    BY <1>3, RequestFits DEF BindCommit, Fits, InHands, MachineOf
  <2>2. takers'[r].pc = "bound" /\ \A q \in Takers : q # r => takers'[q] = takers[q]
    BY <1>0, <2>1 DEF TakerTo, Requests
  <2>3. ~LaunchSend
    BY <1>0, <2>1, <2>2 DEF LaunchSend
  <2>4. CASE MachineOf(r) # x
    <3>1. Owe(x)' \subseteq Owe(x)
      BY <2>2 DEF Owe, MachineOf
    <3>2. PICK a \in Nat, b \in Nat : /\ a = Cardinality(Owe(x)) /\ b = Cardinality(Owe(x)') /\ b <= a
                                     /\ IsFiniteSet(Owe(x)')
      BY <3>1, Fewer
    <3>3. served'[x] = served[x] /\ served[x] \in Nat
      BY <1>0, <2>1, <2>4
    <3> QED BY <2>3, <3>2, <3>3 DEF Spent
  <2>5. CASE MachineOf(r) = x
    <3>1. r \in Owe(x) /\ Owe(x)' \subseteq Owe(x) \ {r}
      BY <2>1, <2>2, <2>5 DEF Owe, MachineOf
    <3>2. PICK a \in Nat, b \in Nat : /\ a = Cardinality(Owe(x)) /\ b = Cardinality(Owe(x)') /\ b + 1 <= a
                                     /\ IsFiniteSet(Owe(x)')
      BY <3>1, OneLess
    <3>3. served'[x] = served[x] + 1 /\ served[x] \in Nat
      BY <1>0, <2>1, <2>5
    <3> QED BY <2>3, <3>2, <3>3 DEF Spent
  <2> QED BY <2>4, <2>5
<1>4. ASSUME NEW r \in Takers,
             BindNone(r) \/ BindRead(r) \/ BindMark(r) \/ Assign(r) \/ GiveUp(r) \/ TakerDies(r)
             \/ \E u \in Users : Take(r, u)
      PROVE  IsFiniteSet(Owe(x)') /\ Spent(x) \in Nat /\ Spent(x)' \in Nat /\ Spent(x)' <= Spent(x) /\ ~LaunchSend
  <2>1. UNCHANGED <<served, launch>>
    BY <1>4 DEF BindNone, BindRead, BindMark, Assign, GiveUp, TakerDies, Take, ghost
  <2>2. \A q \in Takers : q # r => takers'[q] = takers[q]
    BY <1>0, <1>4 DEF BindNone, BindRead, BindMark, Assign, GiveUp, TakerDies, Take, TakerTo,
           Requests
  <2>3. \/ takers'[r].pc \notin {"popped", "binding"}
        \/ takers[r].pc = "popped" /\ takers'[r].machine = takers[r].machine
    BY <1>0, <1>4 DEF BindNone, BindRead, BindMark, Assign, GiveUp, TakerDies, Take, TakerTo,
           NoTake, Requests
  <2>4. Owe(x)' \subseteq Owe(x)
    BY <2>2, <2>3 DEF Owe, MachineOf
  <2>5. ~LaunchSend
    BY <1>0, <2>1 DEF LaunchSend, LaunchTo, Typed, TypeOK
  <2> QED BY <1>a, <2>1, <2>4, <2>5
<1>5. ASSUME LaunchSend
      PROVE  /\ IsFiniteSet(Owe(x)') /\ Spent(x) \in Nat /\ Spent(x)' \in Nat
             /\ \/ Spent(x)' <= Spent(x) /\ launch.machine # x
                \/ Spent(x)' <= Spent(x) + 1 /\ Chances(x)' <= Chances(x) - 1
  <2>1. launch.machine \in Machines /\ launch.pc = "occupied" /\ UNCHANGED <<takers, idle, daemon, beat, key>>
    BY <1>5 DEF LaunchSend, Typed, Handed, remote
  <2>2. Owe(x)' \subseteq Owe(x)
    BY <2>1 DEF Owe, MachineOf
  <2>3. PICK a \in Nat, b \in Nat : /\ a = Cardinality(Owe(x)) /\ b = Cardinality(Owe(x)') /\ b <= a
                                   /\ IsFiniteSet(Owe(x)')
    BY <2>2, Fewer
  <2>4. CASE launch.machine # x
    <3>1. served'[x] = served[x] /\ served[x] \in Nat
      BY <1>0, <1>5, <2>1, <2>4 DEF LaunchSend
    <3> QED BY <2>3, <2>4, <3>1 DEF Spent
  <2>5. CASE launch.machine = x
    <3>1. served'[x] = served[x] + 1 /\ served[x] \in Nat
      BY <1>0, <1>5, <2>1, <2>5 DEF LaunchSend
    <3>2. launch'.pc = "sent"
      BY <1>5 DEF LaunchSend, LaunchTo, Typed, TypeOK
    <3>3. Launched(x) = 1 /\ Launched(x)' = 0
      BY <2>1, <2>5, <3>2 DEF Launched, One
    <3>4. Listed(x)' = Listed(x) /\ Coming(x)' = Coming(x) /\ Revived(x)' = Revived(x) /\ Missed(x)' = Missed(x)
      BY <2>1 DEF Listed, Coming, Revived, Missed
    <3>5. Listed(x) \in Nat /\ Coming(x) \in Nat /\ Revived(x) \in Nat /\ Missed(x) \in Nat
      BY DEF Listed, Coming, Revived, Missed, One
    <3>6. Chances(x)' <= Chances(x) - 1
      BY <3>3, <3>4, <3>5 DEF Chances
    <3> QED BY <2>3, <3>1, <3>6 DEF Spent
  <2> QED BY <2>4, <2>5
<1>6. ASSUME NEW m \in Machines,
             \/ RegisterRow(m) \/ RegisterRedis(m) \/ Registered(m) \/ JobEnds(m) \/ Expire(m)
             \/ Beat(m) \/ BeatFound(m) \/ ReviveRead(m) \/ ReviveSet(m) \/ ReviveList(m)
             \/ PollStart(m) \/ PollFrames(m) \/ PollLost(m) \/ PollEmpty(m) \/ Destroy(m)
             \/ Revoke(m) \/ CloseLease(m) \/ ForgetRedis(m) \/ ForgetRow(m) \/ Reap(m)
             \/ CloseStray(m)
      PROVE  UNCHANGED <<takers, served>> /\ ~LaunchSend
  BY <1>6 DEF RegisterRow, RegisterRedis, Registered, JobEnds, Expire, Beat, BeatFound, ReviveRead,
         ReviveSet, ReviveList, PollStart, PollFrames, PollLost, PollEmpty, Destroy, Revoke,
         CloseLease, ForgetRedis, ForgetRow, Reap, CloseStray, procs, ghost, LaunchSend, LaunchTo,
         Typed, TypeOK
<1>7. ASSUME
             \/ Vanished \/ LaunchGrab \/ LaunchJit \/ OccupyMark \/ OccupyRow \/ LaunchStarted
             \/ LaunchFails \/ RunnerEnds \/ LaunchDies \/ Flush
             \/ (\E u \in Users : QueueExpires(u)) \/ UNCHANGED vars
      PROVE  UNCHANGED <<takers, served>> /\ ~LaunchSend
  BY <1>7 DEF Vanished, LaunchGrab, LaunchJit, OccupyMark, OccupyRow, LaunchStarted, LaunchFails,
         RunnerEnds, LaunchDies, Flush, QueueExpires, vars, procs, ghost, LaunchSend, LaunchTo,
         NoLaunch, Typed, TypeOK
<1> QED
  BY <1>1, <1>2, <1>3, <1>4, <1>5, <1>6, <1>7
  DEF Next, Daemon, Beating, Killing, Taking, Launching

\* What was spent on a machine and its chances stay within the faults.
LEMMA BudgetStep == Typed /\ Fresh /\ Budget /\ [Next]_vars => Budget'
<1> SUFFICES ASSUME Typed, Fresh, Budget, [Next]_vars PROVE Budget'
  OBVIOUS
<1>1. SUFFICES ASSUME NEW x \in Machines
               PROVE  IsFiniteSet(Owe(x)') /\ (Calm(x)' => Spent(x)' + Chances(x)' <= 1 + faults')
  BY DEF Budget
<1>2. IsFiniteSet(Owe(x)) /\ (Calm(x) => Spent(x) + Chances(x) <= 1 + faults)
  BY DEF Budget
<1>3. /\ IsFiniteSet(Owe(x)')
      /\ Spent(x) \in Nat /\ Spent(x)' \in Nat
      /\ \/ Spent(x)' <= Spent(x) /\ ~(LaunchSend /\ launch.machine = x)
         \/ Spent(x)' <= Spent(x) + 1 /\ (Chances(x)' <= Chances(x) - 1)
  BY <1>2, SpentStep
<1>4. ASSUME Calm(x)' PROVE Spent(x)' + Chances(x)' <= 1 + faults'
  <2>1. Calm(x)
    BY <1>4, CalmStays
  <2>2. Cheap(x) \/ (LaunchSend /\ launch.machine = x)
    BY <1>4, <2>1, ChancesStep
  <2>3. faults \in Nat /\ faults' \in Nat /\ faults <= faults'
    BY FaultsGrow
  <2>4. PICK c \in Nat, d \in Nat : c = Chances(x) /\ d = Chances(x)'
    BY DEF Chances, Listed, Launched, Coming, Revived, Missed, One
  <2> QED BY <1>2, <1>3, <2>1, <2>2, <2>3, <2>4 DEF Cheap
<1> QED BY <1>3, <1>4

-----------------------------------------------------------------------------
(* The theorems.                                                           *)

\* The inductive invariant.
PoolIInv == Typed /\ Fresh /\ Placed /\ Offered /\ Budget

\* All of it holds of a pool that has no machine yet.
LEMMA PoolInit == Init => PoolIInv
<1> SUFFICES ASSUME Init PROVE PoolIInv
  OBVIOUS
<1>0. MaxFaults \in Nat /\ Nobody \notin Machines /\ Nobody \notin Users /\ Limit \in Nat \ {0} /\ 0 \in 0..Limit /\ 0 \in 0..MaxFaults
  BY PoolAssumption
<1>1. Typed
  <2>1. TypeOK
    BY <1>0 DEF Init, TypeOK, NoTake, NoLaunch
  <2>2. Handed
    BY <1>0 DEF Init, Handed, NoTake, NoLaunch, Holding, MachineOf
  <2> QED BY <2>1, <2>2 DEF Typed
<1>2. \A m \in Machines : ~InHand(m)
  BY <1>0 DEF Init, InHand, Holding, MachineOf, NoTake, NoLaunch
<1>3. Fresh
  BY <1>2 DEF Init, Fresh
<1>4. Placed
  BY DEF Init, Placed, NoTake, NoLaunch
<1>5. Offered
  BY DEF Init, Offered
<1>6. Budget
  <2>1. SUFFICES ASSUME NEW x \in Machines PROVE IsFiniteSet(Owe(x)) /\ Spent(x) + Chances(x) <= 1 + faults
    BY DEF Budget
  <2>2. Owe(x) = {}
    BY DEF Init, Owe, NoTake
  <2>3. IsFiniteSet(Owe(x)) /\ Cardinality(Owe(x)) = 0
    BY <2>2, FS_EmptySet
  <2>4. Spent(x) = 0 /\ faults = 0
    BY <2>3 DEF Init, Spent
  <2>5. Listed(x) = 0 /\ Launched(x) = 0 /\ Coming(x) = 1 /\ Revived(x) = 0 /\ Missed(x) = 0
    BY <1>0 DEF Init, Listed, Launched, Coming, Revived, Missed, One, NoLaunch
  <2> QED BY <2>3, <2>4, <2>5 DEF Chances
<1> QED BY <1>1, <1>3, <1>4, <1>5, <1>6 DEF PoolIInv

\* What holds of a machine wherever it is between the daemon, Redis and its row.
THEOREM Invariance == Spec => []PoolIInv
<1>1. PoolIInv /\ [Next]_vars => PoolIInv'
  BY TypedStep, FreshStep, PlacedStep, OfferedStep, BudgetStep DEF PoolIInv
<1> QED BY <1>1, PoolInit, PTL DEF Spec

\* ServesOnce: a machine that nobody destroys serves once, and once more only for
\* a fault.
THEOREM ServesOnceCorrect == Spec => []ServesOnce
<1>1. PoolIInv => ServesOnce
  <2> SUFFICES ASSUME PoolIInv, NEW m \in Machines, Live(m), killer[m] = "none"
               PROVE  served[m] <= 1 + faults
    BY DEF ServesOnce
  <2>1. IsFiniteSet(Owe(m)) /\ Spent(m) + Chances(m) <= 1 + faults
    BY DEF PoolIInv, Budget, Calm, Live
  <2>2. PICK a \in Nat : a = Cardinality(Owe(m))
    BY <2>1, FS_CardinalityType
  <2>3. PICK c \in Nat : c = Chances(m)
    BY ChancesNat
  <2>4. served[m] \in Nat /\ faults \in Nat
    BY PoolAssumption DEF PoolIInv, Typed, TypeOK
  <2> QED BY <2>1, <2>2, <2>3, <2>4 DEF Spent
<1> QED BY <1>1, Invariance, PTL

\* OffersAreTrue: an idle machine that beats is on offer, and every variable keeps
\* its range.
THEOREM OffersCorrect == Spec => []OffersAreTrue
<1>1. PoolIInv => OffersAreTrue
  BY DEF PoolIInv, Typed, Offered, OffersAreTrue, IdleIsOffered
<1> QED BY <1>1, Invariance, PTL
=============================================================================
