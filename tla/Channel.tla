------------------------------- MODULE Channel -------------------------------
(***************************************************************************)
(* The command channel of one machine: the server pushes a command into    *)
(* the machine's inbox in Redis and waits for its frames; the daemon on    *)
(* the machine polls the inbox over HTTP, runs the commands one at a time  *)
(* and posts OUTPUT and EXIT frames, which the server files by command.    *)
(*                                                                         *)
(* Sources: pool/channel.py, api/routes/machines.py, machine/daemon.py,    *)
(* api/routes/cli/pool.py (run, job, cancel), pool/leases.py (_busy).      *)
(*                                                                         *)
(* A command's output is one frame.  The inbox is a set: what is popped    *)
(* from it goes to threads that race for a lock.  A CANCEL frame is not in *)
(* it, since the daemon dispatches none.  The ttl of an hour on the lists  *)
(* of Redis and the cap on the size of an output are left out; so is the   *)
(* release of the machine, which Pool models.                              *)
(***************************************************************************)
EXTENDS Naturals, Sequences, FiniteSets, SequenceTheorems, TLAPS

CONSTANTS
    Commands,
    None,
    Watched,    \* bound of the model: commands that jobs and cancel are asked for
    Retries,    \* posts of a batch before it is given up: 5 in _sender
    MaxFaults   \* bound of the model: broken connections, lapses and deaths

ASSUME ChannelAssumption ==
    /\ None \notin Commands
    /\ Watched \subseteq Commands
    /\ Retries \in Nat \ {0} /\ MaxFaults \in Nat

VARIABLES
    inbox,      \* commands in the machine's inbox
    stray,      \* a pull works on whose connection is broken
    thread,     \* the daemon's thread of each command
    queue,      \* Daemon.outbox
    batch,      \* what the sender is posting
    tries,      \* posts of the batch so far
    posts,      \* posts on their way to, or in, their handler
    row,        \* PoolCommand.status, "none" before the row exists
    out,        \* of each command: its outbox in Redis
    log,        \* commands whose output is in the log in Redis
    pc,         \* of each command: who collects its frames
    canceller,  \* of each command: the request to cancel it
    alive,      \* the machine's key exists
    up,         \* the machine runs
    stale,      \* commands in a post the machine has not been answered
    dropped,    \* commands in a batch the machine gave up
    faults

machineVars == <<thread, queue, batch, tries, dropped>>
collectVars == <<log, pc, canceller>>
vars == <<inbox, stray, machineVars, posts, row, out, collectVars, alive, up, stale, faults>>

Roles == {"main", "waiter"}     \* run or drain, and a request for the job
Kinds == {"output", "exit"}
Frames == Kinds \X Commands
Posts == [frames : SUBSET Frames, at : Commands \cup {None}, try : 1..Retries, awaited : BOOLEAN]

Rows == {"none", "queued", "running", "done", "failed", "lost", "cancelled"}
Threads == {"none", "waiting", "running", "output", "ended", "killed"}
Active == {"popping", "remember", "exit", "lost", "late"}
Places == {"none", "sent", "cancelled", "over", "dead"} \cup Active

TypeOK ==
    /\ inbox \subseteq Commands
    /\ stray \in BOOLEAN
    /\ thread \in [Commands -> Threads]
    /\ queue \subseteq Frames /\ batch \subseteq Frames
    /\ tries \in 0..Retries
    /\ posts \subseteq Posts
    /\ \A p, q \in posts : p.awaited /\ q.awaited => p = q
    /\ row \in [Commands -> Rows]
    /\ out \in [Commands -> Seq(Kinds)]
    /\ log \subseteq Commands
    /\ pc \in [Commands -> [Roles -> Places]]
    /\ canceller \in [Commands -> {"none", "tell", "mark", "over"}]
    /\ alive \in BOOLEAN /\ up \in BOOLEAN
    /\ stale \subseteq Commands /\ dropped \subseteq Commands
    /\ faults \in 0..MaxFaults

Init ==
    /\ inbox = {}
    /\ stray = FALSE
    /\ thread = [c \in Commands |-> "none"]
    /\ queue = {} /\ batch = {}
    /\ tries = 0
    /\ posts = {}
    /\ row = [c \in Commands |-> "none"]
    /\ out = [c \in Commands |-> <<>>]
    /\ log = {}
    /\ pc = [c \in Commands |-> [k \in Roles |-> "none"]]
    /\ canceller = [c \in Commands |-> "none"]
    /\ alive = TRUE /\ up = TRUE
    /\ stale = {} /\ dropped = {}
    /\ faults = 0

Fault == faults < MaxFaults /\ faults' = faults + 1

\* PoolCommand.status := s, if the row exists.
Write(c, s) == row' = [row EXCEPT ![c] = IF @ = "none" THEN @ ELSE s]

-----------------------------------------------------------------------------
(* send, collect, drain; the routes run, job and cancel.                   *)

Move(c, k, from, to) == pc[c][k] = from /\ pc' = [pc EXCEPT ![c][k] = to]

\* send: the frame is pushed before the row is stored.
Send(c) ==
    /\ Move(c, "main", "none", "sent")
    /\ inbox' = inbox \cup {c}
    /\ UNCHANGED <<stray, machineVars, posts, row, out, log, canceller, alive, up, stale, faults>>

Store(c) ==
    /\ Move(c, "main", "sent", "popping")
    /\ row' = [row EXCEPT ![c] = "queued"]
    /\ UNCHANGED <<inbox, stray, machineVars, posts, out, log, canceller, alive, up, stale, faults>>

\* job with wait: one more collector, with a time limit of its own.
Wait(c) ==
    /\ c \in Watched
    /\ row[c] \in {"queued", "running", "cancelled"}
    /\ Move(c, "waiter", "none", "popping")
    /\ UNCHANGED <<inbox, stray, machineVars, posts, row, out, log, canceller, alive, up, stale, faults>>

\* BLPOP.
Pop(c, k) ==
    /\ out[c] # <<>>
    /\ Move(c, k, "popping", IF Head(out[c]) = "output" THEN "remember" ELSE "exit")
    /\ out' = [out EXCEPT ![c] = Tail(@)]
    /\ UNCHANGED <<inbox, stray, machineVars, posts, row, log, canceller, alive, up, stale, faults>>

\* Mutant: only the first collector writes the log.
RememberMain(c, k) ==
    /\ Move(c, k, "remember", "popping")
    /\ log' = IF k = "main" THEN log \cup {c} ELSE log
    /\ UNCHANGED <<inbox, stray, machineVars, posts, row, out, canceller, alive, up, stale, faults>>

Remember(c, k) ==
    /\ Move(c, k, "remember", "popping")
    /\ log' = log \cup {c}
    /\ UNCHANGED <<inbox, stray, machineVars, posts, row, out, canceller, alive, up, stale, faults>>

\* BLPOP found nothing and the machine's key is gone.
SeesDead(c, k) ==
    /\ out[c] = <<>>
    /\ ~alive
    /\ Move(c, k, "popping", "lost")
    /\ UNCHANGED <<inbox, stray, machineVars, posts, row, out, log, canceller, alive, up, stale, faults>>

\* The limit of the command, counted from its sending, and ten seconds.
TimesOut(c, k) ==
    /\ Move(c, k, "popping", "late")
    /\ UNCHANGED <<inbox, stray, machineVars, posts, row, out, log, canceller, alive, up, stale, faults>>

\* Mutant: a collector whose time is up reports what it has as the answer.
VerdictEager(place) ==
    CASE place = "exit" -> "done" [] place = "lost" -> "lost"
      [] place = "late" -> "done" [] place = "cancelled" -> "cancelled"

Verdict(place) ==
    CASE place = "exit" -> "done" [] place = "lost" -> "lost"
      [] place = "late" -> "failed" [] place = "cancelled" -> "cancelled"

\* Mutant: a machine that died leaves the row as it is.
FinishUnlessLost(c, k) ==
    /\ pc[c][k] \in {"exit", "lost", "late", "cancelled"}
    /\ IF pc[c][k] = "lost" THEN UNCHANGED row ELSE Write(c, Verdict(pc[c][k]))
    /\ pc' = [pc EXCEPT ![c][k] = IF @ = "cancelled" THEN "dead" ELSE "over"]
    /\ UNCHANGED <<inbox, stray, machineVars, posts, out, log, canceller, alive, up, stale, faults>>

\* _finish, whatever another collector or a request has written before.
Finish(c, k) ==
    /\ pc[c][k] \in {"exit", "lost", "late", "cancelled"}
    /\ Write(c, Verdict(pc[c][k]))
    /\ pc' = [pc EXCEPT ![c][k] = IF @ = "cancelled" THEN "dead" ELSE "over"]
    /\ UNCHANGED <<inbox, stray, machineVars, posts, out, log, canceller, alive, up, stale, faults>>

\* The process stops, and cancels the task, or is killed.
CollectorStops(c, k) ==
    /\ Fault
    /\ \/ pc[c][k] \in Active /\ pc' = [pc EXCEPT ![c][k] = "cancelled"]
       \/ pc[c][k] \in Active \cup {"sent"} /\ pc' = [pc EXCEPT ![c][k] = "dead"]
    /\ UNCHANGED <<inbox, stray, machineVars, posts, row, out, log, canceller, alive, up, stale>>

\* cancel of a job that is not done, failed or lost.
CancelRead(c) ==
    /\ c \in Watched
    /\ canceller[c] = "none"
    /\ row[c] \in {"queued", "running", "cancelled"}
    /\ canceller' = [canceller EXCEPT ![c] = "tell"]
    /\ UNCHANGED <<inbox, stray, machineVars, posts, row, out, log, pc, alive, up, stale, faults>>

\* The CANCEL frame, which the daemon throws away.
CancelTell(c) ==
    /\ canceller[c] = "tell"
    /\ canceller' = [canceller EXCEPT ![c] = "mark"]
    /\ UNCHANGED <<inbox, stray, machineVars, posts, row, out, log, pc, alive, up, stale, faults>>

CancelMark(c) ==
    /\ canceller[c] = "mark"
    /\ canceller' = [canceller EXCEPT ![c] = "over"]
    /\ Write(c, "cancelled")
    /\ UNCHANGED <<inbox, stray, machineVars, posts, out, log, pc, alive, up, stale, faults>>

-----------------------------------------------------------------------------
(* The poll: route commands, pull, _loop and _dispatch.                    *)

\* Mutant: pull reads the frames and removes them later.
PollPeeks ==
    /\ up /\ inbox # {}
    /\ inbox' \in {{}, inbox}
    /\ thread' = [c \in Commands |-> IF c \in inbox THEN "waiting" ELSE thread[c]]
    /\ UNCHANGED <<stray, queue, batch, tries, dropped, posts, row, out, collectVars, alive, up, stale, faults>>

\* The frames are popped, answered and given a thread each.
Poll ==
    /\ up /\ inbox # {}
    /\ inbox' = {}
    /\ thread' = [c \in Commands |-> IF c \in inbox THEN "waiting" ELSE thread[c]]
    /\ UNCHANGED <<stray, queue, batch, tries, dropped, posts, row, out, collectVars, alive, up, stale, faults>>

\* The connection of a poll breaks.  The daemon polls again; the handler of
\* the old poll goes on.
PollBreaks ==
    /\ up
    /\ Fault
    /\ stray' = TRUE
    /\ UNCHANGED <<inbox, machineVars, posts, row, out, collectVars, alive, up, stale>>

\* It pops frames and answers nobody.
StrayPops ==
    /\ stray
    /\ inbox # {}
    /\ inbox' = {}
    /\ stray' = FALSE
    /\ UNCHANGED <<machineVars, posts, row, out, collectVars, alive, up, stale, faults>>

StrayEnds ==
    /\ stray
    /\ stray' = FALSE
    /\ UNCHANGED <<inbox, machineVars, posts, row, out, collectVars, alive, up, stale, faults>>

-----------------------------------------------------------------------------
(* _execute, one thread at a time.                                         *)

Acquire(c) ==
    /\ thread[c] = "waiting"
    /\ \A d \in Commands : thread[d] \notin {"running", "output"}
    /\ thread' = [thread EXCEPT ![c] = "running"]
    /\ UNCHANGED <<inbox, stray, queue, batch, tries, dropped, posts, row, out, collectVars, alive, up, stale, faults>>

\* The process is over, or was killed at its limit: outbox.put of its output,
\* then of its exit code.
PutOutput(c) ==
    /\ thread[c] = "running"
    /\ thread' = [thread EXCEPT ![c] = "output"]
    /\ queue' = queue \cup {<<"output", c>>}
    /\ UNCHANGED <<inbox, stray, batch, tries, dropped, posts, row, out, collectVars, alive, up, stale, faults>>

PutExit(c) ==
    /\ thread[c] = "output"
    /\ thread' = [thread EXCEPT ![c] = "ended"]
    /\ queue' = queue \cup {<<"exit", c>>}
    /\ UNCHANGED <<inbox, stray, batch, tries, dropped, posts, row, out, collectVars, alive, up, stale, faults>>

-----------------------------------------------------------------------------
(* _sender, and the route output.                                          *)

Of(frames) == {f[2] : f \in frames}

Gather ==
    /\ up /\ batch = {} /\ queue # {}
    /\ batch' = queue
    /\ queue' = {}
    /\ tries' = 0
    /\ UNCHANGED <<inbox, stray, thread, dropped, posts, row, out, collectVars, alive, up, stale, faults>>

Post ==
    /\ up /\ batch # {}
    /\ tries < Retries
    /\ \A p \in posts : ~p.awaited
    /\ tries' = tries + 1
    /\ posts' = posts \cup {[frames |-> batch, at |-> None, try |-> tries + 1, awaited |-> TRUE]}
    /\ UNCHANGED <<inbox, stray, thread, queue, batch, dropped, row, out, collectVars, alive, up, stale, faults>>

\* The call raises: the post is lost, before, in or after its handler, or
\* goes on unheard.  After the last try the batch is given up.
PostFails(p) ==
    /\ p.awaited
    /\ Fault
    /\ stale' = stale \cup Of(batch)
    /\ posts' \in {posts \ {p}, (posts \ {p}) \cup {[p EXCEPT !.awaited = FALSE]}}
    /\ IF tries < Retries
          THEN UNCHANGED <<batch, dropped>>
          ELSE batch' = {} /\ dropped' = dropped \cup Of(batch)
    /\ UNCHANGED <<inbox, stray, thread, queue, tries, row, out, collectVars, alive, up>>

\* output: the frames of one command after the other; started, if there is
\* output among them.
Begin(p, c) ==
    /\ p.at = None
    /\ c \in Of(p.frames)
    /\ posts' = (posts \ {p}) \cup {[p EXCEPT !.at = c]}
    /\ IF <<"output", c>> \in p.frames THEN Write(c, "running") ELSE UNCHANGED row
    /\ UNCHANGED <<inbox, stray, machineVars, out, collectVars, alive, up, stale, faults>>

Pushed(frames, c) ==
    (IF <<"output", c>> \in frames THEN <<"output">> ELSE <<>>)
        \o (IF <<"exit", c>> \in frames THEN <<"exit">> ELSE <<>>)

\* The next command, or the answer.
Proceed(p) ==
    LET rest == {f \in p.frames : f[2] # p.at} IN
    IF rest # {}
       THEN /\ posts' = (posts \ {p}) \cup {[p EXCEPT !.frames = rest, !.at = None]}
            /\ UNCHANGED batch
       ELSE /\ posts' = posts \ {p}
            /\ batch' = IF p.awaited THEN {} ELSE batch

\* push of the command's frames.
Push(p) ==
    /\ p.at # None
    /\ out' = [out EXCEPT ![p.at] = @ \o Pushed(p.frames, p.at)]
    /\ Proceed(p)
    /\ UNCHANGED <<inbox, stray, thread, queue, tries, dropped, row, collectVars, alive, up, stale, faults>>

Handle(p) == (\E c \in Commands : Begin(p, c)) \/ Push(p)

-----------------------------------------------------------------------------
(* Heartbeats and the end of the machine.                                  *)

Beat ==
    /\ up /\ ~alive
    /\ alive' = TRUE
    /\ UNCHANGED <<inbox, stray, machineVars, posts, row, out, collectVars, up, stale, faults>>

\* The key expires: the machine is dead, or its heartbeats do not get through.
Lapse ==
    /\ alive
    /\ IF up THEN Fault ELSE UNCHANGED faults
    /\ alive' = FALSE
    /\ UNCHANGED <<inbox, stray, machineVars, posts, row, out, collectVars, up, stale>>

Die ==
    /\ up
    /\ Fault
    /\ up' = FALSE
    /\ thread' = [c \in Commands |->
          IF thread[c] \in {"waiting", "running", "output"} THEN "killed" ELSE thread[c]]
    /\ queue' = {} /\ batch' = {}
    /\ posts' = {[p EXCEPT !.awaited = FALSE] : p \in posts}
    /\ dropped' = dropped \cup Of(queue \cup batch)
    /\ UNCHANGED <<inbox, stray, tries, row, out, collectVars, alive, stale>>

Collect(c, k) ==
    Pop(c, k) \/ Remember(c, k) \/ SeesDead(c, k) \/ TimesOut(c, k) \/ Finish(c, k)

Execute(c) == Acquire(c) \/ PutOutput(c) \/ PutExit(c)

Next ==
    \/ \E c \in Commands :
        \/ Send(c) \/ Store(c) \/ Wait(c) \/ Execute(c)
        \/ CancelRead(c) \/ CancelTell(c) \/ CancelMark(c)
        \/ \E k \in Roles : Collect(c, k) \/ CollectorStops(c, k)
    \/ \E p \in posts : Handle(p) \/ PostFails(p)
    \/ Poll \/ PollBreaks \/ StrayPops \/ StrayEnds \/ Gather \/ Post
    \/ Beat \/ Lapse \/ Die

Spec == Init /\ [][Next]_vars

\* Tasks, handlers and threads go on; programs end, at their limit at the
\* latest; time passes.
FairSpec ==
    /\ Spec
    /\ WF_vars(Poll) /\ WF_vars(Gather \/ Post) /\ WF_vars(\E p \in posts : Handle(p))
    /\ \A c \in Commands :
        /\ WF_vars(Store(c)) /\ WF_vars(Execute(c))
        /\ \A k \in Roles : WF_vars(Collect(c, k))

-----------------------------------------------------------------------------
(* Properties.                                                             *)

\* A command is never started a second time, whatever is retried.
StartedOnce ==
    [][\A c \in Commands : thread[c] \notin {"none", "waiting"} => thread'[c] # "waiting"]_vars

\* docs/pool.md: a broken connection loses nothing.  What was sent to a machine
\* that is up waits for it in Redis or has reached it.
FramesAreKept ==
    \A c \in Commands : (up /\ pc[c]["main"] # "none") => c \in inbox \/ thread[c] # "none"

\* done means that the program on the machine has ended: neither a time limit
\* nor a lapse of the heartbeat nor a repeated post reports it early.
DoneIsEarned == \A c \in Commands : row[c] = "done" => thread[c] = "ended"

\* The log of a command that is done has its output, whoever popped which
\* frame, unless the machine gave up its frames or a collector fell.
LogIsWhole ==
    \A c \in Commands :
        (row[c] = "done" /\ c \notin dropped
           /\ \A k \in Roles : pc[c][k] \notin {"remember", "cancelled", "dead"}) => c \in log

\* Alone with its collector, a command that is done stays done: no handler
\* marks it as running once its exit can be seen.
DoneIsFinal ==
    [][\A c \in Commands :
          (row[c] = "done" /\ pc[c]["waiter"] = "none" /\ canceller[c] = "none" /\ c \notin stale)
              => row'[c] = "done"]_vars

\* A command that is queued gets a verdict, or its collector fell.
EveryCommandSettles ==
    \A c \in Commands : row[c] = "queued" ~>
        (row[c] \in {"done", "failed", "lost", "cancelled"} \/ pc[c]["main"] \in {"cancelled", "dead"})

-----------------------------------------------------------------------------
(* Proofs: a command is started once; done is said only of a program that  *)
(* has ended, is final, and comes with the whole log.                      *)

USE ChannelAssumption

-----------------------------------------------------------------------------
(* The groups of a post.                                                   *)

\* What Of says of a set of frames.
LEMMA OfFrames ==
    ASSUME NEW frames \in SUBSET Frames, NEW c \in Commands
    PROVE c \in Of(frames) <=> (<<"output", c>> \in frames \/ <<"exit", c>> \in frames)
BY DEF Of, Frames, Kinds

\* Commands of frames are commands.
LEMMA OfCommands ==
    ASSUME NEW frames \in SUBSET Frames
    PROVE Of(frames) \subseteq Commands
BY DEF Of, Frames, Kinds

\* What is pushed for a command is a sequence of kinds.
LEMMA PushedType ==
    ASSUME NEW frames, NEW c
    PROVE Pushed(frames, c) \in Seq(Kinds)
BY DEF Pushed, Kinds

\* Begin and the ways a post ends or goes on unheard keep its frames.
At(p, c) == [p EXCEPT !.at = c]
Unheard(p) == [p EXCEPT !.awaited = FALSE]

\* Disowning a post does not touch its frames.
LEMMA UnheardParts ==
    ASSUME NEW p \in Posts
    PROVE /\ Unheard(p) \in Posts /\ Unheard(p).frames = p.frames
          /\ Unheard(p).awaited = FALSE /\ Unheard(p).at = p.at
BY DEF Posts, Unheard

\* Neither does saying at which command its handler is.
LEMMA PostParts ==
    ASSUME NEW p \in Posts, NEW c \in Commands
    PROVE /\ At(p, c) \in Posts /\ At(p, c).frames = p.frames
          /\ At(p, c).awaited = p.awaited /\ At(p, c).at = c
          /\ Unheard(p) \in Posts /\ Unheard(p).frames = p.frames
          /\ ~Unheard(p).awaited /\ Unheard(p).at = p.at
<1>1. /\ At(p, c) \in Posts /\ At(p, c).frames = p.frames
      /\ At(p, c).awaited = p.awaited /\ At(p, c).at = c
  BY DEF Posts, At
<1> QED BY <1>1, UnheardParts, Zenon

-----------------------------------------------------------------------------
\* Every variable keeps the type TypeOK gives it.
THEOREM TypeCorrect == Spec => []TypeOK
<1> USE DEF TypeOK
<1>1. Init => TypeOK
  <2> SUFFICES ASSUME Init PROVE TypeOK
    OBVIOUS
  <2>1. stray \in BOOLEAN /\ alive \in BOOLEAN /\ up \in BOOLEAN
    BY Zenon DEF Init
  <2>2. pc \in [Commands -> [Roles -> Places]]
    BY DEF Init, Places
  <2>3. out \in [Commands -> Seq(Kinds)]
    BY DEF Init
  <2> QED BY <2>1, <2>2, <2>3 DEF Init, Rows, Threads
<1>2. TypeOK /\ [Next]_vars => TypeOK'
  <2> SUFFICES ASSUME TypeOK, [Next]_vars PROVE TypeOK'
    OBVIOUS
  <2> USE DEF machineVars, collectVars
  <2>1. ASSUME NEW c \in Commands, Send(c) \/ Store(c) \/ Wait(c) PROVE TypeOK'
    <3> USE DEF Move, Places, Active
    <3>1. CASE Send(c) BY <3>1 DEF Send
    <3>2. CASE Store(c) BY <3>2 DEF Store, Rows
    <3>3. CASE Wait(c) BY <3>3 DEF Wait
    <3> QED BY <2>1, <3>1, <3>2, <3>3
  <2>2. ASSUME NEW c \in Commands, Execute(c) PROVE TypeOK'
    <3>1. CASE Acquire(c) BY <3>1 DEF Acquire, Threads
    <3>2. CASE PutOutput(c) BY <3>2 DEF PutOutput, Threads, Frames, Kinds
    <3>3. CASE PutExit(c) BY <3>3 DEF PutExit, Threads, Frames, Kinds
    <3> QED BY <2>2, <3>1, <3>2, <3>3 DEF Execute
  <2>3. ASSUME NEW c \in Commands, CancelRead(c) \/ CancelTell(c) \/ CancelMark(c) PROVE TypeOK'
    BY <2>3 DEF CancelRead, CancelTell, CancelMark, Write, Rows
  <2>4. ASSUME NEW c \in Commands, NEW k \in Roles, Collect(c, k) PROVE TypeOK'
    <3> USE DEF Move, Places, Active
    <3>1. CASE Pop(c, k)
      <4>1. Tail(out[c]) \in Seq(Kinds) BY <3>1 DEF Pop
      <4> QED BY <3>1, <4>1 DEF Pop
    <3>2. CASE Remember(c, k) BY <3>2 DEF Remember
    <3>3. CASE SeesDead(c, k) BY <3>3 DEF SeesDead
    <3>4. CASE TimesOut(c, k) BY <3>4 DEF TimesOut
    <3>5. CASE Finish(c, k) BY <3>5 DEF Finish, Write, Verdict, Rows
    <3> QED BY <2>4, <3>1, <3>2, <3>3, <3>4, <3>5 DEF Collect
  <2>5. ASSUME NEW c \in Commands, NEW k \in Roles, CollectorStops(c, k) PROVE TypeOK'
    <3>1. faults' \in 0..MaxFaults BY <2>5 DEF CollectorStops, Fault
    <3>2. pc' \in [Commands -> [Roles -> Places]]
      <4>1. pc' = [pc EXCEPT ![c][k] = "cancelled"] \/ pc' = [pc EXCEPT ![c][k] = "dead"]
        BY <2>5 DEF CollectorStops
      <4>2. "cancelled" \in Places /\ "dead" \in Places BY DEF Places
      <4>3. pc \in [Commands -> [Roles -> Places]] OBVIOUS
      <4> HIDE DEF TypeOK
      <4>4. CASE pc' = [pc EXCEPT ![c][k] = "cancelled"] BY <4>2, <4>3, <4>4
      <4>5. CASE pc' = [pc EXCEPT ![c][k] = "dead"] BY <4>2, <4>3, <4>5
      <4> QED BY <4>1, <4>4, <4>5
    <3> QED BY <2>5, <3>1, <3>2 DEF CollectorStops
  <2>6. ASSUME NEW p \in posts, Handle(p) PROVE TypeOK'
    <3>1. ASSUME NEW c \in Commands, Begin(p, c) PROVE TypeOK'
      <4> p \in Posts OBVIOUS
      <4>1. [p EXCEPT !.at = c] \in Posts BY PostParts, Zenon DEF At
      <4>2. row' \in [Commands -> Rows] BY <3>1 DEF Begin, Write, Rows
      <4>3. posts' = (posts \ {p}) \cup {[p EXCEPT !.at = c]} BY <3>1 DEF Begin
      <4>4. [p EXCEPT !.at = c].awaited = p.awaited BY PostParts, Zenon DEF At
      <4> QED BY <3>1, <4>1, <4>2, <4>3, <4>4 DEF Begin
    <3>2. CASE Push(p)
      <4> DEFINE rest == {f \in p.frames : f[2] # p.at}
                 r == [p EXCEPT !.frames = rest, !.at = None]
      <4>1. p \in Posts /\ p.at \in Commands BY <3>2 DEF Push, Posts
      <4>2. r \in Posts /\ r.awaited = p.awaited BY <4>1 DEF Posts
      <4>3. out[p.at] \o Pushed(p.frames, p.at) \in Seq(Kinds) BY <4>1, PushedType
      <4>4. out' \in [Commands -> Seq(Kinds)] BY <3>2, <4>3 DEF Push
      <4>5. /\ posts' = (posts \ {p}) \cup {r} \/ posts' = posts \ {p}
            /\ batch' = batch \/ batch' = {}
        BY <3>2 DEF Push, Proceed
      <4> HIDE DEF r
      <4>6. posts' \subseteq Posts /\ \A q, s \in posts' : q.awaited /\ s.awaited => q = s
        BY <4>1, <4>2, <4>5
      <4> QED BY <3>2, <4>4, <4>5, <4>6 DEF Push
    <3> QED BY <2>6, <3>1, <3>2 DEF Handle
  <2>7. ASSUME NEW p \in posts, PostFails(p) PROVE TypeOK'
    <3>1. faults' \in 0..MaxFaults BY <2>7 DEF PostFails, Fault
    <3> p \in Posts OBVIOUS
    <3>2. [p EXCEPT !.awaited = FALSE] \in Posts BY UnheardParts, Zenon DEF Unheard
    <3>3. [p EXCEPT !.awaited = FALSE].awaited = FALSE BY UnheardParts, Zenon DEF Unheard
    <3>4. posts' = posts \ {p} \/ posts' = (posts \ {p}) \cup {[p EXCEPT !.awaited = FALSE]}
      BY <2>7 DEF PostFails
    <3>5. posts' \subseteq Posts /\ \A q, s \in posts' : q.awaited /\ s.awaited => q = s
      BY <3>2, <3>3, <3>4
    <3>6. Of(batch) \subseteq Commands BY OfCommands
    <3> QED BY <2>7, <3>1, <3>5, <3>6 DEF PostFails
  <2>8. CASE Poll BY <2>8 DEF Poll, Threads
  <2>9. CASE PollBreaks BY <2>9 DEF PollBreaks, Fault
  <2>10. CASE StrayPops BY <2>10 DEF StrayPops
  <2>11. CASE StrayEnds BY <2>11 DEF StrayEnds
  <2>12. CASE Gather BY <2>12 DEF Gather
  <2>13. CASE Post
    <3> DEFINE new == [frames |-> batch, at |-> None, try |-> tries + 1, awaited |-> TRUE]
    <3>1. tries + 1 \in 1..Retries BY <2>13 DEF Post
    <3>2. new \in Posts BY <3>1 DEF Posts
    <3>3. posts' = posts \cup {new} /\ \A q \in posts : ~q.awaited BY <2>13 DEF Post
    <3> HIDE DEF new
    <3>4. posts' \subseteq Posts /\ \A q, s \in posts' : q.awaited /\ s.awaited => q = s
      BY <3>2, <3>3
    <3>5. tries' \in 0..Retries BY <2>13, <3>1 DEF Post
    <3> QED BY <2>13, <3>4, <3>5 DEF Post
  <2>14. CASE Beat \/ Lapse
    <3>1. alive' \in BOOLEAN BY <2>14, Zenon DEF Beat, Lapse
    <3>2. faults' \in 0..MaxFaults BY <2>14 DEF Beat, Lapse, Fault
    <3> QED BY <2>14, <3>1, <3>2 DEF Beat, Lapse
  <2>15. CASE Die
    <3>1. \A p \in posts : [p EXCEPT !.awaited = FALSE] \in Posts
                          /\ [p EXCEPT !.awaited = FALSE].awaited = FALSE
      <4> TAKE p \in posts
      <4> p \in Posts OBVIOUS
      <4> QED BY UnheardParts, Zenon DEF Unheard
    <3>2. posts' = {[p EXCEPT !.awaited = FALSE] : p \in posts} BY <2>15 DEF Die
    <3>3. posts' \subseteq Posts /\ \A q, s \in posts' : q.awaited /\ s.awaited => q = s
      <4>1. ASSUME NEW q \in posts' PROVE q \in Posts /\ q.awaited = FALSE
        <5>1. PICK p \in posts : q = [p EXCEPT !.awaited = FALSE] BY <3>2
        <5> QED BY <3>1, <5>1
      <4> QED BY <4>1
    <3>4. Of(queue \cup batch) \subseteq Commands BY OfCommands
    <3>5. thread' \in [Commands -> Threads] BY <2>15 DEF Die, Threads
    <3>6. faults' \in 0..MaxFaults BY <2>15 DEF Die, Fault
    <3> QED BY <2>15, <3>3, <3>4, <3>5, <3>6 DEF Die
  <2>16. CASE UNCHANGED vars BY <2>16 DEF vars
  <2> QED BY <2>1, <2>2, <2>3, <2>4, <2>5, <2>6, <2>7, <2>8, <2>9, <2>10, <2>11, <2>12,
             <2>13, <2>14, <2>15, <2>16 DEF Next
<1> QED BY <1>1, <1>2, PTL DEF Spec

-----------------------------------------------------------------------------
(* The inductive invariant.                                                *)

\* A command is in the inbox or has a thread, not both, and neither before it
\* is sent; its row comes after it was sent.
Sent(c) ==
    /\ pc[c]["main"] = "none" => c \notin inbox /\ thread[c] = "none"
    /\ c \in inbox => thread[c] = "none"
    /\ pc[c]["main"] \in {"none", "sent"} => row[c] = "none"

\* The exit of a command has been seen by the server.
Seen(c) ==
    \/ \E i \in 1..Len(out[c]) : out[c][i] = "exit"
    \/ \E k \in Roles : pc[c][k] = "exit"
    \/ row[c] = "done"

\* Wherever the exit of a command is, its program has ended.
Earned(c) ==
    (\/ <<"exit", c>> \in queue \cup batch
     \/ \E p \in posts : <<"exit", c>> \in p.frames
     \/ Seen(c)) => thread[c] = "ended"

-----------------------------------------------------------------------------
(* What a step of a collector does to the places of all collectors.        *)

\* Moving the collector k of c: its place changes, the others stay.
LEMMA PlaceUpdated ==
    ASSUME TypeOK, NEW d \in Commands, NEW k \in Roles, NEW x,
           pc' = [pc EXCEPT ![d][k] = x], NEW c \in Commands, NEW j \in Roles
    PROVE pc'[c][j] = IF c = d /\ j = k THEN x ELSE pc[c][j]
BY DEF TypeOK

\* The end of collector k of d does no more than that.
LEMMA PlaceFinished ==
    ASSUME TypeOK, NEW d \in Commands, NEW k \in Roles, Finish(d, k),
           NEW c \in Commands, NEW j \in Roles
    PROVE pc'[c][j] = IF c = d /\ j = k
                        THEN IF pc[d][k] = "cancelled" THEN "dead" ELSE "over"
                        ELSE pc[c][j]
BY DEF TypeOK, Finish

-----------------------------------------------------------------------------
(* A command is started once.                                              *)

\* Sent holds at first and is kept by every step.
LEMMA SentInvariant == Spec => [](\A c \in Commands : Sent(c))
<1>1. Init => \A c \in Commands : Sent(c)
  BY DEF Init, Sent, Roles
<1>2. TypeOK /\ (\A c \in Commands : Sent(c)) /\ [Next]_vars => (\A c \in Commands : Sent(c))'
  <2> SUFFICES ASSUME TypeOK, \A c \in Commands : Sent(c), [Next]_vars, NEW c \in Commands
               PROVE Sent(c)'
    OBVIOUS
  <2> USE DEF TypeOK, Sent, Roles, machineVars, collectVars
  <2>1. CASE UNCHANGED <<inbox, thread, pc, row>> BY <2>1
  <2>2. ASSUME NEW d \in Commands, Send(d) \/ Store(d) \/ Wait(d) PROVE Sent(c)'
    <3>1. "main" \in Roles /\ "waiter" \in Roles OBVIOUS
    <3>2. CASE Send(d) BY <3>1, <3>2, PlaceUpdated DEF Send, Move
    <3>3. CASE Store(d) BY <3>1, <3>3, PlaceUpdated DEF Store, Move
    <3>4. CASE Wait(d) BY <3>1, <3>4, PlaceUpdated DEF Wait, Move
    <3> QED BY <2>2, <3>2, <3>3, <3>4
  <2>3. ASSUME NEW d \in Commands, Execute(d) PROVE Sent(c)'
    BY <2>3 DEF Execute, Acquire, PutOutput, PutExit
  <2>4. ASSUME NEW d \in Commands, CancelRead(d) \/ CancelTell(d) \/ CancelMark(d) PROVE Sent(c)'
    BY <2>4 DEF CancelRead, CancelTell, CancelMark, Write
  <2>5. ASSUME NEW d \in Commands, NEW k \in Roles, Collect(d, k) PROVE Sent(c)'
    <3>1. "main" \in Roles OBVIOUS
    <3>2. CASE Pop(d, k) BY <3>1, <3>2, PlaceUpdated DEF Pop, Move
    <3>3. CASE Remember(d, k) BY <3>1, <3>3, PlaceUpdated DEF Remember, Move
    <3>4. CASE SeesDead(d, k) BY <3>1, <3>4, PlaceUpdated DEF SeesDead, Move
    <3>5. CASE TimesOut(d, k) BY <3>1, <3>5, PlaceUpdated DEF TimesOut, Move
    <3>6. CASE Finish(d, k)
      <4>1. pc[d][k] \notin {"none", "sent"} BY <3>6 DEF Finish
      <4>2. row'[c] = row[c] \/ (c = d /\ row[c] # "none") BY <3>6 DEF Finish, Write
      <4>3. inbox' = inbox /\ thread' = thread BY <3>6 DEF Finish
      <4>4. pc'[c]["main"] = pc[c]["main"] \/ pc'[c]["main"] \in {"dead", "over"}
        BY <3>1, <3>6, PlaceFinished
      <4>5. row[c] # "none" => pc'[c]["main"] \notin {"none", "sent"} BY <4>4
      <4> QED BY <4>1, <4>2, <4>3, <4>4, <4>5
    <3> QED BY <2>5, <3>2, <3>3, <3>4, <3>5, <3>6 DEF Collect
  <2>6. ASSUME NEW d \in Commands, NEW k \in Roles, CollectorStops(d, k) PROVE Sent(c)'
    BY <2>6 DEF CollectorStops, Active
  <2>7. ASSUME NEW p \in posts, Handle(p) PROVE Sent(c)'
    BY <2>7, ZenonT(60) DEF Handle, Begin, Push, Write
  <2>8. ASSUME NEW p \in posts, PostFails(p) PROVE Sent(c)'
    BY <2>1, <2>8 DEF PostFails
  <2>9. CASE Poll BY <2>9 DEF Poll
  <2>10. CASE StrayPops BY <2>10 DEF StrayPops
  <2>11. CASE PollBreaks \/ StrayEnds \/ Gather \/ Post \/ Beat \/ Lapse
    BY <2>1, <2>11 DEF PollBreaks, StrayEnds, Gather, Post, Beat, Lapse
  <2>12. CASE Die BY <2>12 DEF Die
  <2>13. CASE UNCHANGED vars BY <2>1, <2>13 DEF vars
  <2> QED BY <2>2, <2>3, <2>4, <2>5, <2>6, <2>7, <2>8, <2>9, <2>10, <2>11, <2>12, <2>13 DEF Next
<1> QED BY <1>1, <1>2, TypeCorrect, PTL DEF Spec

\* A command is never started a second time, whatever polls break or repeat.
THEOREM StartedOnceCorrect == Spec => StartedOnce
<1> DEFINE Once == \A c \in Commands : thread[c] \notin {"none", "waiting"} => thread'[c] # "waiting"
<1>1. TypeOK /\ (\A c \in Commands : Sent(c)) /\ [Next]_vars => Once
  <2> SUFFICES ASSUME TypeOK, \A c \in Commands : Sent(c), [Next]_vars, NEW c \in Commands,
                      thread[c] \notin {"none", "waiting"}
               PROVE thread'[c] # "waiting"
    OBVIOUS
  <2> USE DEF TypeOK, machineVars
  <2>1. CASE UNCHANGED thread BY <2>1
  <2>2. ASSUME NEW d \in Commands, Execute(d) PROVE thread'[c] # "waiting"
    BY <2>2 DEF Execute, Acquire, PutOutput, PutExit
  <2>3. CASE Poll BY <2>3 DEF Poll, Sent
  <2>4. CASE Die BY <2>4 DEF Die
  <2>5. Execute(c) \/ Poll \/ Die \/ UNCHANGED thread \/ \E d \in Commands : Execute(d)
    BY DEF Next, vars, Send, Store, Wait, CancelRead, CancelTell, CancelMark, Collect, Pop,
           Remember, SeesDead, TimesOut, Finish, CollectorStops, Handle, Begin, Push, PostFails,
           PollBreaks, StrayPops, StrayEnds, Gather, Post, Beat, Lapse
  <2> QED BY <2>1, <2>2, <2>3, <2>4, <2>5
<1> QED BY <1>1, TypeCorrect, SentInvariant, PTL DEF Spec, StartedOnce

-----------------------------------------------------------------------------
(* done means that the program has ended.                                  *)

\* The exit frames of a sequence that is popped or grows.
LEMMA ExitIn ==
    ASSUME NEW s \in Seq(Kinds), s # <<>>, NEW i \in 1..Len(Tail(s))
    PROVE i + 1 \in 1..Len(s) /\ Tail(s)[i] = s[i + 1] /\ 1 \in 1..Len(s) /\ Head(s) = s[1]
OBVIOUS

\* A pushed exit comes from an exit frame of the command.
LEMMA ExitPushed ==
    ASSUME NEW s \in Seq(Kinds), NEW frames \in SUBSET Frames, NEW c \in Commands,
           NEW i \in 1..Len(s \o Pushed(frames, c))
    PROVE \/ i \in 1..Len(s) /\ (s \o Pushed(frames, c))[i] = s[i]
          \/ <<(s \o Pushed(frames, c))[i], c>> \in frames
BY DEF Pushed

\* What Push leaves of a post.
Rest(p) == [p EXCEPT !.frames = {f \in p.frames : f[2] # p.at}, !.at = None]

\* Push takes the frames of one command out of one post, or ends the post.
LEMMA PushPosts ==
    ASSUME TypeOK, NEW p \in posts, Push(p)
    PROVE /\ p.at \in Commands
          /\ Rest(p) \in Posts /\ Rest(p).at = None /\ Rest(p).awaited = p.awaited
          /\ \A c \in Commands, k \in Kinds :
                <<k, c>> \in Rest(p).frames <=> <<k, c>> \in p.frames /\ c # p.at
          /\ \/ posts' = (posts \ {p}) \cup {Rest(p)} /\ batch' = batch /\ Rest(p).frames # {}
             \/ /\ posts' = posts \ {p} /\ Rest(p).frames = {}
                /\ batch' = IF p.awaited THEN {} ELSE batch
<1>1. p \in Posts BY DEF TypeOK
<1>2. p.at \in Commands BY <1>1 DEF Push, Posts
<1>3. Rest(p) \in Posts /\ Rest(p).at = None /\ Rest(p).awaited = p.awaited
  BY <1>1 DEF Posts, Rest
<1>4. Rest(p).frames = {f \in p.frames : f[2] # p.at} BY <1>1 DEF Posts, Rest
<1>5. \A c \in Commands, k \in Kinds :
        <<k, c>> \in Rest(p).frames <=> <<k, c>> \in p.frames /\ c # p.at
  BY <1>4
<1>6. \/ posts' = (posts \ {p}) \cup {Rest(p)} /\ batch' = batch /\ Rest(p).frames # {}
      \/ /\ posts' = posts \ {p} /\ Rest(p).frames = {}
         /\ batch' = IF p.awaited THEN {} ELSE batch
  BY <1>4 DEF Push, Proceed, Rest
<1> QED BY <1>2, <1>3, <1>5, <1>6

\* No step but Post puts a frame into a post.
LEMMA FramesInPosts ==
    ASSUME TypeOK, [Next]_vars, ~Post, NEW q \in posts'
    PROVE \E s \in posts : q.frames \subseteq s.frames
<1> USE DEF machineVars, collectVars
<1>1. CASE UNCHANGED posts BY <1>1
<1>2. ASSUME NEW p \in posts, Handle(p) PROVE \E s \in posts : q.frames \subseteq s.frames
  <2>1. p \in Posts BY DEF TypeOK
  <2>2. ASSUME NEW c \in Commands, Begin(p, c) PROVE \E s \in posts : q.frames \subseteq s.frames
    <3>1. q \in posts \/ q = At(p, c) BY <2>2 DEF Begin, At
    <3>2. At(p, c).frames = p.frames BY <2>1, PostParts
    <3> QED BY <3>1, <3>2
  <2>3. CASE Push(p)
    <3>1. q \in posts \/ q = Rest(p) BY <2>3, PushPosts
    <3>2. Rest(p).frames \subseteq p.frames BY <2>1 DEF Rest, Posts
    <3> QED BY <3>1, <3>2
  <2> QED BY <1>2, <2>2, <2>3 DEF Handle
<1>3. ASSUME NEW p \in posts, PostFails(p) PROVE \E s \in posts : q.frames \subseteq s.frames
  <2>1. p \in Posts BY DEF TypeOK
  <2>2. q \in posts \/ q = Unheard(p) BY <1>3 DEF PostFails, Unheard
  <2>3. Unheard(p).frames = p.frames BY <2>1 DEF Unheard, Posts
  <2> QED BY <2>2, <2>3
<1>4. CASE Die
  <2>1. PICK p \in posts : q = Unheard(p) BY <1>4 DEF Die, Unheard
  <2>2. Unheard(p).frames = p.frames BY DEF Unheard, Posts, TypeOK
  <2> QED BY <2>1, <2>2
<1>5. \/ UNCHANGED posts \/ Die
      \/ \E p \in posts : Handle(p) \/ PostFails(p)
  BY DEF Next, vars, Send, Store, Wait, CancelRead, CancelTell, CancelMark, Collect, Pop,
         Remember, SeesDead, TimesOut, Finish, CollectorStops, Execute, Acquire, PutOutput,
         PutExit, Poll, PollBreaks, StrayPops, StrayEnds, Gather, Beat, Lapse
<1> QED BY <1>1, <1>2, <1>3, <1>4, <1>5

\* The frames of a post show an exit only to the command they are of.
LEMMA SeenPush ==
    ASSUME TypeOK, NEW p \in posts, Push(p), NEW c \in Commands, Seen(c)'
    PROVE Seen(c) \/ (<<"exit", c>> \in p.frames /\ p.at = c)
<1>1. p.at \in Commands /\ p.frames \in SUBSET Frames BY PushPosts DEF TypeOK, Posts
<1>2. out' = [out EXCEPT ![p.at] = @ \o Pushed(p.frames, p.at)] /\ UNCHANGED <<pc, row>>
  BY DEF Push, collectVars
<1>3. CASE \E i \in 1..Len(out'[c]) : out'[c][i] = "exit"
  <2>1. CASE c # p.at BY <1>2, <1>3, <2>1 DEF Seen, TypeOK
  <2>2. CASE c = p.at
    <3>1. out'[c] = out[c] \o Pushed(p.frames, c) /\ out[c] \in Seq(Kinds)
      BY <1>2, <2>2 DEF TypeOK
    <3>2. PICK i \in 1..Len(out[c] \o Pushed(p.frames, c)) :
             (out[c] \o Pushed(p.frames, c))[i] = "exit"
      BY <1>3, <3>1
    <3>3. \/ i \in 1..Len(out[c]) /\ out[c][i] = "exit"
          \/ <<"exit", c>> \in p.frames
      BY <1>1, <3>1, <3>2, ExitPushed
    <3> QED BY <2>2, <3>3 DEF Seen
  <2> QED BY <2>1, <2>2
<1> QED BY <1>2, <1>3 DEF Seen

\* An exit is seen only after a post brought it.
LEMMA SeenStep ==
    ASSUME TypeOK, [Next]_vars, NEW c \in Commands, Seen(c)'
    PROVE Seen(c) \/ \E p \in posts : <<"exit", c>> \in p.frames /\ Push(p) /\ p.at = c
<1> USE DEF machineVars, collectVars
<1> DEFINE Goal == Seen(c) \/ \E p \in posts : <<"exit", c>> \in p.frames /\ Push(p) /\ p.at = c
<1>1. CASE UNCHANGED <<out, pc>> /\ (row'[c] = "done" => row[c] = "done")
  BY <1>1 DEF Seen
<1>2. ASSUME NEW d \in Commands, Send(d) \/ Store(d) \/ Wait(d) PROVE Goal
  <2>1. "main" \in Roles /\ "waiter" \in Roles BY DEF Roles
  <2>2. CASE Send(d) BY <2>1, <2>2, PlaceUpdated DEF Seen, Send, Move
  <2>3. CASE Store(d)
    <3>1. row'[c] = "done" => row[c] = "done" BY <2>3 DEF Store, TypeOK
    <3> QED BY <2>1, <2>3, <3>1, PlaceUpdated DEF Seen, Store, Move
  <2>4. CASE Wait(d) BY <2>1, <2>4, PlaceUpdated DEF Seen, Wait, Move
  <2> QED BY <1>2, <2>2, <2>3, <2>4
<1>3. ASSUME NEW d \in Commands, NEW k \in Roles, Pop(d, k) PROVE Goal
  <2>1. out[d] \in Seq(Kinds) /\ out[d] # <<>> BY <1>3 DEF Pop, TypeOK
  <2>2. row' = row BY <1>3 DEF Pop
  <2>3. out' = [out EXCEPT ![d] = Tail(@)] BY <1>3 DEF Pop
  <2>4. CASE \E i \in 1..Len(out'[c]) : out'[c][i] = "exit"
    <3>1. CASE c # d BY <2>3, <2>4, <3>1 DEF Seen, TypeOK
    <3>2. CASE c = d
      <4>1. out'[c] = Tail(out[c]) BY <2>3, <3>2 DEF TypeOK
      <4>2. PICK i \in 1..Len(Tail(out[c])) : Tail(out[c])[i] = "exit" BY <2>4, <4>1
      <4>3. i + 1 \in 1..Len(out[c]) /\ out[c][i + 1] = "exit" BY <2>1, <3>2, <4>2, ExitIn
      <4> QED BY <4>3 DEF Seen
    <3> QED BY <3>1, <3>2
  <2>5. CASE \E j \in Roles : pc'[c][j] = "exit"
    <3>1. PICK j \in Roles : pc'[c][j] = "exit" BY <2>5
    <3>2. CASE c = d /\ j = k
      <4>1. Head(out[c]) = "exit"
        <5>1. pc'[c][j] = IF Head(out[d]) = "output" THEN "remember" ELSE "exit"
          <6> DEFINE x == IF Head(out[d]) = "output" THEN "remember" ELSE "exit"
          <6>1. pc' = [pc EXCEPT ![d][k] = x] BY <1>3 DEF Pop, Move
          <6> HIDE DEF x
          <6>2. pc'[c][j] = x BY <3>2, <6>1 DEF TypeOK
          <6> QED BY <6>2 DEF x
        <5>2. Head(out[d]) \in Kinds BY <2>1
        <5> QED BY <3>1, <3>2, <5>1, <5>2 DEF Kinds
      <4>2. 1 \in 1..Len(out[c]) /\ out[c][1] = "exit" BY <2>1, <3>2, <4>1
      <4> QED BY <4>2 DEF Seen
    <3>3. CASE ~(c = d /\ j = k)
      <4>1. pc'[c][j] = pc[c][j] BY <1>3, <3>3, PlaceUpdated DEF Pop, Move
      <4> QED BY <3>1, <4>1 DEF Seen
    <3> QED BY <3>2, <3>3
  <2> QED BY <2>2, <2>4, <2>5 DEF Seen
<1>4. ASSUME NEW d \in Commands, NEW k \in Roles, Remember(d, k) \/ SeesDead(d, k) \/ TimesOut(d, k)
      PROVE Goal
  <2>1. CASE Remember(d, k) BY <2>1, PlaceUpdated DEF Seen, Remember, Move
  <2>2. CASE SeesDead(d, k) BY <2>2, PlaceUpdated DEF Seen, SeesDead, Move
  <2>3. CASE TimesOut(d, k) BY <2>3, PlaceUpdated DEF Seen, TimesOut, Move
  <2> QED BY <1>4, <2>1, <2>2, <2>3
<1>5. ASSUME NEW d \in Commands, NEW k \in Roles, Finish(d, k) PROVE Goal
  <2>1. out' = out BY <1>5 DEF Finish
  <2>2. \A j \in Roles : pc'[c][j] = "exit" => pc[c][j] = "exit" BY <1>5, PlaceFinished
  <2>3. row'[c] = "done" => row[c] = "done" \/ (c = d /\ pc[d][k] = "exit")
    BY <1>5 DEF Finish, Write, Verdict, TypeOK
  <2> QED BY <2>1, <2>2, <2>3 DEF Seen
<1>6. ASSUME NEW d \in Commands, NEW k \in Roles, CollectorStops(d, k) PROVE Goal
  <2>1. pc' = [pc EXCEPT ![d][k] = "cancelled"] \/ pc' = [pc EXCEPT ![d][k] = "dead"]
    BY <1>6 DEF CollectorStops
  <2>2. \A j \in Roles : pc'[c][j] = "exit" => pc[c][j] = "exit"
    <3>1. CASE pc' = [pc EXCEPT ![d][k] = "cancelled"] BY <3>1, PlaceUpdated
    <3>2. CASE pc' = [pc EXCEPT ![d][k] = "dead"] BY <3>2, PlaceUpdated
    <3> QED BY <2>1, <3>1, <3>2
  <2>3. out' = out /\ row' = row BY <1>6 DEF CollectorStops
  <2> QED BY <2>2, <2>3 DEF Seen
<1>7. ASSUME NEW p \in posts, Push(p) PROVE Goal
  BY <1>7, SeenPush
<1>8. ASSUME NEW d \in Commands, CancelRead(d) \/ CancelTell(d) \/ CancelMark(d) PROVE Goal
  <2>1. UNCHANGED <<out, pc>> /\ (row'[c] = "done" => row[c] = "done")
    BY <1>8 DEF CancelRead, CancelTell, CancelMark, Write, TypeOK
  <2> QED BY <1>1, <2>1
<1>9. ASSUME NEW p \in posts, NEW d \in Commands, Begin(p, d) PROVE Goal
  <2>1. UNCHANGED <<out, pc>> /\ (row'[c] = "done" => row[c] = "done")
    BY <1>9 DEF Begin, Write, TypeOK
  <2> QED BY <1>1, <2>1
<1>10. CASE UNCHANGED <<out, pc, row>> BY <1>1, <1>10
<1>11. \/ UNCHANGED <<out, pc, row>>
       \/ \E d \in Commands :
             \/ Send(d) \/ Store(d) \/ Wait(d) \/ CancelRead(d) \/ CancelTell(d) \/ CancelMark(d)
             \/ \E k \in Roles : Collect(d, k) \/ CollectorStops(d, k)
       \/ \E p \in posts : Push(p) \/ \E d \in Commands : Begin(p, d)
  BY DEF Next, vars, Execute, Acquire, PutOutput, PutExit, Handle, PostFails, Die,
         Poll, PollBreaks, StrayPops, StrayEnds, Gather, Post, Beat, Lapse
<1> QED BY <1>2, <1>3, <1>4, <1>5, <1>6, <1>7, <1>8, <1>9, <1>10, <1>11 DEF Collect

\* Earned is kept by every step.
LEMMA EarnedStep ==
    ASSUME TypeOK, \A c \in Commands : Sent(c), \A c \in Commands : Earned(c),
           [Next]_vars, NEW c \in Commands
    PROVE Earned(c)'
<1> DEFINE Ended == thread[c] = "ended"
           Travels == \/ <<"exit", c>> \in queue \cup batch
                      \/ \E p \in posts : <<"exit", c>> \in p.frames
<1> USE DEF machineVars, collectVars
<1>1. SUFFICES ASSUME Travels' \/ Seen(c)' PROVE Ended'
  BY DEF Earned
<1>2. Travels \/ Seen(c) => Ended
  BY DEF Earned
<1>3. Ended => Ended'
  <2> USE DEF TypeOK
  <2>1. CASE UNCHANGED thread BY <2>1
  <2>2. ASSUME NEW d \in Commands, Execute(d) PROVE Ended => Ended'
    BY <2>2 DEF Execute, Acquire, PutOutput, PutExit
  <2>3. CASE Poll BY <2>3 DEF Poll, Sent
  <2>4. CASE Die BY <2>4 DEF Die
  <2>5. Poll \/ Die \/ UNCHANGED thread \/ \E d \in Commands : Execute(d)
    BY ZenonT(60) DEF Next, vars, Send, Store, Wait, CancelRead, CancelTell, CancelMark, Collect, Pop,
           Remember, SeesDead, TimesOut, Finish, CollectorStops, Handle, Begin, Push, PostFails,
           PollBreaks, StrayPops, StrayEnds, Gather, Post, Beat, Lapse
  <2> QED BY <2>1, <2>2, <2>3, <2>4, <2>5
<1>4. Travels' => Travels \/ Ended'
  <2>1. (\E p \in posts' : <<"exit", c>> \in p.frames) => Travels
    <3>1. CASE Post
      <4> DEFINE new == [frames |-> batch, at |-> None, try |-> tries + 1, awaited |-> TRUE]
      <4>1. posts' = posts \cup {new} BY <3>1 DEF Post
      <4>2. new.frames = batch OBVIOUS
      <4> HIDE DEF new
      <4> QED BY <4>1, <4>2
    <3>2. CASE ~Post BY <3>2, FramesInPosts
    <3> QED BY <3>1, <3>2
  <2>2. <<"exit", c>> \in queue' \cup batch' => Travels \/ Ended'
    <3>1. CASE UNCHANGED <<queue, batch>> BY <3>1
    <3>2. ASSUME NEW d \in Commands, Execute(d)
          PROVE <<"exit", c>> \in queue' \cup batch' => Travels \/ Ended'
      BY <3>2 DEF Execute, Acquire, PutOutput, PutExit, TypeOK
    <3>3. CASE Gather BY <3>3 DEF Gather
    <3>4. CASE Die BY <3>4 DEF Die
    <3>5. ASSUME NEW p \in posts, Push(p)
          PROVE <<"exit", c>> \in queue' \cup batch' => Travels
      BY <3>5 DEF Push, Proceed
    <3>6. ASSUME NEW p \in posts, PostFails(p)
          PROVE <<"exit", c>> \in queue' \cup batch' => Travels
      BY <3>6 DEF PostFails
    <3>7. \/ Gather \/ Die \/ UNCHANGED <<queue, batch>> \/ \E d \in Commands : Execute(d)
          \/ \E p \in posts : Push(p) \/ PostFails(p)
      BY ZenonT(60) DEF Next, vars, Send, Store, Wait, CancelRead, CancelTell, CancelMark, Collect, Pop,
             Remember, SeesDead, TimesOut, Finish, CollectorStops, Handle, Begin,
             Poll, PollBreaks, StrayPops, StrayEnds, Post, Beat, Lapse
    <3> QED BY <3>1, <3>2, <3>3, <3>4, <3>5, <3>6, <3>7
  <2> QED BY <2>1, <2>2
<1>5. Seen(c)' => Seen(c) \/ Travels
  BY SeenStep
<1> QED BY <1>1, <1>2, <1>3, <1>4, <1>5

\* Earned holds in every state.
LEMMA EarnedInvariant == Spec => [](\A c \in Commands : Earned(c))
<1>1. Init => \A c \in Commands : Earned(c)
  BY DEF Init, Earned, Seen, Roles
<1>2. TypeOK /\ (\A c \in Commands : Sent(c)) /\ (\A c \in Commands : Earned(c)) /\ [Next]_vars
        => (\A c \in Commands : Earned(c))'
  BY EarnedStep
<1> QED BY <1>1, <1>2, TypeCorrect, SentInvariant, PTL DEF Spec

\* A command that is done has run to its end on the machine.
THEOREM DoneIsEarnedCorrect == Spec => []DoneIsEarned
<1>1. (\A c \in Commands : Earned(c)) => DoneIsEarned
  BY DEF Earned, Seen, DoneIsEarned
<1> QED BY <1>1, EarnedInvariant, PTL

-----------------------------------------------------------------------------
(* done is final.                                                          *)

\* The post still has a frame of c to push.
Carries(p, c) == \E k \in Kinds : <<k, c>> \in p.frames

\* A post that is awaited has, of each command it still carries, what the
\* batch has; a machine that is down has nothing to send.
Wired ==
    /\ ~up => batch = {} /\ queue = {}
    /\ \A p \in posts : p.awaited =>
          /\ p.frames \subseteq batch
          /\ \A c \in Commands, k \in Kinds :
                Carries(p, c) /\ <<k, c>> \in batch => <<k, c>> \in p.frames

\* A command whose posts were all answered is in one post at a time.
Alone(c) ==
    c \notin stale =>
        /\ \A p \in posts : Carries(p, c) => p.awaited \/ ~up
        /\ \A p, q \in posts : Carries(p, c) /\ Carries(q, c) => p = q

\* Its output does not come after its exit.
InOrder(c) ==
    c \notin stale =>
        /\ Seen(c) => /\ <<"output", c>> \notin queue
                      /\ \A p \in posts : <<"output", c>> \notin p.frames
                      /\ <<"output", c>> \in batch => \E p \in posts : p.awaited
        /\ <<"output", c>> \in queue => /\ <<"exit", c>> \notin batch
                                        /\ \A p \in posts : <<"exit", c>> \notin p.frames

\* The collector of a command that is done is over, if it has no other.
Collected(c) == (row[c] = "done" /\ pc[c]["waiter"] = "none") => pc[c]["main"] = "over"

\* The steps that touch posts, the queue, the batch or the record of stale commands.
LEMMA Senders ==
    ASSUME [Next]_vars
    PROVE \/ UNCHANGED <<queue, batch, posts, up, stale>>
          \/ \E d \in Commands : Execute(d)
          \/ \E p \in posts : PostFails(p) \/ Push(p) \/ \E d \in Commands : Begin(p, d)
          \/ Gather \/ Post \/ Die
BY DEF Next, vars, machineVars, collectVars, Send, Store, Wait, CancelRead, CancelTell, CancelMark,
       Collect, Pop, Remember, SeesDead, TimesOut, Finish, CollectorStops, Handle, Poll, PollBreaks,
       StrayPops, StrayEnds, Beat, Lapse

\* The post that the machine makes of its batch.
NewPost == [frames |-> batch, at |-> None, try |-> tries + 1, awaited |-> TRUE]

\* Post adds one post, when no other is awaited.
LEMMA PostStep ==
    ASSUME Post
    PROVE /\ posts' = posts \cup {NewPost} /\ NewPost.frames = batch /\ NewPost.awaited
          /\ \A p \in posts : ~p.awaited
          /\ up /\ UNCHANGED <<queue, batch, up, stale>>
BY DEF Post, NewPost

\* What Execute does to the queue.
LEMMA ExecuteStep ==
    ASSUME TypeOK, NEW d \in Commands, Execute(d)
    PROVE /\ UNCHANGED <<batch, posts, up, stale>>
          /\ \/ queue' = queue
             \/ thread[d] = "running" /\ queue' = queue \cup {<<"output", d>>}
             \/ thread[d] = "output" /\ queue' = queue \cup {<<"exit", d>>}
BY DEF Execute, Acquire, PutOutput, PutExit

\* What a failed post does.
LEMMA FailStep ==
    ASSUME TypeOK, NEW p \in posts, PostFails(p)
    PROVE /\ p.awaited /\ UNCHANGED <<queue, up>>
          /\ stale' = stale \cup Of(batch) /\ batch' \subseteq batch
          /\ \A q \in posts' : q \in posts \ {p} \/ q = Unheard(p)
          /\ Unheard(p).frames = p.frames /\ ~Unheard(p).awaited
<1>1. p \in Posts BY DEF TypeOK
<1>2. Unheard(p).frames = p.frames /\ ~Unheard(p).awaited BY <1>1 DEF Unheard, Posts
<1> QED BY <1>2 DEF PostFails, Unheard

\* What the end of the machine does.
LEMMA DieStep ==
    ASSUME TypeOK, Die, NEW q \in posts'
    PROVE \E p \in posts : q = Unheard(p) /\ q.frames = p.frames /\ ~q.awaited
<1>1. PICK p \in posts : q = Unheard(p) BY DEF Die, Unheard
<1>2. Unheard(p).frames = p.frames /\ ~Unheard(p).awaited BY DEF Unheard, Posts, TypeOK
<1> QED BY <1>1, <1>2

\* Begin only says which command a post is at.
LEMMA BeginStep ==
    ASSUME TypeOK, NEW p \in posts, NEW d \in Commands, Begin(p, d)
    PROVE /\ posts' = (posts \ {p}) \cup {At(p, d)}
          /\ At(p, d).frames = p.frames /\ At(p, d).awaited = p.awaited
          /\ UNCHANGED <<queue, batch, up, stale, out, pc>>
<1>1. p \in Posts BY DEF TypeOK
<1>2. At(p, d).frames = p.frames /\ At(p, d).awaited = p.awaited BY <1>1, PostParts
<1> QED BY <1>2 DEF Begin, At, machineVars, collectVars

\* A machine that is down runs nothing.
Halted == ~up => \A c \in Commands : thread[c] \notin {"waiting", "running", "output"}

\* Halted holds in every state.
LEMMA HaltedInvariant == Spec => []Halted
<1>1. Init => Halted
  BY DEF Init, Halted
<1>2. TypeOK /\ Halted /\ [Next]_vars => Halted'
  <2> SUFFICES ASSUME TypeOK, Halted, [Next]_vars PROVE Halted'
    OBVIOUS
  <2> USE DEF Halted, TypeOK, machineVars, collectVars
  <2>1. CASE UNCHANGED <<thread, up>> BY <2>1
  <2>2. ASSUME NEW d \in Commands, Execute(d) PROVE Halted'
    BY <2>2 DEF Execute, Acquire, PutOutput, PutExit
  <2>3. CASE Poll BY <2>3 DEF Poll
  <2>4. CASE Die BY <2>4 DEF Die
  <2>5. Poll \/ Die \/ UNCHANGED <<thread, up>> \/ \E d \in Commands : Execute(d)
    BY ZenonT(60) DEF Next, vars, Send, Store, Wait, CancelRead, CancelTell, CancelMark, Collect, Pop,
           Remember, SeesDead, TimesOut, Finish, CollectorStops, Handle, Begin, Push, PostFails,
           PollBreaks, StrayPops, StrayEnds, Gather, Post, Beat, Lapse
  <2> QED BY <2>1, <2>2, <2>3, <2>4, <2>5
<1> QED BY <1>1, <1>2, TypeCorrect, PTL DEF Spec

\* Wired is kept by every step.
LEMMA WiredStep ==
    ASSUME TypeOK, Halted, Wired, [Next]_vars
    PROVE Wired'
<1> USE DEF Wired, Carries
<1>1. CASE UNCHANGED <<queue, batch, posts, up, stale>> BY <1>1
<1>2. ASSUME NEW d \in Commands, Execute(d) PROVE Wired'
  <2>1. up \/ thread[d] \notin {"running", "output"}
    BY <1>2 DEF Halted
  <2> QED BY <1>2, <2>1, ExecuteStep
<1>3. ASSUME NEW p \in posts, PostFails(p) PROVE Wired'
  <2>1. \A q \in posts' : ~q.awaited
    BY <1>3, FailStep DEF TypeOK
  <2>2. ~up' => batch' = {} /\ queue' = {} BY <1>3, FailStep
  <2> QED BY <2>1, <2>2
<1>4. ASSUME NEW p \in posts, Push(p) PROVE Wired'
  <2>1. UNCHANGED <<queue, up, stale>> BY <1>4 DEF Push
  <2>2. CASE posts' = (posts \ {p}) \cup {Rest(p)} /\ batch' = batch
    <3>1. ASSUME p.awaited PROVE Rest(p).frames \subseteq batch
      <4>1. Rest(p).frames \subseteq p.frames BY DEF Rest, Posts, TypeOK
      <4> QED BY <3>1, <4>1
    <3>2. ASSUME p.awaited, NEW c \in Commands, NEW k \in Kinds, Carries(Rest(p), c), <<k, c>> \in batch
          PROVE <<k, c>> \in Rest(p).frames
      BY <1>4, <3>2, PushPosts
    <3>3. Rest(p).awaited = p.awaited BY <1>4, PushPosts
    <3> QED BY <2>1, <2>2, <3>1, <3>2, <3>3
  <2>3. CASE posts' = posts \ {p} /\ batch' = IF p.awaited THEN {} ELSE batch
    <3>1. CASE p.awaited
      <4>1. \A q \in posts' : ~q.awaited BY <2>3, <3>1 DEF TypeOK
      <4> QED BY <2>1, <2>3, <3>1, <4>1
    <3>2. CASE ~p.awaited BY <2>1, <2>3, <3>2
    <3> QED BY <3>1, <3>2
  <2> QED BY <1>4, <2>2, <2>3, PushPosts
<1>5. ASSUME NEW p \in posts, NEW d \in Commands, Begin(p, d) PROVE Wired'
  BY <1>5, BeginStep, ZenonT(60)
<1>6. CASE Gather
  <2>1. \A q \in posts : q.awaited => q.frames = {} BY <1>6 DEF Gather
  <2>2. batch' = queue /\ queue' = {} /\ UNCHANGED <<posts, up>> /\ up BY <1>6 DEF Gather
  <2> QED BY <2>1, <2>2
<1>7. CASE Post BY <1>7, PostStep
<1>8. CASE Die
  <2>1. \A q \in posts' : ~q.awaited BY <1>8, DieStep
  <2>2. batch' = {} /\ queue' = {} BY <1>8 DEF Die
  <2> QED BY <2>1, <2>2
<1> QED BY <1>1, <1>2, <1>3, <1>4, <1>5, <1>6, <1>7, <1>8, Senders

\* Alone is kept by every step.
LEMMA AloneStep ==
    ASSUME TypeOK, Wired, \A c \in Commands : Alone(c), [Next]_vars, NEW c \in Commands
    PROVE Alone(c)'
<1> SUFFICES ASSUME c \notin stale' PROVE
       /\ \A p \in posts' : Carries(p, c) => p.awaited \/ ~up'
       /\ \A p, q \in posts' : Carries(p, c) /\ Carries(q, c) => p = q
  BY DEF Alone, Carries
<1> DEFINE Goal == /\ \A p \in posts' : Carries(p, c) => p.awaited \/ ~up'
                   /\ \A p, q \in posts' : Carries(p, c) /\ Carries(q, c) => p = q
<1>0. c \notin stale => /\ \A p \in posts : Carries(p, c) => p.awaited \/ ~up
                        /\ \A p, q \in posts : Carries(p, c) /\ Carries(q, c) => p = q
  BY DEF Alone
<1>1. CASE UNCHANGED <<queue, batch, posts, up, stale>> BY <1>0, <1>1
<1>2. ASSUME NEW d \in Commands, Execute(d) PROVE Goal
  BY <1>0, <1>2, ExecuteStep
<1>3. ASSUME NEW p \in posts, PostFails(p) PROVE Goal
  <2>1. c \notin stale /\ c \notin Of(batch) BY <1>3, FailStep
  <2>2. \A k \in Kinds : <<k, c>> \notin batch BY <2>1, OfFrames DEF TypeOK, Kinds
  <2>3. ~Carries(p, c) BY <1>3, <2>2, FailStep DEF Wired, Carries
  <2>4. ~Carries(Unheard(p), c) BY <1>3, <2>3, FailStep DEF Carries
  <2>5. \A q \in posts' : Carries(q, c) => q \in posts BY <1>3, <2>4, FailStep
  <2>6. up' = up BY <1>3, FailStep
  <2> QED BY <1>0, <2>1, <2>5, <2>6
<1>4. ASSUME NEW p \in posts, Push(p) PROVE Goal
  <2>1. UNCHANGED <<up, stale>> BY <1>4 DEF Push
  <2>2. posts' = (posts \ {p}) \cup {Rest(p)} \/ posts' = posts \ {p} BY <1>4, PushPosts
  <2>3. Carries(Rest(p), c) => Carries(p, c) BY <1>4, PushPosts DEF Carries
  <2>4. Rest(p).awaited = p.awaited BY <1>4, PushPosts
  <2> QED BY <1>0, <2>1, <2>2, <2>3, <2>4
<1>5. ASSUME NEW p \in posts, NEW d \in Commands, Begin(p, d) PROVE Goal
  <2>1. UNCHANGED <<up, stale>> /\ posts' = (posts \ {p}) \cup {At(p, d)} BY <1>5, BeginStep
  <2>2. Carries(At(p, d), c) => Carries(p, c) BY <1>5, BeginStep DEF Carries
  <2>3. At(p, d).awaited = p.awaited BY <1>5, BeginStep
  <2> QED BY <1>0, <2>1, <2>2, <2>3
<1>6. CASE Gather BY <1>0, <1>6 DEF Gather
<1>7. CASE Post
  <2>1. c \notin stale /\ up /\ up' = up BY <1>7, PostStep
  <2>2. \A p \in posts : ~Carries(p, c) BY <1>0, <1>7, <2>1, PostStep
  <2>3. posts' = posts \cup {NewPost} /\ NewPost.awaited BY <1>7, PostStep
  <2> QED BY <2>2, <2>3
<1>8. CASE Die
  <2>1. ~up' BY <1>8 DEF Die
  <2>2. c \notin stale BY <1>8 DEF Die
  <2>3. ASSUME NEW q \in posts', NEW r \in posts', Carries(q, c), Carries(r, c) PROVE q = r
    <3>1. PICK s \in posts : q = Unheard(s) /\ q.frames = s.frames BY <1>8, DieStep
    <3>2. PICK t \in posts : r = Unheard(t) /\ r.frames = t.frames BY <1>8, DieStep
    <3>3. Carries(s, c) /\ Carries(t, c) BY <2>3, <3>1, <3>2 DEF Carries
    <3>4. s = t BY <1>0, <2>2, <3>3
    <3> QED BY <3>1, <3>2, <3>4
  <2> QED BY <2>1, <2>3
<1> QED BY <1>1, <1>2, <1>3, <1>4, <1>5, <1>6, <1>7, <1>8, Senders

\* InOrder is kept by every step.
LEMMA InOrderStep ==
    ASSUME TypeOK, Wired, \A c \in Commands : Alone(c), \A c \in Commands : Earned(c),
           \A c \in Commands : InOrder(c), [Next]_vars, NEW c \in Commands
    PROVE InOrder(c)'
<1> DEFINE OutHidden(Q, B, P) ==
              /\ <<"output", c>> \notin Q
              /\ \A p \in P : <<"output", c>> \notin p.frames
              /\ <<"output", c>> \in B => \E p \in P : p.awaited
           ExitHidden(B, P) ==
              /\ <<"exit", c>> \notin B
              /\ \A p \in P : <<"exit", c>> \notin p.frames
           Goal == /\ Seen(c)' => OutHidden(queue', batch', posts')
                   /\ <<"output", c>> \in queue' => ExitHidden(batch', posts')
<1> SUFFICES ASSUME c \notin stale' PROVE Goal
  BY DEF InOrder
<1>0. c \notin stale => /\ Seen(c) => OutHidden(queue, batch, posts)
                        /\ <<"output", c>> \in queue => ExitHidden(batch, posts)
  BY DEF InOrder
<1>1. Seen(c) \/ <<"exit", c>> \in batch \/ (\E p \in posts : <<"exit", c>> \in p.frames)
        => thread[c] = "ended"
  BY DEF Earned
<1>2. CASE \A p \in posts : ~Push(p)
  <2>1. Seen(c)' => Seen(c) BY <1>2, SeenStep
  <2> HIDE DEF Goal
  <2>2. CASE UNCHANGED <<queue, batch, posts, up, stale>>
    BY <1>0, <2>1, <2>2 DEF Goal
  <2>3. ASSUME NEW d \in Commands, Execute(d) PROVE Goal
    <3>1. UNCHANGED <<batch, posts, stale>> BY <2>3, ExecuteStep
    <3>2. CASE <<"output", c>> \in queue' => <<"output", c>> \in queue
      BY <1>0, <2>1, <3>1, <3>2 DEF Goal
    <3>3. CASE thread[c] = "running"
      BY <1>1, <2>1, <3>1, <3>3 DEF Goal
    <3>4. \/ queue' = queue
          \/ thread[d] = "running" /\ queue' = queue \cup {<<"output", d>>}
          \/ thread[d] = "output" /\ queue' = queue \cup {<<"exit", d>>}
      BY <2>3, ExecuteStep
    <3>5. (<<"output", c>> \in queue' => <<"output", c>> \in queue) \/ thread[c] = "running"
      BY <3>4
    <3> QED BY <3>2, <3>3, <3>5
  <2>4. ASSUME NEW p \in posts, PostFails(p) PROVE Goal
    <3>1. c \notin stale /\ c \notin Of(batch) BY <2>4, FailStep
    <3>2. \A k \in Kinds : <<k, c>> \notin batch BY <3>1, OfFrames DEF TypeOK, Kinds
    <3>3. \A k \in Kinds : <<k, c>> \notin batch' BY <2>4, <3>2, FailStep
    <3>4. ~Post BY <2>4, PostStep, FailStep
    <3>5. \A q \in posts' : \E s \in posts : q.frames \subseteq s.frames
      BY <3>4, FramesInPosts
    <3>6. queue' = queue BY <2>4, FailStep
    <3> QED BY <1>0, <2>1, <3>1, <3>3, <3>5, <3>6 DEF Goal, Kinds
  <2>5. ASSUME NEW p \in posts, NEW d \in Commands, Begin(p, d) PROVE Goal
    BY <1>0, <2>1, <2>5, BeginStep DEF Goal
  <2>6. CASE Gather BY <1>0, <2>1, <2>6 DEF Goal, Gather
  <2>7. CASE Post
    <3>1. /\ posts' = posts \cup {NewPost} /\ NewPost.frames = batch
          /\ \A p \in posts : ~p.awaited
          /\ UNCHANGED <<queue, batch, stale>>
      BY <2>7, PostStep
    <3> QED BY <1>0, <2>1, <3>1 DEF Goal
  <2>8. CASE Die
    <3>1. queue' = {} /\ batch' = {} /\ stale' = stale BY <2>8 DEF Die
    <3>2. \A q \in posts' : \E s \in posts : q.frames = s.frames BY <2>8, DieStep
    <3> QED BY <1>0, <2>1, <3>1, <3>2 DEF Goal
  <2> QED BY <1>2, <2>2, <2>3, <2>4, <2>5, <2>6, <2>7, <2>8, Senders
<1>3. ASSUME NEW p \in posts, Push(p) PROVE Goal
  <2>1. UNCHANGED <<queue, up, stale>> BY <1>3 DEF Push
  <2>2. /\ p.at \in Commands
        /\ \A k \in Kinds : <<k, c>> \in Rest(p).frames <=> <<k, c>> \in p.frames /\ c # p.at
        /\ Rest(p).awaited = p.awaited
    BY <1>3, PushPosts
  <2>3. \/ posts' = (posts \ {p}) \cup {Rest(p)} /\ batch' = batch
        \/ posts' = posts \ {p} /\ batch' = IF p.awaited THEN {} ELSE batch
    BY <1>3, PushPosts
  <2>4. "output" \in Kinds /\ "exit" \in Kinds BY DEF Kinds
  <2>5. ASSUME Seen(c)' PROVE OutHidden(queue', batch', posts')
    <3>1. CASE Seen(c)
      <4>1. OutHidden(queue, batch, posts) BY <1>0, <2>1, <3>1
      <4> QED BY <2>1, <2>2, <2>3, <2>4, <4>1
    <3>2. CASE ~Seen(c)
      <4>1. <<"exit", c>> \in p.frames /\ p.at = c BY <1>3, <2>5, <3>2, SeenPush
      <4>2. Carries(p, c) BY <2>4, <4>1 DEF Carries
      <4>3. \A q \in posts : Carries(q, c) => q = p BY <2>1, <4>2 DEF Alone
      <4>4. p.awaited \/ (batch = {} /\ batch' = {})
        <5>1. p.awaited \/ ~up BY <2>1, <4>2 DEF Alone
        <5> QED BY <2>3, <5>1 DEF Wired
      <4>5. <<"output", c>> \notin queue
        BY <1>0, <2>1, <4>1
      <4>6. \A q \in posts' : <<"output", c>> \notin q.frames
        <5>1. \A q \in posts \ {p} : <<"output", c>> \notin q.frames
          BY <2>4, <4>3 DEF Carries
        <5>2. <<"output", c>> \notin Rest(p).frames BY <2>2, <2>4, <4>1
        <5> QED BY <2>3, <5>1, <5>2
      <4>7. <<"output", c>> \in batch' => \E q \in posts' : q.awaited
        BY <2>2, <2>3, <4>4
      <4> QED BY <2>1, <4>5, <4>6, <4>7
    <3> QED BY <3>1, <3>2
  <2>6. ASSUME <<"output", c>> \in queue' PROVE ExitHidden(batch', posts')
    <3>1. ExitHidden(batch, posts) BY <1>0, <2>1, <2>6
    <3> QED BY <2>2, <2>3, <2>4, <3>1
  <2> QED BY <2>5, <2>6
<1> QED BY <1>2, <1>3

\* Collected is kept by every step.
LEMMA CollectedStep ==
    ASSUME TypeOK, \A c \in Commands : Collected(c), [Next]_vars, NEW c \in Commands
    PROVE Collected(c)'
<1> USE DEF Collected
<1>0. "main" \in Roles /\ "waiter" \in Roles /\ \A k \in Roles : k = "main" \/ k = "waiter"
  BY DEF Roles
<1>1. CASE UNCHANGED pc /\ (row'[c] = "done" => row[c] = "done") BY <1>1
<1>2. ASSUME NEW d \in Commands, Send(d) \/ Store(d) \/ Wait(d) PROVE Collected(c)'
  <2>1. CASE Send(d) BY <1>0, <2>1, PlaceUpdated DEF Send, Move
  <2>2. CASE Store(d)
    <3>1. row'[c] = "done" => row[c] = "done" BY <2>2 DEF Store, TypeOK
    <3> QED BY <1>0, <2>2, <3>1, PlaceUpdated DEF Store, Move
  <2>3. CASE Wait(d) BY <1>0, <2>3, PlaceUpdated DEF Wait, Move
  <2> QED BY <1>2, <2>1, <2>2, <2>3
<1>3. ASSUME NEW d \in Commands, NEW k \in Roles, Pop(d, k) PROVE Collected(c)'
  <2> DEFINE there == IF Head(out[d]) = "output" THEN "remember" ELSE "exit"
  <2>1. pc' = [pc EXCEPT ![d][k] = there] /\ pc[d][k] = "popping" /\ row' = row
    BY <1>3 DEF Pop, Move
  <2>2. there # "none" OBVIOUS
  <2> HIDE DEF there
  <2>3. \A j \in Roles : pc'[c][j] = IF c = d /\ j = k THEN there ELSE pc[c][j]
    BY <2>1 DEF TypeOK
  <2> QED BY <1>0, <2>1, <2>2, <2>3
<1>4. ASSUME NEW d \in Commands, NEW k \in Roles, Remember(d, k) \/ SeesDead(d, k) \/ TimesOut(d, k)
      PROVE Collected(c)'
  <2>1. CASE Remember(d, k) BY <1>0, <2>1, PlaceUpdated DEF Remember, Move
  <2>2. CASE SeesDead(d, k) BY <1>0, <2>2, PlaceUpdated DEF SeesDead, Move
  <2>3. CASE TimesOut(d, k) BY <1>0, <2>3, PlaceUpdated DEF TimesOut, Move
  <2> QED BY <1>4, <2>1, <2>2, <2>3
<1>5. ASSUME NEW d \in Commands, NEW k \in Roles, Finish(d, k) PROVE Collected(c)'
  <2>1. row'[c] = "done" => row[c] = "done" \/ (c = d /\ pc[d][k] = "exit")
    BY <1>5 DEF Finish, Write, Verdict, TypeOK
  <2>2. pc[d][k] \in {"exit", "lost", "late", "cancelled"} BY <1>5 DEF Finish
  <2>3. \A j \in Roles : pc'[c][j] = IF c = d /\ j = k
                                      THEN IF pc[d][k] = "cancelled" THEN "dead" ELSE "over"
                                      ELSE pc[c][j]
    BY <1>5, PlaceFinished
  <2> QED BY <1>0, <2>1, <2>2, <2>3
<1>6. ASSUME NEW d \in Commands, NEW k \in Roles, CollectorStops(d, k) PROVE Collected(c)'
  <2>1. row' = row /\ pc[d][k] \notin {"none", "over"} BY <1>6 DEF CollectorStops, Active
  <2>2. pc' = [pc EXCEPT ![d][k] = "cancelled"] \/ pc' = [pc EXCEPT ![d][k] = "dead"]
    BY <1>6 DEF CollectorStops
  <2>3. CASE pc' = [pc EXCEPT ![d][k] = "cancelled"] BY <1>0, <2>1, <2>3, PlaceUpdated
  <2>4. CASE pc' = [pc EXCEPT ![d][k] = "dead"] BY <1>0, <2>1, <2>4, PlaceUpdated
  <2> QED BY <2>2, <2>3, <2>4
<1>7. ASSUME NEW d \in Commands, CancelRead(d) \/ CancelTell(d) \/ CancelMark(d) PROVE Collected(c)'
  <2>1. UNCHANGED pc /\ (row'[c] = "done" => row[c] = "done")
    BY <1>7 DEF CancelRead, CancelTell, CancelMark, Write, TypeOK
  <2> QED BY <1>1, <2>1
<1>8. ASSUME NEW p \in posts, NEW d \in Commands, Begin(p, d) PROVE Collected(c)'
  <2>1. UNCHANGED pc /\ (row'[c] = "done" => row[c] = "done")
    BY <1>8 DEF Begin, Write, TypeOK, collectVars
  <2> QED BY <1>1, <2>1
<1>9. \/ UNCHANGED <<pc, row>>
      \/ \E d \in Commands :
            \/ Send(d) \/ Store(d) \/ Wait(d) \/ CancelRead(d) \/ CancelTell(d) \/ CancelMark(d)
            \/ \E k \in Roles : Collect(d, k) \/ CollectorStops(d, k)
      \/ \E p \in posts, d \in Commands : Begin(p, d)
  BY DEF Next, vars, machineVars, collectVars, Execute, Acquire, PutOutput, PutExit, Handle, Push,
         PostFails, Die, Poll, PollBreaks, StrayPops, StrayEnds, Gather, Post, Beat, Lapse
<1> QED BY <1>1, <1>2, <1>3, <1>4, <1>5, <1>6, <1>7, <1>8, <1>9 DEF Collect

\* The invariant of DoneIsFinal.
Final == /\ Wired
         /\ \A c \in Commands : Alone(c)
         /\ \A c \in Commands : InOrder(c)
         /\ \A c \in Commands : Collected(c)

\* Where frames are, and in which order, in every state.
LEMMA FinalInvariant == Spec => []Final
<1>1. Init => Final
  BY DEF Init, Final, Wired, Alone, InOrder, Collected, Carries, Seen
<1>2. TypeOK /\ Halted /\ (\A c \in Commands : Earned(c)) /\ Final /\ [Next]_vars => Final'
  <2> SUFFICES ASSUME TypeOK, Halted, \A c \in Commands : Earned(c), Final, [Next]_vars
               PROVE Final'
    OBVIOUS
  <2>1. Wired' BY WiredStep DEF Final
  <2>2. (\A c \in Commands : Alone(c))' BY AloneStep DEF Final
  <2>3. (\A c \in Commands : InOrder(c))' BY InOrderStep DEF Final
  <2>4. (\A c \in Commands : Collected(c))' BY CollectedStep DEF Final
  <2> QED BY <2>1, <2>2, <2>3, <2>4 DEF Final
<1> QED BY <1>1, <1>2, TypeCorrect, HaltedInvariant, EarnedInvariant, PTL DEF Spec

\* The steps that write the row of a command.
LEMMA Writers ==
    ASSUME [Next]_vars
    PROVE \/ UNCHANGED row
          \/ \E d \in Commands : Store(d) \/ CancelMark(d) \/ \E k \in Roles : Finish(d, k)
          \/ \E p \in posts, d \in Commands : Begin(p, d)
BY ZenonT(60) DEF Next, vars, machineVars, collectVars, Send, Wait, CancelRead, CancelTell, Collect, Pop,
       Remember, SeesDead, TimesOut, CollectorStops, Execute, Acquire, PutOutput, PutExit,
       Handle, Push, PostFails, Die, Poll, PollBreaks, StrayPops, StrayEnds, Gather, Post, Beat,
       Lapse

\* A command that is done stays done, unless others collect or cancel it or a
\* post with its frames failed.
THEOREM DoneIsFinalCorrect == Spec => DoneIsFinal
<1> DEFINE Stays == \A c \in Commands :
              (row[c] = "done" /\ pc[c]["waiter"] = "none" /\ canceller[c] = "none" /\ c \notin stale)
                  => row'[c] = "done"
<1>1. TypeOK /\ Final /\ [Next]_vars => Stays
  <2> SUFFICES ASSUME TypeOK, Final, [Next]_vars, NEW c \in Commands, row[c] = "done",
                      pc[c]["waiter"] = "none", canceller[c] = "none", c \notin stale
               PROVE row'[c] = "done"
    OBVIOUS
  <2>1. pc[c]["main"] = "over" BY DEF Final, Collected
  <2>2. \A p \in posts : <<"output", c>> \notin p.frames
    BY DEF Final, InOrder, Seen
  <2>3. CASE UNCHANGED row BY <2>3
  <2>4. ASSUME NEW d \in Commands, Store(d) PROVE row'[c] = "done"
    BY <2>1, <2>4 DEF Store, Move, TypeOK
  <2>5. ASSUME NEW d \in Commands, CancelMark(d) PROVE row'[c] = "done"
    BY <2>5 DEF CancelMark, Write, TypeOK
  <2>6. ASSUME NEW d \in Commands, NEW k \in Roles, Finish(d, k) PROVE row'[c] = "done"
    <3>1. c # d BY <2>1, <2>6 DEF Finish, Roles
    <3> QED BY <2>6, <3>1 DEF Finish, Write, TypeOK
  <2>7. ASSUME NEW p \in posts, NEW d \in Commands, Begin(p, d) PROVE row'[c] = "done"
    BY <2>2, <2>7 DEF Begin, Write, TypeOK
  <2> QED BY <2>3, <2>4, <2>5, <2>6, <2>7, Writers
<1> QED BY <1>1, TypeCorrect, FinalInvariant, PTL DEF Spec, DoneIsFinal

-----------------------------------------------------------------------------
(* The log of a command that is done is whole.                             *)

\* The output of a command has been popped: it is in the log, or whoever
\* popped it is about to write it, or that collector fell.
Popped(c) == c \in log \/ \E k \in Roles : pc[c][k] \in {"remember", "cancelled", "dead"}

\* It has reached the server, or the machine gave it up.
Kept(c) == c \in dropped \/ Popped(c) \/ \E i \in 1..Len(out[c]) : out[c][i] = "output"

\* No exit goes anywhere before its output.
Traced(c) ==
    /\ thread[c] = "output" => <<"output", c>> \in queue \cup batch \/ Kept(c)
    /\ <<"exit", c>> \in queue => <<"output", c>> \in queue \cup batch \/ Kept(c)
    /\ <<"exit", c>> \in batch => <<"output", c>> \in batch \/ Kept(c)
    /\ \A p \in posts : <<"exit", c>> \in p.frames => <<"output", c>> \in p.frames \/ Kept(c)
    /\ \A p \in posts : p.awaited /\ <<"output", c>> \in batch => <<"output", c>> \in p.frames \/ Kept(c)

\* An output stands before place i.
After(s, i) == \E j \in 1..Len(s) : j < i /\ s[j] = "output"

\* In the outbox, an exit stands behind its output or the output is gone from there.
Preceded(c) ==
    \A i \in 1..Len(out[c]) : out[c][i] = "exit" => c \in dropped \/ Popped(c) \/ After(out[c], i)

\* Whoever saw the exit is behind whoever popped the output.
Answered(c) ==
    (row[c] = "done" \/ \E k \in Roles : pc[c][k] = "exit") => c \in dropped \/ Popped(c)

\* No post is empty.
Filled == \A p \in posts : p.frames # {}

\* dropped and log only grow.
LEMMA Grow ==
    ASSUME [Next]_vars
    PROVE dropped \subseteq dropped' /\ log \subseteq log'
BY ZenonT(60) DEF Next, vars, machineVars, collectVars, Send, Store, Wait, CancelRead, CancelTell, CancelMark,
       Collect, Pop, Remember, SeesDead, TimesOut, Finish, CollectorStops, Execute, Acquire,
       PutOutput, PutExit, Handle, Begin, Push, Proceed, PostFails, Die, Poll, PollBreaks, StrayPops,
       StrayEnds, Gather, Post, Beat, Lapse

\* The steps that move a collector.
LEMMA Collectors ==
    ASSUME [Next]_vars
    PROVE \/ UNCHANGED pc
          \/ \E d \in Commands :
                \/ Send(d) \/ Store(d) \/ Wait(d)
                \/ \E k \in Roles : Collect(d, k) \/ CollectorStops(d, k)
BY DEF Next, vars, machineVars, collectVars, CancelRead, CancelTell, CancelMark, Execute, Acquire,
       PutOutput, PutExit, Handle, Begin, Push, PostFails, Die, Poll, PollBreaks, StrayPops,
       StrayEnds, Gather, Post, Beat, Lapse

\* What has been popped stays popped.
LEMMA PoppedStays ==
    ASSUME TypeOK, [Next]_vars, NEW c \in Commands, Popped(c)
    PROVE Popped(c)'
<1>1. CASE c \in log BY <1>1, Grow DEF Popped
<1>2. ASSUME NEW j \in Roles, pc[c][j] \in {"remember", "cancelled", "dead"} PROVE Popped(c)'
  <2>1. CASE pc'[c][j] = pc[c][j] BY <1>2, <2>1 DEF Popped
  <2>2. ASSUME NEW d \in Commands, Send(d) \/ Store(d) \/ Wait(d) PROVE pc'[c][j] = pc[c][j]
    <3>1. "main" \in Roles /\ "waiter" \in Roles BY DEF Roles
    <3>2. CASE Send(d) BY <1>2, <3>1, <3>2, PlaceUpdated DEF Send, Move
    <3>3. CASE Store(d) BY <1>2, <3>1, <3>3, PlaceUpdated DEF Store, Move
    <3>4. CASE Wait(d) BY <1>2, <3>1, <3>4, PlaceUpdated DEF Wait, Move
    <3> QED BY <2>2, <3>2, <3>3, <3>4
  <2>3. ASSUME NEW d \in Commands, NEW k \in Roles, Pop(d, k) PROVE pc'[c][j] = pc[c][j]
    BY <1>2, <2>3 DEF Pop, Move, TypeOK
  <2>4. ASSUME NEW d \in Commands, NEW k \in Roles, SeesDead(d, k) \/ TimesOut(d, k)
        PROVE pc'[c][j] = pc[c][j]
    <3>1. CASE SeesDead(d, k) BY <1>2, <3>1, PlaceUpdated DEF SeesDead, Move
    <3>2. CASE TimesOut(d, k) BY <1>2, <3>2, PlaceUpdated DEF TimesOut, Move
    <3> QED BY <2>4, <3>1, <3>2
  <2>5. ASSUME NEW d \in Commands, NEW k \in Roles, Remember(d, k) PROVE Popped(c)'
    <3>1. CASE c = d BY <2>5, <3>1 DEF Remember, Popped
    <3>2. CASE c # d
      <4>1. pc'[c][j] = pc[c][j] BY <2>5, <3>2 DEF Remember, Move, TypeOK
      <4> QED BY <2>1, <4>1
    <3> QED BY <3>1, <3>2
  <2>6. ASSUME NEW d \in Commands, NEW k \in Roles, Finish(d, k) PROVE Popped(c)'
    <3>1. pc[d][k] \in {"exit", "lost", "late", "cancelled"} BY <2>6 DEF Finish
    <3>2. pc'[c][j] = IF c = d /\ j = k
                        THEN IF pc[d][k] = "cancelled" THEN "dead" ELSE "over"
                        ELSE pc[c][j]
      BY <2>6, PlaceFinished
    <3>3. pc'[c][j] \in {"remember", "cancelled", "dead"} BY <1>2, <3>1, <3>2
    <3> QED BY <3>3 DEF Popped
  <2>7. ASSUME NEW d \in Commands, NEW k \in Roles, CollectorStops(d, k) PROVE Popped(c)'
    <3>1. pc' = [pc EXCEPT ![d][k] = "cancelled"] \/ pc' = [pc EXCEPT ![d][k] = "dead"]
      BY <2>7 DEF CollectorStops
    <3>2. pc'[c][j] \in {pc[c][j], "cancelled", "dead"}
      <4>1. CASE pc' = [pc EXCEPT ![d][k] = "cancelled"] BY <4>1, PlaceUpdated
      <4>2. CASE pc' = [pc EXCEPT ![d][k] = "dead"] BY <4>2, PlaceUpdated
      <4> QED BY <3>1, <4>1, <4>2
    <3>3. pc'[c][j] \in {"remember", "cancelled", "dead"} BY <1>2, <3>2
    <3> QED BY <3>3 DEF Popped
  <2> QED BY <2>1, <2>2, <2>3, <2>4, <2>5, <2>6, <2>7, Collectors DEF Collect
<1> QED BY <1>1, <1>2 DEF Popped

\* The steps that touch an outbox.
LEMMA Outboxes ==
    ASSUME [Next]_vars
    PROVE \/ UNCHANGED out
          \/ \E d \in Commands, k \in Roles : Pop(d, k)
          \/ \E p \in posts : Push(p)
BY ZenonT(60) DEF Next, vars, machineVars, collectVars, Send, Store, Wait, CancelRead, CancelTell, CancelMark,
       Collect, Remember, SeesDead, TimesOut, Finish, CollectorStops, Execute, Acquire,
       PutOutput, PutExit, Handle, Begin, PostFails, Die, Poll, PollBreaks, StrayPops,
       StrayEnds, Gather, Post, Beat, Lapse

\* What Pop does to the outbox and the collector of a command.
LEMMA PopStep ==
    ASSUME TypeOK, NEW c \in Commands, NEW k \in Roles, Pop(c, k)
    PROVE /\ out[c] \in Seq(Kinds) /\ out[c] # <<>> /\ out'[c] = Tail(out[c])
          /\ \A d \in Commands : d # c => out'[d] = out[d] /\ pc'[d] = pc[d]
          /\ UNCHANGED <<row, dropped, log>>
          /\ Head(out[c]) = "output" => pc'[c][k] = "remember"
BY DEF Pop, Move, TypeOK, machineVars

\* What has reached the server stays known.
LEMMA KeptStays ==
    ASSUME TypeOK, [Next]_vars, NEW c \in Commands, Kept(c)
    PROVE Kept(c)'
<1>1. CASE c \in dropped BY <1>1, Grow DEF Kept
<1>2. CASE Popped(c) BY <1>2, PoppedStays DEF Kept
<1>3. ASSUME NEW i \in 1..Len(out[c]), out[c][i] = "output" PROVE Kept(c)'
  <2>1. CASE out'[c] = out[c] BY <1>3, <2>1 DEF Kept
  <2>2. ASSUME NEW k \in Roles, Pop(c, k) PROVE Kept(c)'
    <3>1. CASE i = 1
      <4>1. Head(out[c]) = "output" BY <1>3, <2>2, <3>1, PopStep
      <4>2. pc'[c][k] = "remember" BY <2>2, <4>1, PopStep
      <4> QED BY <4>2 DEF Kept, Popped
    <3>2. CASE i # 1
      <4>1. i - 1 \in 1..Len(Tail(out[c])) /\ Tail(out[c])[i - 1] = out[c][i]
        BY <1>3, <2>2, <3>2, PopStep
      <4>2. out'[c] = Tail(out[c]) BY <2>2, PopStep
      <4> QED BY <1>3, <4>1, <4>2 DEF Kept
    <3> QED BY <3>1, <3>2
  <2>3. ASSUME NEW p \in posts, Push(p), p.at = c PROVE Kept(c)'
    <3>1. out'[c] = out[c] \o Pushed(p.frames, c) /\ out[c] \in Seq(Kinds)
      BY <2>3 DEF Push, TypeOK
    <3>2. i \in 1..Len(out'[c]) /\ out'[c][i] = out[c][i]
      <4> DEFINE w == Pushed(p.frames, c)
      <4>1. w \in Seq(Kinds) BY PushedType
      <4>2. out'[c] = out[c] \o w BY <3>1
      <4> HIDE DEF w
      <4> QED BY <1>3, <3>1, <4>1, <4>2
    <3> QED BY <1>3, <3>2 DEF Kept
  <2>4. ASSUME NEW d \in Commands, NEW k \in Roles, Pop(d, k), d # c PROVE out'[c] = out[c]
    BY <2>4, PopStep
  <2>5. ASSUME NEW p \in posts, Push(p), p.at # c PROVE out'[c] = out[c]
    BY <2>5 DEF Push, TypeOK
  <2> QED BY <2>1, <2>2, <2>3, <2>4, <2>5, Outboxes
<1> QED BY <1>1, <1>2, <1>3 DEF Kept

\* A post always carries something.
LEMMA FilledInvariant == Spec => []Filled
<1>1. Init => Filled
  BY DEF Init, Filled
<1>2. TypeOK /\ Filled /\ [Next]_vars => Filled'
  <2> SUFFICES ASSUME TypeOK, Filled, [Next]_vars PROVE Filled'
    OBVIOUS
  <2> USE DEF Filled
  <2>1. CASE UNCHANGED posts BY <2>1
  <2>2. ASSUME NEW d \in Commands, Execute(d) PROVE Filled' BY <2>1, <2>2, ExecuteStep
  <2>3. ASSUME NEW p \in posts, PostFails(p) PROVE Filled' BY <2>3, FailStep
  <2>4. ASSUME NEW p \in posts, Push(p) PROVE Filled' BY <2>4, PushPosts
  <2>5. ASSUME NEW p \in posts, NEW d \in Commands, Begin(p, d) PROVE Filled' BY <2>5, BeginStep
  <2>6. CASE Gather BY <2>1, <2>6 DEF Gather
  <2>7. CASE Post
    <3>1. batch # {} BY <2>7 DEF Post
    <3> QED BY <2>7, <3>1, PostStep
  <2>8. CASE Die BY <2>8, DieStep
  <2> QED BY <2>1, <2>2, <2>3, <2>4, <2>5, <2>6, <2>7, <2>8, Senders
<1> QED BY <1>1, <1>2, TypeCorrect, PTL DEF Spec

\* The steps that do not touch what Traced speaks of.
LEMMA Tracers ==
    ASSUME TypeOK, [Next]_vars, NEW c \in Commands
    PROVE \/ UNCHANGED <<queue, batch, posts>> /\ (thread'[c] = "output" => thread[c] = "output")
          \/ \E d \in Commands : PutOutput(d) \/ PutExit(d)
          \/ \E p \in posts : PostFails(p) \/ Push(p) \/ \E d \in Commands : Begin(p, d)
          \/ Gather \/ Post \/ Die
<1> USE DEF machineVars, collectVars
<1>1. CASE UNCHANGED <<queue, batch, posts, thread>> BY <1>1
<1>2. ASSUME NEW d \in Commands, Acquire(d)
      PROVE UNCHANGED <<queue, batch, posts>> /\ (thread'[c] = "output" => thread[c] = "output")
  BY <1>2 DEF Acquire, TypeOK
<1>3. ASSUME Poll
      PROVE UNCHANGED <<queue, batch, posts>> /\ (thread'[c] = "output" => thread[c] = "output")
  BY <1>3 DEF Poll, TypeOK
<1>4. \/ UNCHANGED <<queue, batch, posts, thread>> \/ Poll
      \/ \E d \in Commands : Acquire(d) \/ PutOutput(d) \/ PutExit(d)
      \/ \E p \in posts : PostFails(p) \/ Push(p) \/ \E d \in Commands : Begin(p, d)
      \/ Gather \/ Post \/ Die
  BY DEF Next, vars, Send, Store, Wait, CancelRead, CancelTell, CancelMark, Execute,
         Collect, Pop, Remember, SeesDead, TimesOut, Finish, CollectorStops, Handle, PollBreaks,
         StrayPops, StrayEnds, Beat, Lapse
<1> QED BY <1>1, <1>2, <1>3, <1>4

\* What a pushed output makes of its command.
LEMMA PushKeeps ==
    ASSUME TypeOK, NEW p \in posts, Push(p), <<"output", p.at>> \in p.frames
    PROVE Kept(p.at)'
<1>1. p.at \in Commands BY PushPosts
<1>2. out[p.at] \in Seq(Kinds) /\ out'[p.at] = out[p.at] \o Pushed(p.frames, p.at)
  BY <1>1 DEF Push, TypeOK
<1> DEFINE w == Pushed(p.frames, p.at)
<1>3. w \in Seq(Kinds) /\ 1 \in 1..Len(w) /\ w[1] = "output"
  BY DEF Pushed, Kinds
<1> HIDE DEF w
<1>4. Len(out[p.at]) + 1 \in 1..Len(out[p.at] \o w)
      /\ (out[p.at] \o w)[Len(out[p.at]) + 1] = "output"
  BY <1>2, <1>3
<1>5. out'[p.at] = out[p.at] \o w BY <1>2 DEF w
<1> QED BY <1>4, <1>5 DEF Kept

\* Traced is kept by every step.
LEMMA TracedStep ==
    ASSUME TypeOK, Wired, Filled, \A c \in Commands : Traced(c), [Next]_vars, NEW c \in Commands
    PROVE Traced(c)'
<1>1. Kept(c) => Kept(c)' BY KeptStays
<1>2. Traced(c) OBVIOUS
<1> HIDE DEF Kept
<1>3. CASE Kept(c)' BY <1>3 DEF Traced
<1>4. CASE ~Kept(c)'
  <2> USE DEF Traced
  <2>1. CASE UNCHANGED <<queue, batch, posts>> /\ (thread'[c] = "output" => thread[c] = "output")
    BY <1>1, <1>2, <2>1
  <2>2. ASSUME NEW d \in Commands, PutOutput(d) \/ PutExit(d) PROVE Traced(c)'
    <3>1. CASE PutOutput(d)
      <4>1. /\ UNCHANGED <<batch, posts>> /\ queue' = queue \cup {<<"output", d>>}
            /\ thread'[c] = "output" => c = d \/ thread[c] = "output"
        BY <3>1 DEF PutOutput, TypeOK
      <4>2. <<"exit", c>> \in queue' => <<"exit", c>> \in queue BY <4>1
      <4> QED BY <1>1, <1>2, <4>1, <4>2
    <3>2. CASE PutExit(d)
      <4>1. /\ UNCHANGED <<batch, posts>> /\ queue' = queue \cup {<<"exit", d>>}
            /\ thread'[c] = "output" => thread[c] = "output"
            /\ thread[d] = "output"
        BY <3>2 DEF PutExit, TypeOK
      <4>2. <<"exit", c>> \in queue' => <<"exit", c>> \in queue \/ thread[c] = "output" BY <4>1
      <4> QED BY <1>1, <1>2, <4>1, <4>2
    <3> QED BY <2>2, <3>1, <3>2
  <2>3. ASSUME NEW p \in posts, PostFails(p) PROVE Traced(c)'
    <3>1. /\ \A q \in posts' : q \in posts \ {p} \/ q = Unheard(p)
          /\ Unheard(p).frames = p.frames /\ ~Unheard(p).awaited /\ queue' = queue
      BY <2>3, FailStep
    <3>2. thread' = thread /\ (batch' = batch \/ (batch' = {} /\ dropped' = dropped \cup Of(batch)))
      BY <2>3 DEF PostFails
    <3>3. CASE batch' = batch BY <1>1, <1>2, <3>1, <3>2, <3>3
    <3>4. CASE batch' = {} /\ dropped' = dropped \cup Of(batch)
      <4>1. c \notin Of(batch) BY <1>4, <3>4 DEF Kept
      <4>2. <<"output", c>> \notin batch /\ <<"exit", c>> \notin batch
        BY <4>1, OfFrames DEF TypeOK
      <4> QED BY <1>1, <1>2, <3>1, <3>2, <3>4, <4>2
    <3> QED BY <3>2, <3>3, <3>4
  <2>4. ASSUME NEW p \in posts, Push(p) PROVE Traced(c)'
    <3>1. UNCHANGED <<thread, queue>> BY <2>4 DEF Push
    <3>2. "output" \in Kinds /\ "exit" \in Kinds BY DEF Kinds
    <3>3. <<"output", c>> \in p.frames => c # p.at BY <1>4, <2>4, PushKeeps
    <3>4. /\ <<"output", c>> \in Rest(p).frames <=> <<"output", c>> \in p.frames
          /\ <<"exit", c>> \in Rest(p).frames => <<"exit", c>> \in p.frames
          /\ Rest(p).awaited = p.awaited
      BY <2>4, <3>2, <3>3, PushPosts
    <3>5. CASE posts' = (posts \ {p}) \cup {Rest(p)} /\ batch' = batch
      BY <1>1, <1>2, <3>1, <3>4, <3>5
    <3>6. CASE posts' = posts \ {p} /\ Rest(p).frames = {} /\ batch' = IF p.awaited THEN {} ELSE batch
      <4>1. <<"output", c>> \notin p.frames BY <3>4, <3>6
      <4>2. p.awaited => <<"output", c>> \notin batch BY <1>1, <1>2, <1>4, <4>1
      <4> QED BY <1>1, <1>2, <3>1, <3>6, <4>2
    <3> QED BY <2>4, <3>5, <3>6, PushPosts
  <2>5. ASSUME NEW p \in posts, NEW d \in Commands, Begin(p, d) PROVE Traced(c)'
    <3>1. thread' = thread BY <2>5 DEF Begin, machineVars
    <3>2. /\ posts' = (posts \ {p}) \cup {At(p, d)}
          /\ At(p, d).frames = p.frames /\ At(p, d).awaited = p.awaited
          /\ UNCHANGED <<queue, batch>>
      BY <2>5, BeginStep
    <3> QED BY <1>1, <1>2, <3>1, <3>2
  <2>6. CASE Gather
    <3>1. batch = {} /\ batch' = queue /\ queue' = {} /\ UNCHANGED <<thread, posts>>
      BY <2>6 DEF Gather
    <3>2. \A p \in posts : ~p.awaited BY <3>1 DEF Wired, Filled
    <3> QED BY <1>1, <1>2, <3>1, <3>2
  <2>7. CASE Post
    <3>1. thread' = thread BY <2>7 DEF Post
    <3>2. /\ posts' = posts \cup {NewPost} /\ NewPost.frames = batch
          /\ \A p \in posts : ~p.awaited
          /\ UNCHANGED <<queue, batch>>
      BY <2>7, PostStep
    <3> QED BY <1>1, <1>2, <3>1, <3>2
  <2>8. CASE Die
    <3>1. queue' = {} /\ batch' = {} /\ thread'[c] # "output" BY <2>8 DEF Die, TypeOK
    <3>2. \A q \in posts' : ~q.awaited /\ \E p \in posts : q.frames = p.frames
      BY <2>8, DieStep
    <3> QED BY <1>1, <1>2, <3>1, <3>2
  <2> QED BY <2>1, <2>2, <2>3, <2>4, <2>5, <2>6, <2>7, <2>8, Tracers
<1> QED BY <1>3, <1>4

\* Where the frames of a push lie in the outbox.
LEMMA PushedPlaces ==
    ASSUME NEW s \in Seq(Kinds), NEW frames, NEW c,
           NEW i \in 1..Len(s \o Pushed(frames, c)), (s \o Pushed(frames, c))[i] = "exit"
    PROVE \/ i \in 1..Len(s) /\ s[i] = "exit"
          \/ /\ <<"exit", c>> \in frames /\ i > Len(s)
             /\ <<"output", c>> \in frames => After(s \o Pushed(frames, c), i)
<1>1. CASE <<"output", c>> \in frames /\ <<"exit", c>> \in frames
  <2>1. PICK u \in Seq(Kinds), v \in Seq(Kinds) :
           /\ Pushed(frames, c) = u \o v
           /\ Len(u) = 1 /\ Len(v) = 1 /\ u[1] = "output" /\ v[1] = "exit"
    <3>1. Pushed(frames, c) = <<"output">> \o <<"exit">> BY <1>1 DEF Pushed
    <3>2. <<"output">> \in Seq(Kinds) /\ <<"exit">> \in Seq(Kinds) BY DEF Kinds
    <3>3. /\ Len(<<"output">>) = 1 /\ Len(<<"exit">>) = 1
          /\ <<"output">>[1] = "output" /\ <<"exit">>[1] = "exit"
      OBVIOUS
    <3> QED BY <3>1, <3>2, <3>3
  <2>2. /\ Len(s \o (u \o v)) = Len(s) + 2
        /\ (s \o (u \o v))[Len(s) + 1] = "output"
        /\ \A k \in 1..Len(s) : (s \o (u \o v))[k] = s[k]
    <3> DEFINE w == u \o v
    <3>1. /\ w \in Seq(Kinds)
          /\ Len(w) = Len(u) + Len(v)
          /\ \A k \in 1..(Len(u) + Len(v)) :
                 w[k] = IF k <= Len(u) THEN u[k] ELSE v[k - Len(u)]
      BY ConcatProperties, Zenon
    <3>2. Len(w) = 2 /\ w[1] = "output" BY <2>1, <3>1
    <3> HIDE DEF w
    <3>3. /\ Len(s \o w) = Len(s) + Len(w)
          /\ \A k \in 1..(Len(s) + Len(w)) :
                 (s \o w)[k] = IF k <= Len(s) THEN s[k] ELSE w[k - Len(s)]
      BY <3>1, ConcatProperties, ZenonT(30)
    <3>4. Len(s) \in Nat OBVIOUS
    <3> QED BY <3>2, <3>3, <3>4 DEF w
  <2>3. CASE i \in 1..Len(s) BY <2>1, <2>2, <2>3
  <2>4. CASE i > Len(s)
    <3>1. i # Len(s) + 1 BY <2>1, <2>2
    <3>2. Len(s) + 1 \in 1..Len(s \o (u \o v)) /\ Len(s) + 1 < i BY <2>1, <2>2, <2>4, <3>1
    <3>3. After(s \o (u \o v), i) BY <2>2, <3>2 DEF After
    <3> QED BY <1>1, <2>1, <2>4, <3>3
  <2> QED BY <2>1, <2>2, <2>3, <2>4
<1>2. CASE <<"output", c>> \in frames /\ <<"exit", c>> \notin frames
  <2>1. Pushed(frames, c) = <<"output">> BY <1>2 DEF Pushed
  <2> QED BY <1>2, <2>1
<1>3. CASE <<"output", c>> \notin frames /\ <<"exit", c>> \in frames
  <2>1. Pushed(frames, c) = <<"exit">> BY <1>3 DEF Pushed
  <2> QED BY <1>3, <2>1
<1>4. CASE <<"output", c>> \notin frames /\ <<"exit", c>> \notin frames
  <2>1. Pushed(frames, c) = <<>> BY <1>4 DEF Pushed
  <2> QED BY <1>4, <2>1
<1> QED BY <1>1, <1>2, <1>3, <1>4

\* Preceded is kept by every step.
LEMMA PrecededStep ==
    ASSUME TypeOK, \A c \in Commands : Traced(c), \A c \in Commands : Preceded(c),
           [Next]_vars, NEW c \in Commands
    PROVE Preceded(c)'
<1>1. c \in dropped \/ Popped(c) => c \in dropped' \/ Popped(c)'
  BY PoppedStays, Grow
<1>2. Preceded(c) OBVIOUS
<1>3. CASE c \in dropped' \/ Popped(c)' BY <1>3 DEF Preceded
<1>4. CASE ~(c \in dropped' \/ Popped(c)')
  <2>1. ~(c \in dropped \/ Popped(c)) BY <1>1, <1>4
  <2>2. \A i \in 1..Len(out[c]) : out[c][i] = "exit" => After(out[c], i)
    BY <1>2, <2>1 DEF Preceded
  <2>3. SUFFICES ASSUME NEW i \in 1..Len(out'[c]), out'[c][i] = "exit"
                 PROVE After(out'[c], i)
    BY DEF Preceded
  <2>4. CASE out'[c] = out[c] BY <2>2, <2>3, <2>4
  <2>5. ASSUME NEW k \in Roles, Pop(c, k)
        PROVE After(out'[c], i)
    <3>1. out[c] \in Seq(Kinds) /\ out[c] # <<>> /\ out'[c] = Tail(out[c]) BY <2>5, PopStep
    <3>2. i + 1 \in 1..Len(out[c]) /\ out[c][i + 1] = "exit" BY <2>3, <3>1, ExitIn
    <3>3. PICK j \in 1..Len(out[c]) : j < i + 1 /\ out[c][j] = "output"
      BY <2>2, <3>2 DEF After
    <3>4. CASE j = 1
      <4>1. Head(out[c]) = "output" BY <3>1, <3>3, <3>4
      <4>2. pc'[c][k] = "remember" BY <2>5, <4>1, PopStep
      <4> QED BY <1>4, <4>2 DEF Popped
    <3>5. CASE j # 1
      <4>1. j - 1 \in 1..Len(Tail(out[c])) /\ Tail(out[c])[j - 1] = out[c][j]
        BY <3>1, <3>3, <3>5
      <4>2. j - 1 < i BY <3>3
      <4> QED BY <3>1, <3>3, <4>1, <4>2 DEF After
    <3> QED BY <3>4, <3>5
  <2>6. ASSUME NEW p \in posts, Push(p), p.at = c
        PROVE After(out'[c], i)
    <3>1. out'[c] = out[c] \o Pushed(p.frames, c) /\ out[c] \in Seq(Kinds)
      BY <2>6 DEF Push, TypeOK
    <3> DEFINE w == Pushed(p.frames, c)
    <3>2. \/ i \in 1..Len(out[c]) /\ out[c][i] = "exit"
          \/ /\ <<"exit", c>> \in p.frames /\ i > Len(out[c])
             /\ <<"output", c>> \in p.frames => After(out[c] \o w, i)
      <4>1. i \in 1..Len(out[c] \o Pushed(p.frames, c))
            /\ (out[c] \o Pushed(p.frames, c))[i] = "exit"
        BY <2>3, <3>1
      <4>2. out[c] \in Seq(Kinds) BY <3>1
      <4> QED BY <4>1, <4>2, PushedPlaces
    <3>3. w \in Seq(Kinds) BY PushedType
    <3>4. out'[c] = out[c] \o w BY <3>1
    <3>5. <<"exit", c>> \in p.frames =>
            \/ <<"output", c>> \in p.frames
            \/ \E j \in 1..Len(out[c]) : out[c][j] = "output"
      BY <2>1 DEF Traced, Kept
    <3> HIDE DEF w
    <3>6. ASSUME NEW j \in 1..Len(out[c])
          PROVE j \in 1..Len(out[c] \o w) /\ (out[c] \o w)[j] = out[c][j]
      BY <3>1, <3>3
    <3>7. CASE i \in 1..Len(out[c]) /\ out[c][i] = "exit"
      <4>1. PICK j \in 1..Len(out[c]) : j < i /\ out[c][j] = "output"
        BY <2>2, <3>7 DEF After
      <4> QED BY <3>4, <3>6, <4>1 DEF After
    <3>8. CASE <<"exit", c>> \in p.frames /\ i > Len(out[c]) /\ <<"output", c>> \notin p.frames
      <4>1. PICK j \in 1..Len(out[c]) : out[c][j] = "output" BY <3>5, <3>8
      <4>2. j < i BY <3>1, <3>8, <2>3
      <4> QED BY <3>4, <3>6, <4>1, <4>2 DEF After
    <3> QED BY <3>2, <3>4, <3>7, <3>8
  <2>7. ASSUME NEW d \in Commands, NEW k \in Roles, Pop(d, k), d # c PROVE out'[c] = out[c]
    BY <2>7, PopStep
  <2>8. ASSUME NEW p \in posts, Push(p), p.at # c PROVE out'[c] = out[c]
    BY <2>8 DEF Push, TypeOK
  <2> QED BY <2>4, <2>5, <2>6, <2>7, <2>8, Outboxes
<1> QED BY <1>3, <1>4

\* Answered is kept by every step.
LEMMA AnsweredStep ==
    ASSUME TypeOK, \A c \in Commands : Preceded(c), \A c \in Commands : Answered(c),
           [Next]_vars, NEW c \in Commands
    PROVE Answered(c)'
<1>1. c \in dropped \/ Popped(c) => c \in dropped' \/ Popped(c)'
  BY PoppedStays, Grow
<1>2. SUFFICES ASSUME row'[c] = "done" \/ \E k \in Roles : pc'[c][k] = "exit"
               PROVE c \in dropped \/ Popped(c)
  BY <1>1 DEF Answered
<1>3. SUFFICES ASSUME ~(c \in dropped \/ Popped(c)) PROVE FALSE
  OBVIOUS
<1>4. row[c] # "done" /\ \A k \in Roles : pc[c][k] # "exit"
  BY <1>3 DEF Answered
<1>5. row'[c] # "done"
  <2>1. CASE UNCHANGED row BY <1>4, <2>1
  <2>2. ASSUME NEW d \in Commands, Store(d) PROVE row'[c] # "done"
    BY <1>4, <2>2 DEF Store, TypeOK
  <2>3. ASSUME NEW d \in Commands, CancelMark(d) PROVE row'[c] # "done"
    BY <1>4, <2>3 DEF CancelMark, Write, TypeOK
  <2>4. ASSUME NEW d \in Commands, NEW k \in Roles, Finish(d, k) PROVE row'[c] # "done"
    BY <1>4, <2>4 DEF Finish, Write, Verdict, TypeOK
  <2>5. ASSUME NEW p \in posts, NEW d \in Commands, Begin(p, d) PROVE row'[c] # "done"
    BY <1>4, <2>5 DEF Begin, Write, TypeOK
  <2> QED BY <2>1, <2>2, <2>3, <2>4, <2>5, Writers
<1>6. PICK k \in Roles : pc'[c][k] = "exit" BY <1>2, <1>5
<1>7. CASE pc' = pc BY <1>4, <1>6, <1>7
<1>8. ASSUME NEW d \in Commands, NEW j \in Roles, Pop(d, j) PROVE FALSE
  <2>1. c = d BY <1>4, <1>6, <1>8, PopStep
  <2>2. out[c] \in Seq(Kinds) /\ out[c] # <<>> BY <1>8, <2>1, PopStep
  <2>3. Head(out[c]) = "exit"
    <3>1. CASE Head(out[c]) = "output"
      <4>1. pc'[c][j] = "remember" BY <1>8, <2>1, <3>1, PopStep
      <4>2. k # j BY <1>6, <4>1
      <4>3. pc'[c][k] = pc[c][k] BY <1>8, <2>1, <4>2 DEF Pop, Move, TypeOK
      <4> QED BY <1>4, <1>6, <4>3
    <3>2. Head(out[c]) \in Kinds BY <2>2
    <3> QED BY <3>1, <3>2 DEF Kinds
  <2>4. 1 \in 1..Len(out[c]) /\ out[c][1] = "exit" BY <2>2, <2>3
  <2>5. ~After(out[c], 1) BY DEF After
  <2> QED BY <1>3, <2>4, <2>5 DEF Preceded
<1>9. ASSUME NEW d \in Commands, Send(d) \/ Store(d) \/ Wait(d) PROVE FALSE
  <2>1. "main" \in Roles /\ "waiter" \in Roles BY DEF Roles
  <2>2. CASE Send(d) BY <1>4, <1>6, <2>1, <2>2, PlaceUpdated DEF Send, Move
  <2>3. CASE Store(d) BY <1>4, <1>6, <2>1, <2>3, PlaceUpdated DEF Store, Move
  <2>4. CASE Wait(d) BY <1>4, <1>6, <2>1, <2>4, PlaceUpdated DEF Wait, Move
  <2> QED BY <1>9, <2>2, <2>3, <2>4
<1>10. ASSUME NEW d \in Commands, NEW j \in Roles, Remember(d, j) \/ SeesDead(d, j) \/ TimesOut(d, j)
       PROVE FALSE
  <2>1. CASE Remember(d, j) BY <1>4, <1>6, <2>1, PlaceUpdated DEF Remember, Move
  <2>2. CASE SeesDead(d, j) BY <1>4, <1>6, <2>2, PlaceUpdated DEF SeesDead, Move
  <2>3. CASE TimesOut(d, j) BY <1>4, <1>6, <2>3, PlaceUpdated DEF TimesOut, Move
  <2> QED BY <1>10, <2>1, <2>2, <2>3
<1>11. ASSUME NEW d \in Commands, NEW j \in Roles, Finish(d, j) PROVE FALSE
  BY <1>4, <1>6, <1>11, PlaceFinished
<1>12. ASSUME NEW d \in Commands, NEW j \in Roles, CollectorStops(d, j) PROVE FALSE
  <2>1. pc' = [pc EXCEPT ![d][j] = "cancelled"] \/ pc' = [pc EXCEPT ![d][j] = "dead"]
    BY <1>12 DEF CollectorStops
  <2>2. CASE pc' = [pc EXCEPT ![d][j] = "cancelled"] BY <1>4, <1>6, <2>2, PlaceUpdated
  <2>3. CASE pc' = [pc EXCEPT ![d][j] = "dead"] BY <1>4, <1>6, <2>3, PlaceUpdated
  <2> QED BY <2>1, <2>2, <2>3
<1> QED BY <1>7, <1>8, <1>9, <1>10, <1>11, <1>12, Collectors DEF Collect

\* The invariant of LogIsWhole.
Logged == /\ \A c \in Commands : Traced(c)
          /\ \A c \in Commands : Preceded(c)
          /\ \A c \in Commands : Answered(c)

\* Outputs precede exits everywhere, in every state.
LEMMA LoggedInvariant == Spec => []Logged
<1>1. Init => Logged
  BY DEF Init, Logged, Traced, Preceded, Answered
<1>2. TypeOK /\ Final /\ Filled /\ Logged /\ [Next]_vars => Logged'
  <2> SUFFICES ASSUME TypeOK, Final, Filled, Logged, [Next]_vars PROVE Logged'
    OBVIOUS
  <2>1. (\A c \in Commands : Traced(c))' BY TracedStep DEF Final, Logged
  <2>2. (\A c \in Commands : Preceded(c))' BY PrecededStep DEF Logged
  <2>3. (\A c \in Commands : Answered(c))' BY AnsweredStep DEF Logged
  <2> QED BY <2>1, <2>2, <2>3 DEF Logged
<1> QED BY <1>1, <1>2, TypeCorrect, FinalInvariant, FilledInvariant, PTL DEF Spec

\* The log of a command that is done has its output, unless the machine gave
\* up its frames or a collector fell.
THEOREM LogIsWholeCorrect == Spec => []LogIsWhole
<1>1. Logged => LogIsWhole
  BY DEF Logged, Answered, Popped, LogIsWhole
<1> QED BY <1>1, LoggedInvariant, PTL
=============================================================================
