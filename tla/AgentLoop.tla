------------------------------ MODULE AgentLoop ------------------------------
(***************************************************************************)
(* The step loop of one agent turn and its write-ahead checkpoints: query  *)
(* the model, run the bash block it answered with, append the output, and  *)
(* before each of these save the conversation to PostgreSQL and then, best *)
(* effort, to Redis, so that a later executor can go on from there.        *)
(*                                                                         *)
(* Sources: agent/loop.py, agent/checkpoints.py, agent/blocks.py,          *)
(* agent/runtime.py, database/repositories/checkpoint.py.                  *)
(*                                                                         *)
(* Executors come one after the other here; when two of them can overlap   *)
(* is the subject of TurnRecovery.  Messages that arrive in mid-turn are   *)
(* left out: turns.route never asks for injection, so the queue is empty.  *)
(* A reply of the model is named by the number of the query it answers.    *)
(***************************************************************************)
EXTENDS Integers, Sequences, FiniteSets, SequencesExt

CONSTANTS
    MaxSteps,     \* settings.agent_max_steps
    Past,         \* replies of the model in the history the turn begins with
    MaxFalls,     \* bound of the model: executors that are killed or paused
    CacheFails    \* TRUE: writes to Redis may fail, which is only logged

VARIABLES
    pc,         \* where the executor is
    steps,      \* result.steps
    messages,   \* the conversation
    block,      \* the reply whose code is being run
    status,     \* Turn.status
    rows,       \* turn_checkpoints, oldest created_at first
    cache,      \* the checkpoint in Redis, or NoRow
    falls,      \* executors lost so far
    queries,    \* queries sent to the model
    ran,        \* history: how often the block of each reply was started
    saved       \* history: the last three distinct checkpoints committed, oldest first

vars == <<pc, steps, messages, block, status, rows, cache, falls, queries, ran, saved>>

\* The queries that the executors of a turn can make.
Replies == 1..(MaxSteps * (MaxFalls + 1))
Phases == {"llm_query", "tool_exec", "tool_done"}

\* A message: role, and the reply it holds or whose output it holds; those of
\* the history have negative numbers, and 0 is what the turn or the loop asks.
Message == [role : {"user", "model"}, of : Int]
User(r) == [role |-> "user", of |-> r]
Model(r) == [role |-> "model", of |-> r]

\* The history of the conversation (see Conversation), and the prompt.
Prompt == [k \in 1..(2 * Past + 1) |->
              IF k = 2 * Past + 1 THEN User(0)
              ELSE IF k % 2 = 1 THEN User(-k) ELSE Model(-k)]

Row(n, p, ms, r) == [step |-> n, phase |-> p, messages |-> ms, block |-> r]
NoRow == [step |-> 0, phase |-> "none", messages |-> <<>>, block |-> 0]

IsRow(c) ==
    /\ c.step \in 1..MaxSteps /\ c.phase \in Phases
    /\ c.messages \in Seq(Message) /\ c.block \in Nat

TypeOK ==
    /\ pc \in {"idle", "top", "querySaved", "sending", "replied", "execCached", "execSaved",
               "running", "ran", "doneSaved", "stopped", "ok", "failed", "closed"}
    /\ steps \in Nat
    /\ messages \in Seq(Message)
    /\ block \in Nat
    /\ status \in {"RUNNING", "DONE", "FAILED"}
    /\ \A k \in 1..Len(rows) : IsRow(rows[k])
    /\ cache = NoRow \/ IsRow(cache)
    /\ falls \in 0..MaxFalls
    /\ queries \in Nat
    /\ ran \in [Replies -> 0..(MaxFalls + 1)]
    /\ Len(saved) <= 3

Init ==
    /\ pc = "idle"
    /\ steps = 0
    /\ messages = <<>>
    /\ block = 0
    /\ status = "RUNNING"
    /\ rows = <<>>
    /\ cache = NoRow
    /\ falls = 0
    /\ queries = 0
    /\ ran = [r \in Replies |-> 0]
    /\ saved = <<>>

-----------------------------------------------------------------------------
(* Checkpoints.                                                            *)

\* CheckpointRepository.latest: by step, then by created_at, descending.
Latest ==
    IF rows = <<>> THEN NoRow
    ELSE rows[CHOOSE k \in 1..Len(rows) : \A j \in 1..Len(rows) :
                  \/ rows[j].step < rows[k].step
                  \/ rows[j].step = rows[k].step /\ j <= k]

\* CheckpointRepository.save: an upsert on (step, phase) that keeps created_at.
Upsert(c) ==
    IF \E k \in 1..Len(rows) : rows[k].step = c.step /\ rows[k].phase = c.phase
    THEN [k \in 1..Len(rows) |->
            IF rows[k].step = c.step /\ rows[k].phase = c.phase THEN c ELSE rows[k]]
    ELSE Append(rows, c)

SameKey(c, d) == c.step = d.step /\ c.phase = d.phase

Commit(c) ==
    /\ rows' = Upsert(c)
    /\ saved' = IF saved # <<>> /\ SameKey(c, Last(saved))
                THEN [saved EXCEPT ![Len(saved)] = c]
                ELSE IF Len(saved) < 3 THEN Append(saved, c)
                ELSE <<saved[2], saved[3], c>>

\* Mutant: only the phase that opens a step is mirrored in Redis.
CacheOpening == cache' = IF Last(saved).phase = "llm_query" THEN Last(saved) ELSE cache

\* checkpoints.save after the commit: the copy in Redis is replaced, or stays
\* what it was when Redis does not answer.
CacheSaved == \/ cache' = Last(saved)
              \/ CacheFails /\ cache' = cache

\* Mutant: prune keeps the row it should drop first.
ClearKeepsOldest ==
    /\ \/ cache' = NoRow
       \/ CacheFails /\ cache' = cache
    /\ rows' = IF rows = <<>> THEN rows ELSE <<Head(rows)>>

\* checkpoints.clear: the copy goes, the latest row stays (keep_last = 1).
Clear ==
    /\ \/ cache' = NoRow
       \/ CacheFails /\ cache' = cache
    /\ rows' = IF rows = <<>> THEN rows ELSE <<Latest>>

\* checkpoints.load: the copy in Redis if there is one, else the latest row.
Load == IF cache # NoRow THEN cache ELSE Latest

\* The key expires (queue_ttl) or Redis loses it.
Evict ==
    /\ cache # NoRow
    /\ cache' = NoRow
    /\ UNCHANGED <<pc, steps, messages, block, status, rows, falls, queries, ran, saved>>

-----------------------------------------------------------------------------
(* The executor's start.                                                   *)

Going == status = "RUNNING" /\ pc = "idle"

\* _execute without a credential, or with one that is refused: the loop is not
\* begun, whether there is a checkpoint or not.
NoCredential ==
    /\ Going
    /\ pc' = "failed"
    /\ messages' = IF Load = NoRow THEN Prompt ELSE Load.messages
    /\ cache' = Load
    /\ UNCHANGED <<steps, block, status, rows, falls, queries, ran, saved>>

\* run_turn, or resume_turn of a turn without a checkpoint: the prompt again.
\* The replies of the history count as steps made.
BeginAnew ==
    /\ Going
    /\ Load = NoRow
    /\ pc' = "top"
    /\ steps' = Past
    /\ messages' = Prompt
    /\ block' = 0
    /\ UNCHANGED <<status, rows, cache, falls, queries, ran, saved>>

\* resume_turn with a checkpoint: load refills Redis and the loop goes on.
Resume ==
    /\ Going
    /\ Load # NoRow
    /\ Load.phase # "tool_exec"
    /\ pc' = "top"
    /\ steps' = Load.step
    /\ messages' = Load.messages
    /\ block' = 0
    /\ cache' = Load
    /\ UNCHANGED <<status, rows, falls, queries, ran, saved>>

\* The checkpoint was taken before a block ran: the block is run again.
ResumeBlock ==
    /\ Going
    /\ Load.phase = "tool_exec"
    /\ pc' = "execSaved"
    /\ steps' = Load.step
    /\ messages' = Load.messages
    /\ block' = Load.block
    /\ cache' = Load
    /\ UNCHANGED <<status, rows, falls, queries, ran, saved>>

-----------------------------------------------------------------------------
(* One step of loop.run.                                                   *)

\* _ask: an error for the model, merged into the last message if that is the
\* user's.
Ask(ms) == IF ms # <<>> /\ Last(ms).role = "user" THEN ms ELSE Append(ms, User(0))

SaveQuery ==
    /\ pc = "top"
    /\ steps < MaxSteps
    /\ Commit(Row(steps + 1, "llm_query", messages, 0))
    /\ pc' = "querySaved"
    /\ UNCHANGED <<steps, messages, block, status, cache, falls, queries, ran>>

SendQuery ==
    /\ pc = "querySaved"
    /\ CacheSaved
    /\ steps' = steps + 1
    /\ queries' = queries + 1
    /\ pc' = "sending"
    /\ UNCHANGED <<messages, block, status, rows, falls, ran, saved>>

\* An API error that is not the credential's fault.
QueryRefused ==
    /\ pc = "sending"
    /\ messages' = Ask(messages)
    /\ pc' = "top"
    /\ UNCHANGED <<steps, block, status, rows, cache, falls, queries, ran, saved>>

\* An API error that blames the credential: loop.run returns "failed".
QueryFailed ==
    /\ pc = "sending"
    /\ pc' = "failed"
    /\ UNCHANGED <<steps, messages, block, status, rows, cache, falls, queries,
                   ran, saved>>

\* A reply that was cut off or holds no bash block; an empty one is dropped.
ReplyUseless ==
    /\ pc = "sending"
    /\ \/ messages' = Ask(Append(messages, Model(queries)))
       \/ messages' = Ask(messages)
    /\ pc' = "top"
    /\ UNCHANGED <<steps, block, status, rows, cache, falls, queries, ran, saved>>

ReplyWithCode ==
    /\ pc = "sending"
    /\ messages' = Append(messages, Model(queries))
    /\ block' = queries
    /\ pc' = "replied"
    /\ UNCHANGED <<steps, status, rows, cache, falls, queries, ran, saved>>

SaveExec ==
    /\ pc = "replied"
    /\ Commit(Row(steps, "tool_exec", messages, block))
    /\ pc' = "execCached"
    /\ UNCHANGED <<steps, messages, block, status, cache, falls, queries, ran>>

CacheExec ==
    /\ pc = "execCached"
    /\ CacheSaved
    /\ pc' = "execSaved"
    /\ UNCHANGED <<steps, messages, block, status, rows, falls, queries, ran, saved>>

\* _run: the sandbox and the process in it.
Started(r) == ran' = [ran EXCEPT ![r] = @ + 1]

\* blocks.Runner.run, and Runner.resume which is the same.
RunBlock ==
    /\ pc = "execSaved"
    /\ Started(block)
    /\ pc' = "running"
    /\ UNCHANGED <<steps, messages, block, status, rows, cache, falls, queries, saved>>

\* There is no bwrap: the block has an error for an output.
NoSandbox ==
    /\ pc = "execSaved"
    /\ messages' = Append(messages, User(block))
    /\ pc' = "ran"
    /\ UNCHANGED <<steps, block, status, rows, cache, falls, queries, ran, saved>>

\* _decorate: of the markers in an output, those that say something of the turn.
Markers == {"sent", "stop", "image"}
Decorated(found) ==
    [sent |-> found \cap {"sent", "stop"} # {}, stopped |-> "stop" \in found, images |-> "image" \in found]

\* The block called stop() and no message waits: the checkpoints are cleared.
BlockStopped ==
    /\ pc = "running"
    /\ \E found \in SUBSET Markers : Decorated(found).stopped
    /\ Clear
    /\ pc' = "ok"
    /\ UNCHANGED <<steps, messages, block, status, falls, queries, ran, saved>>

\* It ended, well or badly: its output and images are a message of the user.
BlockEnded ==
    /\ pc = "running"
    /\ \E found \in SUBSET Markers : ~Decorated(found).stopped
    /\ messages' = Append(messages, User(block))
    /\ pc' = "ran"
    /\ UNCHANGED <<steps, block, status, rows, cache, falls, queries, ran, saved>>

SaveDone ==
    /\ pc = "ran"
    /\ Commit(Row(steps, "tool_done", messages, 0))
    /\ pc' = "doneSaved"
    /\ UNCHANGED <<steps, messages, block, status, cache, falls, queries, ran>>

CacheDone ==
    /\ pc = "doneSaved"
    /\ CacheSaved
    /\ pc' = "top"
    /\ UNCHANGED <<steps, messages, block, status, rows, falls, queries, ran, saved>>

\* agent_max_steps reached: loop.run returns its default status, "ok".
Ceiling ==
    /\ pc = "top"
    /\ steps >= MaxSteps
    /\ pc' = "ok"
    /\ UNCHANGED <<steps, messages, block, status, rows, cache, falls, queries,
                   ran, saved>>

-----------------------------------------------------------------------------
(* The executor's end.                                                     *)

\* run_turn's finally block: finish, and then the checkpoints are cleared.
Settle ==
    /\ pc \in {"ok", "failed"}
    /\ status' = IF pc = "ok" THEN "DONE" ELSE "FAILED"
    /\ pc' = "stopped"
    /\ UNCHANGED <<steps, messages, block, rows, cache, falls, queries, ran, saved>>

ClearSettled ==
    /\ pc = "stopped"
    /\ Clear
    /\ pc' = "closed"
    /\ UNCHANGED <<steps, messages, block, status, falls, queries, ran, saved>>

\* The executor is killed, or paused for a shutdown at the top of the loop:
\* what it held in memory is gone and the turn stays RUNNING unless settled.
Fall ==
    /\ pc \notin {"idle", "closed"}
    /\ falls < MaxFalls
    /\ falls' = falls + 1
    /\ pc' = "idle"
    /\ steps' = 0
    /\ messages' = <<>>
    /\ block' = 0
    /\ UNCHANGED <<status, rows, cache, queries, ran, saved>>

Step ==
    \/ NoCredential \/ BeginAnew \/ Resume \/ ResumeBlock
    \/ SaveQuery \/ SendQuery \/ QueryRefused \/ QueryFailed
    \/ ReplyUseless \/ ReplyWithCode \/ SaveExec \/ CacheExec
    \/ RunBlock \/ NoSandbox \/ BlockStopped \/ BlockEnded \/ SaveDone \/ CacheDone
    \/ Ceiling \/ Settle \/ ClearSettled

Next == Step \/ Evict \/ Fall

Spec == Init /\ [][Next]_vars

\* The executor's task is scheduled, and a turn left RUNNING finds another
\* one (TurnRecovery shows when).
FairSpec == Spec /\ WF_vars(Step)

-----------------------------------------------------------------------------
(* Properties.                                                             *)

\* What load returns is the last checkpoint that was committed or, when an
\* executor died between a commit and its write to Redis, the one before it.
\* It lags by two only on the way from a cached llm_query: a second executor
\* dies after it has committed the next llm_query in the place of a
\* tool_exec.  Never by more, however many executors fall, whatever is evicted.
LoadLagsByTwo ==
    (saved # <<>> /\ ~CacheFails) =>
        \/ Load = Last(saved)
        \/ Len(saved) >= 2 /\ Load = Last(Front(saved))
        \/ Load = Head(saved) /\ Load.phase = "llm_query" /\ Last(saved).phase = "llm_query"

\* The output of a block is known: it is in the latest row, in the copy in
\* Redis if there is one, and in the conversation of an executor that started.
Known(r) ==
    /\ User(r) \in ToSet(Latest.messages)
    /\ cache = NoRow \/ User(r) \in ToSet(cache.messages)
    /\ pc = "idle" \/ User(r) \in ToSet(messages)

\* What a step may do, 1: what is known stays known, whichever checkpoint the
\* next executors load.
KeepsOutputs == ~CacheFails => \A r \in Replies : Known(r) => Known(r)'

\* What a step may do, 2: a block is started again only while its output is not
\* known: its executor fell in mid-block or before both stores held the result.
RepeatsInFlight == \A r \in Replies : (ran'[r] > ran[r] /\ ~CacheFails) => ~Known(r)

\* The conversation the model is asked to continue ends with the user's turn,
\* and user and model alternate, after any number of resumes.
SentIsAlternating ==
    pc = "sending" =>
        /\ Last(messages).role = "user"
        /\ \A k \in 1..(Len(messages) - 1) : messages[k].role # messages[k + 1].role

\* The loop comes to an end.
TurnEnds == <>(status # "RUNNING")
=============================================================================
