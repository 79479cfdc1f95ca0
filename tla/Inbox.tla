-------------------------------- MODULE Inbox --------------------------------
(***************************************************************************)
(* How a Telegram update becomes a turn: one poller per bot, elected by    *)
(* the lock of cluster.py, copies getUpdates into the table updates; every *)
(* instance has a worker that claims pending rows and feeds them to the    *)
(* dispatcher, which creates a turn for a message.                         *)
(*                                                                         *)
(* Sources: telegram/engine.py, database/repositories/update.py,           *)
(* agent/runtime.py (dispatch).  The lock is abstracted to what ClusterLock*)
(* shows of it: it may be lost under a poller, which notices at the next   *)
(* turn of its loop.  Updates are the messages of one bot, numbered as     *)
(* Telegram numbers them.                                                  *)
(***************************************************************************)
EXTENDS Naturals, Sequences, FiniteSets, FiniteSetsExt, SequencesExt

CONSTANTS
    Instances,  \* service processes
    Nobody,     \* the poller lock is free
    Newest,     \* number of the last update that arrives
    PollLimit,  \* updates one getUpdates returns at most
    ClaimLimit, \* rows one claim_pending returns at most
    MaxCrashes  \* bound of the model: kills of a process, outages under a worker

ASSUME InboxAssumption ==
    /\ Nobody \notin Instances /\ IsFiniteSet(Instances)
    /\ Newest \in Nat /\ MaxCrashes \in Nat
    /\ PollLimit \in Nat \ {0} /\ ClaimLimit \in Nat \ {0}

VARIABLES
    arrived,    \* number of the last update Telegram has received
    confirmed,  \* updates up to this one are deleted at Telegram
    lock,       \* holder of poller:<bot_id>
    poller,     \* of each instance: its _poller_loop
    offset,     \* of each poller
    fetched,    \* of each poller: the updates of the last getUpdates
    rows,       \* Update.status, "none" before the row exists
    batch,      \* of each worker: rows claimed and not dealt with
    fed,        \* of each worker: the head of its batch has its turn
    turns,      \* turns created for each update
    crashes

pollVars == <<confirmed, lock, poller, offset, fetched>>
workVars == <<batch, fed, turns>>
vars == <<arrived, pollVars, rows, workVars, crashes>>

Updates == 1..Newest

TypeOK ==
    /\ arrived \in 0..Newest
    /\ confirmed \in 0..arrived
    /\ lock \in Instances \cup {Nobody}
    /\ poller \in [Instances -> {"waiting", "leading", "polling"}]
    /\ offset \in [Instances -> 1..(Newest + 1)]
    /\ fetched \in [Instances -> SUBSET Updates]
    /\ rows \in [Updates -> {"none", "pending", "done", "failed"}]
    /\ batch \in [Instances -> Seq(Updates)]
    /\ \A i \in Instances : Len(batch[i]) <= ClaimLimit
    /\ fed \in [Instances -> BOOLEAN]
    /\ turns \in [Updates -> Nat]
    /\ crashes \in 0..MaxCrashes

Init ==
    /\ arrived = 0
    /\ confirmed = 0
    /\ lock = Nobody
    /\ poller = [i \in Instances |-> "waiting"]
    /\ offset = [i \in Instances |-> 1]
    /\ fetched = [i \in Instances |-> {}]
    /\ rows = [u \in Updates |-> "none"]
    /\ batch = [i \in Instances |-> <<>>]
    /\ fed = [i \in Instances |-> FALSE]
    /\ turns = [u \in Updates |-> 0]
    /\ crashes = 0

\* Somebody writes to the bot.
Arrive ==
    /\ arrived < Newest
    /\ arrived' = arrived + 1
    /\ UNCHANGED <<pollVars, rows, workVars, crashes>>

-----------------------------------------------------------------------------
(* The poller.                                                             *)

Rows(s) == {u \in Updates : rows[u] \in s}
Stored == Rows({"pending", "done", "failed"})
Before(u, S) == {v \in S : v < u}
First(S, n) == {u \in S : Cardinality(Before(u, S)) < n}
InOrder(S) == [k \in 1..Cardinality(S) |-> CHOOSE u \in S : Cardinality(Before(u, S)) = k - 1]

\* Mutant: the offset starts past the next update.
LeadPast(i) ==
    /\ poller[i] = "waiting"
    /\ lock = Nobody
    /\ lock' = i
    /\ poller' = [poller EXCEPT ![i] = "leading"]
    /\ offset' = [offset EXCEPT ![i] = Max(Stored \cup {0}) + 2]
    /\ UNCHANGED <<arrived, confirmed, fetched, rows, workVars, crashes>>

\* try_lock, deleteWebhook, get_starting_offset.
Lead(i) ==
    /\ poller[i] = "waiting"
    /\ lock = Nobody
    /\ lock' = i
    /\ poller' = [poller EXCEPT ![i] = "leading"]
    /\ offset' = [offset EXCEPT ![i] = Max(Stored \cup {0}) + 1]
    /\ UNCHANGED <<arrived, confirmed, fetched, rows, workVars, crashes>>

\* The key expires under its holder, which may be alive or dead.
Expire ==
    /\ lock # Nobody
    /\ lock' = Nobody
    /\ UNCHANGED <<arrived, confirmed, poller, offset, fetched, rows, workVars, crashes>>

\* held.lost is set: the loop ends.
Resign(i) ==
    /\ poller[i] = "leading"
    /\ lock # i
    /\ poller' = [poller EXCEPT ![i] = "waiting"]
    /\ UNCHANGED <<arrived, confirmed, lock, offset, fetched, rows, workVars, crashes>>

\* getUpdates: the offset confirms what is below it.
Poll(i) ==
    /\ poller[i] = "leading"
    /\ LET seen == Max({confirmed, offset[i] - 1})
           items == First({u \in 1..arrived : u > seen}, PollLimit)
       IN  /\ confirmed' = seen
           /\ items # {}
           /\ fetched' = [fetched EXCEPT ![i] = items]
    /\ poller' = [poller EXCEPT ![i] = "polling"]
    /\ UNCHANGED <<arrived, lock, offset, rows, workVars, crashes>>

\* A getUpdates that answers with nothing new.
PollEmpty(i) ==
    /\ poller[i] = "leading"
    /\ confirmed' = Max({confirmed, offset[i] - 1})
    /\ \A u \in 1..arrived : u <= confirmed'
    /\ UNCHANGED <<arrived, lock, poller, offset, fetched, rows, workVars, crashes>>

\* Mutant: the row of a redelivered update is written anew.
StoreAgain(i) == rows' = [u \in Updates |-> IF u \in fetched[i] THEN "pending" ELSE rows[u]]

\* A row for each update that has none.
Store(i) == rows' = [u \in Updates |->
                        IF u \in fetched[i] /\ rows[u] = "none" THEN "pending" ELSE rows[u]]

\* save_batch: ON CONFLICT DO NOTHING, and then the offset moves on.
SaveBatch(i) ==
    /\ poller[i] = "polling"
    /\ Store(i)
    /\ offset' = [offset EXCEPT ![i] = Max(fetched[i]) + 1]
    /\ fetched' = [fetched EXCEPT ![i] = {}]
    /\ poller' = [poller EXCEPT ![i] = "leading"]
    /\ UNCHANGED <<arrived, confirmed, lock, workVars, crashes>>

\* Mutant: the offset moves on before the batch is saved.
SaveFailsForward(i) ==
    /\ poller[i] = "polling"
    /\ offset' = [offset EXCEPT ![i] = Max(fetched[i]) + 1]
    /\ fetched' = [fetched EXCEPT ![i] = {}]
    /\ poller' = [poller EXCEPT ![i] = "leading"]
    /\ UNCHANGED <<arrived, confirmed, lock, rows, workVars, crashes>>

\* The insert raises: the same offset is asked for again.
SaveFails(i) ==
    /\ poller[i] = "polling"
    /\ fetched' = [fetched EXCEPT ![i] = {}]
    /\ poller' = [poller EXCEPT ![i] = "leading"]
    /\ UNCHANGED <<arrived, confirmed, lock, offset, rows, workVars, crashes>>

-----------------------------------------------------------------------------
(* The worker.                                                             *)

\* claim_pending: FOR UPDATE SKIP LOCKED in a session that is closed at once,
\* so the row locks are gone and the status is still pending.
Claim(i) ==
    /\ batch[i] = <<>>
    /\ Rows({"pending"}) # {}
    /\ batch' = [batch EXCEPT ![i] = InOrder(First(Rows({"pending"}), ClaimLimit))]
    /\ UNCHANGED <<arrived, pollVars, rows, fed, turns, crashes>>

\* What the middleware lets through: the id of the row is in its data, so it asks
\* nobody whether the update is a duplicate, and a chat it cannot touch is only
\* logged.  The handler's turns.route commits a turn, whatever was there before;
\* an exception of the handler goes on to the worker, see MarkFailed.
Handled(i) == turns' = [turns EXCEPT ![Head(batch[i])] = @ + 1]

\* feed_raw_update: the update is handled, and the task of its turn is started.
Feed(i) ==
    /\ batch[i] # <<>>
    /\ ~fed[i]
    /\ Handled(i)
    /\ fed' = [fed EXCEPT ![i] = TRUE]
    /\ UNCHANGED <<arrived, pollVars, rows, batch, crashes>>

Mark(i, s) ==
    /\ rows' = [rows EXCEPT ![Head(batch[i])] = s]
    /\ batch' = [batch EXCEPT ![i] = Tail(@)]
    /\ fed' = [fed EXCEPT ![i] = FALSE]
    /\ UNCHANGED <<arrived, pollVars, turns, crashes>>

MarkDone(i) ==
    /\ batch[i] # <<>>
    /\ fed[i]
    /\ Mark(i, "done")

\* The dispatcher raises, before or after the turn was created, or the bot is
\* not served here.
MarkFailed(i) ==
    /\ batch[i] # <<>>
    /\ Mark(i, "failed")

\* The process dies and is started again; its key stays until it expires.
Crash(i) ==
    /\ crashes < MaxCrashes
    /\ crashes' = crashes + 1
    /\ poller' = [poller EXCEPT ![i] = "waiting"]
    /\ fetched' = [fetched EXCEPT ![i] = {}]
    /\ batch' = [batch EXCEPT ![i] = <<>>]
    /\ fed' = [fed EXCEPT ![i] = FALSE]
    /\ UNCHANGED <<arrived, confirmed, lock, offset, rows, turns>>

\* The row cannot be marked: the exception leaves the loop over the batch.
Abandon(i) ==
    /\ batch[i] # <<>>
    /\ crashes < MaxCrashes
    /\ crashes' = crashes + 1
    /\ batch' = [batch EXCEPT ![i] = <<>>]
    /\ fed' = [fed EXCEPT ![i] = FALSE]
    /\ UNCHANGED <<arrived, pollVars, rows, turns>>

Polling(i) == Lead(i) \/ Resign(i) \/ Poll(i) \/ PollEmpty(i) \/ SaveBatch(i)

Working(i) == Claim(i) \/ Feed(i) \/ MarkDone(i) \/ MarkFailed(i)

Next ==
    \/ Arrive \/ Expire
    \/ \E i \in Instances : Polling(i) \/ SaveFails(i) \/ Working(i) \/ Abandon(i) \/ Crash(i)

Spec == Init /\ [][Next]_vars

ExpireDead == lock # Nobody /\ poller[lock] = "waiting" /\ Expire

\* A dead holder's key expires, loops are scheduled, and the database takes a
\* batch now and then; a worker's step is always possible.
FairSpec ==
    /\ Spec
    /\ WF_vars(ExpireDead)
    /\ \A i \in Instances :
        /\ SF_vars(Lead(i)) /\ WF_vars(Resign(i)) /\ SF_vars(Poll(i)) /\ SF_vars(SaveBatch(i))
        /\ WF_vars(Working(i))

-----------------------------------------------------------------------------
(* Properties.                                                             *)

\* What is deleted at Telegram is in the table, whoever polled, saved, failed
\* to save or died, and with two pollers at work after a lost lock.
NothingDropped == \A u \in 1..confirmed : rows[u] # "none"

\* An update has at most one turn for each worker and one for each kill or
\* outage under it: a redelivery, a second poller and a failed save add none.
TurnsAreBounded == \A u \in Updates : turns[u] <= Cardinality(Instances) + crashes

\* What arrives is dealt with in the end: again and again nothing is left over.
EveryUpdateSettles == []<>(\A u \in 1..arrived : rows[u] \in {"done", "failed"})

-----------------------------------------------------------------------------
(* What the documentation says and the code does not do.                   *)

\* docs/resilience.md: repeats do not give the user an answer twice, so an
\* update does not become two turns.
OneTurn == \A u \in Updates : turns[u] <= 1
=============================================================================
