----------------------------- MODULE Deliveries -----------------------------
(***************************************************************************)
(* Webhooks of GitHub: a route stores each delivery once, by its number;   *)
(* the worker of each instance claims a batch of rows under a lease and    *)
(* handles them one by one.  A push becomes a CI run and notifications, a  *)
(* lifecycle event changes the installation and its repositories.          *)
(*                                                                         *)
(* Sources: api/routes/public/github.py, github/webhooks/, the             *)
(* repositories of deliveries, subscriptions and installations,            *)
(* github/subscriptions.py, github/app/install.py.                         *)
(*                                                                         *)
(* Deliveries are numbered as they are received.  A payload is a record of *)
(* what the handlers look at; there is one installation with one           *)
(* repository.  The text of a notification is abstracted to whether there  *)
(* is one.  A CI run is what module CiRun starts from.                     *)
(***************************************************************************)
EXTENDS Integers, Sequences, FiniteSets

CONSTANTS
    Workers,     \* instances with runs_worker
    Newest,      \* bound of the model: deliveries
    Payloads,    \* what they may say
    Subs,        \* subscriptions a user may have made
    AskedFor,    \* of each subscription: kind, filters and the user's logins
    Whitelist,   \* senders and owners of ci_whitelist
    Batch,       \* webhook_batch
    MaxAttempts, \* webhook_max_attempts
    MaxFaults    \* bound of the model: see Fault

ASSUME DeliveriesAssumption ==
    /\ Newest \in Nat /\ MaxFaults \in Nat
    /\ Batch \in Nat \ {0} /\ MaxAttempts \in Nat \ {0} /\ IsFiniteSet(Workers)

Deliveries == 1..Newest

VARIABLES
    payload,    \* of each delivery received
    row,        \* of each delivery: columns claimed_at and processed_at
    attempts, error, \* columns
    batch,      \* of each worker: claimed rows, with the attempts read
    place,      \* of each worker: where it is with the head of its batch
    todo,       \* of each worker: subscriptions _notify has not come to
    suspended,  \* Installation.suspended
    known,      \* the repository has a row
    subs,       \* rows of github_subscriptions
    runs,       \* CI runs enqueued for each delivery
    told,       \* notifications sent for each delivery and subscription
    crossed,    \* somebody had it when a later one was claimed
    faults

rowVars == <<payload, row, attempts, error, crossed>>
workVars == <<batch, place, todo>>
effects == <<suspended, known, subs, runs, told>>
vars == <<rowVars, workVars, effects, faults>>

Places == {"idle", "ci", "notify", "send", "lifecycle", "sync", "repos", "done", "failed"}

TypeOK ==
    /\ payload \in Seq(Payloads) /\ Len(payload) <= Newest
    /\ row \in [Deliveries -> {"none", "waiting", "leased", "lapsed", "settled", "gone"}]
    /\ attempts \in [Deliveries -> Nat]
    /\ error \in [Deliveries -> BOOLEAN]
    /\ \A w \in Workers :
        /\ batch[w] \in Seq(Deliveries \X Nat) /\ Len(batch[w]) <= Batch
        /\ place[w] = "idle" <=> batch[w] = <<>>
    /\ place \in [Workers -> Places]
    /\ todo \in [Workers -> SUBSET Subs]
    /\ suspended \in BOOLEAN /\ known \in BOOLEAN
    /\ subs \subseteq Subs /\ (subs # {} => known)
    /\ runs \in [Deliveries -> Nat]
    /\ told \in [Deliveries -> [Subs -> Nat]]
    /\ crossed \subseteq Deliveries
    /\ faults \in 0..MaxFaults

Init ==
    /\ payload = <<>>
    /\ row = [d \in Deliveries |-> "none"]
    /\ attempts = [d \in Deliveries |-> 0]
    /\ error = [d \in Deliveries |-> FALSE]
    /\ batch = [w \in Workers |-> <<>>]
    /\ place = [w \in Workers |-> "idle"]
    /\ todo = [w \in Workers |-> {}]
    /\ suspended = FALSE
    /\ known = TRUE
    /\ subs = Subs
    /\ runs = [d \in Deliveries |-> 0]
    /\ told = [d \in Deliveries |-> [s \in Subs |-> 0]]
    /\ crossed = {}
    /\ faults = 0

Fault ==
    /\ faults < MaxFaults
    /\ faults' = faults + 1

-----------------------------------------------------------------------------
(* What the payloads mean.                                                 *)

\* KINDS: the events a kind of subscription is about.
EventsOf(kind) ==
    CASE kind = "ci" -> {"workflow_run", "check_suite"}
      [] kind = "push" -> {"push"}
      [] kind = "pr" -> {"pull_request"}
      [] kind = "pr_comments" -> {"pull_request_review", "pull_request_review_comment"}
      [] kind = "issues" -> {"issues"}
      [] kind = "issue_comments" -> {"issue_comment"}
      [] kind = "releases" -> {"release", "create"}
      [] kind = "deploys" -> {"deployment_status"}
      [] kind = "stars" -> {"star", "fork"}
      [] kind = "admin" -> {"member", "repository", "public", "delete"}
      [] OTHER -> {}

\* The filters of a subscription; a filter that is not set is absent.
Filtered(f, p, logins) ==
    /\ "ignore_self" \in DOMAIN f => p.sender \notin logins
    /\ "branch" \in DOMAIN f => p.branch \in {"", f.branch}
    /\ "author" \in DOMAIN f => p.author = f.author
    /\ "label" \in DOMAIN f => f.label \in p.labels
    /\ "workflow" \in DOMAIN f => p.workflow \in {"", f.workflow}
    /\ "only_failures" \in DOMAIN f => p.conclusion \notin {"", "success"}

Matches(s, p) ==
    /\ AskedFor[s].kind = "all" \/ p.event \in EventsOf(AskedFor[s].kind)
    /\ Filtered(AskedFor[s].filters, p, AskedFor[s].logins)

Mentioned(s, p) == p.mentions \cap AskedFor[s].logins # {}

\* A push without commits is passed over.
AboutPush(p) == p.event = "push" /\ p.content

\* Pull requests, issues, comments and reviews.
AboutWork(p) ==
    p.action \in
        CASE p.event = "pull_request" ->
                {"opened", "closed", "reopened", "ready_for_review", "converted_to_draft"}
          [] p.event = "issues" -> {"opened", "closed", "reopened", "assigned", "labeled"}
          [] p.event \in {"issue_comment", "pull_request_review_comment"} -> {"created"}
          [] p.event = "pull_request_review" -> {"submitted"}
          [] OTHER -> {}

\* A workflow that is done, and checks that did not go well.
AboutChecks(p) ==
    /\ p.action = "completed"
    /\ \/ p.event = "workflow_run"
       \/ p.event = "check_suite" /\ p.conclusion \notin {"", "success"}

\* Releases, tags, deployments, stars and what becomes of the repository.
AboutRepository(p) ==
    \/ p.event = "release" /\ p.action \in {"published", "released"}
    \/ p.event = "create" /\ p.content
    \/ p.event \in {"delete", "fork", "member", "public"}
    \/ p.event = "deployment_status" /\ p.conclusion \in {"success", "failure", "error"}
    \/ p.event = "star" /\ p.action = "created"
    \/ p.event = "repository" /\ p.action \in
           {"created", "deleted", "archived", "renamed", "transferred", "publicized", "privatized"}

AboutJob(p) ==
    /\ p.event = "workflow_job" /\ p.action = "completed"
    /\ p.conclusion \notin {"", "success", "skipped"}

\* render returns a text.
Renders(p) == AboutPush(p) \/ AboutWork(p) \/ AboutChecks(p) \/ AboutRepository(p) \/ AboutJob(p)

\* What _notify sends to a subscription; render_mention has always a text.
Wants(s, p) == IF AskedFor[s].kind = "mentions" THEN Mentioned(s, p) ELSE Matches(s, p) /\ Renders(p)

\* enqueue_from_webhook goes as far as enqueue_run.
StartsRun(p) ==
    /\ p.sender \in Whitelist
    /\ \/ p.event = "push" /\ p.action # "deleted"
       \/ p.event \in {"check_run", "check_suite"} /\ p.action = "rerequested"

Lifecycle == {"installation", "installation_repositories"}
Suspends(p) == p.event = "installation" /\ p.action \in {"deleted", "suspend"}

-----------------------------------------------------------------------------
(* The route and the table.                                                *)

\* The route: only signed requests of a known event; pings are answered.
Accepts(p) == p.signed /\ p.event \notin {"", "ping"}

\* store: a number that is known is ignored.
Receive(p) ==
    /\ Len(payload) < Newest
    /\ Accepts(p)
    /\ payload' = Append(payload, p)
    /\ row' = [row EXCEPT ![Len(payload) + 1] = "waiting"]
    /\ UNCHANGED <<attempts, error, crossed, workVars, effects, faults>>

\* Where process begins.
Start(p) ==
    IF p.event \in Lifecycle THEN "lifecycle"
    ELSE IF p.event \in {"push", "check_run", "check_suite"} THEN "ci" ELSE "notify"

Holds(w, d) == \E i \in 1..Len(batch[w]) : batch[w][i][1] = d

Unheld(d) == \A w \in Workers : ~Holds(w, d)

\* Mutant: leases are not looked at.
ClaimableAny == {d \in Deliveries : row[d] \in {"waiting", "leased", "lapsed"}}

Claimable == {d \in Deliveries : row[d] \in {"waiting", "lapsed"}}
Before(d, S) == {e \in S : e < d}
Oldest(S) == {d \in S : Cardinality(Before(d, S)) < Batch}
InOrder(S) == {q \in [1..Cardinality(S) -> S] : \A i, j \in DOMAIN q : i < j => q[i] < q[j]}
Next1(q) == IF q = <<>> THEN "idle" ELSE Start(payload[Head(q)[1]])

\* Mutant: rows without an order.
ClaimAnyOrder(w) ==
    /\ batch[w] = <<>>
    /\ \E d \in Claimable :
        /\ batch' = [batch EXCEPT ![w] = <<<<d, attempts[d] + 1>>>>]
        /\ place' = [place EXCEPT ![w] = Start(payload[d])]
        /\ row' = [row EXCEPT ![d] = "leased"]
        /\ attempts' = [attempts EXCEPT ![d] = @ + 1]
    /\ UNCHANGED <<payload, error, crossed, todo, effects, faults>>

\* Mutant: a row is claimed only once.
ClaimNew(w) ==
    /\ batch[w] = <<>>
    /\ \E d \in Claimable :
        /\ attempts[d] = 0
        /\ batch' = [batch EXCEPT ![w] = <<<<d, 1>>>>]
        /\ place' = [place EXCEPT ![w] = Start(payload[d])]
        /\ row' = [row EXCEPT ![d] = "leased"]
        /\ attempts' = [attempts EXCEPT ![d] = 1]
    /\ UNCHANGED <<payload, error, crossed, todo, effects, faults>>

\* claim: the oldest rows that are free or whose lease is over.
Claim(w) ==
    LET S == Oldest(Claimable)
    IN  /\ batch[w] = <<>>
        /\ S # {}
        /\ \E l \in InOrder(S) :
            LET q == [i \in 1..Cardinality(S) |-> <<l[i], attempts[l[i]] + 1>>]
            IN  batch' = [batch EXCEPT ![w] = q] /\ place' = [place EXCEPT ![w] = Next1(q)]
        /\ row' = [d \in Deliveries |-> IF d \in S THEN "leased" ELSE row[d]]
        /\ attempts' = [d \in Deliveries |-> IF d \in S THEN attempts[d] + 1 ELSE attempts[d]]
        /\ crossed' = crossed \cup
               {e \in Deliveries : (\E v \in Workers : Holds(v, e)) /\ \E d \in S : e < d}
        /\ UNCHANGED <<payload, error, todo, effects, faults>>

\* job_lease is over; under a worker that is at it, that is a fault.
Lapse(d) ==
    /\ row[d] = "leased"
    /\ row' = [row EXCEPT ![d] = "lapsed"]
    /\ IF \E w \in Workers : Holds(w, d) THEN Fault ELSE UNCHANGED faults
    /\ UNCHANGED <<payload, attempts, error, crossed, workVars, effects>>

\* The janitor purges what is older than webhook_keep_days.
Purge(d) ==
    /\ row[d] \in {"waiting", "leased", "lapsed", "settled"}
    /\ row' = [row EXCEPT ![d] = "gone"]
    /\ Fault
    /\ UNCHANGED <<payload, attempts, error, crossed, workVars, effects>>

-----------------------------------------------------------------------------
(* process, for the head of the batch.                                     *)

Delivery(w) == Head(batch[w])[1]
Told(w) == payload[Delivery(w)]
Goto(w, to) == place' = [place EXCEPT ![w] = to]

\* enqueue_from_webhook commits the run.
Enqueue(w) ==
    /\ place[w] = "ci"
    /\ runs' = IF StartsRun(Told(w)) THEN [runs EXCEPT ![Delivery(w)] = @ + 1] ELSE runs
    /\ Goto(w, "notify")
    /\ UNCHANGED <<rowVars, batch, todo, suspended, known, subs, told, faults>>

\* _notify reads the subscriptions of the repository in one session.
ReadSubs(w) ==
    /\ place[w] = "notify"
    /\ todo' = [todo EXCEPT ![w] = {s \in subs : Wants(s, Told(w))}]
    /\ Goto(w, "send")
    /\ UNCHANGED <<rowVars, batch, effects, faults>>

\* A bot that does not run, or a message that is refused, is passed over.
Notify(w, s) ==
    /\ place[w] = "send"
    /\ s \in todo[w]
    /\ todo' = [todo EXCEPT ![w] = @ \ {s}]
    /\ \/ told' = [told EXCEPT ![Delivery(w)][s] = @ + 1]
       \/ UNCHANGED told
    /\ UNCHANGED <<rowVars, batch, place, suspended, known, subs, runs, faults>>

Notified(w) ==
    /\ place[w] = "send"
    /\ todo[w] = {}
    /\ Goto(w, "done")
    /\ UNCHANGED <<rowVars, batch, todo, effects, faults>>

\* An installation that is suspended or deleted; its token is forgotten.
Suspend(w) ==
    /\ place[w] = "lifecycle"
    /\ Suspends(Told(w))
    /\ suspended' = TRUE
    /\ Goto(w, "done")
    /\ UNCHANGED <<rowVars, batch, todo, known, subs, runs, told, faults>>

\* sync_installation; upsert takes a known installation out of suspension.
SyncInstallation(w) ==
    /\ place[w] = "lifecycle"
    /\ ~Suspends(Told(w))
    /\ suspended' = FALSE
    /\ Goto(w, "repos")
    /\ UNCHANGED <<rowVars, batch, todo, known, subs, runs, told, faults>>

\* sync_repos and _bind_all, or the repositories taken out, whose
\* subscriptions go with them.
SyncRepos(w) ==
    /\ place[w] = "repos"
    /\ IF Told(w).action = "removed"
         THEN known' = FALSE /\ subs' = {}
         ELSE known' = TRUE /\ UNCHANGED subs
    /\ Goto(w, "done")
    /\ UNCHANGED <<rowVars, batch, todo, suspended, runs, told, faults>>

\* process catches what is raised before the row is settled.
Raise(w) ==
    /\ place[w] \in {"ci", "notify", "lifecycle", "repos"}
    /\ Fault
    /\ Goto(w, "failed")
    /\ UNCHANGED <<rowVars, batch, todo, effects>>

\* On to the next row of the batch.
Proceed(w) ==
    /\ batch' = [batch EXCEPT ![w] = Tail(@)]
    /\ Goto(w, Next1(Tail(batch[w])))
    /\ UNCHANGED <<payload, attempts, crossed, todo, effects, faults>>

\* deliveries.done.
Done(w) ==
    LET d == Delivery(w) IN
    /\ place[w] = "done"
    /\ IF row[d] = "gone" THEN UNCHANGED <<row, error>>
       ELSE /\ row' = [row EXCEPT ![d] = "settled"]
            /\ error' = [error EXCEPT ![d] = FALSE]
    /\ Proceed(w)

\* deliveries.failed: given up after webhook_max_attempts, else free at once.
Failed(w) ==
    LET d == Delivery(w)
        giveUp == Head(batch[w])[2] >= MaxAttempts
    IN  /\ place[w] = "failed"
        /\ IF row[d] = "gone" THEN UNCHANGED <<row, error>>
           ELSE /\ row' = [row EXCEPT ![d] = IF giveUp \/ @ = "settled" THEN "settled" ELSE "waiting"]
                /\ error' = [error EXCEPT ![d] = TRUE]
        /\ Proceed(w)

\* The process ends, or the row cannot be settled: the batch is dropped.
Drop(w) ==
    /\ batch[w] # <<>>
    /\ Fault
    /\ batch' = [batch EXCEPT ![w] = <<>>]
    /\ place' = [place EXCEPT ![w] = "idle"]
    /\ todo' = [todo EXCEPT ![w] = {}]
    /\ UNCHANGED <<rowVars, effects>>

\* Users make subscriptions and end them.
Subscribe(s) ==
    /\ known
    /\ s \notin subs
    /\ subs' = subs \cup {s}
    /\ UNCHANGED <<rowVars, workVars, suspended, known, runs, told, faults>>

Unsubscribe(s) ==
    /\ s \in subs
    /\ subs' = subs \ {s}
    /\ UNCHANGED <<rowVars, workVars, suspended, known, runs, told, faults>>

Process(w) ==
    \/ Enqueue(w) \/ ReadSubs(w) \/ Notified(w) \/ Suspend(w) \/ SyncInstallation(w)
    \/ SyncRepos(w) \/ Done(w) \/ Failed(w)
    \/ \E s \in Subs : Notify(w, s)

Next ==
    \/ \E p \in Payloads : Receive(p)
    \/ \E d \in Deliveries : Lapse(d) \/ Purge(d)
    \/ \E w \in Workers : Claim(w) \/ Process(w) \/ Raise(w) \/ Drop(w)
    \/ \E s \in Subs : Subscribe(s) \/ Unsubscribe(s)

Spec == Init /\ [][Next]_vars

\* The loop of a worker ticks and works its batch off; a lease nobody is at
\* runs out.
Fairness ==
    /\ \A w \in Workers : WF_vars(Claim(w)) /\ WF_vars(Process(w))
    /\ \A d \in Deliveries : WF_vars(Unheld(d) /\ Lapse(d))

FairSpec == Spec /\ Fairness

-----------------------------------------------------------------------------
(* Properties.                                                             *)

\* A push becomes one CI run, and a chat is told of an event once, but for
\* what fails, dies or is late on the way: a redelivery, a second worker and a
\* batch that is worked off while users subscribe add none.
EffectsExplained ==
    \A d \in Deliveries :
        runs[d] <= 1 + faults /\ \A s \in Subs : told[d][s] <= 1 + faults

\* A delivery that was only tried once, with nothing before it in other hands,
\* is applied in its turn: it does not undo a suspension that came after it.
AppliedInTurn ==
    [][\A w \in Workers, e \in Deliveries :
          (SyncInstallation(w) /\ Delivery(w) < e /\ row[e] = "settled" /\ ~error[e]
             /\ Suspends(payload[e]))
          => Delivery(w) \in crossed \/ attempts[Delivery(w)] > 1]_vars

\* The table is one of LeasedJob: a row is settled only by who took it, stays
\* settled, and is settled in the end, or purged.
StateOf(d) ==
    IF row[d] = "none" THEN "absent" ELSE IF row[d] \in {"settled", "gone"} THEN row[d] ELSE "open"

Table == INSTANCE LeasedJob WITH
    Jobs <- Deliveries, state <- [d \in Deliveries |-> StateOf(d)], tries <- attempts

IsTable == Table!Spec

=============================================================================
