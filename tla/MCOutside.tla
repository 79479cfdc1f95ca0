----------------------------- MODULE MCOutside ------------------------------
(* What happens to the service by itself: rows of tasks and of watches come *)
(* due, GitHub delivers webhooks; and what the service uses to deal with    *)
(* them: the client of GitHub, accounts and tokens, and connections to      *)
(* hosts, through tunnels, to a browser and to the page of a run.  The      *)
(* components do not touch one another in the models: a behaviour is one of *)
(* the component that on names, and the state graph is the sum of theirs.   *)
EXTENDS Deliveries, TLC

CONSTANTS
    Fires, MaxTurns, MaxOccurrences, MaxFailed, MaxLate, LeaseRunsOut, Dogs, Condition,
    Outputs, NoOutput, MaxFails, MaxMishaps, Calls, Keys, NoKey, MaxMade, MaxErrors,
    Requests, Size, PerPage, Wanted, Retries, MaxOpened, MaxChanges, Tasks, Logins,
    Repos, NameOf, MaxTokens, MaxIssued, MaxSaid, KeptAnswers, MaxCalls, MaxEvents,
    MaxChunks, MaxConnects

VARIABLES
    on,   \* the component whose behaviour it is
    kind, recurring, enabled, alive, next, active, turns, fires, sent, occurred,
    removed, lates,
    wrow, dog, wasTold, toldDisabled, mishaps,
    host, shown, call, owner, held, idle, open, forgotten, overran, made, errors,
    list, changed, holds, at, attempt, spare, bearer, slept, out, page, verdict, using,
    current, sessions, opened, closing, lost,
    tokensMade, owners, valid, account, recent, task, holding, subject, installed,
    cached, issued, late, alias, linked,
    asked, ready, sidePc, listens, inbox, said, heard, socket, done, early, failed,
    sentCalls, unanswered, wire, answers, waiting, outcome, taken, torn, events,
    whole, exists, file, printed, tasks, ended, over, conn, logs, shownLog

Sched == INSTANCE Scheduler WITH
    MaxFaults <- MaxLate, faults <- lates
Dog == INSTANCE Watches WITH
    told <- wasTold
Ssh == INSTANCE SshPool
Http == INSTANCE GithubHTTP
Acc == INSTANCE GithubAccounts WITH
    made <- tokensMade, owner <- owners
Tube == INSTANCE Tunnel WITH
    pc <- sidePc
Dev == INSTANCE Devtools WITH
    Keep <- KeptAnswers, calls <- sentCalls, sent <- events
Log == INSTANCE CiLog WITH
    shown <- shownLog

ASSUME OutsideAssumption ==
    /\ MaxTurns \in Nat /\ MaxOccurrences \in Nat /\ MaxFailed \in Nat
    /\ MaxLate \in Nat /\ LeaseRunsOut \in BOOLEAN /\ IsFiniteSet(Fires)
    /\ MaxFails \in Nat \ {0} /\ MaxMishaps \in Nat /\ NoOutput \notin Outputs
    /\ Condition.number \in Int
    /\ \A o \in Outputs : o.exit \in Int /\ o.number \in Int /\ o.hasNumber \in BOOLEAN
    /\ MaxMade \in Nat /\ MaxErrors \in Nat /\ NoKey \notin Keys /\ Keys # {} /\ Ssh!Nobody \notin Calls
    /\ Size \in Nat /\ PerPage \in Nat \ {0} /\ Wanted \in Nat /\ Retries \in Nat \ {0}
    /\ MaxOpened \in Nat /\ MaxChanges \in Nat
    /\ MaxTokens \in Nat /\ MaxIssued \in Nat /\ Acc!NoName \notin Logins

ASSUME TunnelAssumption == MaxSaid \in Nat

ASSUME DevtoolsAssumption ==
    KeptAnswers \in Nat \ {0} /\ MaxCalls \in Nat /\ MaxEvents \in Nat

ASSUME LogAssumption == MaxChunks \in Nat /\ MaxConnects \in Nat

schedVars ==
    <<kind, recurring, enabled, alive, next, active, turns, fires, sent, occurred,
      removed, lates>>
dogVars ==
    <<wrow, dog, wasTold, toldDisabled, mishaps>>
sshVars ==
    <<host, shown, call, owner, held, idle, open, forgotten, overran, made, errors>>
httpVars ==
    <<list, changed, holds, at, attempt, spare, bearer, slept, out, page, verdict,
      using, current, sessions, opened, closing, lost>>
accVars ==
    <<tokensMade, owners, valid, account, recent, task, holding, subject, installed,
      cached, issued, late, alias, linked>>
tubeVars ==
    <<asked, ready, sidePc, listens, inbox, said, heard, socket, done, early, failed>>
devVars ==
    <<sentCalls, unanswered, wire, answers, waiting, outcome, taken, torn, events>>
logVars ==
    <<whole, exists, file, printed, tasks, ended, over, conn, logs, shownLog>>

\* The variables of a connection that is not on.
NoTube ==
    /\ asked = 0 /\ ready = 0 /\ sidePc = 0 /\ listens = 0 /\ inbox = 0 /\ said = 0
    /\ heard = 0 /\ socket = 0 /\ done = 0 /\ early = 0 /\ failed = 0
NoDev ==
    /\ sentCalls = 0 /\ unanswered = 0 /\ wire = 0 /\ answers = 0 /\ waiting = 0
    /\ outcome = 0 /\ taken = 0 /\ torn = 0 /\ events = 0
NoLog ==
    /\ whole = 0 /\ exists = 0 /\ file = 0 /\ printed = 0 /\ tasks = 0 /\ ended = 0
    /\ over = 0 /\ conn = 0 /\ logs = 0 /\ shownLog = 0

HoldsOf(user, app, sees, download) ==
    [user |-> user, app |-> app, sees |-> sees, download |-> download, lenient |-> FALSE]

\* The second call is a download; the first one is whatever it may be.
FirstCalls ==
    IF on # "http" THEN {HoldsOf("token", "absent", {}, TRUE)}
    ELSE {HoldsOf(u, a, s, d) : u \in {"token", "asks"}, a \in {"absent", "no token", "token"},
                                s \in {{"user"}, {"app"}}, d \in BOOLEAN}

CallsChosen ==
    holds \in {[c \in Requests |-> IF c = "c1" THEN h ELSE HoldsOf("token", "absent", {"user"}, TRUE)] :
                  h \in FirstCalls}

OutsideInit ==
    /\ on \in {"webhooks", "tasks", "watches", "ssh", "http", "accounts", "tunnel", "devtools",
              "log"}
    /\ CallsChosen
    /\ Init /\ Sched!Init /\ Dog!Init /\ Ssh!Init /\ Http!Init /\ Acc!Init
    /\ on # "tasks" => kind = "remind" /\ recurring = TRUE
    /\ IF on = "tunnel" THEN Tube!Init ELSE NoTube
    /\ IF on = "devtools" THEN Dev!Init ELSE NoDev
    /\ IF on = "log" THEN Log!Init ELSE NoLog

OutsideNext ==
    \/ on = "webhooks" /\ Next
       /\ UNCHANGED <<on, schedVars, dogVars, sshVars, httpVars, accVars, tubeVars, devVars,
          logVars>>
    \/ on = "tasks" /\ Sched!Next
       /\ UNCHANGED <<on, vars, dogVars, sshVars, httpVars, accVars, tubeVars, devVars,
          logVars>>
    \/ on = "watches" /\ Dog!Next
       /\ UNCHANGED <<on, vars, schedVars, sshVars, httpVars, accVars, tubeVars, devVars,
          logVars>>
    \/ on = "ssh" /\ Ssh!Next
       /\ UNCHANGED <<on, vars, schedVars, dogVars, httpVars, accVars, tubeVars, devVars,
          logVars>>
    \/ on = "http" /\ Http!Next
       /\ UNCHANGED <<on, vars, schedVars, dogVars, sshVars, accVars, tubeVars, devVars,
          logVars>>
    \/ on = "accounts" /\ Acc!Next
       /\ UNCHANGED <<on, vars, schedVars, dogVars, sshVars, httpVars, tubeVars, devVars,
          logVars>>
    \/ on = "tunnel" /\ Tube!Next
       /\ UNCHANGED <<on, vars, schedVars, dogVars, sshVars, httpVars, accVars, devVars,
          logVars>>
    \/ on = "devtools" /\ Dev!Next
       /\ UNCHANGED <<on, vars, schedVars, dogVars, sshVars, httpVars, accVars, tubeVars,
          logVars>>
    \/ on = "log" /\ Log!Next
       /\ UNCHANGED <<on, vars, schedVars, dogVars, sshVars, httpVars, accVars, tubeVars,
          devVars>>

allVars ==
    <<on, vars, schedVars, dogVars, sshVars, httpVars, accVars, tubeVars, devVars, logVars>>

\* The fairness of the runner and of the workers, when they are on.
OutsideSpec ==
    /\ OutsideInit /\ [][OutsideNext]_allVars
    /\ \A w \in Workers :
        WF_vars(on = "webhooks" /\ Claim(w)) /\ WF_vars(on = "webhooks" /\ Process(w))
    /\ \A d \in Deliveries : WF_vars(on = "webhooks" /\ Unheld(d) /\ Lapse(d))
    /\ WF_schedVars(on = "tasks" /\ Sched!Due) /\ WF_schedVars(on = "tasks" /\ Sched!Claims)
    /\ \A f \in Fires : WF_schedVars(on = "tasks" /\ Sched!Fire(f))
    /\ SF_schedVars(on = "tasks" /\ \E f \in Fires : Sched!Send(f) \/ Sched!Route(f))
    /\ \A n \in Sched!Turns : WF_schedVars(on = "tasks" /\ Sched!TurnEnds(n))

-----------------------------------------------------------------------------
(* The instance.                                                           *)

Said(event, action) ==
    [event |-> event, action |-> action, sender |-> "ann", author |-> "ann", branch |-> "main",
     labels |-> {}, workflow |-> "", conclusion |-> "", content |-> TRUE, signed |-> TRUE,
     mentions |-> {"bob"}]

Events == {Said("push", "pushed"), Said("installation", "suspend"),
           Said("installation", "created"), Said("installation_repositories", "removed")}

Asks == ("s1" :> [kind |-> "push", filters |-> [branch |-> "main"], logins |-> {"bob"}])

TwoNames == ("r1" :> [short |-> "x", full |-> "ann-x"]) @@ ("r2" :> [short |-> "x", full |-> "bob-x"])

Printed(words, exit) == [words |-> words, hasNumber |-> FALSE, number |-> 0, exit |-> exit]
TwoOutputs == {Printed({"ok"}, 0), Printed({"ERROR"}, 1)}
OnChange == [kind |-> "changed", operator |-> "", number |-> 0, needle |-> ""]

-----------------------------------------------------------------------------
(* Properties of the components.                                           *)

\* See Deliveries: a delivery has its effects once, but for what fails, dies or is
\* late on the way.
EffectsAreTrue == on = "webhooks" => TypeOK /\ EffectsExplained

\* See Scheduler: an occurrence is fired once, unless a fault explains more, and
\* two turns of a row run at a time only after a fault.  See Watches: the chat was
\* told what the row says, and that a watch is off.  See SshPool, Tunnel, Devtools
\* and CiLog: no connection is left open and forgotten, and no call loses its
\* connection to another one; each side of a tunnel hears all that the other said;
\* an answer goes to its own call; the page of a run is told its end only with its
\* log.
ServicesAreTrue ==
    /\ on = "tasks" => Sched!TypeOK /\ Sched!OncePerOccurrence /\ Sched!ParallelOnlyAfterFault
    /\ on = "watches" => Dog!TypeOK /\ Dog!ChatKnows /\ Dog!OffIsTold
    /\ on = "ssh" => Ssh!TypeOK /\ Ssh!NoneIsLost /\ Ssh!Undisturbed
    /\ on = "tunnel" => Tube!TypeOK /\ Tube!TunnelIsWhole
    /\ on = "devtools" => Dev!TypeOK /\ Dev!AnswersAreOwn
    /\ on = "log" => Log!TypeOK /\ Log!LogIsShown /\ Log!NoThirdTime

\* See Scheduler: a row that is due is moved on in the end.
Rests == on = "tasks" => Sched!Rests

\* See GithubHTTP and GithubAccounts: nobody is refused whom the app may see,
\* lists are whole, and the calls share a session; a row holds what is its own,
\* and the token of an installation that is gone is not kept.
GithubIsTrue ==
    /\ on = "http" => Http!TypeOK /\ Http!SpareIsTried /\ Http!ListIsWhole /\ Http!OneSession
    /\ on = "accounts" => Acc!TypeOK /\ Acc!OwnThings /\ Acc!NoTokenOfTheGone
=============================================================================
