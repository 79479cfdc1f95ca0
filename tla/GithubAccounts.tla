--------------------------- MODULE GithubAccounts ---------------------------
(***************************************************************************)
(* The github accounts of a user, the tokens of the app, and the           *)
(* repositories the user works with under names of their own.              *)
(*                                                                         *)
(* Sources: github/pat.py, github/app/auth.py, github/app/install.py,      *)
(* database/repositories/github.py, api/routes/cli/github.py,              *)
(* telegram/handlers/commands/gh.py.                                       *)
(*                                                                         *)
(* One user and one installation.  Requests are handled by tasks that know *)
(* nothing of each other: a task verifies a token and saves it later, reads*)
(* the names that are taken and inserts one later.  Tokens are numbered in *)
(* the order in which they were made; an account has one at GitHub.        *)
(***************************************************************************)
EXTENDS Naturals, Sequences, FiniteSets

CONSTANTS
    Tasks,      \* handlers of requests
    Logins,     \* accounts at GitHub
    Repos,      \* repositories
    NameOf,     \* of each: its name, and the one with its owner
    MaxTokens,  \* bound of the model: tokens made
    MaxIssued   \* bound of the model: tokens of the app issued

VARIABLES
    made,      \* tokens made so far
    owner,     \* of each token: its account, once it is made
    valid,     \* tokens GitHub knows
    account,   \* of each login: its row, the token or 0, or NoRow
    recent,    \* the rows by last_used_at, the last first
    task,      \* of each task: where it is
    holding,   \* of each task: what it has read (a token, or names)
    subject,   \* of each task: what it works on
    installed, \* the app is installed at GitHub
    cached,    \* token of the installation in Redis, 0 when there is none
    issued,    \* tokens of the installation GitHub has issued
    late,      \* a token was cached that was issued before a forgetting
    alias,     \* rows of user_repos
    linked     \* repositories with an installation_id

accountVars == <<made, owner, valid, account, recent>>
taskVars == <<task, holding, subject>>
appVars == <<installed, cached, issued, late>>
repoVars == <<alias, linked>>
vars == <<accountVars, taskVars, appVars, repoVars>>

NoRow == MaxTokens + 1
NoName == "none"
Suffix(r) == NameOf[r].full \o "-2"
Names == {NameOf[r].short : r \in Repos} \cup {NameOf[r].full : r \in Repos}
            \cup {Suffix(r) : r \in Repos}
Nothing == [token |-> 0, names |-> {}]

Places == {"idle", "verified", "asked", "issued", "bind", "named", "refused", "clash"}

TypeOK ==
    /\ made \in 0..MaxTokens
    /\ owner \in [1..MaxTokens -> Logins \cup {NoName}]
    /\ valid \subseteq 1..made
    /\ account \in [Logins -> (0..MaxTokens) \cup {NoRow}]
    /\ {recent[i] : i \in 1..Len(recent)} = {l \in Logins : account[l] # NoRow}
    /\ Len(recent) = Cardinality({l \in Logins : account[l] # NoRow})
    /\ task \in [Tasks -> Places]
    /\ holding \in [Tasks -> [token : 0..(MaxTokens + MaxIssued), names : SUBSET Names]]
    /\ subject \in [Tasks -> Logins \cup Repos \cup {NoName}]
    /\ installed \in BOOLEAN /\ late \in BOOLEAN
    /\ cached \in 0..MaxIssued /\ issued \in 0..MaxIssued
    /\ alias \in [Repos -> Names \cup {NoName}]
    /\ linked \subseteq Repos

Init ==
    /\ made = 0 /\ owner = [n \in 1..MaxTokens |-> NoName] /\ valid = {}
    /\ account = [l \in Logins |-> NoRow] /\ recent = <<>>
    /\ task = [k \in Tasks |-> "idle"]
    /\ holding = [k \in Tasks |-> Nothing]
    /\ subject = [k \in Tasks |-> NoName]
    /\ installed = TRUE /\ cached = 0 /\ issued = 0 /\ late = FALSE
    /\ alias = [r \in Repos |-> NoName] /\ linked = {}

Move(k, p) == task' = [task EXCEPT ![k] = p]
Hold(k, t, names) == holding' = [holding EXCEPT ![k] = [token |-> t, names |-> names]]
Finish(k) ==
    /\ Move(k, "idle")
    /\ Hold(k, 0, {})
    /\ subject' = [subject EXCEPT ![k] = NoName]

\* resolve: the user has a name for the repository.
Bound(r) == alias[r] # NoName

\* The rows without the one of a login, and with it in front.
Without(l) ==
    IF account[l] = NoRow THEN recent
    ELSE LET n == CHOOSE i \in 1..Len(recent) : recent[i] = l
         IN  SubSeq(recent, 1, n - 1) \o SubSeq(recent, n + 1, Len(recent))
Front(l) == <<l>> \o Without(l)

-----------------------------------------------------------------------------
(* Accounts.                                                               *)

\* At GitHub the user makes a token, which is the one the account has from
\* now on; the one before is revoked.
Make(l) ==
    /\ made < MaxTokens
    /\ made' = made + 1
    /\ owner' = [owner EXCEPT ![made'] = l]
    /\ valid' = {t \in valid : owner[t] # l} \cup {made'}
    /\ UNCHANGED <<account, recent, taskVars, appVars, repoVars>>

\* verify: GitHub says whose token it is, or refuses it.
Verify(k, t) ==
    /\ task[k] = "idle"
    /\ t \in valid
    /\ Move(k, "verified")
    /\ Hold(k, t, {})
    /\ subject' = [subject EXCEPT ![k] = owner[t]]
    /\ UNCHANGED <<accountVars, appVars, repoVars>>

\* upsert: the row of the account, by its id at GitHub.
Save(k) ==
    /\ task[k] = "verified"
    /\ account' = [account EXCEPT ![subject[k]] = holding[k].token]
    /\ recent' = Front(subject[k])
    /\ Finish(k)
    /\ UNCHANGED <<made, owner, valid, appVars, repoVars>>

\* forget.
Forget(l) ==
    /\ account[l] # NoRow
    /\ account' = [account EXCEPT ![l] = NoRow]
    /\ recent' = Without(l)
    /\ UNCHANGED <<made, owner, valid, taskVars, appVars, repoVars>>

HasToken(l) == account[l] \notin {0, NoRow}

\* account_of: the one used last, or the one that is named.
AccountOf(l) ==
    LET rows == {i \in 1..Len(recent) : HasToken(recent[i])} IN
    IF l # NoName THEN (IF HasToken(l) THEN l ELSE NoName)
    ELSE IF rows = {} THEN NoName
    ELSE recent[CHOOSE i \in rows : \A j \in rows : i <= j]

\* The command of the machine that asks for a token: the user's own, when the
\* app has none for the repository.
Give(k, l) ==
    /\ task[k] = "refused"
    /\ AccountOf(l) # NoName
    /\ recent' = Front(AccountOf(l))
    /\ Finish(k)
    /\ UNCHANGED <<made, owner, valid, account, appVars, repoVars>>

Refuse(k) ==
    /\ task[k] = "refused"
    /\ \E l \in Logins \cup {NoName} : AccountOf(l) = NoName
    /\ Finish(k)
    /\ UNCHANGED <<accountVars, appVars, repoVars>>

-----------------------------------------------------------------------------
(* Tokens of the installation.                                             *)

\* short_token for a repository: the app's, if it is bound and has one.
Ask(k, r) ==
    /\ task[k] = "idle"
    /\ subject' = [subject EXCEPT ![k] = r]
    /\ Move(k, IF r \in linked /\ Bound(r) THEN "asked" ELSE "refused")
    /\ UNCHANGED <<accountVars, holding, appVars, repoVars>>

\* installation_token: the cached one.
Cached(k) ==
    /\ task[k] = "asked"
    /\ cached # 0
    /\ Finish(k)
    /\ UNCHANGED <<accountVars, appVars, repoVars>>

\* ... or one that GitHub issues,
Issue(k) ==
    /\ task[k] = "asked"
    /\ cached = 0
    /\ IF installed
         THEN /\ issued < MaxIssued
              /\ issued' = issued + 1
              /\ Hold(k, issued', {})
              /\ Move(k, "issued")
         ELSE Move(k, "refused") /\ UNCHANGED <<issued, holding>>
    /\ UNCHANGED <<accountVars, subject, installed, cached, late, repoVars>>

\* ... and that is put into the cache when the answer is here.
Put(k) ==
    /\ task[k] = "issued"
    /\ cached' = holding[k].token
    /\ late' = (late \/ ~installed)
    /\ Finish(k)
    /\ UNCHANGED <<accountVars, installed, issued, repoVars>>

\* installation_token_ttl is over.
Expire ==
    /\ cached # 0
    /\ cached' = 0
    /\ UNCHANGED <<accountVars, taskVars, installed, issued, late, repoVars>>

\* The installation is suspended or deleted; forget_installation.
Uninstall ==
    /\ installed
    /\ installed' = FALSE
    /\ cached' = 0
    /\ UNCHANGED <<accountVars, taskVars, issued, late, repoVars>>

-----------------------------------------------------------------------------
(* Repositories.                                                           *)

Taken == {alias[r] : r \in Repos} \ {NoName}

\* RepoRepository.upsert: with no installation the row keeps the one it has.
Upsert(r, installation) == linked' = IF installation THEN linked \cup {r} ELSE linked

\* bind: a repository that is bound keeps its name; the names that are taken.
LookUp(k, r) ==
    IF Bound(r) THEN UNCHANGED <<task, holding, subject>>
    ELSE /\ Move(k, "bind")
         /\ Hold(k, 0, Taken)
         /\ subject' = [subject EXCEPT ![k] = r]

\* remember and add: what the account sees is upserted, and bound.
Remember(k, r) ==
    /\ task[k] = "idle"
    /\ \E l \in Logins \cup {NoName} : AccountOf(l) # NoName
    /\ Upsert(r, FALSE)
    /\ LookUp(k, r)
    /\ UNCHANGED <<accountVars, appVars, alias>>

\* link_installations and the worker of webhooks: upserted with the
\* installation, and bound.
Sync(k, r) ==
    /\ task[k] = "idle"
    /\ installed
    /\ Upsert(r, TRUE)
    /\ LookUp(k, r)
    /\ UNCHANGED <<accountVars, appVars, alias>>

\* The first that was free: the name, the one with the owner, a numbered one.
Choice(r, names) ==
    IF NameOf[r].short \notin names THEN NameOf[r].short
    ELSE IF NameOf[r].full \notin names THEN NameOf[r].full ELSE Suffix(r)

\* The insert; a name or a row that came first makes it raise.
Insert(k) ==
    LET r == subject[k] name == Choice(r, holding[k].names) IN
    /\ task[k] = "bind"
    /\ IF name \in Taken \/ Bound(r) THEN UNCHANGED alias
       ELSE alias' = [alias EXCEPT ![r] = name]
    /\ Finish(k)
    /\ UNCHANGED <<accountVars, appVars, linked>>

Unbind(r) ==
    /\ Bound(r)
    /\ alias' = [alias EXCEPT ![r] = NoName]
    /\ UNCHANGED <<accountVars, taskVars, appVars, linked>>

Next ==
    \/ \E l \in Logins : Make(l) \/ Forget(l)
    \/ \E k \in Tasks, t \in 1..MaxTokens : Verify(k, t)
    \/ \E k \in Tasks, l \in Logins \cup {NoName} : Give(k, l)
    \/ \E k \in Tasks : Save(k) \/ Refuse(k) \/ Cached(k) \/ Issue(k) \/ Put(k) \/ Insert(k)
    \/ \E k \in Tasks, r \in Repos : Ask(k, r) \/ Remember(k, r) \/ Sync(k, r)
    \/ \E r \in Repos : Unbind(r)
    \/ Expire \/ Uninstall

Spec == Init /\ [][Next]_vars

-----------------------------------------------------------------------------
(* Properties.                                                             *)

\* A row never has the token of somebody else, and a name is the name of one
\* repository: two tasks that chose the same one do not both get it.
OwnThings ==
    /\ \A l \in Logins : account[l] \notin {0, NoRow} => owner[account[l]] = l
    /\ \A r, s \in Repos : r # s /\ alias[r] = alias[s] => alias[r] = NoName

\* Once the app is gone its token is not given out of the cache, except when a
\* request that was under way put it there after it was forgotten.
NoTokenOfTheGone == ~installed /\ cached # 0 => late
=============================================================================
