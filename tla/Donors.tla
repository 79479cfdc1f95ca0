------------------------------- MODULE Donors -------------------------------
(***************************************************************************)
(* A donor is an account whose repository runs jobs that register as       *)
(* machines of the pool.  A job shows the worker token it finds in the     *)
(* secrets of the repository; the row of the donor has a hash of the one   *)
(* that is asked for.  Operators add, rotate and bootstrap donors.         *)
(*                                                                         *)
(* Sources: pool/donors.py, api/routes/admin/pool.py,                      *)
(* api/routes/machines.py (register).                                      *)
(*                                                                         *)
(* One donor.  Worker tokens are numbered.                                 *)
(***************************************************************************)
EXTENDS Naturals

CONSTANTS
    Operators,
    Jobs,
    MaxTokens    \* bound of the model: worker tokens

VARIABLES
    token,     \* the token whose hash the row has, 0 without a row
    enabled,
    secret,    \* the token in the secrets of the repository
    at,        \* of each operator: where its bootstrap is
    mine,      \* of each operator: the token it made
    issued,    \* tokens so far
    mixed,     \* a token was made and not put into the secrets, alone
    job,       \* of each job of the repository
    knows      \* of each job: the token it started with

runs == <<job, knows>>
vars == <<token, enabled, secret, at, mine, issued, mixed, runs>>

TypeOK ==
    /\ token \in 0..issued /\ secret \in 0..issued /\ issued \in 0..MaxTokens
    /\ enabled \in BOOLEAN /\ mixed \in BOOLEAN
    /\ at \in [Operators -> {"idle", "secrets"}] /\ mine \in [Operators -> 0..issued]
    /\ job \in [Jobs -> {"queued", "running", "registered", "refused"}]
    /\ knows \in [Jobs -> 0..issued]

Init ==
    /\ token = 0 /\ enabled = FALSE /\ secret = 0
    /\ at = [o \in Operators |-> "idle"] /\ mine = [o \in Operators |-> 0]
    /\ issued = 0 /\ mixed = FALSE
    /\ job = [j \in Jobs |-> "queued"] /\ knows = [j \in Jobs |-> 0]

-----------------------------------------------------------------------------
(* Operators.                                                              *)

NewToken ==
    /\ issued < MaxTokens
    /\ issued' = issued + 1
    /\ token' = issued'
    /\ UNCHANGED <<job, knows>>

\* add: a donor that is there gets a new token too, and is enabled.
Add ==
    /\ NewToken
    /\ enabled' = TRUE
    /\ mixed' = TRUE
    /\ UNCHANGED <<secret, at, mine>>

\* rotate, alone.
Rotate ==
    /\ token # 0
    /\ NewToken
    /\ mixed' = TRUE
    /\ UNCHANGED <<enabled, secret, at, mine>>

\* bootstrap: the token is rotated,
Bootstrap(o) ==
    /\ at[o] = "idle"
    /\ token # 0
    /\ NewToken
    /\ at' = [at EXCEPT ![o] = "secrets"]
    /\ mine' = [mine EXCEPT ![o] = issued']
    /\ mixed' = \E p \in Operators : at[p] # "idle"
    /\ UNCHANGED <<enabled, secret>>

\* ... and when the repository and its workflow are there it is sealed.
Seal(o) ==
    /\ at[o] = "secrets"
    /\ secret' = mine[o]
    /\ at' = [at EXCEPT ![o] = "idle"]
    /\ UNCHANGED <<token, enabled, mine, issued, mixed, runs>>

\* GitHub refuses in between.
BootstrapFails(o) ==
    /\ at[o] = "secrets"
    /\ at' = [at EXCEPT ![o] = "idle"]
    /\ mixed' = TRUE
    /\ UNCHANGED <<token, enabled, secret, mine, issued, runs>>

Enable ==
    /\ token # 0
    /\ enabled' = ~enabled
    /\ UNCHANGED <<token, secret, at, mine, issued, mixed, runs>>

Remove ==
    /\ token # 0
    /\ token' = 0 /\ enabled' = FALSE
    /\ mixed' = TRUE
    /\ UNCHANGED <<secret, at, mine, issued, runs>>

-----------------------------------------------------------------------------
(* Jobs.                                                                   *)

\* A job starts with the secrets of that moment, all in one piece.
Start(j) ==
    /\ job[j] = "queued"
    /\ job' = [job EXCEPT ![j] = "running"]
    /\ knows' = [knows EXCEPT ![j] = secret]
    /\ UNCHANGED <<token, enabled, secret, at, mine, issued, mixed>>

\* register: the donor of the token, if it is enabled.
Register(j) ==
    /\ job[j] = "running"
    /\ job' = [job EXCEPT ![j] =
           IF token # 0 /\ knows[j] = token /\ enabled THEN "registered" ELSE "refused"]
    /\ UNCHANGED <<token, enabled, secret, at, mine, issued, mixed, knows>>

Next ==
    \/ Add \/ Rotate \/ Enable \/ Remove
    \/ \E o \in Operators : Bootstrap(o) \/ Seal(o) \/ BootstrapFails(o)
    \/ \E j \in Jobs : Start(j) \/ Register(j)

Spec == Init /\ [][Next]_vars

-----------------------------------------------------------------------------
(* Properties.                                                             *)

\* When nobody is at a donor its secrets hold the token that is asked for,
\* so that its jobs are let in, unless two operators had been at it at a
\* time, or one failed, or made a token without sealing it.
SecretsFit ==
    (\A o \in Operators : at[o] = "idle") /\ ~mixed => secret = token
=============================================================================
