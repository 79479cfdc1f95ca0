------------------------------- MODULE SshPool -------------------------------
(***************************************************************************)
(* The connections of an instance to one host of one user: calls (a        *)
(* command, a file to read or to write) share the held connection, make a  *)
(* new one under a lock when there is none that is alive, and drop it when *)
(* something goes wrong.  The key of the host is pinned by the first       *)
(* connection.                                                             *)
(*                                                                         *)
(* Sources: ssh/pool.py, ssh/binding.py, ssh/keys.py, and the repository   *)
(* of hosts.  Connections are numbered as they are made; a key of the      *)
(* server is a model value.  Another instance shows in set_host_key only,  *)
(* and its calls are among the calls here.                                 *)
(***************************************************************************)
EXTENDS Naturals, FiniteSets

CONSTANTS
    Calls,      \* tasks that use the host
    Keys,       \* keys the server may show
    NoKey,      \* fingerprint is NULL
    MaxMade,    \* bound of the model: connections
    MaxErrors   \* bound of the model: see Error

VARIABLES
    host,       \* the row: there, and its fingerprint
    shown,      \* the key the server shows
    call,       \* of each call: where it is, its host row, its connection
    owner,      \* who has the lock of the connection, 0 for nobody
    held,       \* the connection in _held, 0 for none
    idle,       \* it was not used for ssh_idle_timeout
    open,       \* connections that are open
    forgotten,  \* connections the database failed under
    overran,    \* a call lasted longer than ssh_idle_timeout
    made, errors

sshVars == <<host, shown, call, owner, held, idle, open, forgotten, overran, made, errors>>

Resting == [pc |-> "idle", pinned |-> NoKey, conn |-> 0]
Nobody == "nobody"

TypeOK ==
    /\ host \in [there : BOOLEAN, key : Keys \cup {NoKey}]
    /\ shown \in Keys
    /\ call \in [Calls -> [pc : {"idle", "want", "closing", "connecting", "pin", "keep", "run", "drop"},
                           pinned : Keys \cup {NoKey}, conn : 0..MaxMade]]
    /\ owner \in Calls \cup {Nobody}
    /\ made \in 0..MaxMade /\ held \in 0..made /\ open \subseteq 1..made
    /\ idle \in BOOLEAN /\ overran \in BOOLEAN /\ forgotten \subseteq open
    /\ errors \in 0..MaxErrors

Init ==
    /\ host = [there |-> TRUE, key |-> NoKey]
    /\ shown = CHOOSE k \in Keys : TRUE
    /\ call = [c \in Calls |-> Resting]
    /\ owner = Nobody /\ held = 0 /\ idle = FALSE
    /\ forgotten = {} /\ overran = FALSE
    /\ open = {} /\ made = 0 /\ errors = 0

Error == errors < MaxErrors /\ errors' = errors + 1
Goto(c, pc) == call' = [call EXCEPT ![c].pc = pc]
End(c) == call' = [call EXCEPT ![c] = Resting]

-----------------------------------------------------------------------------
(* connect.                                                                *)

\* binding.resolve: the call goes on with the row it has read.
Resolve(c) ==
    /\ call[c].pc = "idle"
    /\ host.there
    /\ call' = [call EXCEPT ![c] = [pc |-> "want", pinned |-> host.key, conn |-> 0]]
    /\ UNCHANGED <<host, shown, owner, held, idle, open, made, errors, forgotten, overran>>

Usable == held # 0 /\ held \in open /\ ~idle

\* The held connection is touched and used.
Reuse(c) ==
    /\ call[c].pc = "want" /\ owner = Nobody
    /\ Usable
    /\ call' = [call EXCEPT ![c].pc = "run", ![c].conn = held]
    /\ idle' = FALSE
    /\ UNCHANGED <<host, shown, owner, held, open, made, errors, forgotten, overran>>

\* There is none, or one that is closed or idle: it is dropped under the lock.
Lock(c) ==
    /\ call[c].pc = "want" /\ owner = Nobody
    /\ ~Usable
    /\ owner' = c
    /\ open' = open \ {held}
    /\ held' = 0
    /\ Goto(c, "connecting")
    /\ UNCHANGED <<host, shown, idle, made, errors, forgotten, overran>>

\* The user has no key, the host refuses it, is away, or shows another key.
Refused(c) ==
    /\ call[c].pc = "connecting"
    /\ owner' = Nobody
    /\ End(c)
    /\ UNCHANGED <<host, shown, held, idle, open, made, errors, forgotten, overran>>

Expected(c) == call[c].pinned \in {NoKey, shown}

Connected(c) ==
    /\ call[c].pc = "connecting"
    /\ made < MaxMade
    /\ Expected(c)
    /\ made' = made + 1
    /\ open' = open \cup {made + 1}
    /\ call' = [call EXCEPT ![c].pc = IF call[c].pinned = NoKey THEN "pin" ELSE "keep",
                            ![c].conn = made + 1, ![c].pinned = shown]
    /\ UNCHANGED <<host, shown, owner, held, idle, errors, forgotten, overran>>

\* set_host_key, of a row that may be gone or may have been pinned meanwhile.
Pin(c) ==
    /\ call[c].pc = "pin"
    /\ host' = IF host.there THEN [host EXCEPT !.key = call[c].pinned] ELSE host
    /\ Goto(c, "keep")
    /\ UNCHANGED <<shown, owner, held, idle, open, made, errors, forgotten, overran>>

\* touch, and the connection is held.
Keep(c) ==
    /\ call[c].pc = "keep"
    /\ held' = call[c].conn
    /\ idle' = FALSE
    /\ owner' = Nobody
    /\ Goto(c, "run")
    /\ UNCHANGED <<host, shown, open, made, errors, forgotten, overran>>

\* The database fails: the lock is free and the connection open and forgotten.
Forgets(c) ==
    /\ call[c].pc \in {"pin", "keep"}
    /\ Error
    /\ owner' = Nobody
    /\ forgotten' = forgotten \cup ({call[c].conn} \cap open)
    /\ End(c)
    /\ UNCHANGED <<host, shown, held, idle, open, made, overran>>

-----------------------------------------------------------------------------
(* run, read_file, write_file, list_dir.                                   *)

Done(c) ==
    /\ call[c].pc = "run"
    /\ call[c].conn \in open
    /\ End(c)
    /\ UNCHANGED <<host, shown, owner, held, idle, open, made, errors, forgotten, overran>>

\* A command takes longer than its limit, or its connection is closed.
TimesOut(c) ==
    /\ call[c].pc = "run"
    /\ IF call[c].conn \in open THEN Error ELSE UNCHANGED errors
    /\ Goto(c, "drop")
    /\ UNCHANGED <<host, shown, owner, held, idle, open, made, forgotten, overran>>

\* An error of sftp leaves the connection in the pool.
TransferFails(c) ==
    /\ call[c].pc = "run"
    /\ call[c].conn \notin open
    /\ End(c)
    /\ UNCHANGED <<host, shown, owner, held, idle, open, made, errors, forgotten, overran>>

\* disconnect drops what is held now, by whoever it was made.
Disconnect(c) ==
    /\ call[c].pc = "drop"
    /\ open' = open \ {held}
    /\ held' = 0
    /\ End(c)
    /\ UNCHANGED <<host, shown, owner, idle, made, errors, forgotten, overran>>

-----------------------------------------------------------------------------
(* Around it.                                                              *)

\* The watchdog's sweep, without the lock.
Sweep ==
    /\ held # 0 /\ ~Usable
    /\ open' = open \ {held}
    /\ held' = 0
    /\ UNCHANGED <<host, shown, call, owner, idle, made, errors, forgotten, overran>>

Idles ==
    /\ held # 0 /\ ~idle
    /\ idle' = TRUE
    /\ overran' = (overran \/ \E c \in Calls : call[c].pc = "run" /\ call[c].conn = held)
    /\ UNCHANGED <<host, shown, call, owner, held, open, made, errors, forgotten>>

\* The server closes a connection, or is set up anew with another key.
Breaks(n) ==
    /\ n \in open
    /\ Error
    /\ open' = open \ {n}
    /\ forgotten' = forgotten \ {n}
    /\ UNCHANGED <<host, shown, call, owner, held, idle, made, overran>>

ShowsOther(k) ==
    /\ shown' = k
    /\ Error
    /\ UNCHANGED <<host, call, owner, held, idle, open, made, forgotten, overran>>

\* /ssh rm; a host that is added again is another row.
RemoveHost ==
    /\ host.there
    /\ host' = [there |-> FALSE, key |-> NoKey]
    /\ UNCHANGED <<shown, call, owner, held, idle, open, made, errors, forgotten, overran>>

Next ==
    \/ \E c \in Calls :
        \/ Resolve(c) \/ Reuse(c) \/ Lock(c) \/ Refused(c) \/ Connected(c) \/ Pin(c) \/ Keep(c)
        \/ Forgets(c) \/ Done(c) \/ TimesOut(c) \/ TransferFails(c) \/ Disconnect(c)
    \/ Sweep \/ Idles \/ RemoveHost
    \/ \E n \in 1..MaxMade : Breaks(n)
    \/ \E k \in Keys : ShowsOther(k)

Spec == Init /\ [][Next]_sshVars

-----------------------------------------------------------------------------
(* Properties.                                                             *)

\* An open connection is in the pool or in the hands of who makes it, but for
\* one the database failed under: calls that time out, sweeps and reconnections
\* at the same time leave none behind.
NoneIsLost ==
    open \subseteq {held} \cup forgotten
                  \cup {n \in open : owner # Nobody /\ call[owner].conn = n}

\* Without an error and without a call that lasts longer than ssh_idle_timeout
\* no call has its connection closed under it.
Undisturbed ==
    \A c \in Calls : call[c].pc = "run" /\ call[c].conn \notin open => errors > 0 \/ overran
=============================================================================
