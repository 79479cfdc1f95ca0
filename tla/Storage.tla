------------------------------- MODULE Storage ------------------------------
(* The blobs of one user: a file and a row for each key, and the limit on  *)
(* their total size. pool/blobs.py and the routes of api/routes/cli/store  *)
(* that call it. The values and secrets of the same routes are one         *)
(* statement each and are left out.                                        *)
(*                                                                         *)
(* Requests are served concurrently, by the event loop and by its threads. *)
(* A file under a temporary name is shared by the requests for its key.    *)
EXTENDS Naturals, FiniteSetsExt

CONSTANTS
    Requests,   \* the requests, each made once
    Keys,
    Sizes,      \* the sizes of the data put
    Limit,      \* settings.pool_max_blob_bytes
    MaxCrashes  \* bound of the model

VARIABLES
    req,      \* the requests
    row,      \* key -> the blob its row describes, or NoBlob
    file,     \* key -> the blob in its file, Torn, or NoBlob
    part,     \* key -> the file with the temporary name
    race,     \* keys two requests worked on at once, or a crash left half done
    over,     \* two puts of the user were between the check and the row at once
    crashes

vars == <<req, row, file, part, race, over, crashes>>

NoBlob == [by |-> "none", size |-> 0]
Torn == [by |-> "torn", size |-> 0]
Blobs == [by : Requests, size : Sizes] \cup {NoBlob, Torn}
Ops == {"put", "get", "remove"}

TypeOK ==
    /\ req \in [Requests -> [at : {"new", "check", "open", "write", "replace", "record", "unlink",
                                   "delete", "ok", "refused", "failed"},
                             op : Ops, key : Keys, size : Sizes \cup {0}, got : Blobs]]
    /\ row \in [Keys -> Blobs] /\ file \in [Keys -> Blobs] /\ part \in [Keys -> Blobs]
    /\ race \subseteq Keys /\ over \in BOOLEAN /\ crashes \in 0..MaxCrashes

Busy(r) == req[r].at \notin {"new", "ok", "refused", "failed"}
Putting(r) == Busy(r) /\ req[r].op = "put" /\ req[r].at # "check"

Init ==
    /\ \E op \in [Requests -> Ops], key \in [Requests -> Keys], size \in [Requests -> Sizes] :
           /\ \A r \in Requests : op[r] # "put" => size[r] = Min(Sizes)
           /\ req = [r \in Requests |-> [at |-> "new", op |-> op[r], key |-> key[r],
                         size |-> IF op[r] = "put" THEN size[r] ELSE 0, got |-> NoBlob]]
    /\ row = [k \in Keys |-> NoBlob] /\ file = [k \in Keys |-> NoBlob]
    /\ part = [k \in Keys |-> NoBlob]
    /\ race = {} /\ over = FALSE /\ crashes = 0

Key(r) == req[r].key
Blob(r) == [by |-> r, size |-> req[r].size]
At(r, at) == req' = [req EXCEPT ![r].at = at]

\* The request starts, while others may be at work on its key.
Start(r, at) ==
    /\ req[r].at = "new" /\ At(r, at)
    /\ race' = IF \E q \in Requests \ {r} : Busy(q) /\ Key(q) = Key(r)
               THEN race \cup {Key(r)} ELSE race

-----------------------------------------------------------------------------
(* put                                                                     *)

Used == MapThenSumSet(LAMBDA k : row[k].size, Keys)

BeginPut(r) ==
    /\ req[r].op = "put" /\ Start(r, "check")
    /\ UNCHANGED <<row, file, part, over, crashes>>

\* The limit on the total, with what the key holds already given back.
Fits(r) == (Used - row[Key(r)].size) + req[r].size <= Limit

CheckPut(r) ==
    /\ req[r].at = "check"
    /\ At(r, IF Fits(r) THEN "open" ELSE "refused")
    /\ over' = (over \/ (Fits(r) /\ \E q \in Requests \ {r} : Putting(q)))
    /\ UNCHANGED <<row, file, part, race, crashes>>

\* _write, in a thread: the temporary file is opened and emptied, ...
Open(r) ==
    /\ req[r].at = "open" /\ At(r, "write")
    /\ part' = [part EXCEPT ![Key(r)] = Torn]
    /\ UNCHANGED <<row, file, race, over, crashes>>

\* ... written, under whatever name another request has given it since, ...
Write(r) ==
    /\ req[r].at = "write" /\ At(r, "replace")
    /\ LET mixed == IF Key(r) \in race THEN {Blob(r), Torn} ELSE {Blob(r)}
       IN  \E data \in mixed :
               IF part[Key(r)] # NoBlob
               THEN part' = [part EXCEPT ![Key(r)] = data] /\ UNCHANGED file
               ELSE file' = [file EXCEPT ![Key(r)] = data] /\ UNCHANGED part
    /\ UNCHANGED <<row, race, over, crashes>>

\* ... and renamed; it may be gone, when another request has renamed it.
Replace(r) ==
    /\ req[r].at = "replace"
    /\ IF part[Key(r)] = NoBlob
       THEN At(r, "failed") /\ UNCHANGED <<file, part>>
       ELSE /\ At(r, "record")
            /\ file' = [file EXCEPT ![Key(r)] = part[Key(r)]]
            /\ part' = [part EXCEPT ![Key(r)] = NoBlob]
    /\ UNCHANGED <<row, race, over, crashes>>

\* A variant: the row is written before the file, at the check.
RecordEarly(r) == req[r].at = "open"

MayRecord(r) == req[r].at = "record"

\* The row is made or changed. Two requests that both found none: the unique
\* index refuses the second.
Record(r) ==
    /\ MayRecord(r)
    /\ \/ At(r, "ok") /\ row' = [row EXCEPT ![Key(r)] = Blob(r)]
       \/ Key(r) \in race /\ row[Key(r)] # NoBlob /\ At(r, "failed") /\ UNCHANGED row
    /\ UNCHANGED <<file, part, race, over, crashes>>

-----------------------------------------------------------------------------
(* get and remove                                                          *)

Get(r) ==
    /\ req[r].op = "get" /\ req[r].at = "new"
    /\ req' = [req EXCEPT ![r].at = "ok", ![r].got = file[Key(r)]]
    /\ UNCHANGED <<row, file, part, race, over, crashes>>

BeginRemove(r) ==
    /\ req[r].op = "remove" /\ Start(r, "unlink")
    /\ UNCHANGED <<row, file, part, over, crashes>>

Unlink(r) ==
    /\ req[r].at = "unlink" /\ At(r, "delete")
    /\ file' = [file EXCEPT ![Key(r)] = NoBlob]
    /\ UNCHANGED <<row, part, race, over, crashes>>

Delete(r) ==
    /\ req[r].at = "delete" /\ At(r, "ok")
    /\ row' = [row EXCEPT ![Key(r)] = NoBlob]
    /\ UNCHANGED <<file, part, race, over, crashes>>

\* The instance stops: the requests under way are not answered.
Crash ==
    /\ crashes < MaxCrashes /\ crashes' = crashes + 1
    /\ \E r \in Requests : Busy(r)
    /\ req' = [r \in Requests |-> IF Busy(r) THEN [req[r] EXCEPT !.at = "failed"] ELSE req[r]]
    /\ race' = race \cup {Key(r) : r \in {q \in Requests : Busy(q)}}
    /\ UNCHANGED <<row, file, part, over>>

Next ==
    \/ Crash
    \/ \E r \in Requests :
        \/ BeginPut(r) \/ CheckPut(r) \/ Open(r) \/ Write(r) \/ Replace(r) \/ Record(r)
        \/ Get(r) \/ BeginRemove(r) \/ Unlink(r) \/ Delete(r)

Spec == Init /\ [][Next]_vars

-----------------------------------------------------------------------------
(* Properties.                                                             *)

\* put: the rows of a user stay within the limit, unless two puts of theirs
\* passed the check before either had a row.
LimitHolds == Used <= Limit \/ over

\* put, remove and get: when no request is at work on a key, its row describes
\* its file, and no reader got a part of one; unless two requests for the key
\* overlapped or an instance stopped in one.
RowsMatchFiles ==
    /\ \A k \in Keys \ race : (\A r \in Requests : Key(r) = k => ~Busy(r)) => row[k] = file[k]
    /\ \A r \in Requests : Key(r) \notin race => req[r].got # Torn

=============================================================================
