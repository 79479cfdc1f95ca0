------------------------------ MODULE BlobCache ------------------------------
(***************************************************************************)
(* The cache of Git objects of an instance (github/cache.py, Store), with  *)
(* the calls that read through it (github/client/git.py, blob), the        *)
(* snapshot that fills it in one download (github/bulk.py, hydrate) and    *)
(* the sweeper of its directory. Tasks of one event loop share the memory; *)
(* what a task does between two awaits is one step, and a file is read or  *)
(* written in a thread while the others go on.                             *)
(***************************************************************************)
EXTENDS Integers, Sequences, FiniteSets, SequencesExt, FiniteSetsExt

CONSTANTS Readers,       \* tasks
          Keys,          \* shas
          SizeOf,        \* the size of each
          ItemBytes,     \* github_cache_item_bytes
          MemoryBytes,   \* github_cache_memory_bytes
          DiskBytes,     \* github_cache_disk_bytes
          SweepTo,       \* DiskBytes * SWEEP_TARGET
          MaxReads       \* bound: reads

VARIABLES
    memory,      \* _memory: the keys, the least recently used first
    bytes,       \* _bytes
    disk,        \* the files of the directory, the oldest first
    step,        \* step[r]: what task r is in the middle of
    wants,       \* wants[r]: the key it asked for
    snapshot,    \* "none", "loading", "loaded", or "refused" with its mark
    doomed,      \* the files the sweeper has listed to unlink
    reads

vars == <<memory, bytes, disk, step, wants, snapshot, doomed, reads>>

Weight(s) == FoldSet(LAMBDA k, n : SizeOf[k] + n, 0, ToSet(s))

Init ==
    /\ memory = <<>> /\ bytes = 0 /\ disk = <<>>
    /\ step = [r \in Readers |-> "idle"]
    /\ wants = [r \in Readers |-> CHOOSE k \in Keys : TRUE]
    /\ snapshot = "none" /\ doomed = <<>> /\ reads = 0

(* popitem(last=False) until the bytes fit or one item is left. *)
Evicted(mem) ==
    CHOOSE s \in {SubSeq(mem, i, Len(mem)) : i \in 1..Len(mem)} :
        /\ Weight(s) <= MemoryBytes \/ Len(s) = 1
        /\ \A i \in 1..Len(mem) : LET longer == SubSeq(mem, i, Len(mem)) IN
               Len(longer) > Len(s) => Weight(longer) > MemoryBytes

(* _remember: a key already held only moves to the end. *)
Remember(k) ==
    IF SizeOf[k] > ItemBytes THEN UNCHANGED <<memory, bytes>>
    ELSE IF k \in ToSet(memory)
         THEN memory' = Append(Remove(memory, k), k) /\ UNCHANGED bytes
         ELSE LET kept == Evicted(Append(memory, k))
                  gone == SubSeq(memory, 1, Len(memory) + 1 - Len(kept))
              IN  memory' = kept /\ bytes' = bytes + SizeOf[k] - Weight(gone)

(* get: from memory at once, else a thread reads the file. *)
Get(r, k) ==
    /\ step[r] = "idle" /\ reads < MaxReads
    /\ reads' = reads + 1
    /\ wants' = [wants EXCEPT ![r] = k]
    /\ IF k \in ToSet(memory)
       THEN memory' = Append(Remove(memory, k), k) /\ UNCHANGED step
       ELSE step' = [step EXCEPT ![r] = "reading"] /\ UNCHANGED memory
    /\ UNCHANGED <<bytes, disk, snapshot, doomed>>

(* _read: a file not touched for a day is made the newest (TOUCH_AFTER). *)
Read(r, touch) ==
    /\ step[r] = "reading"
    /\ LET k == wants[r] IN
       IF k \in ToSet(disk)
       THEN /\ Remember(k)
            /\ disk' = IF touch THEN Append(Remove(disk, k), k) ELSE disk
            /\ step' = [step EXCEPT ![r] = "idle"]
       ELSE /\ ~touch
            /\ step' = [step EXCEPT ![r] = "fetching"]
            /\ UNCHANGED <<memory, bytes, disk>>
    /\ UNCHANGED <<wants, snapshot, doomed, reads>>

(* The answer of GitHub, put: in memory now, in a file by a thread. *)
Fetched(r) ==
    /\ step[r] = "fetching"
    /\ Remember(wants[r])
    /\ step' = [step EXCEPT ![r] = "writing"]
    /\ UNCHANGED <<disk, wants, snapshot, doomed, reads>>

OnDisk(files, k) == IF k \in ToSet(files) THEN Append(Remove(files, k), k) ELSE Append(files, k)

(* _write: a file of its own, moved over the key's; or the disk refuses. *)
Written(r, wrote) ==
    /\ step[r] = "writing"
    /\ disk' = IF wrote THEN OnDisk(disk, wants[r]) ELSE disk
    /\ step' = [step EXCEPT ![r] = "idle"]
    /\ UNCHANGED <<memory, bytes, wants, snapshot, doomed, reads>>

(* hydrate: one download of the whole tree, under a lock of the cluster;   *)
(* one that fails or is too large is marked, and not tried again.          *)
Hydrate ==
    /\ snapshot = "none"
    /\ snapshot' = "loading"
    /\ UNCHANGED <<memory, bytes, disk, step, wants, doomed, reads>>

(* _extract: the files go to the disk and not to memory. *)
Extract(k) ==
    /\ snapshot = "loading" /\ k \notin ToSet(disk)
    /\ disk' = OnDisk(disk, k)
    /\ UNCHANGED <<memory, bytes, step, wants, snapshot, doomed, reads>>

Snapshot(outcome) ==
    /\ snapshot = "loading"
    /\ snapshot' = outcome
    /\ UNCHANGED <<memory, bytes, disk, step, wants, doomed, reads>>

(* _sweep: the oldest files whose sizes together reach down to the target. *)
List ==
    /\ doomed = <<>> /\ Weight(disk) > DiskBytes
    /\ LET n == CHOOSE n \in 1..Len(disk) :
                    /\ Weight(disk) - Weight(SubSeq(disk, 1, n)) <= SweepTo
                    /\ Weight(disk) - Weight(SubSeq(disk, 1, n - 1)) > SweepTo
       IN  doomed' = SubSeq(disk, 1, n)
    /\ UNCHANGED <<memory, bytes, disk, step, wants, snapshot, reads>>

Unlink ==
    /\ doomed # <<>>
    /\ doomed' = Tail(doomed)
    /\ disk' = IF Head(doomed) \in ToSet(disk) THEN Remove(disk, Head(doomed)) ELSE disk
    /\ UNCHANGED <<memory, bytes, step, wants, snapshot, reads>>

Next ==
    \/ \E r \in Readers : \/ \E k \in Keys : Get(r, k)
                          \/ \E b \in BOOLEAN : Read(r, b) \/ Written(r, b)
                          \/ Fetched(r)
    \/ Hydrate \/ List \/ Unlink
    \/ \E k \in Keys : Extract(k)
    \/ \E o \in {"loaded", "refused"} : Snapshot(o)

Spec == Init /\ [][Next]_vars
-----------------------------------------------------------------------------
TypeOK ==
    /\ ToSet(memory) \subseteq Keys /\ bytes \in Int
    /\ ToSet(disk) \subseteq Keys /\ ToSet(doomed) \subseteq Keys
    /\ snapshot \in {"none", "loading", "loaded", "refused"}
    /\ \A r \in Readers : step[r] \in {"idle", "reading", "fetching", "writing"}

(* What the cache thinks it holds is what it holds, however two reads of   *)
(* one key overlap, and it stays within its limit unless one object alone  *)
(* is above it (cache.py:116, _remember).                                  *)
BytesAreTrue ==
    /\ IsInjective(memory)
    /\ bytes = Weight(memory)
    /\ bytes <= MemoryBytes \/ Len(memory) = 1
=============================================================================
