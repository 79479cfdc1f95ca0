----------------------------- MODULE MCRecords ------------------------------
(* What is kept, and what pages show of it: what the agent remembers, the   *)
(* live view of its work, outputs of blocks, events, the times of tasks,    *)
(* files, pages, the cache, worktrees and their merges.  The components do  *)
(* not touch one another in the models: a behaviour is one of the component *)
(* that on names, the others stay as they begin, and the state graph is the *)
(* sum of theirs.                                                           *)
EXTENDS Conversation, TLC

CONSTANTS
    MaxPieces, MaxText, Queue, Batch, MaxFrames, Keep, MaxRuns, MaxSteps, MaxStarts,
    MaxLost, MaxGaps, MaxOutput, Instances, MaxEvents, MaxConnects, Hour, Day, Week, Months,
    HorizonDays, Exprs, Nows, Zones, Requests, Keys, Sizes, MaxBytes, MaxCrashes, Visits,
    Owners, Slugs, Attempts, MaxDeleted, Readers, Objects, SizeOf, ItemBytes, MemoryBytes,
    DiskBytes, SweepTo, MaxReads, Sessions, Nobody, MaxEdits, MaxOthers, MaxCommits,
    BaseLines, Texts

VARIABLES
    on,   \* the component whose behaviour it is
    liveRow, runs, liveRun, said, buffer, flight, frames, full, stream, entries, lost, page,
    after, got, told, cut,
    shownTurn, items, blocks, codes, applied, dropped, gaps,
    proc, code, latest, meta, exit, out, alone, server, tail, offset, seen,
    pub, busStream, trimmed, client, busGot, unseen,
    expr, now, zone, t, answer,
    req, fileRow, stored, part, race, overfull, crashes,
    linkRows, visit, deleted,
    memory, bytes, disk, step, wants, snapshot, doomed, reads,
    commits, head, treeRow, log, holder, doing, overlay, base, laid, treeSeen, known, edits,
    others, stale, forced,
    ours, theirs, ia, ib, mergeAt, merged, conflicted, group, phase

Live == INSTANCE LiveView WITH
    row <- liveRow, run <- liveRun
Page == INSTANCE Timeline WITH
    turn <- shownTurn, lost <- dropped
Block == INSTANCE Spool
Bus == INSTANCE Events WITH
    stream <- busStream, got <- busGot
Times == INSTANCE Cron
Store == INSTANCE Storage WITH
    Limit <- MaxBytes, row <- fileRow, file <- stored, over <- overfull
Links == INSTANCE Pages WITH
    Requests <- Visits, rows <- linkRows, req <- visit
Cache == INSTANCE BlobCache WITH
    Keys <- Objects
Tree == INSTANCE Worktree WITH
    row <- treeRow, at <- doing, seen <- treeSeen
Diff == INSTANCE Merge WITH
    Lines <- BaseLines, at <- mergeAt, out <- merged

liveVars ==
    <<liveRow, runs, liveRun, said, buffer, flight, frames, full, stream, entries, lost,
    page, after, got, told, cut>>
pageVars ==
    <<shownTurn, items, blocks, codes, applied, dropped, gaps>>
blockVars ==
    <<proc, code, latest, meta, exit, out, alone, server, tail, offset, seen>>
busVars ==
    <<pub, busStream, trimmed, client, busGot, unseen>>
timesVars ==
    <<expr, now, zone, t, answer>>
storeVars ==
    <<req, fileRow, stored, part, race, overfull, crashes>>
linksVars ==
    <<linkRows, visit, deleted>>
cacheVars ==
    <<memory, bytes, disk, step, wants, snapshot, doomed, reads>>
treeVars ==
    <<commits, head, treeRow, log, holder, doing, overlay, base, laid, treeSeen, known,
    edits, others, stale, forced>>
diffVars ==
    <<ours, theirs, ia, ib, mergeAt, merged, conflicted, group, phase>>

\* The variables of a component that is not on.
NoLive ==
    liveRow = 0 /\ runs = 0 /\ liveRun = 0 /\ said = 0 /\ buffer = 0 /\ flight = 0 /\ frames
    = 0 /\ full = 0 /\ stream = 0 /\ entries = 0 /\ lost = 0 /\ page = 0 /\ after = 0 /\ got
    = 0 /\ told = 0 /\ cut = 0
NoPage ==
    shownTurn = 0 /\ items = 0 /\ blocks = 0 /\ codes = 0 /\ applied = 0 /\ dropped = 0 /\
    gaps = 0
NoBlock ==
    proc = 0 /\ code = 0 /\ latest = 0 /\ meta = 0 /\ exit = 0 /\ out = 0 /\ alone = 0 /\
    server = 0 /\ tail = 0 /\ offset = 0 /\ seen = 0
NoBus ==
    pub = 0 /\ busStream = 0 /\ trimmed = 0 /\ client = 0 /\ busGot = 0 /\ unseen = 0
NoTimes ==
    expr = 0 /\ now = 0 /\ zone = 0 /\ t = 0 /\ answer = 0
NoStore ==
    req = 0 /\ fileRow = 0 /\ stored = 0 /\ part = 0 /\ race = 0 /\ overfull = 0 /\ crashes
    = 0
NoLinks ==
    linkRows = 0 /\ visit = 0 /\ deleted = 0
NoCache ==
    memory = 0 /\ bytes = 0 /\ disk = 0 /\ step = 0 /\ wants = 0 /\ snapshot = 0 /\ doomed =
    0 /\ reads = 0
NoTree ==
    commits = 0 /\ head = 0 /\ treeRow = 0 /\ log = 0 /\ holder = 0 /\ doing = 0 /\ overlay
    = 0 /\ base = 0 /\ laid = 0 /\ treeSeen = 0 /\ known = 0 /\ edits = 0 /\ others = 0 /\
    stale = 0 /\ forced = 0
NoDiff ==
    ours = 0 /\ theirs = 0 /\ ia = 0 /\ ib = 0 /\ mergeAt = 0 /\ merged = 0 /\ conflicted =
    0 /\ group = 0 /\ phase = 0

RecordsInit ==
    /\ on \in {"memory", "live", "page", "block", "events", "cron", "storage", "pages", "cache",
              "worktree", "merge"}
    /\ Init
    /\ IF on = "live" THEN Live!Init ELSE NoLive
    /\ IF on = "page" THEN Page!Init ELSE NoPage
    /\ IF on = "block" THEN Block!Init ELSE NoBlock
    /\ IF on = "events" THEN Bus!Init ELSE NoBus
    /\ IF on = "cron" THEN Times!Init ELSE NoTimes
    /\ IF on = "storage" THEN Store!Init ELSE NoStore
    /\ IF on = "pages" THEN Links!Init ELSE NoLinks
    /\ IF on = "cache" THEN Cache!Init ELSE NoCache
    /\ IF on = "worktree" THEN Tree!Init ELSE NoTree
    /\ IF on = "merge" THEN Diff!Init ELSE NoDiff

RecordsNext ==
    \/ on = "memory" /\ Next
       /\ UNCHANGED <<on, liveVars, pageVars, blockVars, busVars, timesVars, storeVars,
          linksVars, cacheVars, treeVars, diffVars>>
    \/ on = "live" /\ Live!Next
       /\ UNCHANGED <<on, vars, pageVars, blockVars, busVars, timesVars, storeVars, linksVars,
          cacheVars, treeVars, diffVars>>
    \/ on = "page" /\ Page!Next
       /\ UNCHANGED <<on, vars, liveVars, blockVars, busVars, timesVars, storeVars, linksVars,
          cacheVars, treeVars, diffVars>>
    \/ on = "block" /\ Block!Next
       /\ UNCHANGED <<on, vars, liveVars, pageVars, busVars, timesVars, storeVars, linksVars,
          cacheVars, treeVars, diffVars>>
    \/ on = "events" /\ Bus!Next
       /\ UNCHANGED <<on, vars, liveVars, pageVars, blockVars, timesVars, storeVars,
          linksVars, cacheVars, treeVars, diffVars>>
    \/ on = "cron" /\ Times!Next
       /\ UNCHANGED <<on, vars, liveVars, pageVars, blockVars, busVars, storeVars, linksVars,
          cacheVars, treeVars, diffVars>>
    \/ on = "storage" /\ Store!Next
       /\ UNCHANGED <<on, vars, liveVars, pageVars, blockVars, busVars, timesVars, linksVars,
          cacheVars, treeVars, diffVars>>
    \/ on = "pages" /\ Links!Next
       /\ UNCHANGED <<on, vars, liveVars, pageVars, blockVars, busVars, timesVars, storeVars,
          cacheVars, treeVars, diffVars>>
    \/ on = "cache" /\ Cache!Next
       /\ UNCHANGED <<on, vars, liveVars, pageVars, blockVars, busVars, timesVars, storeVars,
          linksVars, treeVars, diffVars>>
    \/ on = "worktree" /\ Tree!Next
       /\ UNCHANGED <<on, vars, liveVars, pageVars, blockVars, busVars, timesVars, storeVars,
          linksVars, cacheVars, diffVars>>
    \/ on = "merge" /\ Diff!Next
       /\ UNCHANGED <<on, vars, liveVars, pageVars, blockVars, busVars, timesVars, storeVars,
          linksVars, cacheVars, treeVars>>

allVars ==
    <<on, vars, liveVars, pageVars, blockVars, busVars, timesVars, storeVars, linksVars,
    cacheVars, treeVars, diffVars>>

RecordsSpec == RecordsInit /\ [][RecordsNext]_allVars

-----------------------------------------------------------------------------
(* The instance.                                                           *)

Symmetry == Permutations(Instances) \cup Permutations(Keys)

\* A short year for cron: an hour of three minutes, a day of three hours, a
\* week of three days, months of three days and of two.
TwoMonths == <<3, 2>>
Piece(k, a, b, every) == [kind |-> k, from |-> a, to |-> b, step |-> every]
Star(every) == Piece("*", 0, 0, every)
Value(v, every) == Piece("value", v, v, every)
SomeExprs ==
    [minute : {{Star(1)}, {Value(1, 1)}, {Star(2)}},
     hour : {{Star(1)}, {Value(1, 1)}, {Value(1, 1), Value(2, 1)}},
     day : {{Star(1)}, {Value(2, 1)}, {Star(2)}, {Value(3, 1)}},
     month : {{Star(1)}, {Value(2, 1)}},
     weekday : {{Star(1)}, {Piece("range", 2, 3, 1)}, {Value(1, 1)}}]
SomeNows == {6 * i + j : i \in 0..5, j \in {0, 1, 4, 5}}
SomeZones ==
    {[at |-> 8, before |-> 3, after |-> 0], [at |-> 7, before |-> 0, after |-> 3],
     [at |-> 0, before |-> 0, after |-> 0]}

SomeTexts == {<<>>, <<11>>, <<12>>}

ThreeSizes == ("a" :> 1) @@ ("b" :> 2) @@ ("c" :> 3)

-----------------------------------------------------------------------------
(* Properties of the components.  Each one includes the types of theirs.   *)

\* See Conversation: what a turn said is stored as its own, and what it remembers
\* is what was stored.
MemoryIsTrue == on = "memory" => TypeOK /\ OwnIsStored /\ MemoryIsWhole

\* See LiveView, Timeline, Spool and Events: a page shows every piece once, in
\* order and at its step, and outputs at their blocks; the reader of a spool is
\* told what its process did; a client is told of a gap, and events come in order.
ViewIsTrue ==
    /\ on = "live" => Live!TypeOK /\ Live!PageIsTrue
    /\ on = "page" => Page!TypeOK /\ Page!TextIsOfItsStep /\ Page!OutputIsOwn
    /\ on = "block" => Block!TypeOK /\ Block!TailIsTrue
    /\ on = "events" => Bus!TypeOK /\ Bus!NoSilentGap /\ Bus!InOrderOrLost

\* See Cron: no time that fits is skipped, and the next one is later.
CronIsTrue == on = "cron" => Times!TypeOK /\ Times!SkipsNothing /\ Times!NextIsLater

\* See Storage, Pages and BlobCache: rows and files agree and the limit holds; an
\* artifact has one link; what the cache counts is what it holds.  See Worktree
\* and Merge: what was saved or pushed is in the branch, the overlay or a
\* conflict; a clean merge has both sides, a conflict keeps them.
FilesAreTrue ==
    /\ on = "storage" => Store!TypeOK /\ Store!LimitHolds /\ Store!RowsMatchFiles
    /\ on = "pages" => Links!TypeOK /\ Links!OneLink
    /\ on = "cache" => Cache!TypeOK /\ Cache!BytesAreTrue
    /\ on = "worktree" => Tree!TypeOK /\ Tree!NothingIsLost
    /\ on = "merge" => Diff!TypeOK /\ Diff!CleanIsBoth /\ Diff!ConflictKeepsAll
=============================================================================
