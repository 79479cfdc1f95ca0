------------------------------ MODULE Worktree ------------------------------
(***************************************************************************)
(* Commits over the GitHub API without a checkout (github/workspace.py,    *)
(* github/ops/commit.py, github/ops/branches.py): one branch, the row of   *)
(* its worktree, the sessions that edit and commit it, and the remote,     *)
(* which others push to. One text file that nobody deletes; its text is    *)
(* the set of edits in it, and Clash stands for the marks of a conflict    *)
(* (module Merge says what a merge of lines does).                         *)
(*                                                                         *)
(* A session is an object of workspace.Session: its overlay, and the row   *)
(* as it was read, which the code goes on using after the row has moved.   *)
(* The lock of the branch is taken as exclusive (module ClusterLock).      *)
(* GitHub is outside the source: it adds commits, moves a branch forward   *)
(* on request, and anywhere when the request is forced.                    *)
(***************************************************************************)
EXTENDS Integers, Sequences

CONSTANTS Sessions, Nobody,
          MaxEdits,       \* bound: edits and stashes of the sessions
          MaxOthers,      \* bound: pushes of others
          MaxCommits      \* bound: commits in all, the first included

VARIABLES
    commits,    \* the remote's commits, in order: [text, parent]
    head,       \* the commit the branch is at
    row,        \* the worktree's row: [there, base, changes, stash]
    log,        \* the shas in the commit log (CommitLog.sha, previous_sha)
    holder,     \* who holds lock_for(repo, branch)
    at,         \* at[s]: where session s is
    overlay,    \* overlay[s]: the file in the session's overlay, or Same
    base,       \* base[s]: base_commit_sha of the session's Worktree object
    laid,       \* laid[s]: the stash of that object
    seen,       \* seen[s]: the ref it read, then the commit it made
    known,      \* known[s]: that ref is in the log
    edits, others,  \* what the bounds count
    stale, forced   \* history: changes saved on a base they are not of,
                    \* and others' commits forced off the branch

vars == <<commits, head, row, log, holder, at, overlay, base, laid, seen, known, edits,
          others, stale, forced>>
bounds == <<edits, others>>
remote == <<commits, head>>

Same == {-1}              \* no change of the file in an overlay
Clash == -2
NoStash == [file |-> Same, on |-> 0]
Mine(n) == n
Theirs(n) == 10 + n
None == 0

Text(c) == commits[c].text
Ancestors(c) ==           \* of commit c, itself included
    LET up[n \in 0..c] == IF n = 0 THEN {} ELSE {n} \cup up[commits[n].parent]
    IN  up[c]
Add(text, parent) == Append(commits, [text |-> text, parent |-> parent])

Init ==
    /\ commits = <<[text |-> {}, parent |-> None]>>
    /\ head = 1
    /\ row = [there |-> FALSE, base |-> None, changes |-> Same, stash |-> NoStash]
    /\ log = {}
    /\ holder = Nobody
    /\ at = [s \in Sessions |-> "closed"]
    /\ overlay = [s \in Sessions |-> Same]
    /\ base = [s \in Sessions |-> None]
    /\ laid = [s \in Sessions |-> NoStash]
    /\ seen = [s \in Sessions |-> None]
    /\ known = [s \in Sessions |-> FALSE]
    /\ edits = 0 /\ others = 0
    /\ stale = FALSE /\ forced = FALSE

Goto(s, place) == at' = [at EXCEPT ![s] = place]

(* Overlay: the file of a session that has changed it, or the branch's. *)
Changed(s) == overlay[s] # Same
File(s) == IF Changed(s) THEN overlay[s] ELSE Text(base[s])
Write(s, file) == overlay' = [overlay EXCEPT ![s] = file]
Clear(s) == Write(s, Same)

(* save: the session's overlay over the row, whatever base the row has by now. *)
Save(s, changes) ==
    /\ row' = [row EXCEPT !.changes = changes]
    /\ stale' = (stale \/ (changes # Same /\ base[s] # row.base))

-----------------------------------------------------------------------------
(* workspace.py.                                                           *)

(* open_session: the row as it is, kept as an object for the session's life. *)
Open(s) ==
    /\ at[s] = "closed"
    /\ Goto(s, "open")
    /\ overlay' = [overlay EXCEPT ![s] = row.changes]
    /\ base' = [base EXCEPT ![s] = row.base]
    /\ laid' = [laid EXCEPT ![s] = row.stash]
    /\ UNCHANGED <<remote, row, log, holder, seen, known, bounds, stale, forced>>

(* WorktreeRepository.create, whose insert fails where there is a row. *)
Create == /\ ~row.there
          /\ row' = [row EXCEPT !.there = TRUE, !.base = head]

(* ensure_worktree, of a session without one: another may have made the    *)
(* row since it looked, and then what was asked for fails with the insert. *)
Ensure(s) ==
    /\ at[s] = "open" /\ base[s] = None
    /\ Create
    /\ base' = [base EXCEPT ![s] = head]
    /\ UNCHANGED <<remote, log, holder, at, overlay, laid, seen, known, bounds, stale, forced>>

(* An operation of a session that has its worktree. *)
Ready(s) == at[s] = "open" /\ base[s] # None

(* read, write and save: the whole file as the session sees it. *)
Edit(s) ==
    /\ Ready(s) /\ edits < MaxEdits
    /\ edits' = edits + 1
    /\ LET new == (File(s) \ {Clash}) \cup {Mine(edits + 1)}
       IN  Write(s, new) /\ Save(s, new)
    /\ UNCHANGED <<remote, log, holder, at, base, laid, seen, known, others, forced>>

(* revert: the overlay is dropped, in the session and in the row, also when *)
(* it has no changes (the row may have those of another session).          *)
Revert(s) ==
    /\ Ready(s)
    /\ Clear(s)
    /\ Save(s, Same)
    /\ UNCHANGED <<remote, log, holder, at, base, laid, seen, known, bounds, forced>>

(* stash: to the row, over a stash that is there, and not to the object.   *)
(* That it is on a base is history: the row does not say it.               *)
Stash(s) ==
    /\ Ready(s) /\ Changed(s) /\ edits < MaxEdits
    /\ edits' = edits + 1
    /\ row' = [row EXCEPT !.stash = [file |-> overlay[s], on |-> base[s]], !.changes = Same]
    /\ Clear(s)
    /\ UNCHANGED <<remote, log, holder, at, base, laid, seen, known, others, stale, forced>>

(* unstash: what the object has, under what the overlay has. *)
Unstash(s) ==
    /\ Ready(s) /\ laid[s] # NoStash
    /\ LET new == IF Changed(s) THEN overlay[s] ELSE laid[s].file
       IN  /\ Write(s, new)
           /\ row' = [row EXCEPT !.changes = new, !.stash = NoStash]
    /\ stale' = (stale \/ {base[s], laid[s].on} # {row.base})
    /\ UNCHANGED <<remote, log, holder, at, base, laid, seen, known, bounds, forced>>

(* switch, of a clean session to another branch and back: its worktree is  *)
(* forgotten, and ensure_worktree does not look for the row that is there. *)
Switch(s) ==
    /\ Ready(s) /\ ~Changed(s)
    /\ base' = [base EXCEPT ![s] = None]
    /\ laid' = [laid EXCEPT ![s] = NoStash]
    /\ UNCHANGED <<remote, row, log, holder, at, overlay, seen, known, bounds, stale, forced>>

-----------------------------------------------------------------------------
(* commit.                                                                 *)

Take(s, next) == /\ Ready(s) /\ holder = Nobody
                 /\ holder' = s
                 /\ Goto(s, next)
Leave(s) == /\ holder' = Nobody
            /\ Goto(s, "open")

(* commit, to its lock: a clean worktree is refused before it. *)
Commit(s) ==
    /\ Changed(s)
    /\ Take(s, "look")
    /\ UNCHANGED <<remote, row, log, overlay, base, laid, seen, known, bounds, stale, forced>>

KnownSha(sha) == sha \in log

(* ref_sha: where the branch is now; and known_sha, whether that was made  *)
(* from here, which is asked before the rebase.                            *)
Look(s) ==
    /\ at[s] = "look"
    /\ seen' = [seen EXCEPT ![s] = head]
    /\ known' = [known EXCEPT ![s] = KnownSha(head)]
    /\ Goto(s, IF head = base[s] THEN "upload" ELSE "rebase")
    /\ UNCHANGED <<remote, row, log, holder, overlay, base, laid, bounds, stale, forced>>

(* three_way: what it may return, the text and whether it is a conflict. *)
ThreeWay(old, mine, other) ==
    LET both == (old \cap mine \cap other) \cup (mine \ old) \cup (other \ old)
        clean(text) == [text |-> text, conflict |-> FALSE]
    IN  IF mine = other THEN {clean(mine)}
        ELSE IF mine = old THEN {clean(other)}
        ELSE IF other = old THEN {clean(mine)}
        ELSE {clean(both), [text |-> both \cup {Clash}, conflict |-> TRUE]}

(* merge.rebase: a file that the branch did not change is kept as it is. *)
Merged(old, mine, other) ==
    IF other = old THEN {[text |-> mine, conflict |-> FALSE]} ELSE ThreeWay(old, mine, other)

(* rebase_branch: the overlay merged with what the branch changed; overlay, *)
(* row and object have the merged text and the branch's commit.             *)
Rebased(s, merged) ==
    /\ merged \in Merged(Text(base[s]), overlay[s], Text(seen[s]))
    /\ Write(s, merged.text)
    /\ row' = [row EXCEPT !.base = seen[s], !.changes = merged.text]
    /\ base' = [base EXCEPT ![s] = seen[s]]

(* A conflict ends the commit, except with a commit made from here. *)
Rebase(s, merged) ==
    /\ at[s] = "rebase"
    /\ Rebased(s, merged)
    /\ IF merged.conflict /\ ~known[s] THEN Leave(s) ELSE Goto(s, "upload") /\ UNCHANGED holder
    /\ UNCHANGED <<remote, log, laid, seen, known, bounds, stale, forced>>

(* _tree_entries: the overlay's files that differ from the base's tree. *)
Entries(s) == IF Changed(s) /\ overlay[s] # Text(base[s]) THEN {overlay[s]} ELSE {}

(* None: the overlay is cleared and saved, and the commit is refused. *)
Nothing(s) ==
    /\ at[s] = "upload" /\ Entries(s) = {}
    /\ Clear(s)
    /\ Save(s, Same)
    /\ Leave(s)
    /\ UNCHANGED <<remote, log, base, laid, seen, known, bounds, forced>>

(* create_tree and create_commit, on the object's base. *)
Upload(s) ==
    /\ at[s] = "upload" /\ Len(commits) < MaxCommits
    /\ \E text \in Entries(s) : commits' = Add(text, base[s])
    /\ seen' = [seen EXCEPT ![s] = Len(commits) + 1]
    /\ Goto(s, "push")
    /\ UNCHANGED <<head, row, log, holder, overlay, base, laid, known, bounds, stale, forced>>

(* update_ref: refused by GitHub unless it moves the branch forward, and   *)
(* then the commit raises; its overlay and its row are as they were.       *)
Push(s) ==
    /\ at[s] = "push"
    /\ IF head \in Ancestors(seen[s])
       THEN head' = seen[s] /\ Goto(s, "record") /\ UNCHANGED holder
       ELSE Leave(s) /\ UNCHANGED head
    /\ UNCHANGED <<commits, row, log, overlay, base, laid, seen, known, bounds, stale, forced>>

(* WorktreeRepository.save after the push: in the row, not in the session's *)
(* own object, which keeps the base it had.                                *)
Record(s) ==
    /\ at[s] = "record"
    /\ row' = [row EXCEPT !.base = seen[s], !.changes = Same]
    /\ Goto(s, "log")
    /\ UNCHANGED <<remote, log, holder, overlay, base, laid, seen, known, bounds, stale, forced>>

(* WorktreeRepository.log: the commit, and the one it is on or replaces. *)
Logged(sha, previous) == log' = log \cup {sha, previous}

(* Then the overlay is cleared, and the lock is free. *)
Log(s) ==
    /\ at[s] = "log"
    /\ Logged(seen[s], base[s])
    /\ Clear(s)
    /\ Leave(s)
    /\ UNCHANGED <<remote, row, base, laid, seen, known, bounds, stale, forced>>

-----------------------------------------------------------------------------
(* amend.                                                                  *)

(* Only a commit made from here, and never the first; where the branch is  *)
(* is not asked.                                                           *)
Amendable(s) == commits[base[s]].parent # None /\ KnownSha(base[s])

Amend(s) ==
    /\ Take(s, "amend")
    /\ Amendable(s)
    /\ UNCHANGED <<remote, row, log, overlay, base, laid, seen, known, bounds, stale, forced>>

(* The tree of the commit with the overlay's entries, on its first parent. *)
Remake(s) ==
    /\ at[s] = "amend" /\ Len(commits) < MaxCommits
    /\ commits' = Add(File(s), commits[base[s]].parent)
    /\ seen' = [seen EXCEPT ![s] = Len(commits) + 1]
    /\ Goto(s, "force")
    /\ UNCHANGED <<head, row, log, holder, overlay, base, laid, known, bounds, stale, forced>>

(* update_ref with force; save and log as in a commit. *)
Force(s) ==
    /\ at[s] = "force"
    /\ head' = seen[s]
    /\ forced' = (forced \/ Ancestors(head) \ (Ancestors(seen[s]) \cup {base[s]}) # {})
    /\ Goto(s, "record")
    /\ UNCHANGED <<commits, row, log, holder, overlay, base, laid, seen, known, bounds, stale>>

-----------------------------------------------------------------------------
(* sync.                                                                   *)

Sync(s) ==
    /\ Take(s, "sync")
    /\ seen' = [seen EXCEPT ![s] = head]
    /\ head # base[s]
    /\ UNCHANGED <<remote, row, log, overlay, base, laid, known, bounds, stale, forced>>

(* Of a dirty session: a rebase, whose conflicts are only told. *)
SyncDirty(s, merged) ==
    /\ at[s] = "sync" /\ Changed(s)
    /\ Rebased(s, merged)
    /\ Leave(s)
    /\ UNCHANGED <<remote, log, laid, seen, known, bounds, stale, forced>>

(* Of a clean one: the row's base moves, the object's does not, and what   *)
(* the row has of other sessions' changes stays.                           *)
SyncClean(s) ==
    /\ at[s] = "sync" /\ ~Changed(s)
    /\ row' = [row EXCEPT !.base = seen[s]]
    /\ stale' = (stale \/ row.changes # Same)
    /\ Leave(s)
    /\ UNCHANGED <<remote, log, overlay, base, laid, seen, known, bounds, forced>>

-----------------------------------------------------------------------------

(* Somebody else pushes a commit of their own. *)
Others ==
    /\ others < MaxOthers /\ Len(commits) < MaxCommits
    /\ others' = others + 1
    /\ commits' = Add(Text(head) \cup {Theirs(others + 1)}, head)
    /\ head' = Len(commits) + 1
    /\ UNCHANGED <<row, log, holder, at, overlay, base, laid, seen, known, edits, stale,
                   forced>>

(* A session ends, or its instance does in the middle of a commit: the     *)
(* lock is freed, by it or by its time to live.                            *)
Close(s) ==
    /\ at[s] # "closed"
    /\ Goto(s, "closed")
    /\ holder' = IF holder = s THEN Nobody ELSE holder
    /\ Clear(s)
    /\ base' = [base EXCEPT ![s] = None]
    /\ laid' = [laid EXCEPT ![s] = NoStash]
    /\ seen' = [seen EXCEPT ![s] = None]
    /\ known' = [known EXCEPT ![s] = FALSE]
    /\ UNCHANGED <<remote, row, log, bounds, stale, forced>>

FileTexts == SUBSET ({Mine(n) : n \in 1..MaxEdits} \cup {Theirs(n) : n \in 1..MaxOthers} \cup {Clash})

Next ==
    \/ \E s \in Sessions :
        \/ Open(s) \/ Ensure(s) \/ Edit(s) \/ Revert(s) \/ Stash(s) \/ Unstash(s) \/ Switch(s)
        \/ Commit(s) \/ Look(s) \/ Nothing(s) \/ Upload(s) \/ Push(s) \/ Record(s) \/ Log(s)
        \/ Amend(s) \/ Remake(s) \/ Force(s) \/ Sync(s) \/ SyncClean(s) \/ Close(s)
        \/ \E merged \in [text : FileTexts, conflict : BOOLEAN] : Rebase(s, merged) \/ SyncDirty(s, merged)
    \/ Others

Spec == Init /\ [][Next]_vars
-----------------------------------------------------------------------------
TypeOK ==
    /\ head \in 1..Len(commits)
    /\ row.there => row.base \in 1..Len(commits)
    /\ row.changes \in FileTexts \cup {Same} /\ row.stash.file \in FileTexts \cup {Same}
    /\ log \subseteq 1..Len(commits)
    /\ holder \in Sessions \cup {Nobody}
    /\ \A s \in Sessions : overlay[s] \in FileTexts \cup {Same} /\ base[s] \in 0..Len(commits)

(* Nobody's work is lost from the branch: every commit keeps the edits of  *)
(* its parent, and what others pushed stays on the branch, across races of *)
(* commits, refused pushes and a death between the push and the row. The   *)
(* two ways out are in the code: an overlay or a stash saved on a base it  *)
(* is not of (workspace.py:169, commit.py:350) and an amend, which does    *)
(* not look at the branch (commit.py:285).                                 *)
NothingIsLost ==
    ~stale =>
        /\ \A c \in Ancestors(head) \ {1} : Text(commits[c].parent) \ {Clash} \subseteq Text(c)
        /\ ~forced => \A n \in 1..others : Theirs(n) \in Text(head)
=============================================================================
