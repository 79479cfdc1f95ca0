------------------------------- MODULE Merge -------------------------------
(***************************************************************************)
(* The three-way merge of the lines of one file (github/merge.py): the     *)
(* loop of _merge_lines over the changed stretches of two descendants of   *)
(* one base, one action per branch of the loop.                            *)
(*                                                                         *)
(* The lines of the base are the numbers 1 to Lines. A chunk is a stretch  *)
(* of the base from start (exclusive) to end (inclusive) with the lines a  *)
(* side put in its place; difflib, which finds them, is outside the source *)
(* and promises only what Chunks says.                                     *)
(***************************************************************************)
EXTENDS Integers, Sequences, FiniteSets

CONSTANTS Lines,     \* the base has this many lines
          Texts      \* what a side may put in the place of a stretch

VARIABLES
    ours, theirs,    \* ours_chunks, theirs_chunks
    ia, ib,          \* idx_a, idx_b: how many chunks were taken of each
    at,              \* curr_base: how many lines of the base are dealt with
    out,             \* the merged lines so far
    conflicted,
    group,           \* the overlapping stretch being gathered, or NoGroup
    phase            \* "idle", "merging" or "done"

vars == <<ours, theirs, ia, ib, at, out, conflicted, group, phase>>

NoGroup == [start |-> 0, end |-> -1, a |-> 0, b |-> 0]
(* The lines of the marks around a conflict (MARK_OURS, ...): no file has    *)
(* them of its own.                                                        *)
MarkOurs == -1
MarkSplit == -2
MarkTheirs == -3
Marks == {MarkOurs, MarkSplit, MarkTheirs}

Chunk == {c \in [start : 0..Lines, end : 0..Lines, lines : Texts] :
             /\ c.start <= c.end
             /\ c.start = c.end => c.lines # <<>>}

(* What SequenceMatcher returns: changed stretches in the order of the     *)
(* base, with at least one line kept between two of them.                  *)
Apart(cs) == \A i \in 1..(Len(cs) - 1) : cs[i].end < cs[i + 1].start
Chunks == {<<>>} \cup {<<c>> : c \in Chunk} \cup {cs \in Chunk \X Chunk : Apart(cs)}

Base(from, to) == [i \in 1..(IF to > from THEN to - from ELSE 0) |-> from + i]

Init ==
    /\ ours = <<>> /\ theirs = <<>>
    /\ ia = 0 /\ ib = 0 /\ at = 0
    /\ out = <<>> /\ conflicted = FALSE /\ group = NoGroup /\ phase = "idle"

(* _get_chunks, of either side. *)
Begin ==
    /\ phase = "idle"
    /\ ours' \in Chunks /\ theirs' \in Chunks
    /\ phase' = "merging"
    /\ UNCHANGED <<ia, ib, at, out, conflicted, group>>

MoreA == ia < Len(ours)
MoreB == ib < Len(theirs)
A == ours[ia + 1]
B == theirs[ib + 1]

(* One chunk lies before the other: it ends where the other starts, at the *)
(* latest, and the two are not insertions at one place.                    *)
Before(c, d) == c.end < d.start \/ (c.end = d.start /\ (c.start # c.end \/ d.start # d.end))

(* The kept lines up to a chunk, and the chunk. *)
Emit(c) == /\ out' = out \o Base(at, c.start) \o c.lines
           /\ at' = c.end
           /\ UNCHANGED <<ours, theirs, conflicted, group, phase>>

Scan == phase = "merging" /\ group = NoGroup

TakeOurs ==
    /\ Scan /\ MoreA
    /\ MoreB => (A # B /\ Before(A, B))
    /\ Emit(A)
    /\ ia' = ia + 1 /\ UNCHANGED ib

TakeTheirs ==
    /\ Scan /\ MoreB
    /\ MoreA => (A # B /\ ~Before(A, B) /\ Before(B, A))
    /\ Emit(B)
    /\ ib' = ib + 1 /\ UNCHANGED ia

(* Both sides made the same change. *)
TakeBoth ==
    /\ Scan /\ MoreA /\ MoreB /\ A = B
    /\ Emit(A)
    /\ ia' = ia + 1 /\ ib' = ib + 1

Smaller(x, y) == IF x < y THEN x ELSE y
Larger(x, y) == IF x > y THEN x ELSE y

(* The two overlap: the start of a group. *)
Gather ==
    /\ Scan /\ MoreA /\ MoreB
    /\ A # B /\ ~Before(A, B) /\ ~Before(B, A)
    /\ group' = [start |-> Smaller(A.start, B.start), end |-> Larger(A.end, B.end),
                 a |-> ia, b |-> ib]
    /\ ia' = ia + 1 /\ ib' = ib + 1
    /\ UNCHANGED <<ours, theirs, at, out, conflicted, phase>>

JoinsA == MoreA /\ A.start <= group.end
WithA == IF JoinsA THEN Larger(group.end, A.end) ELSE group.end
JoinsB == MoreB /\ B.start <= WithA

(* One turn of the inner loop: a chunk of either side that reaches the     *)
(* group widens it, ours first.                                            *)
Widen ==
    /\ phase = "merging" /\ group # NoGroup
    /\ JoinsA \/ JoinsB
    /\ group' = [group EXCEPT !.end = IF JoinsB THEN Larger(WithA, B.end) ELSE WithA]
    /\ ia' = IF JoinsA THEN ia + 1 ELSE ia
    /\ ib' = IF JoinsB THEN ib + 1 ELSE ib
    /\ UNCHANGED <<ours, theirs, at, out, conflicted, phase>>

(* _reconstruct_slice: what a side made of a stretch of the base. *)
Slice(cs, from, to) ==
    LET end[k \in 0..Len(cs)] == IF k = 0 THEN from ELSE Larger(end[k - 1], cs[k].end)
        text[k \in 0..Len(cs)] ==
            IF k = 0 THEN <<>>
            ELSE text[k - 1] \o Base(end[k - 1], cs[k].start) \o cs[k].lines
    IN  text[Len(cs)] \o Base(end[Len(cs)], to)

(* The group is complete: one text if the sides agree, else both in marks. *)
Settle ==
    /\ phase = "merging" /\ group # NoGroup
    /\ ~JoinsA /\ ~JoinsB
    /\ LET mine == Slice(SubSeq(ours, group.a + 1, ia), group.start, group.end)
           other == Slice(SubSeq(theirs, group.b + 1, ib), group.start, group.end)
           both == IF mine = other THEN mine
                   ELSE <<MarkOurs>> \o mine \o <<MarkSplit>> \o other \o <<MarkTheirs>>
       IN  /\ out' = out \o Base(at, group.start) \o both
           /\ conflicted' = (conflicted \/ mine # other)
    /\ at' = group.end
    /\ group' = NoGroup
    /\ UNCHANGED <<ours, theirs, ia, ib, phase>>

Finish ==
    /\ Scan /\ ~MoreA /\ ~MoreB
    /\ out' = out \o Base(at, Lines)
    /\ at' = Larger(at, Lines)
    /\ phase' = "done"
    /\ UNCHANGED <<ours, theirs, ia, ib, conflicted, group>>

Next == \/ Begin \/ TakeOurs \/ TakeTheirs \/ TakeBoth
        \/ Gather \/ Widen \/ Settle \/ Finish

Spec == Init /\ [][Next]_vars
-----------------------------------------------------------------------------
TypeOK ==
    /\ ours \in Chunks /\ theirs \in Chunks
    /\ ia \in 0..Len(ours) /\ ib \in 0..Len(theirs) /\ at \in 0..Lines
    /\ conflicted \in BOOLEAN
    /\ phase \in {"idle", "merging", "done"}

(* What a merge without a conflict has to be, said without the loop: at    *)
(* each place of the base the insertion that either side made there, then  *)
(* what either put for the stretch that starts there, then the base's own  *)
(* line unless a side took it out.                                         *)
All == {ours[i] : i \in 1..Len(ours)} \cup {theirs[i] : i \in 1..Len(theirs)}
TextOf(cs) == IF cs = {} THEN <<>> ELSE (CHOOSE c \in cs : TRUE).lines
Inserted(g) == TextOf({c \in All : c.start = g /\ c.end = g})
Replaced(g) == TextOf({c \in All : c.start = g /\ c.end > g})
TakenOut(i) == \E c \in All : c.start < i /\ i <= c.end
Patched[g \in 0..Lines] ==
    (IF g = 0 THEN <<>> ELSE Patched[g - 1] \o (IF TakenOut(g) THEN <<>> ELSE <<g>>))
        \o Inserted(g) \o Replaced(g)

In(x, s) == \E i \in 1..Len(s) : s[i] = x

(* A merge that reports no conflict is the base with the changes of both   *)
(* sides, each once and in its place, whichever of them is called ours     *)
(* (merge.py:88, _merge_lines).                                            *)
CleanIsBoth ==
    phase = "done" /\ ~conflicted => /\ out = Patched[Lines]
                                     /\ \A m \in Marks : ~In(m, out)

(* A merge that reports one lost nothing: every line that a side wrote and *)
(* every line that both kept is still in the file, for the user to choose  *)
(* from, and the marks stand in it.                                        *)
ConflictKeepsAll ==
    phase = "done" /\ conflicted =>
        /\ \A c \in All : \A i \in 1..Len(c.lines) : In(c.lines[i], out)
        /\ \A i \in 1..Lines : ~TakenOut(i) => In(i, out)
        /\ \A m \in Marks : In(m, out)
=============================================================================
