----------------------------- MODULE InboxProofs -----------------------------
(***************************************************************************)
(* Proofs about Inbox, for any number of instances, updates and kills.     *)
(* That nothing is dropped rests on the table having no gaps: an offset    *)
(* that starts past the newest row, as get_starting_offset does, skips     *)
(* nothing.  That turns are bounded rests on a worker having an update in  *)
(* hand at most once, unless it lost its batch.                            *)
(***************************************************************************)
EXTENDS Inbox, TLAPS, Integers, FiniteSetTheorems, FunctionTheorems

-----------------------------------------------------------------------------
(* What the operators of the model are.                                    *)

\* A set of updates is finite.
LEMMA UpdatesFinite ==
  ASSUME NEW S \in SUBSET Updates
  PROVE  IsFiniteSet(S) /\ Cardinality(S) \in Nat
<1>1. IsFiniteSet(1..Newest)
  <2>1. 1 \in Int /\ Newest \in Int
    BY InboxAssumption
  <2> QED BY <2>1, FS_Interval
<1>2. IsFiniteSet(S)
  BY <1>1, FS_Subset DEF Updates
<1> QED BY <1>2, FS_CardinalityType

\* A set of updates is finite, and Before counts the place of one in it.
LEMMA BeforeCounts ==
  ASSUME NEW S \in SUBSET Updates, NEW u \in S, NEW v \in S, u < v
  PROVE  /\ IsFiniteSet(S) /\ Cardinality(S) \in Nat
         /\ Cardinality(Before(u, S)) \in Nat /\ Cardinality(Before(v, S)) \in Nat
         /\ Cardinality(Before(u, S)) < Cardinality(Before(v, S))
<1>1. IsFiniteSet(S) /\ Cardinality(S) \in Nat
  BY UpdatesFinite
<1>2. Before(u, S) \in SUBSET S /\ Before(v, S) \in SUBSET S
  BY DEF Before
<1>3. IsFiniteSet(Before(u, S)) /\ IsFiniteSet(Before(v, S))
  BY <1>1, <1>2, FS_Subset
<1>4. Cardinality(Before(u, S)) \in Nat /\ Cardinality(Before(v, S)) \in Nat
  BY <1>3, FS_CardinalityType
<1>5. Before(u, S) \in SUBSET Before(v, S) /\ u \in Before(v, S) \ Before(u, S)
  <2>1. \A w \in S : w \in Int
    BY InboxAssumption DEF Updates
  <2>2. u \in Int /\ v \in Int
    BY <2>1
  <2>3. \A w \in S : w < u => w < v
    BY <2>1, <2>2
  <2>4. ~ (u < u)
    BY <2>2
  <2> QED BY <2>3, <2>4 DEF Before
<1>6. /\ Cardinality(Before(u, S)) <= Cardinality(Before(v, S))
      /\ Cardinality(Before(v, S)) # Cardinality(Before(u, S))
  BY <1>3, <1>5, FS_Subset
<1> QED BY <1>1, <1>4, <1>6

\* First(S, n) leaves out nothing that is before one of its own.
LEMMA FirstIsPrefix ==
  ASSUME NEW S \in SUBSET Updates, NEW n \in Nat,
         NEW v \in First(S, n), NEW u \in S, u < v
  PROVE  u \in First(S, n)
<1>1. v \in S /\ Cardinality(Before(v, S)) < n
  BY DEF First
<1>2. /\ Cardinality(Before(u, S)) < Cardinality(Before(v, S))
      /\ Cardinality(Before(u, S)) \in Nat /\ Cardinality(Before(v, S)) \in Nat
  BY <1>1, BeforeCounts
<1> QED BY <1>1, <1>2 DEF First

\* The greatest of a set of updates, or 0: there is one, since numbers below it
\* are well-founded from the newest on.
LEMMA MaxOf ==
  ASSUME NEW S \in SUBSET (0..(Newest + 1)), S # {}
  PROVE  Max(S) \in S /\ \A u \in S : u <= Max(S)
<1> DEFINE T == {Newest + 1 - u : u \in S}
<1>1. T \in SUBSET Nat /\ T # {}
  <2>1. \A u \in S : Newest + 1 - u \in Nat
    BY InboxAssumption
  <2>2. PICK u \in S : TRUE
    OBVIOUS
  <2> QED BY <2>1, <2>2
<1>2. PICK t \in T : \A y \in T : ~ (<<y, t>> \in OpToRel(<, Nat))
  BY <1>1, NatLessThanWellFounded, WFMin
<1>3. PICK m \in S : t = Newest + 1 - m
  BY <1>2
<1>4. \A u \in S : m >= u
  <2> TAKE u \in S
  <2>1. Newest + 1 - u \in T /\ Newest + 1 - u \in Nat /\ t \in Nat
    BY <1>1, <1>2
  <2>2. ~ (Newest + 1 - u < t)
    BY <1>2, <2>1 DEF OpToRel
  <2> QED BY <1>3, <2>2, InboxAssumption
<1>5. Max(S) \in S /\ \A u \in S : Max(S) >= u
  BY <1>4 DEF Max
<1> QED BY <1>5, InboxAssumption

\* The places of the elements of a set of updates are all different, and as many
\* as there are elements.
LEMMA Places ==
  ASSUME NEW S \in SUBSET Updates
  PROVE  [u \in S |-> Cardinality(Before(u, S)) + 1] \in Bijection(S, 1..Cardinality(S))
<1> DEFINE R == [u \in S |-> Cardinality(Before(u, S)) + 1]
           n == Cardinality(S)
<1>1. IsFiniteSet(S) /\ n \in Nat
  BY UpdatesFinite
<1>2. ASSUME NEW u \in S PROVE Cardinality(Before(u, S)) \in 0..(n - 1)
  <2>1. Before(u, S) \in SUBSET S /\ u \notin Before(u, S)
    BY InboxAssumption DEF Before, Updates
  <2>2. IsFiniteSet(Before(u, S)) /\ Cardinality(Before(u, S)) <= n
    BY <1>1, <2>1, FS_Subset
  <2>3. Cardinality(Before(u, S)) # n
    BY <1>1, <2>1, FS_Subset
  <2>4. Cardinality(Before(u, S)) \in Nat
    BY <2>2, FS_CardinalityType
  <2> QED BY <1>1, <2>2, <2>3, <2>4
<1>3. R \in [S -> 1..n]
  BY <1>1, <1>2
<1>4. ASSUME NEW u \in S, NEW v \in S, R[u] = R[v] PROVE u = v
  <2>1. u \in Int /\ v \in Int
    BY InboxAssumption DEF Updates
  <2>2. Cardinality(Before(u, S)) = Cardinality(Before(v, S))
    BY <1>2, <1>4
  <2>3. ~ (u < v) /\ ~ (v < u)
    BY <2>2, BeforeCounts
  <2> QED BY <2>1, <2>3
<1>5. R \in Injection(S, 1..n)
  BY <1>3, <1>4 DEF Injection, IsInjective
<1>6. IsFiniteSet(1..n) /\ Cardinality(1..n) = n
  <2>1. 1 \in Int /\ n \in Int
    BY <1>1
  <2>2. Cardinality(1..n) = IF 1 > n THEN 0 ELSE n - 1 + 1
    BY <2>1, FS_Interval
  <2> QED BY <1>1, <2>1, <2>2, FS_Interval
<1>7. R \in Surjection(S, 1..n)
  BY <1>5, <1>6, FS_Injection
<1> QED BY <1>5, <1>7 DEF Bijection

\* InOrder(S) lists the elements of S, each of them once.
LEMMA InOrderLists ==
  ASSUME NEW S \in SUBSET Updates
  PROVE  /\ InOrder(S) \in Seq(Updates) /\ Len(InOrder(S)) = Cardinality(S)
         /\ \A k \in 1..Cardinality(S) : InOrder(S)[k] \in S
         /\ \A j, k \in 1..Cardinality(S) : InOrder(S)[j] = InOrder(S)[k] => j = k
<1> DEFINE n == Cardinality(S)
<1>1. n \in Nat
  BY UpdatesFinite
<1>2. ASSUME NEW k \in 1..n
      PROVE  InOrder(S)[k] \in S /\ Cardinality(Before(InOrder(S)[k], S)) = k - 1
  <2>1. PICK u \in S : Cardinality(Before(u, S)) + 1 = k
    BY Places DEF Bijection, Surjection
  <2>2. Cardinality(Before(u, S)) = k - 1
    <3>1. IsFiniteSet(S) /\ Before(u, S) \in SUBSET S
      BY UpdatesFinite DEF Before
    <3>2. Cardinality(Before(u, S)) \in Nat
      BY <3>1, FS_Subset, FS_CardinalityType
    <3> QED BY <1>1, <2>1, <3>2
  <2>3. InOrder(S)[k] = CHOOSE w \in S : Cardinality(Before(w, S)) = k - 1
    BY DEF InOrder
  <2> QED BY <2>2, <2>3
<1>3. InOrder(S) \in [1..n -> Updates]
  BY <1>2 DEF InOrder
<1>4. InOrder(S) \in Seq(Updates) /\ Len(InOrder(S)) = n
  BY <1>1, <1>3
<1>5. ASSUME NEW j \in 1..n, NEW k \in 1..n, InOrder(S)[j] = InOrder(S)[k] PROVE j = k
  <2>1. j - 1 = k - 1
    BY <1>2, <1>5
  <2> QED BY <1>1, <2>1
<1> QED BY <1>2, <1>4, <1>5

\* First(S, n) has n elements at most.
LEMMA FirstBounded ==
  ASSUME NEW S \in SUBSET Updates, NEW n \in Nat
  PROVE  First(S, n) \in SUBSET S /\ Cardinality(First(S, n)) <= n
<1> DEFINE R == [u \in First(S, n) |-> Cardinality(Before(u, S)) + 1]
<1>1. First(S, n) \in SUBSET S
  BY DEF First
<1>2. ASSUME NEW u \in S
      PROVE  Cardinality(Before(u, S)) \in Nat
  <2>1. IsFiniteSet(S) /\ Before(u, S) \in SUBSET S
    BY UpdatesFinite DEF Before
  <2> QED BY <2>1, FS_Subset, FS_CardinalityType
<1>3. R \in [First(S, n) -> 1..n]
  BY <1>2 DEF First
<1>4. ASSUME NEW u \in First(S, n), NEW v \in First(S, n), R[u] = R[v] PROVE u = v
  <2>0. u \in S /\ v \in S
    BY <1>1
  <2>1. u \in Int /\ v \in Int /\ u \in S /\ v \in S
    BY <2>0, InboxAssumption DEF Updates
  <2>2. Cardinality(Before(u, S)) = Cardinality(Before(v, S))
    BY <1>2, <1>4, <2>1
  <2>3. ~ (u < v) /\ ~ (v < u)
    BY <2>1, <2>2, BeforeCounts
  <2> QED BY <2>1, <2>3
<1>5. R \in Injection(First(S, n), 1..n)
  BY <1>3, <1>4 DEF Injection, IsInjective
<1>6. IsFiniteSet(1..n) /\ Cardinality(1..n) = n
  <2>1. 1 \in Int /\ n \in Int
    OBVIOUS
  <2>2. Cardinality(1..n) = IF 1 > n THEN 0 ELSE n - 1 + 1
    BY <2>1, FS_Interval
  <2> QED BY <2>1, <2>2, FS_Interval
<1>7. Cardinality(First(S, n)) <= n
  BY <1>5, <1>6, FS_Injection
<1> QED BY <1>1, <1>7

-----------------------------------------------------------------------------
(* The table, and what is deleted at Telegram.                             *)

\* There is a row for u.
Has(u) == rows[u] # "none"

\* Rows are of updates that arrived, and there is one for all before them.
NoGaps == \A u \in Updates : Has(u) => u <= arrived /\ \A v \in Updates : v < u => Has(v)

\* What an offset is past is in the table.
OffsetsAreEarned == \A i \in Instances, u \in Updates : u < offset[i] => Has(u)

\* What a poller brings goes on where the table and what it brings end.
FetchedInOrder ==
    \A i \in Instances :
        /\ fetched[i] \in SUBSET (1..arrived)
        /\ poller[i] = "polling" => fetched[i] # {}
        /\ \A u \in fetched[i], v \in Updates : v < u => v \in fetched[i] \/ Has(v)

\* What is claimed is in the table.
ClaimedIsStored == \A i \in Instances : \A k \in 1..Len(batch[i]) : Has(batch[i][k])

IInv ==
    TypeOK /\ NoGaps /\ OffsetsAreEarned /\ FetchedInOrder /\ ClaimedIsStored /\ NothingDropped

LEMMA IInvInit == Init => IInv
BY InboxAssumption
   DEF Init, IInv, TypeOK, NoGaps, OffsetsAreEarned, FetchedInOrder, ClaimedIsStored,
       NothingDropped, Has, Updates

\* Rows that are there stay, and Store adds none before a gap.
LEMMA NewestRow ==
  ASSUME IInv
  PROVE  /\ Max(Stored \cup {0}) \in 0..arrived
         /\ \A u \in Updates : u <= Max(Stored \cup {0}) => Has(u)
<1>1. Stored \cup {0} \in SUBSET (0..(Newest + 1)) /\ Stored \cup {0} # {}
  BY InboxAssumption DEF Stored, Rows, Updates
<1>2. Max(Stored \cup {0}) \in Stored \cup {0}
  BY <1>1, MaxOf
<1>3. \A u \in Stored : u \in Updates /\ Has(u)
  BY DEF Stored, Rows, Has
<1>4. \A u \in Stored : u \in 0..arrived /\ \A v \in Updates : v <= u => Has(v)
  <2> TAKE u \in Stored
  <2>1. u \in Updates /\ Has(u) /\ u <= arrived
    BY <1>3 DEF IInv, NoGaps
  <2>2. u \in 0..arrived
    BY <2>1, InboxAssumption DEF Updates, IInv, TypeOK
  <2>3. ASSUME NEW v \in Updates, v <= u PROVE Has(v)
    <3>1. v = u \/ v < u
      BY <2>1, <2>3, InboxAssumption DEF Updates
    <3> QED BY <2>1, <3>1 DEF IInv, NoGaps
  <2> QED BY <2>2, <2>3
<1>5. 0 \in 0..arrived /\ \A v \in Updates : ~ (v <= 0)
  BY InboxAssumption DEF Updates, IInv, TypeOK
<1> QED BY <1>2, <1>4, <1>5

\* The newest update a poller has is one it has seen, and there is a row or
\* something it brings for all before it.
LEMMA LastFetched ==
  ASSUME IInv, NEW i \in Instances, poller[i] = "polling"
  PROVE  /\ Max(fetched[i]) \in 1..arrived
         /\ \A u \in Updates : u <= Max(fetched[i]) => u \in fetched[i] \/ Has(u)
<1>1. fetched[i] \in SUBSET (0..(Newest + 1)) /\ fetched[i] # {}
  BY InboxAssumption DEF IInv, TypeOK, FetchedInOrder
<1>2. Max(fetched[i]) \in fetched[i] /\ fetched[i] \in SUBSET (1..arrived)
  BY <1>1, MaxOf DEF IInv, FetchedInOrder
<1>3. ASSUME NEW u \in Updates, u <= Max(fetched[i]) PROVE u \in fetched[i] \/ Has(u)
  <2>1. Max(fetched[i]) \in Int /\ u \in Int
    BY <1>2, InboxAssumption DEF Updates, IInv, TypeOK
  <2>2. u = Max(fetched[i]) \/ u < Max(fetched[i])
    BY <1>3, <2>1
  <2> QED BY <1>2, <2>2 DEF IInv, FetchedInOrder
<1> QED BY <1>2, <1>3

\* What a poll confirms has arrived and has a row.
LEMMA SeenIsStored ==
  ASSUME IInv, NEW i \in Instances
  PROVE  /\ Max({confirmed, offset[i] - 1}) \in 0..arrived
         /\ \A u \in Updates : u <= Max({confirmed, offset[i] - 1}) => Has(u)
<1> DEFINE S == {confirmed, offset[i] - 1}
<1>0. confirmed \in 0..arrived /\ arrived \in 0..Newest /\ offset[i] \in 1..(Newest + 1)
  BY DEF IInv, TypeOK
<1>1. offset[i] - 1 <= arrived
  <2>1. CASE offset[i] = 1
    BY <1>0, <2>1
  <2>2. CASE offset[i] # 1
    <3>1. offset[i] - 1 \in Updates /\ offset[i] - 1 < offset[i]
      BY <1>0, <2>2, InboxAssumption DEF Updates
    <3>2. Has(offset[i] - 1)
      BY <3>1 DEF IInv, OffsetsAreEarned
    <3> QED BY <3>1, <3>2 DEF IInv, NoGaps
  <2> QED BY <2>1, <2>2
<1>2. S \in SUBSET (0..(Newest + 1)) /\ S # {}
  BY <1>0, InboxAssumption
<1>3. Max(S) \in S
  BY <1>2, MaxOf
<1>4. Max(S) \in 0..arrived
  BY <1>0, <1>1, <1>3
<1>5. ASSUME NEW u \in Updates, u <= Max(S) PROVE Has(u)
  <2>1. CASE Max(S) = confirmed
    BY <1>0, <1>5, <2>1, InboxAssumption DEF IInv, NothingDropped, Has, Updates
  <2>2. CASE Max(S) = offset[i] - 1
    <3>1. u < offset[i]
      BY <1>0, <1>5, <2>2, InboxAssumption DEF Updates
    <3> QED BY <3>1 DEF IInv, OffsetsAreEarned
  <2> QED BY <1>3, <2>1, <2>2
<1> QED BY <1>4, <1>5

\* What a poll confirms, and what it brings.
LEMMA Polled ==
  ASSUME IInv, NEW i \in Instances, Poll(i)
  PROVE  /\ confirmed' \in 0..arrived
         /\ \A u \in Updates : u <= confirmed' => Has(u)
         /\ \E items \in SUBSET (1..arrived) :
                /\ items # {}
                /\ fetched' = [fetched EXCEPT ![i] = items]
                /\ \A u \in items, v \in Updates : v < u => v \in items \/ Has(v)
<1> DEFINE seen == Max({confirmed, offset[i] - 1})
           fresh == {u \in 1..arrived : u > seen}
           items == First(fresh, PollLimit)
<1>1. /\ confirmed' = seen /\ items # {}
      /\ fetched' = [fetched EXCEPT ![i] = items]
  BY DEF Poll
<1>2. seen \in 0..arrived /\ \A u \in Updates : u <= seen => Has(u)
  BY SeenIsStored
<1> HIDE DEF seen
<1>3. fresh \in SUBSET Updates /\ items \in SUBSET fresh
  <2>1. arrived \in 0..Newest
    BY DEF IInv, TypeOK
  <2>2. fresh \in SUBSET Updates
    BY <2>1, InboxAssumption DEF Updates
  <2> QED BY <2>2 DEF First
<1>4. ASSUME NEW u \in items, NEW v \in Updates, v < u PROVE v \in items \/ Has(v)
  <2>1. u \in 1..arrived /\ u \in fresh /\ v \in Int /\ v > 0
    BY <1>3, InboxAssumption DEF Updates
  <2>2. CASE v <= seen
    BY <1>2, <2>2
  <2>3. CASE ~ (v <= seen)
    <3>1. v \in fresh
      BY <1>2, <1>4, <2>1, <2>3 DEF IInv, TypeOK
    <3>2. PollLimit \in Nat
      BY InboxAssumption
    <3> HIDE DEF fresh
    <3> QED BY <1>3, <1>4, <3>1, <3>2, FirstIsPrefix
  <2> QED BY <2>2, <2>3
<1>5. items \in SUBSET (1..arrived)
  BY <1>3
<1> QED BY <1>1, <1>2, <1>4, <1>5

\* Types, but for what the poller's invariant says of them.
LEMMA TypeStep == IInv /\ [Next]_vars => TypeOK'
<1> SUFFICES ASSUME IInv, [Next]_vars PROVE TypeOK'
  OBVIOUS
<1> USE InboxAssumption DEF TypeOK
<1>0. TypeOK
  BY DEF IInv
<1>1. CASE Arrive
  BY <1>0, <1>1 DEF Arrive, pollVars, workVars
<1>2. CASE Expire
  BY <1>0, <1>2 DEF Expire, workVars
<1>3. ASSUME NEW i \in Instances, Lead(i) PROVE TypeOK'
  <2>1. Max(Stored \cup {0}) + 1 \in 1..(Newest + 1)
    BY <1>0, NewestRow
  <2> QED BY <1>0, <1>3, <2>1 DEF Lead, workVars
<1>4. ASSUME NEW i \in Instances, Resign(i) PROVE TypeOK'
  BY <1>0, <1>4 DEF Resign, workVars
<1>5. ASSUME NEW i \in Instances, Poll(i) PROVE TypeOK'
  <2>1. PICK items \in SUBSET (1..arrived) :
            confirmed' \in 0..arrived /\ fetched' = [fetched EXCEPT ![i] = items]
    BY <1>5, Polled
  <2>2. items \in SUBSET Updates
    BY <1>0, <2>1 DEF Updates
  <2> QED BY <1>0, <1>5, <2>1, <2>2 DEF Poll, workVars
<1>6. ASSUME NEW i \in Instances, PollEmpty(i) PROVE TypeOK'
  BY <1>0, <1>6, SeenIsStored DEF PollEmpty, workVars
<1>7. ASSUME NEW i \in Instances, SaveBatch(i) PROVE TypeOK'
  <2>1. Max(fetched[i]) + 1 \in 1..(Newest + 1)
    BY <1>0, <1>7, LastFetched DEF SaveBatch
  <2> QED BY <1>0, <1>7, <2>1 DEF SaveBatch, Store, workVars
<1>8. ASSUME NEW i \in Instances, SaveFails(i) PROVE TypeOK'
  BY <1>0, <1>8 DEF SaveFails, workVars
<1>9. ASSUME NEW i \in Instances, Claim(i) PROVE TypeOK'
  <2> DEFINE S == First(Rows({"pending"}), ClaimLimit)
  <2>1. S \in SUBSET Updates /\ Cardinality(S) <= ClaimLimit
    BY FirstBounded DEF Rows
  <2>2. InOrder(S) \in Seq(Updates) /\ Len(InOrder(S)) <= ClaimLimit
    BY <2>1, InOrderLists
  <2>3. batch' = [batch EXCEPT ![i] = InOrder(S)]
    BY <1>9 DEF Claim
  <2> HIDE DEF S
  <2> QED BY <1>0, <1>9, <2>2, <2>3 DEF Claim, pollVars
<1>10. ASSUME NEW i \in Instances, Feed(i) PROVE TypeOK'
  BY <1>0, <1>10 DEF Feed, Handled, pollVars
<1>11. ASSUME NEW i \in Instances, MarkDone(i) \/ MarkFailed(i) PROVE TypeOK'
  <2>1. PICK s \in {"done", "failed"} : Mark(i, s)
    BY <1>11 DEF MarkDone, MarkFailed
  <2>2. batch[i] # <<>>
    BY <1>11 DEF MarkDone, MarkFailed
  <2>3. /\ Tail(batch[i]) \in Seq(Updates) /\ Len(Tail(batch[i])) <= ClaimLimit
        /\ Head(batch[i]) \in Updates
    BY <1>0, <2>2
  <2> QED BY <1>0, <2>1, <2>3 DEF Mark, pollVars
<1>12. ASSUME NEW i \in Instances, Abandon(i) PROVE TypeOK'
  BY <1>0, <1>12 DEF Abandon, pollVars
<1>13. ASSUME NEW i \in Instances, Crash(i) PROVE TypeOK'
  BY <1>0, <1>13 DEF Crash
<1>14. CASE UNCHANGED vars
  BY <1>0, <1>14 DEF vars, pollVars, workVars
<1> QED
  BY <1>1, <1>2, <1>3, <1>4, <1>5, <1>6, <1>7, <1>8, <1>9, <1>10, <1>11, <1>12, <1>13, <1>14
     DEF Next, Polling, Working

\* The table has no gaps after a step, and offsets and polls go on where it ends.
LEMMA TableStep ==
  IInv /\ [Next]_vars => NoGaps' /\ OffsetsAreEarned' /\ FetchedInOrder' /\ NothingDropped'
<1> SUFFICES ASSUME IInv, [Next]_vars
             PROVE  NoGaps' /\ OffsetsAreEarned' /\ FetchedInOrder' /\ NothingDropped'
  OBVIOUS
<1> DEFINE Goal == NoGaps' /\ OffsetsAreEarned' /\ FetchedInOrder' /\ NothingDropped'
<1> USE InboxAssumption DEF NoGaps, OffsetsAreEarned, FetchedInOrder, NothingDropped, Has
<1>0. /\ TypeOK /\ NoGaps /\ OffsetsAreEarned /\ FetchedInOrder
      /\ ClaimedIsStored /\ NothingDropped
  BY DEF IInv
<1>1. CASE Arrive
  BY <1>0, <1>1 DEF Arrive, pollVars, TypeOK, Updates
<1>2. ASSUME UNCHANGED <<arrived, confirmed, offset>>,
             \A u \in Updates : rows'[u] = "none" <=> rows[u] = "none",
             \A j \in Instances : \/ fetched'[j] = fetched[j] /\ poller'[j] = poller[j]
                                  \/ fetched'[j] = fetched[j] /\ poller'[j] # "polling"
                                  \/ fetched'[j] = {} /\ poller'[j] # "polling"
      PROVE  Goal
  <2>1. NoGaps' /\ OffsetsAreEarned'
    BY <1>0, <1>2
  <2>2. FetchedInOrder'
    BY <1>0, <1>2
  <2>3. NothingDropped'
    BY <1>0, <1>2 DEF TypeOK, Updates
  <2> QED BY <2>1, <2>2, <2>3
<1>3. ASSUME NEW i \in Instances, Lead(i) PROVE Goal
  <2> DEFINE m == Max(Stored \cup {0})
  <2>1. m \in 0..arrived /\ \A u \in Updates : u <= m => Has(u)
    BY NewestRow
  <2>2. /\ offset' = [offset EXCEPT ![i] = m + 1] /\ poller' = [poller EXCEPT ![i] = "leading"]
        /\ UNCHANGED <<arrived, confirmed, fetched, rows>>
    BY <1>3 DEF Lead
  <2> HIDE DEF m
  <2>3. \A u \in Updates : u < m + 1 => Has(u)
    BY <1>0, <2>1 DEF TypeOK, Updates
  <2>4. OffsetsAreEarned'
    BY <1>0, <2>2, <2>3 DEF TypeOK
  <2>5. FetchedInOrder'
    BY <1>0, <2>2 DEF TypeOK
  <2> QED BY <1>0, <2>2, <2>4, <2>5
<1>4. ASSUME NEW i \in Instances, Poll(i) PROVE Goal
  <2>1. PICK items \in SUBSET (1..arrived) :
            /\ items # {}
            /\ fetched' = [fetched EXCEPT ![i] = items]
            /\ \A u \in items, v \in Updates : v < u => v \in items \/ Has(v)
    BY <1>4, Polled
  <2>2. \A u \in Updates : u <= confirmed' => Has(u)
    BY <1>4, Polled
  <2>3. /\ UNCHANGED <<arrived, rows, offset>>
        /\ poller' = [poller EXCEPT ![i] = "polling"]
    BY <1>4 DEF Poll
  <2>4. FetchedInOrder'
    BY <1>0, <2>1, <2>3 DEF TypeOK
  <2>5. NothingDropped'
    BY <1>0, <1>4, <2>2, <2>3, Polled DEF TypeOK, Updates
  <2> QED BY <1>0, <2>3, <2>4, <2>5
<1>5. ASSUME NEW i \in Instances, PollEmpty(i) PROVE Goal
  <2>1. /\ confirmed' \in 0..arrived /\ \A u \in Updates : u <= confirmed' => Has(u)
        /\ UNCHANGED <<arrived, rows, offset, fetched, poller>>
    BY <1>5, SeenIsStored DEF PollEmpty
  <2>2. NothingDropped'
    BY <1>0, <2>1 DEF TypeOK, Updates
  <2> QED BY <1>0, <2>1, <2>2
<1>6. ASSUME NEW i \in Instances, SaveBatch(i) PROVE Goal
  <2>1. /\ UNCHANGED <<arrived, confirmed>>
        /\ \A u \in Updates : rows'[u] # "none" <=> u \in fetched[i] \/ rows[u] # "none"
        /\ poller[i] = "polling"
    BY <1>6 DEF SaveBatch, Store
  <2>2. /\ offset' = [offset EXCEPT ![i] = Max(fetched[i]) + 1]
        /\ fetched' = [fetched EXCEPT ![i] = {}]
        /\ poller' = [poller EXCEPT ![i] = "leading"]
    BY <1>6 DEF SaveBatch
  <2>3. /\ Max(fetched[i]) \in 1..arrived
        /\ \A u \in Updates : u <= Max(fetched[i]) => u \in fetched[i] \/ Has(u)
    BY <2>1, LastFetched
  <2>4. OffsetsAreEarned'
    BY <1>0, <2>1, <2>2, <2>3 DEF TypeOK, Updates
  <2>5. NoGaps'
    BY <1>0, <2>1, SMTT(30) DEF TypeOK, Updates
  <2>6. FetchedInOrder'
    BY <1>0, <2>1, <2>2 DEF TypeOK
  <2>7. NothingDropped'
    BY <1>0, <2>1 DEF TypeOK, Updates
  <2> QED BY <2>4, <2>5, <2>6, <2>7
<1>7. ASSUME NEW i \in Instances, Resign(i) \/ SaveFails(i) \/ Crash(i) PROVE Goal
  BY <1>0, <1>2, <1>7, SMTT(30) DEF Resign, SaveFails, Crash, TypeOK
<1>8. ASSUME NEW i \in Instances, Claim(i) \/ Feed(i) \/ Abandon(i) PROVE Goal
  BY <1>2, <1>8 DEF Claim, Feed, Abandon, pollVars
<1>9. ASSUME NEW i \in Instances, MarkDone(i) \/ MarkFailed(i) PROVE Goal
  <2>1. PICK s \in {"done", "failed"} : Mark(i, s) /\ batch[i] # <<>>
    BY <1>9 DEF MarkDone, MarkFailed
  <2>2. Has(Head(batch[i])) /\ Head(batch[i]) \in Updates
    <3>1. batch[i] \in Seq(Updates) /\ batch[i] # <<>>
      BY <1>0, <2>1 DEF TypeOK
    <3>2. 1 \in 1..Len(batch[i]) /\ Head(batch[i]) = batch[i][1]
      BY <3>1
    <3> QED BY <1>0, <3>1, <3>2 DEF ClaimedIsStored
  <2> QED BY <1>0, <1>2, <2>1, <2>2 DEF Mark, pollVars, TypeOK
<1>10. CASE Expire \/ UNCHANGED vars
  BY <1>2, <1>10 DEF Expire, vars, pollVars
<1> QED
  BY <1>1, <1>3, <1>4, <1>5, <1>6, <1>7, <1>8, <1>9, <1>10 DEF Next, Polling, Working

\* What a worker claims is there, and no row is taken away.
LEMMA ClaimedStep == IInv /\ [Next]_vars => ClaimedIsStored'
<1> SUFFICES ASSUME IInv, [Next]_vars PROVE ClaimedIsStored'
  OBVIOUS
<1>0. TypeOK /\ ClaimedIsStored
  BY DEF IInv
<1>1. \A u \in Updates : Has(u) => Has(u)'
  <2>1. ASSUME NEW i \in Instances, NEW s \in {"done", "failed"}, Mark(i, s)
        PROVE  \A u \in Updates : Has(u) => Has(u)'
    BY <1>0, <2>1 DEF Mark, Has, TypeOK
  <2>2. ASSUME NEW i \in Instances, SaveBatch(i)
        PROVE  \A u \in Updates : Has(u) => Has(u)'
    BY <2>2 DEF SaveBatch, Store, Has
  <2>3. ASSUME rows' = rows PROVE \A u \in Updates : Has(u) => Has(u)'
    BY <2>3 DEF Has
  <2> QED
    BY <2>1, <2>2, <2>3 DEF Next, Polling, Working, Arrive, Expire, Lead, Resign, Poll, PollEmpty,
       SaveFails, Claim, Feed, MarkDone, MarkFailed, Abandon, Crash, vars
<1>2. ASSUME batch' = batch PROVE ClaimedIsStored'
  BY <1>0, <1>1, <1>2 DEF ClaimedIsStored, TypeOK
<1>3. ASSUME NEW i \in Instances, batch' = [batch EXCEPT ![i] = <<>>] PROVE ClaimedIsStored'
  BY <1>0, <1>1, <1>3 DEF ClaimedIsStored, TypeOK
<1>4. ASSUME NEW i \in Instances, Claim(i) PROVE ClaimedIsStored'
  <2> DEFINE S == First(Rows({"pending"}), ClaimLimit)
  <2>1. S \in SUBSET Updates /\ \A u \in S : rows[u] = "pending"
    BY DEF Rows, First
  <2>2. /\ Len(InOrder(S)) = Cardinality(S)
        /\ \A k \in 1..Cardinality(S) : InOrder(S)[k] \in S
    BY <2>1, InOrderLists
  <2>3. batch' = [batch EXCEPT ![i] = InOrder(S)] /\ rows' = rows
    BY <1>4 DEF Claim
  <2> HIDE DEF S
  <2>4. \A k \in 1..Len(InOrder(S)) : rows[InOrder(S)[k]] = "pending"
    BY <2>1, <2>2
  <2> QED BY <1>0, <2>3, <2>4 DEF ClaimedIsStored, TypeOK, Has
<1>5. ASSUME NEW i \in Instances, MarkDone(i) \/ MarkFailed(i) PROVE ClaimedIsStored'
  <2>1. batch[i] # <<>> /\ batch' = [batch EXCEPT ![i] = Tail(@)]
    BY <1>5 DEF MarkDone, MarkFailed, Mark
  <2>2. \A k \in 1..Len(Tail(batch[i])) :
            k + 1 \in 1..Len(batch[i]) /\ Tail(batch[i])[k] = batch[i][k + 1]
    BY <1>0, <2>1 DEF TypeOK
  <2>3. \A k \in 1..Len(Tail(batch[i])) : Has(Tail(batch[i])[k]) /\ Tail(batch[i])[k] \in Updates
    BY <1>0, <2>2 DEF ClaimedIsStored, TypeOK
  <2>4. \A k \in 1..Len(Tail(batch[i])) : rows'[Tail(batch[i])[k]] # "none"
    BY <1>1, <2>3 DEF Has
  <2> QED BY <1>0, <1>1, <2>1, <2>4 DEF ClaimedIsStored, TypeOK, Has
<1> QED
  BY <1>2, <1>3, <1>4, <1>5 DEF Next, Polling, Working, Arrive, Expire, Lead, Resign, Poll,
     PollEmpty, SaveBatch, SaveFails, Feed, Abandon, Crash, vars, workVars

\* The three lemmas together: the invariant, and from it the theorems.
LEMMA IInvCorrect == Spec => []IInv
<1>1. IInv /\ [Next]_vars => IInv'
  BY TypeStep, TableStep, ClaimedStep DEF IInv
<1> QED BY <1>1, IInvInit, PTL DEF Spec

\* Every variable stays in its range, the offsets, batches and lists among them.
THEOREM TypeCorrect == Spec => []TypeOK
<1>1. IInv => TypeOK
  BY DEF IInv
<1> QED BY <1>1, IInvCorrect, PTL

\* What is deleted at Telegram is in the table: engine.py never confirms what it
\* has not saved, whoever polls, fails to save or dies.
THEOREM NothingDroppedCorrect == Spec => []NothingDropped
<1>1. IInv => NothingDropped
  BY DEF IInv
<1> QED BY <1>1, IInvCorrect, PTL

-----------------------------------------------------------------------------
(* The turns of an update.                                                 *)

\* Worker i has u in its batch.
Holds(i, u) == \E k \in 1..Len(batch[i]) : batch[i][k] = u

\* It has fed u and not marked it yet.
FedIt(i, u) == batch[i] # <<>> /\ fed[i] /\ Head(batch[i]) = u

Fed(u) == {i \in Instances : FedIt(i, u)}
ToFeed(u) == {i \in Instances : Holds(i, u) /\ ~FedIt(i, u)}

\* An update is in a batch once, and a worker that fed something has a batch.
BatchesAreSets ==
    \A i \in Instances :
        /\ fed[i] => batch[i] # <<>>
        /\ \A j, k \in 1..Len(batch[i]) : batch[i][j] = batch[i][k] => j = k

\* What is not in the table was never fed; what is pending was fed by workers
\* that have it or lost it; and each worker may feed it once more at most.
TurnsAreFed ==
    \A u \in Updates :
        /\ ~Has(u) => turns[u] = 0
        /\ rows[u] = "pending" => turns[u] <= crashes + Cardinality(Fed(u))
        /\ turns[u] + Cardinality(ToFeed(u)) <= crashes + Cardinality(Instances)

TInv == IInv /\ BatchesAreSets /\ TurnsAreFed

LEMMA WorkersFinite ==
  ASSUME NEW S \in SUBSET Instances
  PROVE  /\ IsFiniteSet(S) /\ Cardinality(S) \in Nat
         /\ Cardinality(S) <= Cardinality(Instances) /\ Cardinality(Instances) \in Nat
BY FS_Subset, FS_CardinalityType, InboxAssumption

LEMMA TInvInit == Init => TInv
<1> SUFFICES ASSUME Init PROVE TInv
  OBVIOUS
<1>1. IInv
  BY IInvInit
<1>2. BatchesAreSets
  BY DEF Init, BatchesAreSets
<1>3. \A u \in Updates : Fed(u) = {} /\ ToFeed(u) = {}
  BY DEF Init, Fed, ToFeed, Holds, FedIt
<1>4. Cardinality({}) = 0 /\ Cardinality(Instances) \in Nat
  BY FS_EmptySet, WorkersFinite
<1>5. ASSUME NEW u \in Updates
      PROVE  /\ turns[u] = 0 /\ crashes = 0 /\ rows[u] = "none"
             /\ Cardinality(Fed(u)) = 0 /\ Cardinality(ToFeed(u)) = 0
  BY <1>3, <1>4 DEF Init
<1>6. TurnsAreFed
  BY <1>4, <1>5 DEF TurnsAreFed, Has
<1> QED BY <1>1, <1>2, <1>6 DEF TInv

\* A batch that is claimed has every update once; the rest of one that is worked
\* off, too.
LEMMA BatchesStep == TInv /\ [Next]_vars => BatchesAreSets'
<1> SUFFICES ASSUME TInv, [Next]_vars PROVE BatchesAreSets'
  OBVIOUS
<1>0. TypeOK /\ BatchesAreSets
  BY DEF TInv, IInv
<1>1. ASSUME batch' = batch /\ fed' = fed PROVE BatchesAreSets'
  BY <1>0, <1>1 DEF BatchesAreSets
<1>2. ASSUME NEW i \in Instances, batch' = [batch EXCEPT ![i] = <<>>],
             fed' = [fed EXCEPT ![i] = FALSE]
      PROVE  BatchesAreSets'
  BY <1>0, <1>2 DEF BatchesAreSets, TypeOK
<1>3. ASSUME NEW i \in Instances, Claim(i) PROVE BatchesAreSets'
  <2> DEFINE S == First(Rows({"pending"}), ClaimLimit)
  <2>1. S \in SUBSET Updates
    BY DEF Rows, First
  <2>2. /\ Len(InOrder(S)) = Cardinality(S)
        /\ \A j, k \in 1..Cardinality(S) : InOrder(S)[j] = InOrder(S)[k] => j = k
    BY <2>1, InOrderLists
  <2>3. batch' = [batch EXCEPT ![i] = InOrder(S)] /\ fed' = fed /\ batch[i] = <<>>
    BY <1>3 DEF Claim
  <2> HIDE DEF S
  <2> QED BY <1>0, <2>2, <2>3 DEF BatchesAreSets, TypeOK
<1>4. ASSUME NEW i \in Instances, Feed(i) PROVE BatchesAreSets'
  BY <1>0, <1>4 DEF Feed, BatchesAreSets, TypeOK
<1>5. ASSUME NEW i \in Instances, MarkDone(i) \/ MarkFailed(i) PROVE BatchesAreSets'
  <2>1. /\ batch[i] # <<>> /\ batch' = [batch EXCEPT ![i] = Tail(@)]
        /\ fed' = [fed EXCEPT ![i] = FALSE]
    BY <1>5 DEF MarkDone, MarkFailed, Mark
  <2>2. \A k \in 1..Len(Tail(batch[i])) :
            k + 1 \in 1..Len(batch[i]) /\ Tail(batch[i])[k] = batch[i][k + 1]
    BY <1>0, <2>1 DEF TypeOK
  <2>3. ASSUME NEW j \in 1..Len(Tail(batch[i])), NEW k \in 1..Len(Tail(batch[i])),
               Tail(batch[i])[j] = Tail(batch[i])[k]
        PROVE  j = k
    <3>1. j + 1 = k + 1
      BY <1>0, <2>2, <2>3 DEF BatchesAreSets
    <3> QED BY <3>1
  <2> QED BY <1>0, <2>1, <2>3, ZenonT(60) DEF BatchesAreSets, TypeOK
<1> QED
  BY <1>1, <1>2, <1>3, <1>4, <1>5 DEF Next, Polling, Working, Arrive, Expire, Lead, Resign, Poll,
     PollEmpty, SaveBatch, SaveFails, Abandon, Crash, vars, workVars

\* A step that leaves the workers alone, but may add rows.
LEMMA TurnsQuiet ==
  ASSUME TInv, UNCHANGED <<batch, fed, turns, crashes>>,
         \A u \in Updates : rows'[u] = rows[u] \/ (rows[u] = "none" /\ rows'[u] = "pending")
  PROVE  TurnsAreFed'
<1> SUFFICES ASSUME NEW u \in Updates
             PROVE  /\ ~Has(u)' => turns[u]' = 0
                    /\ (rows[u] = "pending")' => turns[u]' <= crashes' + Cardinality(Fed(u)')
                    /\ turns[u]' + Cardinality(ToFeed(u)') <= crashes' + Cardinality(Instances)
  BY DEF TurnsAreFed
<1>1. Fed(u)' = Fed(u) /\ ToFeed(u)' = ToFeed(u)
  BY DEF Fed, ToFeed, FedIt, Holds
<1>2. Cardinality(Fed(u)) \in Nat /\ crashes \in Nat
  BY WorkersFinite DEF Fed, TInv, IInv, TypeOK
<1> QED BY <1>1, <1>2 DEF TInv, TurnsAreFed, Has

\* A worker that claims u is one that has not fed it since.
LEMMA TurnsClaim == ASSUME TInv, NEW i \in Instances, Claim(i) PROVE TurnsAreFed'
<1> DEFINE S == First(Rows({"pending"}), ClaimLimit)
<1>1. S \in SUBSET Updates /\ \A u \in S : rows[u] = "pending"
  BY DEF Rows, First
<1>2. /\ Len(InOrder(S)) = Cardinality(S)
      /\ \A k \in 1..Cardinality(S) : InOrder(S)[k] \in S
  BY <1>1, InOrderLists
<1>3. /\ batch' = [batch EXCEPT ![i] = InOrder(S)] /\ UNCHANGED <<fed, rows, turns, crashes>>
      /\ batch[i] = <<>>
  BY DEF Claim
<1> HIDE DEF S
<1>4. ~fed[i]
  BY <1>3 DEF TInv, BatchesAreSets
<1>5. ASSUME NEW u \in Updates
      PROVE  /\ Fed(u)' = Fed(u)
             /\ u \notin S => ToFeed(u)' = ToFeed(u)
             /\ ToFeed(u)' \in SUBSET Instances /\ Fed(u) \in SUBSET Instances
             /\ Fed(u) \cap ToFeed(u)' = {}
  <2>1. \A j \in Instances \ {i} : batch'[j] = batch[j]
    BY <1>3 DEF TInv, IInv, TypeOK
  <2>2. \A j \in Instances : FedIt(j, u)' <=> FedIt(j, u)
    BY <1>3, <1>4, <2>1 DEF FedIt
  <2>3. \A j \in Instances \ {i} : Holds(j, u)' <=> Holds(j, u)
    BY <2>1 DEF Holds
  <2>4. ~Holds(i, u)
    BY <1>3 DEF Holds
  <2>5. batch'[i] = InOrder(S)
    BY <1>3 DEF TInv, IInv, TypeOK
  <2>6. u \notin S => ~Holds(i, u)'
    BY <1>2, <2>5 DEF Holds
  <2> QED BY <2>2, <2>3, <2>4, <2>6 DEF Fed, ToFeed
<1>6. ASSUME NEW u \in Updates
      PROVE  turns[u] + Cardinality(ToFeed(u)') <= crashes + Cardinality(Instances)
  <2>1. CASE u \notin S
    BY <1>5, <2>1 DEF TInv, TurnsAreFed
  <2>2. CASE u \in S
    <3>1. /\ IsFiniteSet(Fed(u)) /\ IsFiniteSet(ToFeed(u)')
          /\ Cardinality(Fed(u)) \in Nat /\ Cardinality(ToFeed(u)') \in Nat
          /\ Cardinality(Instances) \in Nat
      BY <1>5, WorkersFinite
    <3>2. Cardinality(Fed(u) \cup ToFeed(u)') =
              Cardinality(Fed(u)) + Cardinality(ToFeed(u)') - Cardinality(Fed(u) \cap ToFeed(u)')
      BY <3>1, FS_Union
    <3>3. Cardinality(Fed(u) \cap ToFeed(u)') = 0
      BY <1>5, FS_EmptySet
    <3>4. Cardinality(Fed(u) \cup ToFeed(u)') <= Cardinality(Instances)
      BY <1>5, WorkersFinite
    <3>5. turns[u] <= crashes + Cardinality(Fed(u)) /\ turns[u] \in Nat /\ crashes \in Nat
      BY <1>1, <2>2 DEF TInv, TurnsAreFed, IInv, TypeOK
    <3> QED BY <3>1, <3>2, <3>3, <3>4, <3>5
  <2> QED BY <2>1, <2>2
<1> QED BY <1>3, <1>5, <1>6 DEF TInv, TurnsAreFed, Has

\* Feeding u moves its worker from those who may feed it to those who did.
LEMMA TurnsFeed == ASSUME TInv, NEW i \in Instances, Feed(i) PROVE TurnsAreFed'
<1> DEFINE h == Head(batch[i])
<1>0. TypeOK /\ TurnsAreFed
  BY DEF TInv, IInv
<1>1. /\ batch[i] # <<>> /\ ~fed[i] /\ fed' = [fed EXCEPT ![i] = TRUE]
      /\ turns' = [turns EXCEPT ![h] = @ + 1] /\ UNCHANGED <<batch, rows, crashes>>
  BY DEF Feed, Handled
<1>2. h \in Updates /\ Holds(i, h) /\ Has(h)
  <2>1. batch[i] \in Seq(Updates)
    BY <1>0 DEF TypeOK
  <2>2. 1 \in 1..Len(batch[i]) /\ batch[i][1] = h /\ h \in Updates
    BY <1>1, <2>1
  <2> QED BY <2>2 DEF Holds, TInv, IInv, ClaimedIsStored
<1> HIDE DEF h
<1>3. ASSUME NEW u \in Updates
      PROVE  /\ Fed(u)' = IF u = h THEN Fed(u) \cup {i} ELSE Fed(u)
             /\ ToFeed(u)' = IF u = h THEN ToFeed(u) \ {i} ELSE ToFeed(u)
  <2>1. \A j \in Instances : fed'[j] = IF j = i THEN TRUE ELSE fed[j]
    BY <1>0, <1>1 DEF TypeOK
  <2>2. \A j \in Instances : Holds(j, u)' <=> Holds(j, u)
    BY <1>1 DEF Holds
  <2>3. \A j \in Instances : FedIt(j, u)' <=> FedIt(j, u) \/ (j = i /\ u = h)
    BY <1>1, <2>1 DEF FedIt, h
  <2> QED BY <2>2, <2>3 DEF Fed, ToFeed
<1>4. i \in ToFeed(h) /\ i \notin Fed(h)
  BY <1>1, <1>2 DEF ToFeed, Fed, FedIt
<1>5. /\ Cardinality(Fed(h) \cup {i}) = Cardinality(Fed(h)) + 1
      /\ Cardinality(ToFeed(h) \ {i}) = Cardinality(ToFeed(h)) - 1
      /\ Cardinality(Fed(h)) \in Nat /\ Cardinality(ToFeed(h)) \in Nat
      /\ Cardinality(Instances) \in Nat
  <2>1. Fed(h) \in SUBSET Instances /\ ToFeed(h) \in SUBSET Instances
    BY DEF Fed, ToFeed
  <2> QED BY <1>4, <2>1, WorkersFinite, FS_AddElement, FS_RemoveElement
<1>6. turns[h] \in Nat /\ crashes \in Nat /\ turns'[h] = turns[h] + 1
  BY <1>0, <1>1, <1>2 DEF TypeOK
<1>7. \A u \in Updates : u # h => turns'[u] = turns[u]
  BY <1>0, <1>1 DEF TypeOK
<1> SUFFICES ASSUME NEW u \in Updates
             PROVE  /\ ~Has(u)' => turns[u]' = 0
                    /\ (rows[u] = "pending")' => turns[u]' <= crashes' + Cardinality(Fed(u)')
                    /\ turns[u]' + Cardinality(ToFeed(u)') <= crashes' + Cardinality(Instances)
  BY DEF TurnsAreFed
<1>8. CASE u = h
  <2>1. Has(u)'
    BY <1>1, <1>2, <1>8 DEF Has
  <2>2. /\ Cardinality(Fed(u)') = Cardinality(Fed(u)) + 1
        /\ Cardinality(ToFeed(u)') = Cardinality(ToFeed(u)) - 1
        /\ Cardinality(Fed(u)) \in Nat /\ Cardinality(ToFeed(u)) \in Nat
        /\ Cardinality(Instances) \in Nat
    BY <1>3, <1>5, <1>8
  <2>3. /\ turns[u] \in Nat /\ crashes \in Nat /\ crashes' = crashes
        /\ turns'[u] = turns[u] + 1 /\ rows' = rows
    BY <1>1, <1>6, <1>8
  <2>4. /\ rows[u] = "pending" => turns[u] <= crashes + Cardinality(Fed(u))
        /\ turns[u] + Cardinality(ToFeed(u)) <= crashes + Cardinality(Instances)
    BY <1>0 DEF TurnsAreFed
  <2>5. rows[u] = "pending" => turns'[u] <= crashes' + Cardinality(Fed(u)')
    BY <2>2, <2>3, <2>4
  <2>6. turns'[u] + Cardinality(ToFeed(u)') <= crashes' + Cardinality(Instances)
    BY <2>2, <2>3, <2>4
  <2> QED BY <2>1, <2>3, <2>5, <2>6
<1>9. CASE u # h
  BY <1>0, <1>1, <1>3, <1>7, <1>9 DEF TurnsAreFed, Has
<1> QED BY <1>8, <1>9

\* A row that is marked is not pending, and the rest of the batch stays.
LEMMA TurnsMark ==
  ASSUME TInv, NEW i \in Instances, MarkDone(i) \/ MarkFailed(i)
  PROVE  TurnsAreFed'
<1>0. TypeOK /\ TurnsAreFed /\ BatchesAreSets
  BY DEF TInv, IInv
<1>h. PICK h \in Updates : batch[i] # <<>> /\ h = Head(batch[i])
  BY <1>0 DEF TypeOK, MarkDone, MarkFailed
<1>1. PICK s \in {"done", "failed"} :
          /\ batch[i] # <<>> /\ rows' = [rows EXCEPT ![h] = s]
          /\ batch' = [batch EXCEPT ![i] = Tail(@)] /\ fed' = [fed EXCEPT ![i] = FALSE]
          /\ UNCHANGED <<turns, crashes>>
  BY <1>h DEF MarkDone, MarkFailed, Mark
<1>2. /\ h \in Updates /\ Len(batch[i]) >= 1 /\ batch[i][1] = h
      /\ Len(Tail(batch[i])) = Len(batch[i]) - 1
      /\ \A k \in 1..Len(Tail(batch[i])) : Tail(batch[i])[k] = batch[i][k + 1]
  BY <1>0, <1>1, <1>h DEF TypeOK
<1>3. ASSUME NEW u \in Updates, u # h
      PROVE  Fed(u)' = Fed(u) /\ ToFeed(u)' = ToFeed(u) /\ rows'[u] = rows[u]
  <2>1. \A j \in Instances \ {i} : batch'[j] = batch[j] /\ fed'[j] = fed[j]
    BY <1>0, <1>1 DEF TypeOK
  <2>2. batch'[i] = Tail(batch[i]) /\ ~fed'[i]
    BY <1>0, <1>1 DEF TypeOK
  <2>3. ~FedIt(i, u) /\ ~FedIt(i, u)'
    <3>1. ~FedIt(i, u)
      BY <1>h, <1>3 DEF FedIt
    <3>2. ~FedIt(i, u)'
      BY <2>2 DEF FedIt
    <3> QED BY <3>1, <3>2
  <2>4. Holds(i, u)' <=> Holds(i, u)
    <3>1. ASSUME NEW k \in 1..Len(batch[i]), batch[i][k] = u
          PROVE  k - 1 \in 1..Len(Tail(batch[i])) /\ Tail(batch[i])[k - 1] = u
      <4>1. k # 1 /\ Len(batch[i]) \in Nat
        BY <1>0, <1>2, <1>3, <3>1 DEF TypeOK
      <4>2. k - 1 \in 1..Len(Tail(batch[i])) /\ k - 1 + 1 = k
        BY <1>2, <4>1
      <4> QED BY <1>2, <3>1, <4>2
    <3>2. ASSUME NEW k \in 1..Len(Tail(batch[i])), Tail(batch[i])[k] = u
          PROVE  k + 1 \in 1..Len(batch[i]) /\ batch[i][k + 1] = u
      <4>1. Len(batch[i]) \in Nat
        BY <1>0 DEF TypeOK
      <4> QED BY <1>2, <3>2, <4>1
    <3> QED BY <2>2, <3>1, <3>2 DEF Holds
  <2>5. \A j \in Instances \ {i} : (Holds(j, u)' <=> Holds(j, u)) /\ (FedIt(j, u)' <=> FedIt(j, u))
    BY <2>1 DEF Holds, FedIt
  <2>6. rows'[u] = rows[u]
    BY <1>0, <1>1, <1>3 DEF TypeOK
  <2> QED BY <2>3, <2>4, <2>5, <2>6 DEF Fed, ToFeed
<1>4. ToFeed(h)' \in SUBSET ToFeed(h)
  <2>1. \A j \in Instances \ {i} : batch'[j] = batch[j] /\ fed'[j] = fed[j]
    BY <1>0, <1>1 DEF TypeOK
  <2>2. batch'[i] = Tail(batch[i])
    BY <1>0, <1>1 DEF TypeOK
  <2>3. ~Holds(i, h)'
    <3>1. ASSUME NEW k \in 1..Len(Tail(batch[i])), Tail(batch[i])[k] = h PROVE FALSE
      <4>1. Len(batch[i]) \in Nat
        BY <1>0 DEF TypeOK
      <4>2. k + 1 \in 1..Len(batch[i]) /\ 1 \in 1..Len(batch[i]) /\ batch[i][k + 1] = batch[i][1]
        BY <1>2, <3>1, <4>1
      <4>3. k + 1 = 1
        BY <1>0, <4>2 DEF BatchesAreSets
      <4> QED BY <4>3
    <3> QED BY <2>2, <3>1 DEF Holds
  <2>5. \A j \in Instances \ {i} : (Holds(j, h)' <=> Holds(j, h)) /\ (FedIt(j, h)' <=> FedIt(j, h))
    BY <2>1 DEF Holds, FedIt
  <2> QED BY <2>3, <2>5 DEF ToFeed
<1>5. rows'[h] # "pending" /\ rows'[h] # "none"
  BY <1>0, <1>1 DEF TypeOK
<1>6. Cardinality(ToFeed(h)') <= Cardinality(ToFeed(h)) /\ Cardinality(ToFeed(h)) \in Nat
      /\ Cardinality(ToFeed(h)') \in Nat /\ Cardinality(Instances) \in Nat
  <2>1. ToFeed(h) \in SUBSET Instances
    BY DEF ToFeed
  <2>2. IsFiniteSet(ToFeed(h)) /\ Cardinality(ToFeed(h)) \in Nat
    BY <2>1, WorkersFinite
  <2>3. ToFeed(h)' \in SUBSET Instances
    BY <1>4, <2>1
  <2> QED BY <1>4, <2>2, <2>3, WorkersFinite, FS_Subset
<1> SUFFICES ASSUME NEW u \in Updates
             PROVE  /\ ~Has(u)' => turns[u]' = 0
                    /\ (rows[u] = "pending")' => turns[u]' <= crashes' + Cardinality(Fed(u)')
                    /\ turns[u]' + Cardinality(ToFeed(u)') <= crashes' + Cardinality(Instances)
  BY DEF TurnsAreFed
<1>7. CASE u = h
  <2>1. turns[h] + Cardinality(ToFeed(h)) <= crashes + Cardinality(Instances)
    BY <1>0 DEF TurnsAreFed
  <2>2. turns[h] \in Nat /\ crashes \in Nat
    BY <1>0 DEF TypeOK
  <2>3. turns'[h] + Cardinality(ToFeed(h)') <= crashes' + Cardinality(Instances)
    BY <1>1, <1>6, <2>1, <2>2
  <2> QED BY <1>5, <1>7, <2>3 DEF Has
<1>8. CASE u # h
  BY <1>0, <1>1, <1>3, <1>8 DEF TurnsAreFed, Has
<1> QED BY <1>7, <1>8

\* A worker that loses its batch may feed it again: the loss makes up for it.
LEMMA TurnsLost ==
  ASSUME TInv, NEW i \in Instances, Crash(i) \/ Abandon(i)
  PROVE  TurnsAreFed'
<1>0. TypeOK /\ TurnsAreFed
  BY DEF TInv, IInv
<1>1. /\ batch' = [batch EXCEPT ![i] = <<>>] /\ fed' = [fed EXCEPT ![i] = FALSE]
      /\ UNCHANGED <<rows, turns>> /\ crashes' = crashes + 1
  BY DEF Crash, Abandon
<1>2. /\ batch'[i] = <<>>
      /\ \A j \in Instances \ {i} : batch'[j] = batch[j] /\ fed'[j] = fed[j]
  BY <1>0, <1>1 DEF TypeOK
<1> SUFFICES ASSUME NEW u \in Updates
             PROVE  /\ ~Has(u)' => turns[u]' = 0
                    /\ (rows[u] = "pending")' => turns[u]' <= crashes' + Cardinality(Fed(u)')
                    /\ turns[u]' + Cardinality(ToFeed(u)') <= crashes' + Cardinality(Instances)
  BY DEF TurnsAreFed
<1>3. ~FedIt(i, u)' /\ ~Holds(i, u)'
  BY <1>2 DEF FedIt, Holds
<1>4. \A j \in Instances \ {i} : (Holds(j, u)' <=> Holds(j, u)) /\ (FedIt(j, u)' <=> FedIt(j, u))
  BY <1>2 DEF Holds, FedIt
<1>5. Fed(u)' = Fed(u) \ {i} /\ ToFeed(u)' = ToFeed(u) \ {i}
  BY <1>3, <1>4 DEF Fed, ToFeed
<1>6. /\ Cardinality(Fed(u)) <= Cardinality(Fed(u)') + 1
      /\ Cardinality(ToFeed(u)') <= Cardinality(ToFeed(u))
      /\ Cardinality(Fed(u)) \in Nat /\ Cardinality(Fed(u)') \in Nat
      /\ Cardinality(ToFeed(u)) \in Nat /\ Cardinality(ToFeed(u)') \in Nat
      /\ Cardinality(Instances) \in Nat
  <2>1. Fed(u) \in SUBSET Instances /\ ToFeed(u) \in SUBSET Instances
    BY DEF Fed, ToFeed
  <2>2. /\ IsFiniteSet(Fed(u)) /\ IsFiniteSet(ToFeed(u))
        /\ Cardinality(Fed(u)) \in Nat /\ Cardinality(ToFeed(u)) \in Nat
        /\ Cardinality(Instances) \in Nat
    BY <2>1, WorkersFinite
  <2>3. Cardinality(Fed(u) \ {i}) \in {Cardinality(Fed(u)), Cardinality(Fed(u)) - 1}
    <3>1. CASE i \in Fed(u)
      BY <2>2, <3>1, FS_RemoveElement
    <3>2. CASE i \notin Fed(u)
      <4>1. Fed(u) \ {i} = Fed(u)
        BY <3>2
      <4> QED BY <4>1
    <3> QED BY <3>1, <3>2
  <2>4. /\ Cardinality(ToFeed(u) \ {i}) <= Cardinality(ToFeed(u))
        /\ Cardinality(ToFeed(u) \ {i}) \in Nat /\ Cardinality(Fed(u) \ {i}) \in Nat
    <3>1. ToFeed(u) \ {i} \in SUBSET ToFeed(u) /\ Fed(u) \ {i} \in SUBSET Instances
          /\ ToFeed(u) \ {i} \in SUBSET Instances
      BY <2>1
    <3> QED BY <2>2, <3>1, WorkersFinite, FS_Subset
  <2> QED BY <1>5, <2>2, <2>3, <2>4
<1>7. turns[u] \in Nat /\ crashes \in Nat /\ turns' = turns /\ rows' = rows /\ crashes' = crashes + 1
  BY <1>0, <1>1 DEF TypeOK
<1>8. /\ ~Has(u) => turns[u] = 0
      /\ rows[u] = "pending" => turns[u] <= crashes + Cardinality(Fed(u))
      /\ turns[u] + Cardinality(ToFeed(u)) <= crashes + Cardinality(Instances)
  BY <1>0 DEF TurnsAreFed
<1>9. rows[u] = "pending" => turns[u] <= crashes' + Cardinality(Fed(u)')
  BY <1>6, <1>7, <1>8
<1>10. turns[u] + Cardinality(ToFeed(u)') <= crashes' + Cardinality(Instances)
  BY <1>6, <1>7, <1>8
<1> QED BY <1>7, <1>8, <1>9, <1>10 DEF Has

\* Every step preserves the bound: claims, feeds, marks and losses by the lemmas
\* above, and the others leave the workers alone.
LEMMA TInvStep == TInv /\ [Next]_vars => TInv'
<1> SUFFICES ASSUME TInv, [Next]_vars PROVE TInv'
  OBVIOUS
<1>0. IInv /\ TypeOK
  BY DEF TInv, IInv
<1>1. IInv' /\ BatchesAreSets'
  BY <1>0, TypeStep, TableStep, ClaimedStep, BatchesStep DEF IInv
<1>2. ASSUME UNCHANGED <<batch, fed, turns, crashes, rows>> PROVE TurnsAreFed'
  BY <1>2, TurnsQuiet
<1>3. ASSUME NEW i \in Instances, SaveBatch(i) PROVE TurnsAreFed'
  <2>1. UNCHANGED <<batch, fed, turns, crashes>>
    BY <1>3 DEF SaveBatch, workVars
  <2>2. \A u \in Updates : rows'[u] = rows[u] \/ (rows[u] = "none" /\ rows'[u] = "pending")
    BY <1>3 DEF SaveBatch, Store
  <2> QED BY <2>1, <2>2, TurnsQuiet
<1>4. TurnsAreFed'
  <2>1. CASE Arrive \/ Expire \/ UNCHANGED vars
    BY <1>2, <2>1 DEF Arrive, Expire, vars, workVars
  <2>2. ASSUME NEW i \in Instances, Polling(i) \/ SaveFails(i) PROVE TurnsAreFed'
    BY <1>2, <1>3, <2>2 DEF Polling, Lead, Resign, Poll, PollEmpty, SaveFails, workVars
  <2>3. ASSUME NEW i \in Instances, Working(i) PROVE TurnsAreFed'
    BY <2>3, TurnsClaim, TurnsFeed, TurnsMark DEF Working
  <2>4. ASSUME NEW i \in Instances, Abandon(i) \/ Crash(i) PROVE TurnsAreFed'
    BY <2>4, TurnsLost
  <2> QED BY <2>1, <2>2, <2>3, <2>4 DEF Next
<1> QED BY <1>1, <1>4 DEF TInv

\* An update has at most one turn for each worker and one for each loss of a
\* batch, although claim_pending lets go of its rows before they are fed.
THEOREM TurnsBoundedCorrect == Spec => []TurnsAreBounded
<1>1. TInv => TurnsAreBounded
  <2> SUFFICES ASSUME TInv, NEW u \in Updates
               PROVE  turns[u] <= Cardinality(Instances) + crashes
    BY DEF TurnsAreBounded
  <2>1. ToFeed(u) \in SUBSET Instances
    BY DEF ToFeed
  <2>2. Cardinality(ToFeed(u)) \in Nat /\ Cardinality(Instances) \in Nat
    BY <2>1, WorkersFinite
  <2>3. turns[u] + Cardinality(ToFeed(u)) <= crashes + Cardinality(Instances)
    BY DEF TInv, TurnsAreFed
  <2>4. turns[u] \in Nat /\ crashes \in Nat
    BY DEF TInv, IInv, TypeOK
  <2> QED BY <2>2, <2>3, <2>4
<1> QED BY <1>1, TInvInit, TInvStep, PTL DEF Spec

=============================================================================
