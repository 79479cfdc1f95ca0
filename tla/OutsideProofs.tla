---------------------------- MODULE OutsideProofs ----------------------------
(* What the components of MCOutside promise, for any number of workers,     *)
(* tasks, calls and rows: for each component its inductive invariant and    *)
(* the steps that keep it, and at the end the specification.                *)
EXTENDS MCOutside, FiniteSetTheorems, SequenceTheorems, FunctionTheorems,
        NaturalsInduction, WellFoundedInduction, TLAPS

-----------------------------------------------------------------------------
(* That a row is settled only by who took it, for any number of workers and *)
(* deliveries; that it is settled in the end is left to the runs.           *)

\* What is not received has no row, and what a worker has in hand was stored and
\* taken.
Stored ==
    /\ payload \in Seq(Payloads)
    /\ row \in [Deliveries -> {"none", "waiting", "leased", "lapsed", "settled", "gone"}]
    /\ attempts \in [Deliveries -> Nat]
    /\ \A d \in Deliveries : d > Len(payload) => row[d] = "none"

Handed ==
    /\ batch \in [Workers -> Seq(Deliveries \X Nat)]
    /\ place \in [Workers -> Places]
    /\ \A w \in Workers :
        /\ place[w] # "idle" => batch[w] # <<>>
        /\ \A i \in 1..Len(batch[w]) :
              row[batch[w][i][1]] # "none" /\ attempts[batch[w][i][1]] > 0

TabInv == Stored /\ Handed

\* A new table has no row and no batch.
LEMMA TabInit == Init => TabInv
BY DeliveriesAssumption DEF Init, TabInv, Stored, Handed, Deliveries, Places

\* Where a worker goes is a place, and idle only with an empty batch.
LEMMA Starts ==
  /\ \A p : Start(p) \in Places
  /\ \A q : Next1(q) \in Places /\ (Next1(q) # "idle" => q # <<>>)
<1>1. \A p : Start(p) \in Places
  BY DEF Start, Places
<1> QED BY <1>1 DEF Next1, Places

\* The deliveries, and any of them, are finitely many; some have a last one.
LEMMA Few == \A S \in SUBSET Deliveries : IsFiniteSet(S) /\ Cardinality(S) \in Nat
<1>1. 1 \in Int /\ Newest \in Int
  BY DeliveriesAssumption
<1>2. IsFiniteSet(Deliveries)
  BY <1>1, FS_Interval DEF Deliveries
<1> QED BY <1>2, FS_Subset, FS_CardinalityType

\* A set of rows has a newest one.
LEMMA Last == ASSUME NEW S \in SUBSET Deliveries, S # {} PROVE \E m \in S : \A e \in S : e <= m
<1>0. Newest \in Nat /\ \A d \in S : d \in 1..Newest
  BY DeliveriesAssumption DEF Deliveries
<1> DEFINE T == {Newest - d : d \in S}
<1>1. T # {} /\ T \subseteq Nat
  BY <1>0
<1>2. PICK t \in T : \A u \in T : ~(<<u, t>> \in OpToRel(<, Nat))
  BY <1>1, WFMin, NatLessThanWellFounded
<1>3. PICK m \in S : t = Newest - m
  OBVIOUS
<1>4. \A e \in S : e <= m
  <2> SUFFICES ASSUME NEW e \in S, m < e PROVE FALSE
    BY <1>0
  <2>1. Newest - e \in T /\ Newest - e \in Nat /\ t \in Nat /\ Newest - e < t
    BY <1>0, <1>1, <1>3
  <2> QED BY <1>2, <2>1 DEF OpToRel
<1> QED BY <1>4

\* A claim takes no row while it leaves an older one, and no more than a batch.
LEMMA TakesOldest ==
  ASSUME NEW C \in SUBSET Deliveries
  PROVE  /\ Oldest(C) \subseteq C /\ Cardinality(Oldest(C)) <= Batch
         /\ \A e \in Oldest(C), d \in C : d < e => d \in Oldest(C)
<1>0. Batch \in Nat
  BY DeliveriesAssumption
<1>i. \A d \in C : d \in Int
  BY DeliveriesAssumption DEF Deliveries
<1>1. Oldest(C) \subseteq C /\ \A d \in C : Before(d, C) \subseteq C
  BY DEF Oldest, Before
<1>2. ASSUME NEW e \in Oldest(C), NEW d \in C, d < e PROVE d \in Oldest(C)
  <2>1. Before(d, C) \subseteq Before(e, C)
    BY <1>i, <1>1, <1>2 DEF Before
  <2>2. IsFiniteSet(Before(e, C)) /\ Cardinality(Before(e, C)) \in Nat
    BY <1>1, Few
  <2>3. Cardinality(Before(d, C)) <= Cardinality(Before(e, C)) /\ Cardinality(Before(d, C)) \in Nat
    BY <2>1, <2>2, FS_Subset, FS_CardinalityType
  <2>4. Cardinality(Before(e, C)) < Batch
    BY DEF Oldest
  <2>5. Cardinality(Before(d, C)) < Batch
    BY <1>0, <2>2, <2>3, <2>4
  <2> QED BY <2>5 DEF Oldest
<1>3. Cardinality(Oldest(C)) <= Batch
  <2>1. CASE Oldest(C) = {}
    BY <1>0, <2>1, FS_EmptySet
  <2>2. CASE Oldest(C) # {}
    <3>1. PICK m \in Oldest(C) : \A e \in Oldest(C) : e <= m
      BY <1>1, <2>2, Last
    <3>2. Oldest(C) \ {m} \subseteq Before(m, C)
      BY <1>i, <1>1, <3>1 DEF Before
    <3>3. IsFiniteSet(Before(m, C)) /\ Cardinality(Before(m, C)) \in Nat /\ Cardinality(Before(m, C)) < Batch
      BY <1>1, Few DEF Oldest
    <3>4. Cardinality(Oldest(C) \ {m}) <= Cardinality(Before(m, C))
      BY <3>2, <3>3, FS_Subset
    <3>5. IsFiniteSet(Oldest(C)) /\ Cardinality(Oldest(C)) \in Nat
      BY <1>1, Few
    <3>6. Cardinality(Oldest(C) \ {m}) = Cardinality(Oldest(C)) - 1
      BY <3>5, FS_RemoveElement
    <3> QED BY <1>0, <3>3, <3>4, <3>5, <3>6
  <2> QED BY <2>1, <2>2
<1> QED BY <1>1, <1>2, <1>3

\* What a claim takes is a list of rows that are waiting or whose lease is over, in
\* their order, none of which it leaves out.
Takes(w, S, q) ==
    /\ batch[w] = <<>> /\ Len(q) <= Batch /\ S # {}
    /\ batch' = [batch EXCEPT ![w] = q] /\ place' = [place EXCEPT ![w] = Next1(q)]
    /\ \A i \in 1..Len(q) : q[i][1] \in S
    /\ \A d \in S : \E i \in 1..Len(q) : q[i][1] = d
    /\ \A i, j \in 1..Len(q) : i < j => q[i][1] < q[j][1]
    /\ \A e \in S, d \in Claimable : d < e => d \in S
    /\ row' = [d \in Deliveries |-> IF d \in S THEN "leased" ELSE row[d]]
    /\ attempts' = [d \in Deliveries |-> IF d \in S THEN attempts[d] + 1 ELSE attempts[d]]
    /\ crossed' = crossed \cup
           {e \in Deliveries : (\E v \in Workers : Holds(v, e)) /\ \E d \in S : e < d}
    /\ UNCHANGED <<payload, error, todo, effects, faults>>

\* A claim takes the oldest rows that may be taken, in their order.
LEMMA Claimed ==
  ASSUME TabInv, NEW w \in Workers, Claim(w)
  PROVE  \E S \in SUBSET Claimable : \E q \in Seq(Deliveries \X Nat) : Takes(w, S, q)
<1> DEFINE S == Oldest(Claimable)
           n == Cardinality(S)
           Q(l) == [i \in 1..n |-> <<l[i], attempts[l[i]] + 1>>]
<1>0. Claimable \in SUBSET Deliveries
  BY DEF Claimable
<1>1. /\ S \in SUBSET Claimable /\ S \in SUBSET Deliveries /\ n <= Batch
      /\ \A e \in S, d \in Claimable : d < e => d \in S
  BY <1>0, TakesOldest
<1>2. IsFiniteSet(S) /\ n \in Nat
  BY <1>1, Few
<1>3. PICK l \in InOrder(S) :
          batch' = [batch EXCEPT ![w] = Q(l)] /\ place' = [place EXCEPT ![w] = Next1(Q(l))]
  BY DEF Claim
<1>4. /\ row' = [d \in Deliveries |-> IF d \in S THEN "leased" ELSE row[d]]
      /\ attempts' = [d \in Deliveries |-> IF d \in S THEN attempts[d] + 1 ELSE attempts[d]]
      /\ crossed' = crossed \cup
             {e \in Deliveries : (\E v \in Workers : Holds(v, e)) /\ \E d \in S : e < d}
      /\ S # {} /\ batch[w] = <<>> /\ UNCHANGED <<payload, error, todo, effects, faults>>
  BY DEF Claim
<1>5. l \in [1..n -> S] /\ \A i, j \in 1..n : i < j => l[i] < l[j]
  BY DEF InOrder
<1>6. \A i \in 1..n : l[i] \in S /\ l[i] \in Deliveries /\ attempts[l[i]] + 1 \in Nat
  BY <1>1, <1>5 DEF TabInv, Stored
<1>7. /\ Q(l) \in [1..n -> Deliveries \X Nat]
      /\ \A i \in 1..n : Q(l)[i][1] = l[i]
  BY <1>6
<1> HIDE DEF Q
<1>8. Q(l) \in Seq(Deliveries \X Nat) /\ Len(Q(l)) = n
  BY <1>2, <1>7
<1>9. \A d \in S : \E i \in 1..n : l[i] = d
  <2>1. \A i, j \in 1..n : l[i] = l[j] => i = j
    <3> SUFFICES ASSUME NEW i \in 1..n, NEW j \in 1..n, l[i] = l[j], i # j PROVE FALSE
      OBVIOUS
    <3>1. i \in Int /\ j \in Int /\ l[i] \in Int /\ l[j] \in Int
      BY <1>2, <1>6 DEF Deliveries
    <3>2. i < j \/ j < i
      BY <3>1
    <3> QED BY <1>5, <3>1, <3>2
  <2>2. IsFiniteSet(1..n) /\ Cardinality(1..n) = n
    <3>1. 1 \in Int /\ n \in Int
      BY <1>2
    <3> QED BY <1>2, <3>1, FS_Interval
  <2> HIDE DEF S, n
  <2>3. l \in Injection(1..n, S)
    BY <1>5, <2>1, Fun_IsInj DEF Injection, IsInjective
  <2>4. Cardinality(S) = n
    BY DEF n
  <2>5. l \in Surjection(1..n, S)
    BY <1>2, <2>2, <2>3, <2>4, FS_Injection
  <2> QED BY <2>5 DEF Surjection
<1>10. /\ \A i \in 1..n : Q(l)[i][1] \in S
       /\ \A d \in S : \E i \in 1..n : Q(l)[i][1] = d
       /\ \A i, j \in 1..n : i < j => Q(l)[i][1] < Q(l)[j][1]
  BY <1>5, <1>6, <1>7, <1>9
<1> HIDE DEF S, n
<1>11. Takes(w, S, Q(l))
  BY <1>1, <1>3, <1>4, <1>8, <1>10 DEF Takes
<1> QED BY <1>1, <1>8, <1>11

\* Where a worker is changes, and nothing else of its rows.
LEMMA Moves ==
  ASSUME TabInv, UNCHANGED <<payload, row, attempts, batch>>,
         \/ place' = place
         \/ \E w \in Workers, to \in Places : place[w] # "idle" /\ place' = [place EXCEPT ![w] = to]
  PROVE  TabInv'
<1>1. Stored'
  BY DEF TabInv, Stored
<1>2. place' \in [Workers -> Places] /\ \A v \in Workers : place'[v] # "idle" => place[v] # "idle"
  BY DEF TabInv, Handed
<1>3. Handed'
  BY <1>2 DEF TabInv, Handed
<1> QED BY <1>1, <1>3 DEF TabInv

\* The rest of a batch, or none of it, stays in a worker's hands; rows that are
\* stored stay stored.
LEMMA Passes ==
  ASSUME TabInv, UNCHANGED <<payload, attempts>>,
         row' \in [Deliveries -> {"none", "waiting", "leased", "lapsed", "settled", "gone"}],
         \A d \in Deliveries : row'[d] = "none" <=> row[d] = "none",
         \/ UNCHANGED <<batch, place>>
         \/ \E w \in Workers :
               \/ /\ batch[w] # <<>> /\ batch' = [batch EXCEPT ![w] = Tail(@)]
                  /\ place' = [place EXCEPT ![w] = Next1(Tail(batch[w]))]
               \/ /\ batch' = [batch EXCEPT ![w] = <<>>]
                  /\ place' = [place EXCEPT ![w] = "idle"]
  PROVE  TabInv'
<1>1. Stored'
  BY DEF TabInv, Stored
<1>2. \A v \in Workers : \A i \in 1..Len(batch[v]) : batch[v][i][1] \in Deliveries
  <2> TAKE v \in Workers
  <2>1. batch[v] \in Seq(Deliveries \X Nat)
    BY DEF TabInv, Handed
  <2>2. \A i \in 1..Len(batch[v]) : batch[v][i] \in Deliveries \X Nat
    BY <2>1
  <2> QED BY <2>2
<1>3. \A v \in Workers : \A i \in 1..Len(batch[v]) :
          row'[batch[v][i][1]] # "none" /\ attempts'[batch[v][i][1]] > 0
  <2> TAKE v \in Workers
  <2> TAKE i \in 1..Len(batch[v])
  <2>1. row[batch[v][i][1]] # "none" /\ attempts[batch[v][i][1]] > 0
    BY DEF TabInv, Handed
  <2> QED BY <1>2, <2>1
<1>4. CASE UNCHANGED <<batch, place>>
  BY <1>1, <1>3, <1>4 DEF TabInv, Handed
<1>5. ASSUME NEW w \in Workers, batch[w] # <<>>, batch' = [batch EXCEPT ![w] = Tail(@)],
             place' = [place EXCEPT ![w] = Next1(Tail(batch[w]))]
      PROVE  TabInv'
  <2>0. batch[w] \in Seq(Deliveries \X Nat)
    BY DEF TabInv, Handed
  <2>1. /\ Tail(batch[w]) \in Seq(Deliveries \X Nat)
        /\ \A i \in 1..Len(Tail(batch[w])) :
              i + 1 \in 1..Len(batch[w]) /\ Tail(batch[w])[i] = batch[w][i + 1]
    BY <1>5, <2>0
  <2>2. \A i \in 1..Len(Tail(batch[w])) :
            row'[Tail(batch[w])[i][1]] # "none" /\ attempts'[Tail(batch[w])[i][1]] > 0
    BY <1>3, <2>1
  <2>3. Next1(Tail(batch[w])) \in Places /\ (Next1(Tail(batch[w])) # "idle" => Tail(batch[w]) # <<>>)
    BY Starts
  <2> QED BY <1>1, <1>3, <1>5, <2>1, <2>2, <2>3, SMTT(30) DEF TabInv, Handed
<1>6. ASSUME NEW w \in Workers, batch' = [batch EXCEPT ![w] = <<>>],
             place' = [place EXCEPT ![w] = "idle"]
      PROVE  TabInv'
  BY <1>1, <1>3, <1>6 DEF TabInv, Handed, Places
<1> QED BY <1>4, <1>5, <1>6

\* The row of a delivery a worker has in hand.
LEMMA InHand ==
  ASSUME TabInv, NEW w \in Workers, place[w] # "idle"
  PROVE  /\ batch[w] # <<>> /\ Delivery(w) \in Deliveries
         /\ row[Delivery(w)] # "none" /\ attempts[Delivery(w)] > 0
<1>1. batch[w] \in Seq(Deliveries \X Nat) /\ batch[w] # <<>>
  BY DEF TabInv, Handed
<1>2. 1 \in 1..Len(batch[w]) /\ Head(batch[w]) = batch[w][1] /\ batch[w][1] \in Deliveries \X Nat
  BY <1>1
<1> QED BY <1>1, <1>2 DEF TabInv, Handed, Delivery

\* Done and Failed settle a row that is there, or set it free again.
LEMMA Settles ==
  ASSUME TabInv, NEW w \in Workers, Done(w) \/ Failed(w)
  PROVE  /\ row' = [row EXCEPT ![Delivery(w)] = row'[Delivery(w)]]
         /\ row'[Delivery(w)] \in {"settled", "waiting", "gone"}
         /\ row[Delivery(w)] = "gone" <=> row'[Delivery(w)] = "gone"
         /\ row[Delivery(w)] = "settled" => row'[Delivery(w)] = "settled"
         /\ place[w] # "idle" /\ UNCHANGED <<payload, attempts>>
         /\ batch' = [batch EXCEPT ![w] = Tail(@)]
         /\ place' = [place EXCEPT ![w] = Next1(Tail(batch[w]))]
<1>1. /\ place[w] # "idle" /\ UNCHANGED <<payload, attempts>>
      /\ batch' = [batch EXCEPT ![w] = Tail(@)]
      /\ place' = [place EXCEPT ![w] = Next1(Tail(batch[w]))]
  BY DEF Done, Failed, Proceed, Goto
<1>2. Delivery(w) \in Deliveries
  BY <1>1, InHand
<1>3. CASE row[Delivery(w)] = "gone"
  <2>1. row' = row
    BY <1>3 DEF Done, Failed
  <2> QED BY <1>1, <1>2, <1>3, <2>1 DEF TabInv, Stored
<1>4. CASE row[Delivery(w)] # "gone"
  <2>1. PICK r \in {"settled", "waiting"} :
            row' = [row EXCEPT ![Delivery(w)] = r] /\ (row[Delivery(w)] = "settled" => r = "settled")
    BY <1>2, <1>4 DEF Done, Failed, TabInv, Stored
  <2> QED BY <1>1, <1>2, <1>4, <2>1 DEF TabInv, Stored
<1> QED BY <1>3, <1>4

\* What a worker has in hand stays stored and taken.
LEMMA TabStep == TabInv /\ [Next]_vars => TabInv'
<1> SUFFICES ASSUME TabInv, [Next]_vars PROVE TabInv'
  OBVIOUS
<1>1. ASSUME NEW p \in Payloads, Receive(p) PROVE TabInv'
  <2>1. /\ Len(payload) \in Nat /\ Len(payload) < Newest /\ payload' = Append(payload, p)
        /\ row' = [row EXCEPT ![Len(payload) + 1] = "waiting"]
        /\ UNCHANGED <<attempts, batch, place>>
    BY <1>1 DEF Receive, TabInv, Stored, workVars
  <2>2. payload' \in Seq(Payloads) /\ Len(payload') = Len(payload) + 1
    BY <2>1 DEF TabInv, Stored
  <2>3. /\ \A d \in Deliveries : d \in Int
        /\ \A d \in Deliveries : row'[d] = IF d = Len(payload) + 1 THEN "waiting" ELSE row[d]
        /\ row' \in [Deliveries -> {"none", "waiting", "leased", "lapsed", "settled", "gone"}]
    BY <2>1, DeliveriesAssumption DEF TabInv, Stored, Deliveries
  <2>4. \A d \in Deliveries : d > Len(payload') => row'[d] = "none"
    BY <2>1, <2>2, <2>3 DEF TabInv, Stored
  <2>5. Stored'
    BY <2>1, <2>2, <2>3, <2>4 DEF TabInv, Stored
  <2>6. ASSUME NEW v \in Workers, NEW i \in 1..Len(batch[v])
        PROVE  row'[batch[v][i][1]] # "none"
    <3>1. batch[v] \in Seq(Deliveries \X Nat)
      BY DEF TabInv, Handed
    <3>2. batch[v][i] \in Deliveries \X Nat
      BY <3>1
    <3> QED BY <2>3, <3>2 DEF TabInv, Handed
  <2>7. Handed'
    BY <2>1, <2>6 DEF TabInv, Handed
  <2> QED BY <2>5, <2>7 DEF TabInv
<1>2. ASSUME NEW d \in Deliveries, Lapse(d) \/ Purge(d) PROVE TabInv'
  BY <1>2, Passes DEF Lapse, Purge, workVars, TabInv, Stored
<1>3. ASSUME NEW w \in Workers, Claim(w) PROVE TabInv'
  <2>0. PICK S \in SUBSET Claimable, q \in Seq(Deliveries \X Nat) : Takes(w, S, q)
    BY <1>3, Claimed
  <2>1.     /\ batch' = [batch EXCEPT ![w] = q] /\ place' = [place EXCEPT ![w] = Next1(q)]
            /\ \A i \in 1..Len(q) : q[i][1] \in S
            /\ row' = [d \in Deliveries |-> IF d \in S THEN "leased" ELSE row[d]]
            /\ attempts' = [d \in Deliveries |->
                               IF d \in S THEN attempts[d] + 1 ELSE attempts[d]]
            /\ payload' = payload
    BY <2>0 DEF Takes
  <2>2. \A d \in S : d \in Deliveries /\ row[d] # "none"
    BY DEF Claimable
  <2>3. Stored'
    BY <2>1, <2>2 DEF TabInv, Stored
  <2>4. /\ batch' \in [Workers -> Seq(Deliveries \X Nat)] /\ place' \in [Workers -> Places]
        /\ \A v \in Workers : place'[v] # "idle" => batch'[v] # <<>>
    BY <2>1, Starts DEF TabInv, Handed
  <2>5. \A d \in Deliveries : row[d] # "none" /\ attempts[d] > 0
            => row'[d] # "none" /\ attempts'[d] > 0
    BY <2>1 DEF TabInv, Stored
  <2>6. \A d \in S : row'[d] # "none" /\ attempts'[d] > 0
    BY <2>1, <2>2 DEF TabInv, Stored
  <2>7. ASSUME NEW v \in Workers, NEW i \in 1..Len(batch'[v])
        PROVE  row'[batch'[v][i][1]] # "none" /\ attempts'[batch'[v][i][1]] > 0
    <3>1. CASE v = w
      <4>1. batch'[v] = q
        BY <2>1, <3>1 DEF TabInv, Handed
      <4> QED BY <2>1, <2>6, <4>1
    <3>2. CASE v # w
      <4>1. batch'[v] = batch[v] /\ batch[v] \in Seq(Deliveries \X Nat)
        BY <2>1, <3>2 DEF TabInv, Handed
      <4>2. batch[v][i] \in Deliveries \X Nat
        BY <4>1
      <4> QED BY <2>5, <4>1, <4>2 DEF TabInv, Handed
    <3> QED BY <3>1, <3>2
  <2>8. Handed'
    BY <2>4, <2>7 DEF Handed
  <2> QED BY <2>3, <2>8 DEF TabInv
<1>4. ASSUME NEW w \in Workers, Done(w) \/ Failed(w) PROVE TabInv'
  <2>1. Delivery(w) \in Deliveries /\ batch[w] # <<>> /\ row[Delivery(w)] # "none"
    BY <1>4, Settles, InHand
  <2>2. /\ row' \in [Deliveries -> {"none", "waiting", "leased", "lapsed", "settled", "gone"}]
        /\ \A d \in Deliveries : row'[d] = "none" <=> row[d] = "none"
    BY <1>4, <2>1, Settles DEF TabInv, Stored
  <2> QED BY <1>4, <2>1, <2>2, Settles, Passes
<1>5. ASSUME NEW w \in Workers, Drop(w) PROVE TabInv'
  BY <1>5, Passes DEF Drop, rowVars, TabInv, Stored
<1>6. ASSUME NEW w \in Workers, Raise(w) \/ Process(w) PROVE TabInv'
  <2>1. CASE Done(w) \/ Failed(w)
    BY <1>4, <2>1
  <2>2. CASE Raise(w) \/ Enqueue(w) \/ ReadSubs(w) \/ Notified(w)
    BY <2>2, Moves DEF Raise, Enqueue, ReadSubs, Notified, Goto, rowVars, Places
  <2>3. CASE Suspend(w) \/ SyncInstallation(w) \/ SyncRepos(w)
    BY <2>3, Moves DEF Suspend, SyncInstallation, SyncRepos, Goto, rowVars, Places
  <2>4. ASSUME NEW s \in Subs, Notify(w, s) PROVE TabInv'
    BY <2>4, Moves DEF Notify, rowVars
  <2> QED BY <1>6, <2>1, <2>2, <2>3, <2>4 DEF Process
<1>7. ASSUME NEW s \in Subs, Subscribe(s) \/ Unsubscribe(s) PROVE TabInv'
  BY <1>7, Moves DEF Subscribe, Unsubscribe, rowVars, workVars
<1>8. CASE UNCHANGED vars
  BY <1>8, Moves DEF vars, rowVars, workVars
<1> QED BY <1>1, <1>2, <1>3, <1>4, <1>5, <1>6, <1>7, <1>8 DEF Next

-----------------------------------------------------------------------------
(* The refinement.                                                         *)

\* A step that keeps the state and the tries of every row.
LEMMA RowsStay ==
  ASSUME UNCHANGED attempts, \A d \in Deliveries : StateOf(d)' = StateOf(d)
  PROVE  UNCHANGED Table!vars
BY DEF Table!vars

\* A step of the deliveries is a step of the table of leased jobs, or a stutter.
LEMMA TableStep == TabInv /\ [Next]_vars => [Table!Next]_(Table!vars)
<1> SUFFICES ASSUME TabInv, [Next]_vars PROVE [Table!Next]_(Table!vars)
  OBVIOUS
<1>1. ASSUME UNCHANGED <<row, attempts>> PROVE [Table!Next]_(Table!vars)
  BY <1>1, RowsStay DEF StateOf
\* A step that changes the row of one delivery at most.
<1>2. ASSUME NEW d \in Deliveries, attempts' = attempts,
             \A e \in Deliveries \ {d} : row'[e] = row[e],
             \/ StateOf(d) = "absent" /\ StateOf(d)' = "open"
             \/ StateOf(d) = "open" /\ attempts[d] > 0 /\ StateOf(d)' = "settled"
             \/ StateOf(d) \in {"open", "settled"} /\ StateOf(d)' = "gone"
             \/ StateOf(d)' = StateOf(d)
      PROVE  [Table!Next]_(Table!vars)
  <2>1. \A e \in Deliveries \ {d} : StateOf(e)' = StateOf(e)
    BY <1>2 DEF StateOf
  <2> QED BY <1>2, <2>1 DEF Table!Next, Table!Arrive, Table!Settle, Table!Purge, Table!Becomes
<1>3. ASSUME NEW p \in Payloads, Receive(p) PROVE [Table!Next]_(Table!vars)
  <2>1. PICK d \in Deliveries : d = Len(payload) + 1
    BY <1>3, DeliveriesAssumption DEF Receive, TabInv, Stored, Deliveries
  <2>2. row' = [row EXCEPT ![d] = "waiting"] /\ attempts' = attempts /\ Len(payload) \in Nat
    BY <1>3, <2>1 DEF Receive, TabInv, Stored
  <2>3. row[d] = "none"
    BY <2>1, <2>2 DEF TabInv, Stored
  <2>4. row'[d] = "waiting" /\ \A e \in Deliveries \ {d} : row'[e] = row[e]
    BY <2>2 DEF TabInv, Stored
  <2>5. StateOf(d) = "absent" /\ StateOf(d)' = "open"
    BY <2>3, <2>4 DEF StateOf
  <2> QED BY <1>2, <2>2, <2>4, <2>5
<1>4. ASSUME NEW d \in Deliveries, Lapse(d) \/ Purge(d) PROVE [Table!Next]_(Table!vars)
  <2>1. /\ attempts' = attempts /\ \A e \in Deliveries \ {d} : row'[e] = row[e]
        /\ \/ row[d] = "leased" /\ row'[d] = "lapsed"
           \/ row[d] \in {"waiting", "leased", "lapsed", "settled"} /\ row'[d] = "gone"
    BY <1>4 DEF Lapse, Purge, TabInv, Stored
  <2>2. \/ StateOf(d)' = StateOf(d)
        \/ StateOf(d) \in {"open", "settled"} /\ StateOf(d)' = "gone"
    BY <2>1 DEF StateOf
  <2> QED BY <1>2, <2>1, <2>2
<1>5. ASSUME NEW w \in Workers, Claim(w) PROVE [Table!Next]_(Table!vars)
  <2>1. PICK S \in SUBSET Claimable :
            /\ row' = [d \in Deliveries |-> IF d \in S THEN "leased" ELSE row[d]]
            /\ attempts' = [d \in Deliveries |->
                               IF d \in S THEN attempts[d] + 1 ELSE attempts[d]]
    BY <1>5, Claimed DEF Takes
  <2>2. \A d \in Deliveries : d \in S =>
            StateOf(d) = "open" /\ StateOf(d)' = "open" /\ attempts'[d] = attempts[d] + 1
    BY <2>1 DEF Claimable, StateOf
  <2>3. \A d \in Deliveries : d \notin S =>
            StateOf(d)' = StateOf(d) /\ attempts'[d] = attempts[d]
    BY <2>1 DEF StateOf
  <2> QED BY <2>2, <2>3 DEF Table!Next, Table!Take, Table!Becomes
<1>6. ASSUME NEW w \in Workers, Done(w) \/ Failed(w) PROVE [Table!Next]_(Table!vars)
  <2>1. PICK d \in Deliveries : d = Delivery(w)
    BY <1>6, Settles, InHand
  <2>2. row[d] # "none" /\ attempts[d] > 0 /\ attempts' = attempts
    BY <1>6, <2>1, Settles, InHand
  <2>3. /\ row' = [row EXCEPT ![d] = row'[d]]
        /\ row'[d] \in {"settled", "waiting", "gone"} /\ (row[d] = "gone" <=> row'[d] = "gone")
        /\ row[d] = "settled" => row'[d] = "settled"
    BY <1>6, <2>1, Settles
  <2>4. \A e \in Deliveries \ {d} : row'[e] = row[e]
    BY <2>3 DEF TabInv, Stored
  <2>5. \/ StateOf(d)' = StateOf(d)
        \/ StateOf(d) = "open" /\ StateOf(d)' = "settled"
    BY <2>2, <2>3 DEF StateOf
  <2> QED BY <1>2, <2>2, <2>4, <2>5
<1>7. ASSUME NEW w \in Workers, Drop(w) \/ Raise(w) PROVE [Table!Next]_(Table!vars)
  BY <1>1, <1>7 DEF Drop, Raise, rowVars
<1>8. ASSUME NEW w \in Workers, Process(w) PROVE [Table!Next]_(Table!vars)
  BY <1>1, <1>6, <1>8 DEF Process, Enqueue, ReadSubs, Notify, Notified, Suspend, SyncInstallation,
     SyncRepos, rowVars
<1>9. ASSUME NEW s \in Subs, Subscribe(s) \/ Unsubscribe(s) PROVE [Table!Next]_(Table!vars)
  BY <1>1, <1>9 DEF Subscribe, Unsubscribe, rowVars
<1>10. CASE UNCHANGED vars
  BY <1>1, <1>10 DEF vars, rowVars
<1> QED BY <1>3, <1>4, <1>5, <1>6, <1>7, <1>8, <1>9, <1>10 DEF Next

\* What the table promises is kept by claims of many rows, leases that lapse under
\* a worker, two workers at one row, purges and crashes: a row is settled only by
\* somebody who took it, and is not opened again.
THEOREM TableCorrect == Spec => Table!Safety
<1>1. Init => Table!Init
  BY DEF Init, Table!Init, StateOf
<1>2. TabInv /\ [Next]_vars => TabInv'
  BY TabStep
<1> QED BY <1>1, <1>2, TabInit, TableStep, PTL DEF Spec, Table!Safety

-----------------------------------------------------------------------------
(* What is owed: every delivery has one run and one message to give away,   *)
(* and one more for every fault.                                            *)

\* The rest of the tables, and who holds nothing.
Columns ==
    /\ Len(payload) <= Newest /\ error \in [Deliveries -> BOOLEAN]
    /\ todo \in [Workers -> SUBSET Subs] /\ suspended \in BOOLEAN /\ known \in BOOLEAN
    /\ subs \subseteq Subs /\ (subs # {} => known)
    /\ runs \in [Deliveries -> Nat] /\ told \in [Deliveries -> [Subs -> Nat]]
    /\ crossed \subseteq Deliveries /\ faults \in 0..MaxFaults
    /\ \A w \in Workers : Len(batch[w]) <= Batch /\ (place[w] = "idle" => batch[w] = <<>>)

\* A batch has its deliveries in order.
InLine ==
    \A w \in Workers : \A i, j \in 1..Len(batch[w]) : i < j => batch[w][i][1] < batch[w][j][1]

\* A worker has it still before it.
Behind(w, d) == \E i \in 2..Len(batch[w]) : batch[w][i][1] = d

\* ... or is at it, and has not started the run; has not written to the chat.
OwesRun(w, d) == Behind(w, d) \/ (place[w] \in {"ci", "failed"} /\ Delivery(w) = d)
OwesWord(w, d, s) ==
    \/ Behind(w, d)
    \/ /\ place[w] \in {"ci", "notify", "failed"} \/ (place[w] = "send" /\ s \in todo[w])
       /\ Delivery(w) = d

\* Somebody may take it, or will be able to without a fault.
Spare(d) == row[d] \in {"none", "waiting", "lapsed"} \/ (row[d] = "leased" /\ Unheld(d))
One(b) == IF b THEN 1 ELSE 0

Runs(d) == runs[d] + Cardinality({w \in Workers : OwesRun(w, d)}) + One(Spare(d)) <= 1 + faults
Words(d, s) == told[d][s] + Cardinality({w \in Workers : OwesWord(w, d, s)}) + One(Spare(d)) <= 1 + faults

Owed == \A d \in Deliveries : Runs(d) /\ \A s \in Subs : Words(d, s)

\* Turns: who was never taken has nothing taken after it; two workers have it
\* only at the second try; and while somebody has it at the first try, what came
\* after it is in the same hands, or was never taken.
Tried ==
    \A d \in Deliveries :
        /\ row[d] = "none" => attempts[d] = 0
        /\ row[d] \in {"leased", "lapsed", "settled"} => attempts[d] > 0
        /\ row[d] = "waiting" /\ attempts[d] = 0 =>
              \A e \in Deliveries : e > d => attempts[e] = 0
TwoHands ==
    \A w, v \in Workers, d \in Deliveries :
        w # v /\ Holds(w, d) /\ Holds(v, d) => attempts[d] > 1
FirstTry ==
    \A w \in Workers, d, e \in Deliveries :
        Holds(w, d) /\ attempts[d] = 1 /\ d \notin crossed /\ e > d =>
            attempts[e] = 0 \/ (attempts[e] = 1 /\ Holds(w, e) /\ row[e] # "settled")

DlvIInv == TabInv /\ Columns /\ InLine /\ Owed /\ Tried /\ TwoHands /\ FirstTry

-----------------------------------------------------------------------------
\* What a worker has: what it is at, and what is behind it, each once.
LEMMA HeadOf ==
  ASSUME TabInv, InLine, NEW w \in Workers, batch[w] # <<>>
  PROVE  /\ Delivery(w) \in Deliveries /\ ~Behind(w, Delivery(w)) /\ Holds(w, Delivery(w))
         /\ \A d \in Deliveries : Holds(w, d) <=> Behind(w, d) \/ d = Delivery(w)
         /\ \A d \in Deliveries : Behind(w, d) => Delivery(w) < d
<1>1. PICK b \in Seq(Deliveries \X Nat) : b = batch[w] /\ b # <<>>
  BY DEF TabInv, Handed
<1>2. PICK n \in Nat : n = Len(b) /\ n >= 1
  BY <1>1
<1>3. Delivery(w) = b[1][1] /\ 1 \in 1..n /\ \A i \in 1..n : b[i] \in Deliveries \X Nat
  BY <1>1, <1>2 DEF Delivery
<1>4. \A i \in 1..n : b[i][1] \in Deliveries /\ b[i][1] \in Int
  BY <1>3, DeliveriesAssumption DEF Deliveries
<1>5. \A i \in 1..n : i = 1 \/ (i \in 2..n /\ 1 < i)
  BY <1>2
<1>6. \A i \in 2..n : i \in 1..n /\ 1 < i
  BY <1>2
<1>7. \A i \in 2..n : b[1][1] < b[i][1]
  BY <1>1, <1>2, <1>3, <1>6 DEF InLine
<1>8. \A d : Holds(w, d) <=> \E i \in 1..n : b[i][1] = d
  BY <1>1, <1>2 DEF Holds
<1>9. \A d : Behind(w, d) <=> \E i \in 2..n : b[i][1] = d
  BY <1>1, <1>2 DEF Behind
<1>10. \A d \in Deliveries : Holds(w, d) <=> Behind(w, d) \/ d = Delivery(w)
  BY <1>3, <1>5, <1>6, <1>8, <1>9
<1>11. ~Behind(w, Delivery(w))
  BY <1>3, <1>4, <1>6, <1>7, <1>9
<1> QED BY <1>3, <1>4, <1>7, <1>8, <1>9, <1>10, <1>11

\* What it has when it goes on to the next one.
LEMMA TailOf ==
  ASSUME TabInv, InLine, NEW w \in Workers, batch[w] # <<>>, batch' = [batch EXCEPT ![w] = Tail(@)]
  PROVE  /\ \A d \in Deliveries : (Holds(w, d)' <=> Behind(w, d)) /\ (Behind(w, d)' => Behind(w, d))
         /\ Tail(batch[w]) # <<>> => Behind(w, Delivery(w)')
         /\ \A i, j \in 1..Len(batch'[w]) : i < j => batch'[w][i][1] < batch'[w][j][1]
         /\ Tail(batch[w]) \in Seq(Deliveries \X Nat) /\ Len(Tail(batch[w])) <= Len(batch[w])
<1>1. PICK b \in Seq(Deliveries \X Nat) : b = batch[w] /\ b # <<>>
  BY DEF TabInv, Handed
<1>2. PICK n \in Nat : n = Len(b) /\ n >= 1
  BY <1>1
<1>3. PICK t \in Seq(Deliveries \X Nat) : t = Tail(b)
  BY <1>1, HeadTailProperties
<1>4. Len(t) = n - 1 /\ \A i \in 1..(n - 1) : t[i] = b[i + 1]
  BY <1>1, <1>2, <1>3, HeadTailProperties
<1>5. batch'[w] = t
  BY <1>1, <1>3 DEF TabInv, Handed
<1>6. \A d : Behind(w, d) <=> \E i \in 2..n : b[i][1] = d
  BY <1>1, <1>2 DEF Behind
<1>7. \A d : Holds(w, d)' <=> \E i \in 1..(n - 1) : t[i][1] = d
  BY <1>4, <1>5 DEF Holds
<1>8. \A d : Behind(w, d)' <=> \E i \in 2..(n - 1) : t[i][1] = d
  BY <1>4, <1>5 DEF Behind
<1>9. /\ \A i \in 1..(n - 1) : i + 1 \in 2..n /\ i + 1 \in 1..n
      /\ \A i \in 2..n : i - 1 \in 1..(n - 1) /\ (i - 1) + 1 = i
      /\ \A i \in 2..(n - 1) : i \in 1..(n - 1)
  BY <1>2
<1>10. \A d \in Deliveries : (Holds(w, d)' <=> Behind(w, d)) /\ (Behind(w, d)' => Behind(w, d))
  <2>1. ASSUME NEW d \in Deliveries, Holds(w, d)' PROVE Behind(w, d)
    <3>1. PICK i \in 1..(n - 1) : t[i][1] = d
      BY <1>7, <2>1
    <3> QED BY <1>4, <1>6, <1>9, <3>1
  <2>2. ASSUME NEW d \in Deliveries, Behind(w, d) PROVE Holds(w, d)'
    <3>1. PICK i \in 2..n : b[i][1] = d
      BY <1>6, <2>2
    <3>2. i - 1 \in 1..(n - 1) /\ t[i - 1] = b[i]
      BY <1>4, <1>9
    <3> QED BY <1>7, <3>1, <3>2
  <2>3. ASSUME NEW d \in Deliveries, Behind(w, d)' PROVE Holds(w, d)'
    BY <1>7, <1>8, <1>9, <2>3
  <2> QED BY <2>1, <2>2, <2>3
<1>11. Tail(batch[w]) # <<>> => Behind(w, Delivery(w)')
  <2> SUFFICES ASSUME t # <<>> PROVE Behind(w, Delivery(w)')
    BY <1>1, <1>3
  <2>1. Len(t) \in Nat /\ Len(t) # 0
    BY <1>3, EmptySeq
  <2>a. 1 \in 1..(n - 1)
    BY <1>2, <1>4, <2>1
  <2>b. Head(t) = t[1]
    BY <1>3
  <2>2. 1 \in 1..(n - 1) /\ Delivery(w)' = t[1][1]
    BY <1>5, <2>a, <2>b DEF Delivery
  <2>3. t[1] = b[2] /\ 2 \in 2..n
    BY <1>2, <1>4, <1>9, <2>2
  <2> QED BY <1>6, <2>2, <2>3
<1>12. \A i, j \in 1..(n - 1) : i < j => t[i][1] < t[j][1]
  <2> SUFFICES ASSUME NEW i \in 1..(n - 1), NEW j \in 1..(n - 1), i < j PROVE t[i][1] < t[j][1]
    OBVIOUS
  <2>1. i + 1 \in 1..n /\ j + 1 \in 1..n /\ i + 1 < j + 1
    BY <1>2, <1>9
  <2>2. b[i + 1][1] < b[j + 1][1]
    BY <1>1, <1>2, <2>1 DEF InLine
  <2> QED BY <1>4, <2>2
<1>13. Len(batch'[w]) = n - 1 /\ \A i, j \in 1..Len(batch'[w]) : i < j => batch'[w][i][1] < batch'[w][j][1]
  BY <1>4, <1>5, <1>12
<1>14. Tail(batch[w]) = t /\ Len(batch[w]) = n
  BY <1>1, <1>2, <1>3
<1>15. Len(Tail(batch[w])) <= Len(batch[w])
  BY <1>2, <1>4, <1>14
<1>16. Tail(batch[w]) \in Seq(Deliveries \X Nat)
  BY <1>14
<1> QED BY <1>10, <1>11, <1>13, <1>15, <1>16

\* What a step of a worker leaves of the batches: all, the rest of its own, or none of it.
LEMMA InLineStep == TabInv /\ InLine /\ [Next]_vars => InLine'
<1> SUFFICES ASSUME TabInv, InLine, [Next]_vars PROVE InLine'
  OBVIOUS
<1>0. batch \in [Workers -> Seq(Deliveries \X Nat)]
  BY DEF TabInv, Handed
<1>1. ASSUME NEW w \in Workers, Claim(w) PROVE InLine'
  <2>1. PICK S \in SUBSET Claimable, q \in Seq(Deliveries \X Nat) : Takes(w, S, q)
    BY <1>1, Claimed
  <2>2. batch' = [batch EXCEPT ![w] = q] /\ \A i, j \in 1..Len(q) : i < j => q[i][1] < q[j][1]
    BY <2>1 DEF Takes
  <2> QED BY <1>0, <2>2 DEF InLine
<1>2. ASSUME NEW w \in Workers, Done(w) \/ Failed(w) PROVE InLine'
  <2>1. place[w] # "idle" /\ batch' = [batch EXCEPT ![w] = Tail(@)]
    BY <1>2, Settles
  <2>2. batch[w] # <<>>
    BY <2>1, InHand
  <2>3. \A i, j \in 1..Len(batch'[w]) : i < j => batch'[w][i][1] < batch'[w][j][1]
    BY <2>1, <2>2, TailOf
  <2>4. \A v \in Workers : v # w => batch'[v] = batch[v]
    BY <1>0, <2>1
  <2> QED BY <2>3, <2>4 DEF InLine
<1>3. ASSUME NEW w \in Workers, Drop(w) PROVE InLine'
  BY <1>0, <1>3 DEF Drop, InLine
<1>4. batch' = batch => InLine'
  BY DEF InLine
<1>5. ASSUME NEW w \in Workers, Process(w) \/ Raise(w), ~Done(w), ~Failed(w) PROVE batch' = batch
  BY <1>5 DEF Process, Raise, Enqueue, ReadSubs, Notified, Notify, Suspend, SyncInstallation,
     SyncRepos
<1>6. ASSUME NEW d \in Deliveries, Lapse(d) \/ Purge(d) PROVE batch' = batch
  BY <1>6 DEF Lapse, Purge, workVars
<1>7. (\E p \in Payloads : Receive(p)) \/ (\E s \in Subs : Subscribe(s) \/ Unsubscribe(s)) \/ UNCHANGED vars => batch' = batch
  BY DEF Receive, Subscribe, Unsubscribe, vars, workVars
<1> QED BY <1>1, <1>2, <1>3, <1>4, <1>5, <1>6, <1>7 DEF Next

\* The columns of the rows keep their ranges, and a batch its order.
LEMMA ColumnsStep == TabInv /\ InLine /\ Columns /\ [Next]_vars => Columns'
<1> SUFFICES ASSUME TabInv, InLine, Columns, [Next]_vars PROVE Columns'
  OBVIOUS
<1>0. /\ batch \in [Workers -> Seq(Deliveries \X Nat)] /\ place \in [Workers -> Places]
      /\ Newest \in Nat /\ MaxFaults \in Nat /\ Batch \in Nat /\ faults \in Nat /\ faults <= MaxFaults
  BY DeliveriesAssumption DEF TabInv, Handed, Columns
\* The rest of the columns in parts: where the workers are, and what they did.
<1> DEFINE Hands == \A w \in Workers : Len(batch[w]) <= Batch /\ (place[w] = "idle" => batch[w] = <<>>)
           Marks == crossed \subseteq Deliveries /\ faults \in 0..MaxFaults /\ error \in [Deliveries -> BOOLEAN]
           Deeds == /\ suspended \in BOOLEAN /\ known \in BOOLEAN
                    /\ subs \subseteq Subs /\ (subs # {} => known)
                    /\ runs \in [Deliveries -> Nat] /\ told \in [Deliveries -> [Subs -> Nat]]
<1>a. Hands /\ Marks /\ Deeds /\ Len(payload) <= Newest /\ todo \in [Workers -> SUBSET Subs]
  BY DEF Columns
<1>b. Len(payload') <= Newest /\ todo' \in [Workers -> SUBSET Subs] /\ Marks' /\ Deeds' /\ Hands' => Columns'
  BY DEF Columns
<1>c. UNCHANGED <<batch, place>> => Hands'
  BY <1>a
<1>d. UNCHANGED <<suspended, known, subs, runs, told>> => Deeds'
  BY <1>a
<1>e. crossed' = crossed /\ error' = error /\ (faults' = faults \/ Fault) => Marks'
  BY <1>0, <1>a DEF Fault
<1>f. ASSUME NEW w \in Workers, place[w] # "idle", batch' = batch,
             NEW to \in Places, to # "idle", place' = [place EXCEPT ![w] = to]
      PROVE  Hands'
  BY <1>0, <1>a, <1>f
<1>1. ASSUME NEW p \in Payloads, Receive(p) PROVE Columns'
  <2>1. Len(payload') <= Newest
    <3>1. payload' = Append(payload, p) /\ Len(payload) < Newest /\ payload \in Seq(Payloads)
      BY <1>1 DEF Receive, TabInv, Stored
    <3>2. Len(payload') = Len(payload) + 1 /\ Len(payload) \in Nat
      BY <3>1
    <3> QED BY <1>0, <3>1, <3>2
  <2>2. UNCHANGED <<todo, crossed, error, faults, batch, place, suspended, known, subs, runs, told>>
    BY <1>1 DEF Receive, workVars, effects
  <2> QED BY <1>a, <1>b, <1>c, <1>d, <1>e, <2>1, <2>2
<1>2. ASSUME NEW d \in Deliveries, Lapse(d) \/ Purge(d) PROVE Columns'
  <2>1. UNCHANGED <<payload, todo, crossed, error, batch, place, suspended, known, subs, runs, told>>
    BY <1>2 DEF Lapse, Purge, workVars, effects
  <2>2. faults' = faults \/ Fault
    BY <1>2 DEF Lapse, Purge
  <2> QED BY <1>a, <1>b, <1>c, <1>d, <1>e, <2>1, <2>2
<1>3. ASSUME NEW w \in Workers, Claim(w) PROVE Columns'
  <2>1. PICK S \in SUBSET Claimable, q \in Seq(Deliveries \X Nat) : Takes(w, S, q)
    BY <1>3, Claimed
  <2>2. /\ batch' = [batch EXCEPT ![w] = q] /\ place' = [place EXCEPT ![w] = Next1(q)] /\ Len(q) <= Batch
        /\ UNCHANGED <<payload, error, todo, faults, suspended, known, subs, runs, told>>
        /\ crossed' \subseteq Deliveries
    BY <1>a, <2>1 DEF Takes, effects
  <2>3. Next1(q) = "idle" => q = <<>>
    BY DEF Next1, Start
  <2>4. Hands'
    BY <1>0, <1>a, <2>2, <2>3
  <2>5. Marks'
    BY <1>a, <2>2
  <2> QED BY <1>a, <1>b, <1>d, <2>2, <2>4, <2>5
<1>4. ASSUME NEW w \in Workers, Done(w) \/ Failed(w) PROVE Columns'
  <2>1. /\ place[w] # "idle" /\ batch' = [batch EXCEPT ![w] = Tail(@)]
        /\ place' = [place EXCEPT ![w] = Next1(Tail(batch[w]))] /\ payload' = payload
        /\ batch[w] # <<>> /\ Delivery(w) \in Deliveries
    BY <1>4, Settles, InHand
  <2>2. UNCHANGED <<crossed, todo, suspended, known, subs, runs, told, faults>>
    BY <1>4 DEF Done, Failed, Proceed, effects
  <2>3. error' \in [Deliveries -> BOOLEAN]
    <3>1. error' = error \/ error' = [error EXCEPT ![Delivery(w)] = FALSE] \/ error' = [error EXCEPT ![Delivery(w)] = TRUE]
      BY <1>4 DEF Done, Failed
    <3> QED BY <1>a, <3>1, Zenon
  <2>4. Len(Tail(batch[w])) <= Len(batch[w]) /\ Tail(batch[w]) \in Seq(Deliveries \X Nat)
    BY <2>1, TailOf
  <2>5. Next1(Tail(batch[w])) = "idle" => Tail(batch[w]) = <<>>
    BY DEF Next1, Start
  <2>6. batch'[w] = Tail(batch[w]) /\ place'[w] = Next1(Tail(batch[w]))
    BY <1>0, <2>1
  <2>7. Len(batch'[w]) <= Batch /\ (place'[w] = "idle" => batch'[w] = <<>>)
    <3>0. Len(batch[w]) \in Nat /\ Len(Tail(batch[w])) \in Nat
      BY <1>0, <2>4, LenProperties
    <3>1. PICK m \in Nat, n \in Nat : m = Len(batch[w]) /\ n = Len(Tail(batch[w]))
      BY <3>0
    <3>2. m <= Batch /\ n <= m
      BY <1>a, <2>4, <3>1
    <3>3. Len(batch'[w]) <= Batch
      BY <1>0, <2>6, <3>1, <3>2
    <3> QED BY <2>5, <2>6, <3>3
  <2>8. \A v \in Workers : v # w => batch'[v] = batch[v] /\ place'[v] = place[v]
    BY <1>0, <2>1
  <2>9. Hands'
    BY <1>a, <2>7, <2>8
  <2>10. Marks'
    BY <1>a, <2>2, <2>3
  <2> QED BY <1>a, <1>b, <1>d, <2>1, <2>2, <2>9, <2>10
<1>5. ASSUME NEW w \in Workers, Drop(w) PROVE Columns'
  <2>1. /\ Fault /\ batch' = [batch EXCEPT ![w] = <<>>] /\ place' = [place EXCEPT ![w] = "idle"]
        /\ todo' = [todo EXCEPT ![w] = {}]
        /\ UNCHANGED <<payload, error, crossed, suspended, known, subs, runs, told>>
    BY <1>5 DEF Drop, rowVars, effects
  <2>2. Hands'
    BY <1>0, <1>a, <2>1
  <2>3. todo' \in [Workers -> SUBSET Subs]
    BY <1>a, <2>1
  <2> QED BY <1>a, <1>b, <1>d, <1>e, <2>1, <2>2, <2>3
<1>6. ASSUME NEW w \in Workers, Raise(w) PROVE Columns'
  <2>1. /\ Fault /\ place[w] # "idle" /\ batch' = batch /\ place' = [place EXCEPT ![w] = "failed"]
        /\ UNCHANGED <<payload, error, crossed, todo, suspended, known, subs, runs, told>>
    BY <1>6 DEF Raise, Goto, rowVars, effects
  <2>2. Hands'
    BY <1>f, <2>1 DEF Places
  <2> QED BY <1>a, <1>b, <1>d, <1>e, <2>1, <2>2
<1>7. ASSUME NEW w \in Workers, Enqueue(w) PROVE Columns'
  <2>1. /\ place[w] # "idle" /\ batch' = batch /\ place' = [place EXCEPT ![w] = "notify"]
        /\ runs' \in {runs, [runs EXCEPT ![Delivery(w)] = @ + 1]}
        /\ UNCHANGED <<payload, error, crossed, faults, todo, suspended, known, subs, told>>
    BY <1>7 DEF Enqueue, Goto, rowVars
  <2>2. Hands'
    BY <1>f, <2>1 DEF Places
  <2>a. Delivery(w) \in Deliveries
    BY <2>1, InHand
  <2>b. runs' \in [Deliveries -> Nat]
    BY <1>a, <2>1, <2>a
  <2>3. Deeds'
    BY <1>a, <2>1, <2>b
  <2> QED BY <1>a, <1>b, <1>e, <2>1, <2>2, <2>3
<1>8. ASSUME NEW w \in Workers, ReadSubs(w) \/ Notified(w) PROVE Columns'
  <2>1. /\ place[w] # "idle" /\ batch' = batch
        /\ \E to \in {"send", "done"} : place' = [place EXCEPT ![w] = to]
        /\ todo' = todo \/ todo' = [todo EXCEPT ![w] = {s \in subs : Wants(s, Told(w))}]
        /\ UNCHANGED <<payload, error, crossed, faults, suspended, known, subs, runs, told>>
    BY <1>8 DEF ReadSubs, Notified, Goto, rowVars, effects
  <2>2. Hands'
    BY <1>f, <2>1 DEF Places
  <2>3. todo' \in [Workers -> SUBSET Subs]
    BY <1>a, <2>1
  <2> QED BY <1>a, <1>b, <1>d, <1>e, <2>1, <2>2, <2>3
<1>9. ASSUME NEW w \in Workers, NEW s \in Subs, Notify(w, s) PROVE Columns'
  <2>1. /\ place[w] # "idle" /\ batch' = batch /\ place' = place
        /\ todo' = [todo EXCEPT ![w] = @ \ {s}]
        /\ told' = told \/ told' = [told EXCEPT ![Delivery(w)][s] = @ + 1]
        /\ UNCHANGED <<payload, error, crossed, faults, suspended, known, subs, runs>>
    BY <1>9 DEF Notify, rowVars
  <2>2. todo' \in [Workers -> SUBSET Subs]
    BY <1>a, <2>1
  <2>3. Delivery(w) \in Deliveries
    BY <2>1, InHand
  <2>4. told' \in [Deliveries -> [Subs -> Nat]]
    <3>1. CASE told' = [told EXCEPT ![Delivery(w)][s] = @ + 1]
      <4>1. told[Delivery(w)] \in [Subs -> Nat]
        BY <1>a, <2>3
      <4>2. [told[Delivery(w)] EXCEPT ![s] = @ + 1] \in [Subs -> Nat]
        BY <4>1
      <4> QED BY <1>a, <2>3, <3>1, <4>2
    <3> QED BY <1>a, <2>1, <3>1
  <2>5. Deeds'
    BY <1>a, <2>1, <2>4
  <2> QED BY <1>a, <1>b, <1>c, <1>e, <2>1, <2>2, <2>5
<1>10. ASSUME NEW w \in Workers, Suspend(w) \/ SyncInstallation(w) PROVE Columns'
  <2>1. /\ place[w] # "idle" /\ batch' = batch
        /\ \E to \in {"done", "repos"} : place' = [place EXCEPT ![w] = to]
        /\ suspended' = TRUE \/ suspended' = FALSE
        /\ UNCHANGED <<payload, error, crossed, faults, todo, known, subs, runs, told>>
    BY <1>10 DEF Suspend, SyncInstallation, Goto, rowVars
  <2>2. Hands'
    BY <1>f, <2>1 DEF Places
  <2>3. suspended' \in BOOLEAN
    BY <2>1, Zenon
  <2>4. Deeds'
    BY <1>a, <2>1, <2>3
  <2> QED BY <1>a, <1>b, <1>e, <2>1, <2>2, <2>4
<1>11. ASSUME NEW w \in Workers, SyncRepos(w) PROVE Columns'
  <2>1. /\ place[w] # "idle" /\ batch' = batch /\ place' = [place EXCEPT ![w] = "done"]
        /\ (known' = FALSE /\ subs' = {}) \/ (known' = TRUE /\ subs' = subs)
        /\ UNCHANGED <<payload, error, crossed, faults, todo, suspended, runs, told>>
    BY <1>11 DEF SyncRepos, Goto, rowVars
  <2>2. Hands'
    BY <1>f, <2>1 DEF Places
  <2>3. known' \in BOOLEAN
    BY <2>1, Zenon
  <2>4. Deeds'
    BY <1>a, <2>1, <2>3
  <2> QED BY <1>a, <1>b, <1>e, <2>1, <2>2, <2>4
<1>12. ASSUME NEW s \in Subs, Subscribe(s) \/ Unsubscribe(s) PROVE Columns'
  <2>1. /\ UNCHANGED <<payload, error, crossed, todo, batch, place, faults, suspended, known, runs, told>>
        /\ subs' \subseteq Subs /\ (subs' # {} => known)
    BY <1>a, <1>12 DEF Subscribe, Unsubscribe, rowVars, workVars
  <2>2. Deeds'
    BY <1>a, <2>1
  <2> QED BY <1>a, <1>b, <1>c, <1>e, <2>1, <2>2
<1>13. CASE UNCHANGED vars
  <2>1. UNCHANGED <<payload, error, crossed, todo, batch, place, faults, suspended, known, subs, runs, told>>
    BY <1>13 DEF vars, rowVars, workVars, effects
  <2> QED BY <1>a, <1>b, <1>c, <1>d, <1>e, <2>1
<1> HIDE DEF Hands, Marks, Deeds
<1> QED BY <1>1, <1>2, <1>3, <1>4, <1>5, <1>6, <1>7, <1>8, <1>9, <1>10, <1>11, <1>12, <1>13
   DEF Next, Process

-----------------------------------------------------------------------------
\* A step is paid for: it owes no more than before, or a fault pays for one more
\* that is owed or free, or what was free is now in a worker's hands, or what a
\* worker owed is free again, or is done.
Paid(n, m, o, p, s, t) ==
    \/ m = n /\ faults' = faults /\ (p => o) /\ (t => s)
    \/ m = n /\ faults' = faults + 1 /\ ((p => o) \/ (t => s))
    \/ m = n /\ faults' = faults /\ s /\ ~t
    \/ m = n /\ faults' = faults /\ o /\ ~p
    \/ m = n + 1 /\ faults' = faults /\ o /\ ~p /\ (t => s)
PaidRun(w, d) == Paid(runs[d], runs'[d], OwesRun(w, d), OwesRun(w, d)', Spare(d), Spare(d)')
PaidWord(w, d, s) ==
    Paid(told[d][s], told'[d][s], OwesWord(w, d, s), OwesWord(w, d, s)', Spare(d), Spare(d)')

\* The count of those who owe changes by one worker at most.
LEMMA Budget ==
  ASSUME IsFiniteSet(Workers), NEW w \in Workers, NEW P \in SUBSET Workers, NEW Q \in SUBSET Workers,
         \A v \in Workers : v # w => (v \in Q => v \in P)
  PROVE  /\ Cardinality(P) \in Nat /\ Cardinality(Q) \in Nat
         /\ Cardinality(Q) + One(w \in P) <= Cardinality(P) + One(w \in Q)
<1>1. /\ IsFiniteSet(P) /\ IsFiniteSet(Q) /\ IsFiniteSet(P \ {w}) /\ IsFiniteSet(Q \ {w})
  BY FS_Subset
<1>2. PICK p \in Nat, q \in Nat, i \in Nat, j \in Nat :
          p = Cardinality(P) /\ q = Cardinality(Q) /\ i = Cardinality(P \ {w}) /\ j = Cardinality(Q \ {w})
  BY <1>1, FS_CardinalityType
<1>3. j <= i
  <2>1. Q \ {w} \subseteq P \ {w}
    OBVIOUS
  <2> QED BY <1>1, <1>2, <2>1, FS_Subset
<1>4. p = i + One(w \in P)
  <2>1. CASE w \in P
    BY <1>1, <1>2, <2>1, FS_RemoveElement DEF One
  <2>2. CASE w \notin P
    <3>1. P \ {w} = P
      BY <2>2
    <3> QED BY <1>2, <2>2, <3>1 DEF One
  <2> QED BY <2>1, <2>2
<1>5. q = j + One(w \in Q)
  <2>1. CASE w \in Q
    BY <1>1, <1>2, <2>1, FS_RemoveElement DEF One
  <2>2. CASE w \notin Q
    <3>1. Q \ {w} = Q
      BY <2>2
    <3> QED BY <1>2, <2>2, <3>1 DEF One
  <2> QED BY <2>1, <2>2
<1>6. One(w \in P) \in Nat /\ One(w \in Q) \in Nat
  BY DEF One
<1>7. q + One(w \in P) <= p + One(w \in Q)
  BY <1>2, <1>3, <1>4, <1>5, <1>6
<1> QED BY <1>2, <1>7

\* What one worker does keeps the account, if it is paid for.
LEMMA KeepsAccount ==
  ASSUME Columns, Columns', Owed, NEW w \in Workers,
         \A v \in Workers : v # w => batch'[v] = batch[v] /\ place'[v] = place[v] /\ todo'[v] = todo[v],
         \A d \in Deliveries : PaidRun(w, d) /\ \A s \in Subs : PaidWord(w, d, s)
  PROVE  Owed'
<1>0. IsFiniteSet(Workers)
  BY DeliveriesAssumption
<1>1. PICK f \in Nat, g \in Nat : f = faults /\ g = faults'
  BY DeliveriesAssumption DEF Columns
<1>2. ASSUME NEW d \in Deliveries PROVE Runs(d)'
  <2> DEFINE P == {v \in Workers : OwesRun(v, d)}
             Q == {v \in Workers : OwesRun(v, d)'}
  <2>1. \A v \in Workers : v # w => (v \in Q => v \in P)
    BY DEF OwesRun, Behind, Delivery
  <2>2. /\ Cardinality(P) \in Nat /\ Cardinality(Q) \in Nat
        /\ Cardinality(Q) + One(w \in P) <= Cardinality(P) + One(w \in Q)
    BY <1>0, <2>1, Budget
  <2>3. PICK p \in Nat, q \in Nat, n \in Nat, m \in Nat :
            p = Cardinality(P) /\ q = Cardinality(Q) /\ n = runs[d] /\ m = runs'[d]
    BY <2>2 DEF Columns
  <2>4. n + p + One(Spare(d)) <= 1 + f
    BY <1>1, <2>3 DEF Owed, Runs
  <2>5. One(w \in P) = One(OwesRun(w, d)) /\ One(w \in Q) = One(OwesRun(w, d)')
    BY DEF One
  <2>6. Paid(n, m, OwesRun(w, d), OwesRun(w, d)', Spare(d), Spare(d)')
    BY <2>3 DEF PaidRun
  <2>7. q + One(OwesRun(w, d)) <= p + One(OwesRun(w, d)')
    BY <2>2, <2>3, <2>5
  <2> HIDE DEF P, Q
  <2>8. m + q + One(Spare(d)') <= 1 + g
    <3>1. PICK a \in {0, 1}, b \in {0, 1}, i \in {0, 1}, j \in {0, 1} :
              /\ a = One(Spare(d)) /\ b = One(Spare(d)') /\ (a = 1 <=> Spare(d)) /\ (b = 1 <=> Spare(d)')
              /\ i = One(OwesRun(w, d)) /\ j = One(OwesRun(w, d)') /\ (i = 1 <=> OwesRun(w, d)) /\ (j = 1 <=> OwesRun(w, d)')
      BY DEF One
    <3>2. n + p + a <= 1 + f /\ q + i <= p + j
      BY <2>4, <2>7, <3>1
    <3>3. \/ m = n /\ g = f /\ (j = 1 => i = 1) /\ (b = 1 => a = 1)
          \/ m = n /\ g = f + 1 /\ ((j = 1 => i = 1) \/ (b = 1 => a = 1))
          \/ m = n /\ g = f /\ a = 1 /\ b # 1
          \/ m = n /\ g = f /\ i = 1 /\ j # 1
          \/ m = n + 1 /\ g = f /\ i = 1 /\ j # 1 /\ (b = 1 => a = 1)
      BY <1>1, <2>6, <3>1 DEF Paid
    <3>4. m + q + b <= 1 + g
      BY <3>2, <3>3
    <3> QED BY <3>1, <3>4
  <2>9. Cardinality({v \in Workers : OwesRun(v, d)})' = q
    BY <2>3 DEF Q
  <2> QED BY <1>1, <2>3, <2>8, <2>9 DEF Runs, One
<1>3. ASSUME NEW d \in Deliveries, NEW s \in Subs PROVE Words(d, s)'
  <2> DEFINE P == {v \in Workers : OwesWord(v, d, s)}
             Q == {v \in Workers : OwesWord(v, d, s)'}
  <2>1. \A v \in Workers : v # w => (v \in Q => v \in P)
    BY DEF OwesWord, Behind, Delivery
  <2>2. /\ Cardinality(P) \in Nat /\ Cardinality(Q) \in Nat
        /\ Cardinality(Q) + One(w \in P) <= Cardinality(P) + One(w \in Q)
    BY <1>0, <2>1, Budget
  <2>3. PICK p \in Nat, q \in Nat, n \in Nat, m \in Nat :
            p = Cardinality(P) /\ q = Cardinality(Q) /\ n = told[d][s] /\ m = told'[d][s]
    BY <2>2 DEF Columns
  <2>4. n + p + One(Spare(d)) <= 1 + f
    BY <1>1, <2>3 DEF Owed, Words
  <2>5. One(w \in P) = One(OwesWord(w, d, s)) /\ One(w \in Q) = One(OwesWord(w, d, s)')
    BY DEF One
  <2>6. Paid(n, m, OwesWord(w, d, s), OwesWord(w, d, s)', Spare(d), Spare(d)')
    BY <2>3 DEF PaidWord
  <2>7. q + One(OwesWord(w, d, s)) <= p + One(OwesWord(w, d, s)')
    BY <2>2, <2>3, <2>5
  <2> HIDE DEF P, Q
  <2>8. m + q + One(Spare(d)') <= 1 + g
    <3>1. PICK a \in {0, 1}, b \in {0, 1}, i \in {0, 1}, j \in {0, 1} :
              /\ a = One(Spare(d)) /\ b = One(Spare(d)') /\ (a = 1 <=> Spare(d)) /\ (b = 1 <=> Spare(d)')
              /\ i = One(OwesWord(w, d, s)) /\ j = One(OwesWord(w, d, s)') /\ (i = 1 <=> OwesWord(w, d, s)) /\ (j = 1 <=> OwesWord(w, d, s)')
      BY DEF One
    <3>2. n + p + a <= 1 + f /\ q + i <= p + j
      BY <2>4, <2>7, <3>1
    <3>3. \/ m = n /\ g = f /\ (j = 1 => i = 1) /\ (b = 1 => a = 1)
          \/ m = n /\ g = f + 1 /\ ((j = 1 => i = 1) \/ (b = 1 => a = 1))
          \/ m = n /\ g = f /\ a = 1 /\ b # 1
          \/ m = n /\ g = f /\ i = 1 /\ j # 1
          \/ m = n + 1 /\ g = f /\ i = 1 /\ j # 1 /\ (b = 1 => a = 1)
      BY <1>1, <2>6, <3>1 DEF Paid
    <3>4. m + q + b <= 1 + g
      BY <3>2, <3>3
    <3> QED BY <3>1, <3>4
  <2>9. Cardinality({v \in Workers : OwesWord(v, d, s)})' = q
    BY <2>3 DEF Q
  <2> QED BY <1>1, <2>3, <2>8, <2>9 DEF Words, One
<1> QED BY <1>2, <1>3 DEF Owed

\* The same of a step that is no worker's.
LEMMA StaysPaid ==
  ASSUME Columns, Columns', Owed, UNCHANGED <<batch, place, todo, runs, told>>,
         \A d \in Deliveries : \/ faults' = faults /\ (Spare(d)' => Spare(d))
                               \/ faults' = faults + 1
  PROVE  Owed'
<1>1. PICK f \in Nat, g \in Nat : f = faults /\ g = faults'
  BY DeliveriesAssumption DEF Columns
<1>0. IsFiniteSet(Workers)
  BY DeliveriesAssumption
<1>2. ASSUME NEW d \in Deliveries, NEW n \in Nat, NEW p \in Nat, n + p + One(Spare(d)) <= 1 + f
      PROVE  n + p + One(Spare(d)') <= 1 + g
  <2>1. PICK a \in {0, 1}, b \in {0, 1} :
            /\ a = One(Spare(d)) /\ b = One(Spare(d)')
            /\ (a = 1 <=> Spare(d)) /\ (b = 1 <=> Spare(d)')
    BY DEF One
  <2>2. n + p + a <= 1 + f
    BY <1>2, <2>1
  <2>3. (g = f /\ (b = 1 => a = 1)) \/ g = f + 1
    BY <1>1, <2>1
  <2>4. n + p + b <= 1 + g
    BY <2>2, <2>3
  <2> QED BY <2>1, <2>4
<1>3. ASSUME NEW d \in Deliveries PROVE Runs(d)'
  <2>1. Cardinality({v \in Workers : OwesRun(v, d)})' = Cardinality({v \in Workers : OwesRun(v, d)})
    BY DEF OwesRun, Behind, Delivery
  <2>2. PICK p \in Nat, n \in Nat : p = Cardinality({v \in Workers : OwesRun(v, d)}) /\ n = runs[d]
    <3>1. IsFiniteSet({v \in Workers : OwesRun(v, d)})
      BY <1>0, FS_Subset
    <3>2. Cardinality({v \in Workers : OwesRun(v, d)}) \in Nat
      BY <3>1, FS_CardinalityType
    <3> QED BY <3>2 DEF Columns
  <2>3. n + p + One(Spare(d)) <= 1 + f
    BY <1>1, <2>2 DEF Owed, Runs
  <2>4. n + p + One(Spare(d)') <= 1 + g
    BY <1>2, <2>3
  <2> QED BY <1>1, <2>1, <2>2, <2>4 DEF Runs, One
<1>4. ASSUME NEW d \in Deliveries, NEW s \in Subs PROVE Words(d, s)'
  <2>1. Cardinality({v \in Workers : OwesWord(v, d, s)})' = Cardinality({v \in Workers : OwesWord(v, d, s)})
    BY DEF OwesWord, Behind, Delivery
  <2>2. PICK p \in Nat, n \in Nat : p = Cardinality({v \in Workers : OwesWord(v, d, s)}) /\ n = told[d][s]
    <3>1. IsFiniteSet({v \in Workers : OwesWord(v, d, s)})
      BY <1>0, FS_Subset
    <3>2. Cardinality({v \in Workers : OwesWord(v, d, s)}) \in Nat
      BY <3>1, FS_CardinalityType
    <3> QED BY <3>2 DEF Columns
  <2>3. n + p + One(Spare(d)) <= 1 + f
    BY <1>1, <2>2 DEF Owed, Words
  <2>4. n + p + One(Spare(d)') <= 1 + g
    BY <1>2, <2>3
  <2> QED BY <1>1, <2>1, <2>2, <2>4 DEF Words, One
<1> QED BY <1>3, <1>4 DEF Owed

\* A worker that goes on to the next row owes what was behind it.
LEMMA GoesOn ==
  ASSUME TabInv, InLine, NEW w \in Workers, place[w] # "idle",
         batch' = [batch EXCEPT ![w] = Tail(@)], place' = [place EXCEPT ![w] = Next1(Tail(batch[w]))]
  PROVE  \A d \in Deliveries :
            /\ OwesRun(w, d)' => Behind(w, d)
            /\ \A s \in Subs : OwesWord(w, d, s)' => Behind(w, d)
            /\ Holds(w, d)' <=> Behind(w, d)
            /\ \A v \in Workers : v # w => (Holds(v, d)' <=> Holds(v, d))
<1>0. batch[w] # <<>> /\ batch \in [Workers -> Seq(Deliveries \X Nat)] /\ place \in [Workers -> Places]
  BY InHand DEF TabInv, Handed
<1>1. \A d \in Deliveries : (Holds(w, d)' <=> Behind(w, d)) /\ (Behind(w, d)' => Behind(w, d))
  BY <1>0, TailOf
<1>2. place'[w] # "idle" => Behind(w, Delivery(w)')
  <2>1. place'[w] = Next1(Tail(batch[w]))
    BY <1>0
  <2>2. place'[w] # "idle" => Tail(batch[w]) # <<>>
    BY <2>1 DEF Next1
  <2> QED BY <1>0, <2>2, TailOf
<1>3. \A d \in Deliveries : (OwesRun(w, d)' => Behind(w, d)) /\ \A s \in Subs : OwesWord(w, d, s)' => Behind(w, d)
  BY <1>1, <1>2 DEF OwesRun, OwesWord
<1>4. \A v \in Workers : v # w => batch'[v] = batch[v]
  BY <1>0
<1> QED BY <1>1, <1>3, <1>4 DEF Holds

\* A run or a word is owed only by a worker that has the row in hand.
LEMMA OwedStep == TabInv /\ InLine /\ Columns /\ Owed /\ [Next]_vars => Owed'
<1> SUFFICES ASSUME TabInv, InLine, Columns, Owed, [Next]_vars PROVE Owed'
  OBVIOUS
<1>0. /\ Columns' /\ batch \in [Workers -> Seq(Deliveries \X Nat)] /\ place \in [Workers -> Places]
      /\ todo \in [Workers -> SUBSET Subs] /\ runs \in [Deliveries -> Nat] /\ told \in [Deliveries -> [Subs -> Nat]]
  BY ColumnsStep DEF TabInv, Handed, Columns
\* What depends on the batches and the rows only.
<1>a. ASSUME batch' = batch
      PROVE  \A v \in Workers, d \in Deliveries :
                /\ Behind(v, d)' <=> Behind(v, d)
                /\ Delivery(v)' = Delivery(v)
                /\ Holds(v, d)' <=> Holds(v, d)
  BY <1>a DEF Behind, Delivery, Holds
<1>b. ASSUME batch' = batch, row' = row PROVE \A d \in Deliveries : Spare(d)' <=> Spare(d)
  BY <1>b, <1>a DEF Spare, Unheld
\* A worker moves on with the row it is at.
<1>c. ASSUME NEW w \in Workers, batch' = batch, row' = row, place[w] # "idle",
             \E to : place' = [place EXCEPT ![w] = to],
             \A v \in Workers : v # w => todo'[v] = todo[v],
             \A d \in Deliveries :
                /\ runs'[d] = runs[d] /\ faults' = faults /\ (OwesRun(w, d)' => OwesRun(w, d))
                /\ \A s \in Subs : told'[d][s] = told[d][s] /\ (OwesWord(w, d, s)' => OwesWord(w, d, s))
      PROVE  Owed'
  <2>1. \A d \in Deliveries : Spare(d)' => Spare(d)
    BY <1>b, <1>c
  <2>2. \A d \in Deliveries : PaidRun(w, d)
    BY <1>c, <2>1 DEF PaidRun, Paid
  <2>3. \A d \in Deliveries : \A s \in Subs : PaidWord(w, d, s)
    BY <1>c, <2>1 DEF PaidWord, Paid
  <2>4. \A v \in Workers : v # w => batch'[v] = batch[v] /\ place'[v] = place[v] /\ todo'[v] = todo[v]
    BY <1>0, <1>c
  <2> QED BY <1>0, <2>2, <2>3, <2>4, KeepsAccount
<1>1. ASSUME NEW p \in Payloads, Receive(p) PROVE Owed'
  <2>1. /\ UNCHANGED <<batch, place, todo, runs, told, faults>>
        /\ row' = [row EXCEPT ![Len(payload) + 1] = "waiting"]
    BY <1>1 DEF Receive, workVars, effects
  <2>2. \A d \in Deliveries : d = Len(payload) + 1 => row[d] = "none"
    BY DEF TabInv, Stored, Deliveries
  <2>3. ASSUME NEW d \in Deliveries, Spare(d)' PROVE Spare(d)
    <3>1. CASE d = Len(payload) + 1
      BY <2>2, <3>1 DEF Spare
    <3>2. CASE d # Len(payload) + 1
      <4>1. row'[d] = row[d]
        BY <2>1, <3>2 DEF TabInv, Stored
      <4>2. Unheld(d)' <=> Unheld(d)
        BY <1>a, <2>1 DEF Unheld
      <4> QED BY <2>3, <4>1, <4>2 DEF Spare
    <3> QED BY <3>1, <3>2
  <2> QED BY <1>0, <2>1, <2>3, StaysPaid
<1>2. ASSUME NEW e \in Deliveries, Lapse(e) \/ Purge(e) PROVE Owed'
  <2>1. UNCHANGED <<batch, place, todo, runs, told>>
    BY <1>2 DEF Lapse, Purge, workVars, effects
  <2>2. CASE faults' = faults + 1
    BY <1>0, <2>1, <2>2, StaysPaid
  <2>3. CASE faults' # faults + 1
    <3>1. row[e] = "leased" /\ row' = [row EXCEPT ![e] = "lapsed"] /\ Unheld(e) /\ faults' = faults
      BY <1>2, <2>3 DEF Lapse, Purge, Fault, Unheld
    <3>2. Spare(e)
      BY <3>1 DEF Spare
    <3>3. ASSUME NEW d \in Deliveries, d # e, Spare(d)' PROVE Spare(d)
      <4>1. row'[d] = row[d]
        BY <3>1, <3>3 DEF TabInv, Stored
      <4>2. Unheld(d)' <=> Unheld(d)
        BY <1>a, <2>1 DEF Unheld
      <4> QED BY <3>3, <4>1, <4>2 DEF Spare
    <3> QED BY <1>0, <2>1, <3>1, <3>2, <3>3, StaysPaid
  <2> QED BY <2>2, <2>3
<1>3. ASSUME NEW w \in Workers, Claim(w) PROVE Owed'
  <2>1. PICK S \in SUBSET Claimable, q \in Seq(Deliveries \X Nat) : Takes(w, S, q)
    BY <1>3, Claimed
  <2>2. /\ batch[w] = <<>> /\ batch' = [batch EXCEPT ![w] = q] /\ place' = [place EXCEPT ![w] = Next1(q)]
        /\ \A i \in 1..Len(q) : q[i][1] \in S
        /\ \A d \in S : \E i \in 1..Len(q) : q[i][1] = d
        /\ row' = [d \in Deliveries |-> IF d \in S THEN "leased" ELSE row[d]]
        /\ UNCHANGED <<todo, faults, runs, told>>
    BY <2>1 DEF Takes, effects
  <2>3. batch'[w] = q /\ place'[w] = Next1(q) /\ \A v \in Workers : v # w => batch'[v] = batch[v]
    BY <1>0, <2>2
  <2>4. ASSUME NEW d \in Deliveries
        PROVE  /\ Holds(w, d)' <=> d \in S
               /\ ~Holds(w, d)
               /\ OwesRun(w, d)' => d \in S
               /\ \A s \in Subs : OwesWord(w, d, s)' => d \in S
    <3>0. Len(q) \in Nat
      BY LenProperties
    <3>1. Holds(w, d)' <=> d \in S
      BY <2>2, <2>3, SMTT(30) DEF Holds
    <3>2. ~Holds(w, d)
      BY <2>2 DEF Holds
    <3>3. Behind(w, d)' => d \in S
      <4>1. 2..Len(q) \subseteq 1..Len(q)
        BY <3>0
      <4> QED BY <2>2, <2>3, <4>1 DEF Behind
    <3>4. place'[w] # "idle" /\ Delivery(w)' = d => d \in S
      <4> SUFFICES ASSUME place'[w] # "idle", Delivery(w)' = d PROVE d \in S
        OBVIOUS
      <4>1. q # <<>>
        BY <2>3 DEF Next1
      <4>2. Len(q) # 0 /\ Head(q) = q[1]
        BY <4>1, EmptySeq
      <4>3. 1 \in 1..Len(q)
        BY <3>0, <4>2
      <4>4. Delivery(w)' = q[1][1]
        BY <2>3, <4>2 DEF Delivery
      <4> QED BY <2>2, <4>3, <4>4
    <3>5. OwesRun(w, d)' => d \in S
      BY <3>3, <3>4 DEF OwesRun
    <3>6. ASSUME NEW s \in Subs, OwesWord(w, d, s)' PROVE d \in S
      BY <3>3, <3>4, <3>6 DEF OwesWord
    <3> QED BY <3>1, <3>2, <3>5, <3>6
  <2>5. ASSUME NEW d \in Deliveries, d \in S PROVE Spare(d) /\ ~Spare(d)'
    <3>1. row[d] \in {"waiting", "lapsed"} /\ row'[d] = "leased"
      BY <2>2, <2>5 DEF Claimable
    <3>2. ~Unheld(d)'
      BY <2>4, <2>5 DEF Unheld
    <3> QED BY <3>1, <3>2 DEF Spare
  <2>6. ASSUME NEW d \in Deliveries, d \notin S, Spare(d)' PROVE Spare(d)
    <3>1. row'[d] = row[d]
      BY <2>2, <2>6
    <3>2. \A v \in Workers : v # w => (Holds(v, d)' <=> Holds(v, d))
      BY <2>3 DEF Holds
    <3>3. Unheld(d)' => Unheld(d)
      BY <2>4, <3>2 DEF Unheld
    <3> QED BY <2>6, <3>1, <3>3 DEF Spare
  <2>7. \A d \in Deliveries : PaidRun(w, d)
    BY <2>2, <2>4, <2>5, <2>6 DEF PaidRun, Paid
  <2>8. \A d \in Deliveries : \A s \in Subs : PaidWord(w, d, s)
    BY <2>2, <2>4, <2>5, <2>6 DEF PaidWord, Paid
  <2>9. \A v \in Workers : v # w => batch'[v] = batch[v] /\ place'[v] = place[v] /\ todo'[v] = todo[v]
    BY <1>0, <2>2
  <2> QED BY <1>0, <2>7, <2>8, <2>9, KeepsAccount
<1>4. ASSUME NEW w \in Workers, Done(w) \/ Failed(w) PROVE Owed'
  <2>0. PICK D \in Deliveries : D = Delivery(w)
    BY <1>4, Settles, InHand
  <2>1. /\ row' = [row EXCEPT ![D] = row'[D]] /\ place[w] # "idle"
        /\ batch' = [batch EXCEPT ![w] = Tail(@)] /\ place' = [place EXCEPT ![w] = Next1(Tail(batch[w]))]
        /\ UNCHANGED <<todo, faults, runs, told>>
    BY <1>4, <2>0, Settles DEF Done, Failed, Proceed, effects
  <2>2. /\ ~Behind(w, D)
        /\ \A d \in Deliveries : Holds(w, d) <=> Behind(w, d) \/ d = D
    BY <2>0, <2>1, InHand, HeadOf
  <2>3. \A d \in Deliveries :
            /\ OwesRun(w, d)' => Behind(w, d)
            /\ \A s \in Subs : OwesWord(w, d, s)' => Behind(w, d)
            /\ Holds(w, d)' <=> Behind(w, d)
            /\ \A v \in Workers : v # w => (Holds(v, d)' <=> Holds(v, d))
    BY <2>1, GoesOn
  <2>4. \A d \in Deliveries : Behind(w, d) => OwesRun(w, d) /\ \A s \in Subs : OwesWord(w, d, s)
    BY DEF OwesRun, OwesWord
  <2>5. ASSUME NEW d \in Deliveries, d # D, Spare(d)' PROVE Spare(d)
    <3>1. row'[d] = row[d]
      BY <2>1, <2>5 DEF TabInv, Stored
    <3>2. Unheld(d)' <=> Unheld(d)
      BY <2>2, <2>3, <2>5 DEF Unheld
    <3> QED BY <2>5, <3>1, <3>2 DEF Spare
  <2>6. (Spare(D)' => Spare(D)) \/ place[w] = "failed"
    <3> SUFFICES ASSUME Done(w) PROVE ~Spare(D)'
      BY <1>4 DEF Failed
    <3>1. row'[D] \in {"gone", "settled"}
      BY <2>0 DEF Done, TabInv, Stored
    <3> QED BY <3>1 DEF Spare
  <2>7. place[w] = "failed" => OwesRun(w, D) /\ \A s \in Subs : OwesWord(w, D, s)
    BY <2>0 DEF OwesRun, OwesWord
  <2>8. \A d \in Deliveries : PaidRun(w, d)
    BY <2>1, <2>2, <2>3, <2>4, <2>5, <2>6, <2>7 DEF PaidRun, Paid
  <2>9. \A d \in Deliveries : \A s \in Subs : PaidWord(w, d, s)
    BY <2>1, <2>2, <2>3, <2>4, <2>5, <2>6, <2>7 DEF PaidWord, Paid
  <2>10. \A v \in Workers : v # w => batch'[v] = batch[v] /\ place'[v] = place[v] /\ todo'[v] = todo[v]
    BY <1>0, <2>1
  <2> QED BY <1>0, <2>8, <2>9, <2>10, KeepsAccount
<1>5. ASSUME NEW w \in Workers, Drop(w) PROVE Owed'
  <2>1. /\ batch' = [batch EXCEPT ![w] = <<>>] /\ place' = [place EXCEPT ![w] = "idle"]
        /\ todo' = [todo EXCEPT ![w] = {}] /\ faults' = faults + 1 /\ UNCHANGED <<runs, told>>
    BY <1>5 DEF Drop, Fault, effects
  <2>2. \A d \in Deliveries : ~OwesRun(w, d)' /\ \A s \in Subs : ~OwesWord(w, d, s)'
    <3>1. batch'[w] = <<>> /\ place'[w] = "idle"
      BY <1>0, <2>1
    <3>2. \A d \in Deliveries : ~Behind(w, d)'
      BY <3>1 DEF Behind
    <3> QED BY <3>1, <3>2 DEF OwesRun, OwesWord
  <2>3. \A d \in Deliveries : PaidRun(w, d) /\ \A s \in Subs : PaidWord(w, d, s)
    BY <2>1, <2>2 DEF PaidRun, PaidWord, Paid
  <2>4. \A v \in Workers : v # w => batch'[v] = batch[v] /\ place'[v] = place[v] /\ todo'[v] = todo[v]
    BY <1>0, <2>1
  <2> QED BY <1>0, <2>3, <2>4, KeepsAccount
<1>6. ASSUME NEW w \in Workers, Raise(w) PROVE Owed'
  <2>1. /\ batch' = batch /\ row' = row /\ place' = [place EXCEPT ![w] = "failed"]
        /\ faults' = faults + 1 /\ UNCHANGED <<runs, told, todo>>
    BY <1>6 DEF Raise, Fault, Goto, rowVars, effects
  <2>2. \A d \in Deliveries : PaidRun(w, d) /\ \A s \in Subs : PaidWord(w, d, s)
    BY <1>b, <2>1 DEF PaidRun, PaidWord, Paid
  <2>3. \A v \in Workers : v # w => batch'[v] = batch[v] /\ place'[v] = place[v] /\ todo'[v] = todo[v]
    BY <1>0, <2>1
  <2> QED BY <1>0, <2>2, <2>3, KeepsAccount
<1>7. ASSUME NEW w \in Workers, Enqueue(w) PROVE Owed'
  <2>1. /\ batch' = batch /\ row' = row /\ place[w] = "ci" /\ place' = [place EXCEPT ![w] = "notify"]
        /\ faults' = faults /\ UNCHANGED <<told, todo>>
        /\ runs' = runs \/ runs' = [runs EXCEPT ![Delivery(w)] = @ + 1]
    BY <1>7 DEF Enqueue, Goto, rowVars
  <2>2. Delivery(w) \in Deliveries /\ ~Behind(w, Delivery(w)) /\ place'[w] = "notify"
    BY <1>0, <2>1, InHand, HeadOf
  <2>3. \A d \in Deliveries : Spare(d)' => Spare(d)
    BY <1>b, <2>1
  <2>4. ASSUME NEW d \in Deliveries, d # Delivery(w) PROVE PaidRun(w, d)
    <3>1. OwesRun(w, d)' => OwesRun(w, d)
      BY <1>a, <2>1, <2>4 DEF OwesRun
    <3>2. runs'[d] = runs[d]
      BY <1>0, <2>1, <2>4
    <3> QED BY <2>1, <2>3, <3>1, <3>2 DEF PaidRun, Paid
  <2>5. PaidRun(w, Delivery(w))
    <3>1. OwesRun(w, Delivery(w))
      BY <2>1 DEF OwesRun
    <3>2. PICK d \in Deliveries : d = Delivery(w)
      BY <2>2
    <3>3. ~OwesRun(w, d)'
      BY <1>a, <2>1, <2>2, <3>2 DEF OwesRun
    <3>4. runs'[d] = runs[d] \/ runs'[d] = runs[d] + 1
      BY <1>0, <2>1, <3>2
    <3>5. PaidRun(w, d)
      BY <2>1, <2>3, <3>1, <3>2, <3>3, <3>4 DEF PaidRun, Paid
    <3> QED BY <3>2, <3>5
  <2>6. ASSUME NEW d \in Deliveries, NEW s \in Subs PROVE PaidWord(w, d, s)
    <3>1. OwesWord(w, d, s)' => OwesWord(w, d, s)
      BY <1>a, <2>1, <2>2 DEF OwesWord
    <3> QED BY <2>1, <2>3, <3>1 DEF PaidWord, Paid
  <2>7. \A v \in Workers : v # w => batch'[v] = batch[v] /\ place'[v] = place[v] /\ todo'[v] = todo[v]
    BY <1>0, <2>1
  <2> QED BY <1>0, <2>4, <2>5, <2>6, <2>7, KeepsAccount
<1>8. ASSUME NEW w \in Workers, ReadSubs(w) PROVE Owed'
  <2>1. /\ batch' = batch /\ row' = row /\ place[w] = "notify" /\ place' = [place EXCEPT ![w] = "send"]
        /\ faults' = faults /\ UNCHANGED <<runs, told>>
        /\ todo' = [todo EXCEPT ![w] = {s \in subs : Wants(s, Told(w))}]
    BY <1>8 DEF ReadSubs, Goto, rowVars, effects
  <2>2. place'[w] = "send"
    BY <1>0, <2>1
  <2>3. \A d \in Deliveries :
            /\ OwesRun(w, d)' => OwesRun(w, d)
            /\ \A s \in Subs : OwesWord(w, d, s)' => OwesWord(w, d, s)
    BY <1>a, <2>1, <2>2 DEF OwesRun, OwesWord
  <2>4. \A v \in Workers : v # w => todo'[v] = todo[v]
    BY <1>0, <2>1
  <2> QED BY <1>c, <2>1, <2>3, <2>4
<1>9. ASSUME NEW w \in Workers, NEW r \in Subs, Notify(w, r) PROVE Owed'
  <2>1. /\ batch' = batch /\ row' = row /\ place[w] = "send" /\ place' = place /\ r \in todo[w]
        /\ faults' = faults /\ runs' = runs /\ todo' = [todo EXCEPT ![w] = @ \ {r}]
        /\ told' = told \/ told' = [told EXCEPT ![Delivery(w)][r] = @ + 1]
    BY <1>9 DEF Notify, rowVars
  <2>2. Delivery(w) \in Deliveries /\ ~Behind(w, Delivery(w)) /\ todo'[w] = todo[w] \ {r}
    BY <1>0, <2>1, InHand, HeadOf
  <2>3. \A d \in Deliveries : Spare(d)' => Spare(d)
    BY <1>b, <2>1
  <2>4. ASSUME NEW d \in Deliveries PROVE PaidRun(w, d)
    <3>1. OwesRun(w, d)' => OwesRun(w, d)
      BY <1>a, <2>1 DEF OwesRun
    <3> QED BY <2>1, <2>3, <3>1 DEF PaidRun, Paid
  <2>5. ASSUME NEW d \in Deliveries, NEW s \in Subs, d # Delivery(w) \/ s # r PROVE PaidWord(w, d, s)
    <3>1. OwesWord(w, d, s)' => OwesWord(w, d, s)
      BY <1>a, <2>1, <2>2 DEF OwesWord
    <3>2. told'[d][s] = told[d][s]
      <4>1. told[d] \in [Subs -> Nat]
        BY <1>0
      <4> QED BY <1>0, <2>1, <2>2, <2>5, <4>1
    <3> QED BY <2>1, <2>3, <3>1, <3>2 DEF PaidWord, Paid
  <2>6. PaidWord(w, Delivery(w), r)
    <3>1. PICK d \in Deliveries : d = Delivery(w)
      BY <2>2
    <3>2. OwesWord(w, d, r)
      BY <2>1, <3>1 DEF OwesWord
    <3>3. ~OwesWord(w, d, r)'
      BY <1>a, <2>1, <2>2, <3>1 DEF OwesWord
    <3>4. told'[d][r] = told[d][r] \/ told'[d][r] = told[d][r] + 1
      <4>1. told[d] \in [Subs -> Nat]
        BY <1>0
      <4> QED BY <1>0, <2>1, <3>1, <4>1
    <3>5. PaidWord(w, d, r)
      BY <2>1, <2>3, <3>2, <3>3, <3>4 DEF PaidWord, Paid
    <3> QED BY <3>1, <3>5
  <2>7. \A v \in Workers : v # w => batch'[v] = batch[v] /\ place'[v] = place[v] /\ todo'[v] = todo[v]
    BY <1>0, <2>1
  <2> QED BY <1>0, <2>4, <2>5, <2>6, <2>7, KeepsAccount
<1>10. ASSUME NEW w \in Workers, Notified(w) \/ Suspend(w) \/ SyncInstallation(w) \/ SyncRepos(w) PROVE Owed'
  <2>1. /\ batch' = batch /\ row' = row /\ place[w] # "idle" /\ UNCHANGED <<runs, told, faults, todo>>
        /\ \E to \in {"done", "repos"} : place' = [place EXCEPT ![w] = to]
    BY <1>10 DEF Notified, Suspend, SyncInstallation, SyncRepos, Goto, rowVars, effects
  <2>2. place'[w] \in {"done", "repos"}
    BY <1>0, <2>1
  <2>3. \A d \in Deliveries :
            /\ OwesRun(w, d)' => OwesRun(w, d)
            /\ \A s \in Subs : OwesWord(w, d, s)' => OwesWord(w, d, s)
    BY <1>a, <2>1, <2>2 DEF OwesRun, OwesWord
  <2> QED BY <1>c, <2>1, <2>3
<1>11. ASSUME UNCHANGED <<batch, place, todo, runs, told, row, faults>> PROVE Owed'
  BY <1>0, <1>b, <1>11, StaysPaid
<1>12. (\E s \in Subs : Subscribe(s) \/ Unsubscribe(s)) \/ UNCHANGED vars
          => UNCHANGED <<batch, place, todo, runs, told, row, faults>>
  BY DEF Subscribe, Unsubscribe, vars, rowVars, workVars, effects
<1>13. \A w \in Workers : Process(w) => Owed'
  BY <1>4, <1>7, <1>8, <1>9, <1>10 DEF Process
<1> QED BY <1>1, <1>2, <1>3, <1>5, <1>6, <1>11, <1>12, <1>13 DEF Next

-----------------------------------------------------------------------------
(* Turns.                                                                  *)

\* What a step leaves of rows, tries and hands when it is no claim: a row is only
\* settled by who is at it.
Quiet == batch' = batch /\ UNCHANGED <<attempts, crossed>>

\* What is in hand was tried.
LEMMA HeldOnce ==
  ASSUME TabInv, NEW w \in Workers, NEW d \in Deliveries, Holds(w, d) PROVE attempts[d] > 0
BY DEF TabInv, Handed, Holds

\* The steps that change who holds which row, and all the others.
LEMMA QuietSteps ==
  ASSUME TabInv, [Next]_vars
  PROVE  \/ Quiet /\ row' = row
         \/ \E p \in Payloads : Receive(p) /\ Quiet
         \/ \E d \in Deliveries : (Lapse(d) \/ Purge(d)) /\ Quiet
         \/ \E w \in Workers : Claim(w) \/ Done(w) \/ Failed(w) \/ Drop(w)
<1>1. ASSUME NEW w \in Workers, Process(w) \/ Raise(w), ~Done(w), ~Failed(w) PROVE Quiet /\ row' = row
  BY <1>1 DEF Process, Raise, Enqueue, ReadSubs, Notified, Notify, Suspend, SyncInstallation,
     SyncRepos, rowVars, Quiet
<1>2. (\E s \in Subs : Subscribe(s) \/ Unsubscribe(s)) \/ UNCHANGED vars => Quiet /\ row' = row
  BY DEF Subscribe, Unsubscribe, vars, rowVars, workVars, Quiet
<1>3. ASSUME NEW p \in Payloads, Receive(p) PROVE Quiet
  BY <1>3 DEF Receive, workVars, Quiet
<1>4. ASSUME NEW d \in Deliveries, Lapse(d) \/ Purge(d) PROVE Quiet
  BY <1>4 DEF Lapse, Purge, workVars, Quiet
<1> QED BY <1>1, <1>2, <1>3, <1>4 DEF Next

\* Quiet steps leave the hands as they are, and settle nothing.
LEMMA QuietHands ==
  ASSUME Quiet PROVE \A w, d : Holds(w, d)' <=> Holds(w, d)
BY DEF Quiet, Holds

\* What one who is done with a row, or drops its batch, leaves.
LEMMA Leaving ==
  ASSUME TabInv, InLine, NEW w \in Workers, Done(w) \/ Failed(w) \/ Drop(w)
  PROVE  /\ UNCHANGED <<attempts, crossed>> /\ Delivery(w) \in Deliveries /\ Holds(w, Delivery(w))
         /\ \A d \in Deliveries : d # Delivery(w) => row'[d] = row[d]
         /\ \A v \in Workers, d \in Deliveries : v # w => (Holds(v, d)' <=> Holds(v, d))
         /\ \A d \in Deliveries : Holds(w, d)' => Holds(w, d) /\ Delivery(w) < d
         /\ \A d, e \in Deliveries : Holds(w, d)' /\ Holds(w, e) /\ e # Delivery(w) => Holds(w, e)'
<1>0. batch \in [Workers -> Seq(Deliveries \X Nat)]
  BY DEF TabInv, Handed
<1>1. CASE Done(w) \/ Failed(w)
  <2>1. /\ row' = [row EXCEPT ![Delivery(w)] = row'[Delivery(w)]] /\ place[w] # "idle"
        /\ batch' = [batch EXCEPT ![w] = Tail(@)] /\ place' = [place EXCEPT ![w] = Next1(Tail(batch[w]))]
        /\ UNCHANGED <<attempts, crossed>>
    BY <1>1, Settles DEF Done, Failed, Proceed
  <2>2. batch[w] # <<>>
    BY <2>1, InHand
  <2>3. /\ Delivery(w) \in Deliveries /\ Holds(w, Delivery(w))
        /\ \A d \in Deliveries : Holds(w, d) <=> Behind(w, d) \/ d = Delivery(w)
        /\ \A d \in Deliveries : Behind(w, d) => Delivery(w) < d
    BY <2>2, HeadOf
  <2>4. \A d \in Deliveries :
            /\ Holds(w, d)' <=> Behind(w, d)
            /\ \A v \in Workers : v # w => (Holds(v, d)' <=> Holds(v, d))
    BY <2>1, GoesOn
  <2>5. \A d \in Deliveries : d # Delivery(w) => row'[d] = row[d]
    BY <2>1 DEF TabInv, Stored
  <2> QED BY <2>1, <2>3, <2>4, <2>5
<1>2. CASE Drop(w)
  <2>1. batch[w] # <<>> /\ batch' = [batch EXCEPT ![w] = <<>>] /\ UNCHANGED <<row, attempts, crossed>>
    BY <1>2 DEF Drop, rowVars
  <2>2. Delivery(w) \in Deliveries /\ Holds(w, Delivery(w))
    BY <2>1, HeadOf
  <2>3. \A d : ~Holds(w, d)'
    BY <1>0, <2>1 DEF Holds
  <2>4. \A v \in Workers, d \in Deliveries : v # w => (Holds(v, d)' <=> Holds(v, d))
    BY <1>0, <2>1 DEF Holds
  <2> QED BY <2>1, <2>2, <2>3, <2>4
<1> QED BY <1>1, <1>2

\* What a claim takes, in the words of the invariants.
LEMMA Claiming ==
  ASSUME TabInv, Columns, NEW w \in Workers, Claim(w)
  PROVE  \E S \in SUBSET Claimable :
            /\ \A e \in S, d \in Claimable : d < e => d \in S
            /\ \A d \in Deliveries : /\ d \in S => row'[d] = "leased" /\ attempts'[d] = attempts[d] + 1
                                     /\ d \notin S => row'[d] = row[d] /\ attempts'[d] = attempts[d]
                                     /\ Holds(w, d)' <=> d \in S
            /\ \A v \in Workers, d \in Deliveries : v # w => (Holds(v, d)' <=> Holds(v, d))
            /\ \A d \in Deliveries, e \in S, v \in Workers : Holds(v, d) /\ d < e => d \in crossed'
            /\ crossed \subseteq crossed'
<1>0. batch \in [Workers -> Seq(Deliveries \X Nat)]
  BY DEF TabInv, Handed
<1>1. PICK S \in SUBSET Claimable, q \in Seq(Deliveries \X Nat) : Takes(w, S, q)
  BY Claimed
<1>2. /\ batch' = [batch EXCEPT ![w] = q]
      /\ \A i \in 1..Len(q) : q[i][1] \in S
      /\ \A d \in S : \E i \in 1..Len(q) : q[i][1] = d
      /\ \A e \in S, d \in Claimable : d < e => d \in S
      /\ row' = [d \in Deliveries |-> IF d \in S THEN "leased" ELSE row[d]]
      /\ attempts' = [d \in Deliveries |-> IF d \in S THEN attempts[d] + 1 ELSE attempts[d]]
      /\ crossed' = crossed \cup
             {e \in Deliveries : (\E v \in Workers : Holds(v, e)) /\ \E d \in S : e < d}
  BY <1>1 DEF Takes
<1>3. \A d \in Deliveries : Holds(w, d)' <=> d \in S
  BY <1>0, <1>2 DEF Holds
<1>4. \A v \in Workers, d \in Deliveries : v # w => (Holds(v, d)' <=> Holds(v, d))
  BY <1>0, <1>2 DEF Holds
<1>5. \A d \in Deliveries, e \in S, v \in Workers : Holds(v, d) /\ d < e => d \in crossed'
  BY <1>2
<1>6. \A d \in Deliveries : /\ d \in S => row'[d] = "leased" /\ attempts'[d] = attempts[d] + 1
                            /\ d \notin S => row'[d] = row[d] /\ attempts'[d] = attempts[d]
  BY <1>2
<1>7. crossed \subseteq crossed'
  BY <1>2
<1> QED BY <1>2, <1>3, <1>4, <1>5, <1>6, <1>7

\* A row that was never taken has nothing newer that was.
LEMMA TriedStep == TabInv /\ InLine /\ Columns /\ Tried /\ [Next]_vars => Tried'
<1> SUFFICES ASSUME TabInv, InLine, Columns, Tried, [Next]_vars, NEW d \in Deliveries
             PROVE  /\ row'[d] = "none" => attempts'[d] = 0
                    /\ row'[d] \in {"leased", "lapsed", "settled"} => attempts'[d] > 0
                    /\ row'[d] = "waiting" /\ attempts'[d] = 0 =>
                          \A e \in Deliveries : e > d => attempts'[e] = 0
  BY DEF Tried
<1>0. /\ row[d] = "none" => attempts[d] = 0
      /\ row[d] \in {"leased", "lapsed", "settled"} => attempts[d] > 0
      /\ row[d] = "waiting" /\ attempts[d] = 0 => \A e \in Deliveries : e > d => attempts[e] = 0
      /\ attempts \in [Deliveries -> Nat] /\ \A e \in Deliveries : e \in Int
  BY DeliveriesAssumption DEF Tried, TabInv, Stored, Deliveries
<1>1. CASE Quiet /\ row' = row
  BY <1>0, <1>1 DEF Quiet
<1>2. ASSUME NEW p \in Payloads, Receive(p), Quiet PROVE row'[d] = row[d] \/ (row'[d] = "waiting" /\ \A e \in Deliveries : e >= d => attempts[e] = 0)
  <2>1. /\ row' = [row EXCEPT ![Len(payload) + 1] = "waiting"] /\ Len(payload) \in Nat
        /\ \A e \in Deliveries : e > Len(payload) => row[e] = "none"
    BY <1>2 DEF Receive, TabInv, Stored
  <2>2. \A e \in Deliveries : e > Len(payload) => attempts[e] = 0
    BY <2>1 DEF Tried
  <2>3. CASE d = Len(payload) + 1
    <3>1. \A e \in Deliveries : e >= d => attempts[e] = 0
      BY <1>0, <2>1, <2>2, <2>3
    <3>2. row'[d] = "waiting"
      BY <2>1, <2>3 DEF TabInv, Stored
    <3> QED BY <3>1, <3>2
  <2>4. CASE d # Len(payload) + 1
    BY <2>1, <2>4 DEF TabInv, Stored
  <2> QED BY <2>3, <2>4
<1>3. ASSUME NEW e \in Deliveries, Lapse(e) \/ Purge(e), Quiet
      PROVE  row'[d] = row[d] \/ (row[d] = "leased" /\ row'[d] = "lapsed") \/ row'[d] = "gone"
  BY <1>3 DEF Lapse, Purge, TabInv, Stored
<1>4. ASSUME NEW w \in Workers, Claim(w)
      PROVE  /\ row'[d] = "none" => attempts'[d] = 0
             /\ row'[d] \in {"leased", "lapsed", "settled"} => attempts'[d] > 0
             /\ row'[d] = "waiting" /\ attempts'[d] = 0 =>
                   \A e \in Deliveries : e > d => attempts'[e] = 0
  <2>1. PICK S \in SUBSET Claimable :
            /\ \A e \in S, c \in Claimable : c < e => c \in S
            /\ \A c \in Deliveries : /\ c \in S => row'[c] = "leased" /\ attempts'[c] = attempts[c] + 1
                                     /\ c \notin S => row'[c] = row[c] /\ attempts'[c] = attempts[c]
    BY <1>4, Claiming
  <2>2. CASE d \in S
    BY <1>0, <2>1, <2>2
  <2>3. CASE d \notin S
    <3>1. row'[d] = row[d] /\ attempts'[d] = attempts[d]
      BY <2>1, <2>3
    <3>2. ASSUME row[d] = "waiting", attempts[d] = 0, NEW e \in Deliveries, e > d PROVE attempts'[e] = 0
      <4>1. d \in Claimable
        BY <3>2 DEF Claimable
      <4>2. e \notin S
        BY <1>0, <2>1, <2>3, <3>2, <4>1
      <4> QED BY <1>0, <2>1, <3>2, <4>2
    <3> QED BY <1>0, <3>1, <3>2
  <2> QED BY <2>2, <2>3
<1>5. ASSUME NEW w \in Workers, Done(w) \/ Failed(w) \/ Drop(w)
      PROVE  /\ attempts' = attempts
             /\ row'[d] = row[d] \/ (attempts[d] > 0 /\ row'[d] \in {"settled", "waiting", "gone"})
  <2>1. /\ attempts' = attempts /\ Delivery(w) \in Deliveries /\ Holds(w, Delivery(w))
        /\ d # Delivery(w) => row'[d] = row[d]
    BY <1>5, Leaving
  <2>2. attempts[Delivery(w)] > 0
    BY <2>1, HeldOnce
  <2>3. row'[Delivery(w)] = row[Delivery(w)] \/ row'[Delivery(w)] \in {"settled", "waiting", "gone"}
    BY <1>5, Settles DEF Drop, rowVars
  <2> QED BY <2>1, <2>2, <2>3
<1>6. ASSUME Quiet, row'[d] = row[d] \/ (row'[d] = "waiting" /\ \A e \in Deliveries : e >= d => attempts[e] = 0)
                    \/ (row[d] = "leased" /\ row'[d] = "lapsed") \/ row'[d] = "gone"
      PROVE  /\ row'[d] = "none" => attempts'[d] = 0
             /\ row'[d] \in {"leased", "lapsed", "settled"} => attempts'[d] > 0
             /\ row'[d] = "waiting" /\ attempts'[d] = 0 =>
                   \A e \in Deliveries : e > d => attempts'[e] = 0
  BY <1>0, <1>6 DEF Quiet
<1>7. ASSUME NEW w \in Workers, Done(w) \/ Failed(w) \/ Drop(w)
      PROVE  /\ row'[d] = "none" => attempts'[d] = 0
             /\ row'[d] \in {"leased", "lapsed", "settled"} => attempts'[d] > 0
             /\ row'[d] = "waiting" /\ attempts'[d] = 0 =>
                   \A e \in Deliveries : e > d => attempts'[e] = 0
  BY <1>0, <1>5, <1>7
<1> QED BY <1>1, <1>2, <1>3, <1>4, <1>6, <1>7, QuietSteps

\* A row in two hands was tried twice.
LEMMA TwoHandsStep == TabInv /\ InLine /\ Columns /\ TwoHands /\ [Next]_vars => TwoHands'
<1> SUFFICES ASSUME TabInv, InLine, Columns, TwoHands, [Next]_vars,
                    NEW u \in Workers, NEW v \in Workers, NEW d \in Deliveries,
                    u # v, Holds(u, d)', Holds(v, d)'
             PROVE  attempts'[d] > 1
  BY DEF TwoHands
<1>0. attempts \in [Deliveries -> Nat] /\ (Holds(u, d) /\ Holds(v, d) => attempts[d] > 1)
  BY DEF TwoHands, TabInv, Stored
<1>1. Quiet => attempts'[d] > 1
  BY <1>0, QuietHands DEF Quiet
<1>2. ASSUME NEW w \in Workers, Claim(w) PROVE attempts'[d] > 1
  <2>1. PICK S \in SUBSET Claimable :
            /\ \A c \in Deliveries : /\ c \in S => attempts'[c] = attempts[c] + 1
                                     /\ c \notin S => attempts'[c] = attempts[c]
                                     /\ Holds(w, c)' <=> c \in S
            /\ \A x \in Workers, c \in Deliveries : x # w => (Holds(x, c)' <=> Holds(x, c))
    BY <1>2, Claiming
  <2>2. CASE u # w /\ v # w
    <3>1. attempts[d] > 1
      BY <1>0, <2>1, <2>2
    <3> QED BY <1>0, <2>1, <3>1
  <2>3. CASE u = w \/ v = w
    <3>1. d \in S /\ (Holds(u, d) \/ Holds(v, d))
      BY <2>1, <2>3
    <3>2. attempts[d] > 0 /\ attempts'[d] = attempts[d] + 1
      BY <2>1, <3>1, HeldOnce
    <3> QED BY <1>0, <3>2
  <2> QED BY <2>2, <2>3
<1>3. ASSUME NEW w \in Workers, Done(w) \/ Failed(w) \/ Drop(w) PROVE attempts'[d] > 1
  <2>1. /\ attempts' = attempts
        /\ \A x \in Workers, c \in Deliveries : x # w => (Holds(x, c)' <=> Holds(x, c))
        /\ \A c \in Deliveries : Holds(w, c)' => Holds(w, c)
    BY <1>3, Leaving
  <2>2. Holds(u, d) /\ Holds(v, d)
    BY <2>1
  <2> QED BY <1>0, <2>1, <2>2
<1> QED BY <1>1, <1>2, <1>3, QuietSteps

\* Whoever has a row at its first try has what is before it behind him.
LEMMA FirstTryStep ==
  TabInv /\ InLine /\ Columns /\ Tried /\ TwoHands /\ FirstTry /\ [Next]_vars => FirstTry'
<1> SUFFICES ASSUME TabInv, InLine, Columns, Tried, TwoHands, FirstTry, [Next]_vars,
                    NEW u \in Workers, NEW d \in Deliveries, NEW e \in Deliveries,
                    Holds(u, d)', attempts'[d] = 1, d \notin crossed', e > d
             PROVE  attempts'[e] = 0 \/ (attempts'[e] = 1 /\ Holds(u, e)' /\ row'[e] # "settled")
  BY DEF FirstTry
<1>0. /\ attempts \in [Deliveries -> Nat] /\ \A c \in Deliveries : c \in Int
      /\ (Holds(u, d) /\ attempts[d] = 1 /\ d \notin crossed
             => attempts[e] = 0 \/ (attempts[e] = 1 /\ Holds(u, e) /\ row[e] # "settled"))
  BY DeliveriesAssumption DEF FirstTry, TabInv, Stored, Deliveries
<1>1. ASSUME Quiet, row'[e] = "settled" => row[e] = "settled"
      PROVE  attempts'[e] = 0 \/ (attempts'[e] = 1 /\ Holds(u, e)' /\ row'[e] # "settled")
  BY <1>0, <1>1, QuietHands DEF Quiet
<1>2. ASSUME NEW p \in Payloads, Receive(p) PROVE row'[e] = "settled" => row[e] = "settled"
  BY <1>2 DEF Receive, TabInv, Stored
<1>3. ASSUME NEW c \in Deliveries, Lapse(c) \/ Purge(c) PROVE row'[e] = "settled" => row[e] = "settled"
  BY <1>3 DEF Lapse, Purge, TabInv, Stored
<1>4. ASSUME NEW w \in Workers, Claim(w)
      PROVE  attempts'[e] = 0 \/ (attempts'[e] = 1 /\ Holds(u, e)' /\ row'[e] # "settled")
  <2>1. PICK S \in SUBSET Claimable :
            /\ \A c \in Deliveries : /\ c \in S => row'[c] = "leased" /\ attempts'[c] = attempts[c] + 1
                                     /\ c \notin S => row'[c] = row[c] /\ attempts'[c] = attempts[c]
                                     /\ Holds(w, c)' <=> c \in S
            /\ \A v \in Workers, c \in Deliveries : v # w => (Holds(v, c)' <=> Holds(v, c))
            /\ \A c \in Deliveries, b \in S, v \in Workers : Holds(v, c) /\ c < b => c \in crossed'
            /\ crossed \subseteq crossed'
    BY <1>4, Claiming
  <2>2. CASE u = w
    <3>1. d \in S /\ attempts[d] = 0 /\ row[d] \in {"waiting", "lapsed"}
      BY <1>0, <2>1, <2>2 DEF Claimable
    <3>2. row[d] = "waiting"
      BY <1>0, <3>1 DEF Tried
    <3>3. attempts[e] = 0
      BY <3>1, <3>2 DEF Tried
    <3>4. CASE e \in S
      BY <2>1, <2>2, <3>3, <3>4
    <3>5. CASE e \notin S
      BY <2>1, <3>3, <3>5
    <3> QED BY <3>4, <3>5
  <2>3. CASE u # w
    <3>1. Holds(u, d) /\ attempts[d] > 0 /\ d \notin crossed
      BY <2>1, <2>3, HeldOnce
    <3>2. d \notin S /\ attempts[d] = 1
      BY <1>0, <2>1, <3>1
    <3>3. e \notin S
      BY <1>0, <2>1, <3>1
    <3> QED BY <1>0, <2>1, <2>3, <3>1, <3>2, <3>3
  <2> QED BY <2>2, <2>3
<1>5. ASSUME NEW w \in Workers, Done(w) \/ Failed(w) \/ Drop(w)
      PROVE  attempts'[e] = 0 \/ (attempts'[e] = 1 /\ Holds(u, e)' /\ row'[e] # "settled")
  <2>0. PICK D \in Deliveries : D = Delivery(w)
    BY <1>5, Leaving
  <2>1. /\ UNCHANGED <<attempts, crossed>> /\ Holds(w, D)
        /\ \A c \in Deliveries : c # D => row'[c] = row[c]
        /\ \A v \in Workers, c \in Deliveries : v # w => (Holds(v, c)' <=> Holds(v, c))
        /\ \A c \in Deliveries : Holds(w, c)' => Holds(w, c) /\ D < c
        /\ \A c, b \in Deliveries : Holds(w, c)' /\ Holds(w, b) /\ b # D => Holds(w, b)'
    BY <1>5, <2>0, Leaving
  <2>2. Holds(u, d)
    BY <2>1
  <2>3. attempts[e] = 0 \/ (attempts[e] = 1 /\ Holds(u, e) /\ row[e] # "settled")
    BY <1>0, <2>1, <2>2
  <2>4. ASSUME attempts[e] = 1, Holds(u, e), row[e] # "settled" PROVE e # D /\ Holds(u, e)'
    <3>1. CASE u = w
      <4>1. e # D
        BY <1>0, <2>1, <3>1
      <4> QED BY <2>1, <2>4, <3>1, <4>1
    <3>2. CASE u # w
      <4>1. e # D
        BY <2>1, <2>4, <3>2 DEF TwoHands
      <4> QED BY <2>1, <2>4, <3>2, <4>1
    <3> QED BY <3>1, <3>2
  <2> QED BY <2>1, <2>3, <2>4
<1> QED BY <1>1, <1>2, <1>3, <1>4, <1>5, QuietSteps

-----------------------------------------------------------------------------
(* All of it.                                                              *)

\* All of it holds of a new table.
LEMMA DlvInit == Init => DlvIInv
<1> SUFFICES ASSUME Init PROVE DlvIInv
  OBVIOUS
<1>1. TabInv
  BY TabInit
<1>2. Columns
  <2>1. error \in [Deliveries -> BOOLEAN] /\ suspended \in BOOLEAN /\ known \in BOOLEAN
    <3>1. FALSE \in BOOLEAN /\ TRUE \in BOOLEAN
      OBVIOUS
    <3>2. error = [d \in Deliveries |-> FALSE] /\ suspended = FALSE /\ known = TRUE
      BY DEF Init
    <3> QED BY <3>1, <3>2, Zenon
  <2>2. /\ Len(payload) = 0 /\ todo \in [Workers -> SUBSET Subs] /\ subs = Subs /\ known
        /\ runs \in [Deliveries -> Nat] /\ told \in [Deliveries -> [Subs -> Nat]]
        /\ crossed \subseteq Deliveries /\ faults = 0
        /\ \A w \in Workers : batch[w] = <<>>
    BY DEF Init
  <2>3. \A w \in Workers : Len(batch[w]) <= Batch
    BY <2>2, DeliveriesAssumption
  <2> QED BY <2>1, <2>2, <2>3, DeliveriesAssumption DEF Columns
<1>3. InLine /\ Tried /\ TwoHands /\ FirstTry
  BY DEF InLine, Tried, TwoHands, FirstTry, Holds, Init
<1>4. \A w \in Workers, d \in Deliveries : ~OwesRun(w, d) /\ \A s \in Subs : ~OwesWord(w, d, s)
  BY DEF OwesRun, OwesWord, Behind, Init
<1>5. Cardinality({}) = 0
  BY FS_EmptySet
<1>6. faults = 0 /\ \A d \in Deliveries : runs[d] = 0 /\ Spare(d) /\ \A s \in Subs : told[d][s] = 0
  BY DEF Init, Spare
<1>7. ASSUME NEW d \in Deliveries PROVE Runs(d)
  <2>1. {w \in Workers : OwesRun(w, d)} = {}
    BY <1>4
  <2>2. runs[d] = 0 /\ faults = 0 /\ One(Spare(d)) = 1
    BY <1>6 DEF One
  <2> QED BY <1>5, <2>1, <2>2 DEF Runs
<1>8. ASSUME NEW d \in Deliveries, NEW s \in Subs PROVE Words(d, s)
  <2>1. {w \in Workers : OwesWord(w, d, s)} = {}
    BY <1>4
  <2> QED BY <1>5, <1>6, <2>1 DEF Words, One
<1> QED BY <1>1, <1>2, <1>3, <1>7, <1>8 DEF DlvIInv, Owed

\* ... and after every step of the deliveries.
LEMMA DlvStep == DlvIInv /\ [Next]_vars => DlvIInv'
<1> SUFFICES ASSUME DlvIInv, [Next]_vars PROVE DlvIInv'
  OBVIOUS
<1>1. TabInv /\ Columns /\ InLine /\ Owed /\ Tried /\ TwoHands /\ FirstTry
  BY DEF DlvIInv
<1>2. TabInv' /\ Columns' /\ InLine'
  BY <1>1, TabStep, ColumnsStep, InLineStep
<1>3. Owed' /\ Tried'
  BY <1>1, OwedStep, TriedStep
<1>4. TwoHands' /\ FirstTry'
  BY <1>1, TwoHandsStep, FirstTryStep
<1> QED BY <1>2, <1>3, <1>4 DEF DlvIInv

\* Deliveries: the types, and what a run and a word are explained by.
LEMMA DlvTruth == DlvIInv => TypeOK /\ EffectsExplained
<1> SUFFICES ASSUME DlvIInv PROVE TypeOK /\ EffectsExplained
  OBVIOUS
<1>1. TabInv /\ Columns /\ Owed
  BY DEF DlvIInv
<1>2. TypeOK
  <2>1. \A w \in Workers : /\ batch[w] \in Seq(Deliveries \X Nat) /\ Len(batch[w]) <= Batch
                           /\ place[w] = "idle" <=> batch[w] = <<>>
    BY <1>1 DEF TabInv, Handed, Columns
  <2>2. /\ payload \in Seq(Payloads) /\ Len(payload) <= Newest
        /\ row \in [Deliveries -> {"none", "waiting", "leased", "lapsed", "settled", "gone"}]
        /\ attempts \in [Deliveries -> Nat] /\ place \in [Workers -> Places]
    BY <1>1 DEF TabInv, Stored, Handed, Columns
  <2>3. /\ error \in [Deliveries -> BOOLEAN] /\ todo \in [Workers -> SUBSET Subs]
        /\ suspended \in BOOLEAN /\ known \in BOOLEAN
        /\ subs \subseteq Subs /\ (subs # {} => known)
        /\ runs \in [Deliveries -> Nat] /\ told \in [Deliveries -> [Subs -> Nat]]
        /\ crossed \subseteq Deliveries /\ faults \in 0..MaxFaults
    BY <1>1 DEF Columns
  <2> QED BY <2>1, <2>2, <2>3 DEF TypeOK
<1>0. IsFiniteSet(Workers) /\ faults \in Nat
  BY <1>1, DeliveriesAssumption DEF Columns
<1>3. ASSUME NEW d \in Deliveries PROVE runs[d] <= 1 + faults
  <2>1. IsFiniteSet({w \in Workers : OwesRun(w, d)})
    BY <1>0, FS_Subset
  <2>2. PICK p \in Nat, n \in Nat, f \in Nat, a \in Nat :
            /\ p = Cardinality({w \in Workers : OwesRun(w, d)}) /\ n = runs[d] /\ f = faults /\ a = One(Spare(d))
    BY <1>0, <1>1, <2>1, FS_CardinalityType DEF Columns, One
  <2>3. n + p + a <= 1 + f
    BY <1>1, <2>2 DEF Owed, Runs
  <2>4. n <= 1 + f
    BY <2>3
  <2> QED BY <2>2, <2>4
<1>4. ASSUME NEW d \in Deliveries, NEW s \in Subs PROVE told[d][s] <= 1 + faults
  <2>1. IsFiniteSet({w \in Workers : OwesWord(w, d, s)})
    BY <1>0, FS_Subset
  <2>2. PICK p \in Nat, n \in Nat, f \in Nat, a \in Nat :
            /\ p = Cardinality({w \in Workers : OwesWord(w, d, s)}) /\ n = told[d][s] /\ f = faults /\ a = One(Spare(d))
    BY <1>0, <1>1, <2>1, FS_CardinalityType DEF Columns, One
  <2>3. n + p + a <= 1 + f
    BY <1>1, <2>2 DEF Owed, Words
  <2>4. n <= 1 + f
    BY <2>3
  <2> QED BY <2>2, <2>4
<1> QED BY <1>2, <1>3, <1>4 DEF EffectsExplained

\* What SyncInstallation undoes is not in its turn.
LEMMA InTurn ==
  ASSUME DlvIInv, NEW w \in Workers, NEW e \in Deliveries,
         SyncInstallation(w), Delivery(w) < e, row[e] = "settled"
  PROVE  Delivery(w) \in crossed \/ attempts[Delivery(w)] > 1
<1>1. TabInv /\ InLine /\ Tried /\ FirstTry
  BY DEF DlvIInv
<1>2. place[w] # "idle"
  BY DEF SyncInstallation
<1>3. PICK d \in Deliveries : d = Delivery(w)
  BY <1>1, <1>2, InHand
<1>4. Holds(w, d) /\ attempts[d] > 0 /\ attempts[d] \in Nat /\ attempts[e] > 0
  BY <1>1, <1>2, <1>3, InHand, HeadOf DEF Tried, TabInv, Stored
<1>5. attempts[d] = 1 => d \in crossed
  BY <1>1, <1>3, <1>4, DeliveriesAssumption DEF FirstTry, Deliveries, TabInv, Stored
<1> QED BY <1>3, <1>4, <1>5

-----------------------------------------------------------------------------
(* Scheduled rows (module Scheduler).                                       *)
\* The number of elements, as the instance Sched has it.
LEMMA SchedCount == \A S : Sched!Cardinality(S) = Cardinality(S)
  BY DEF Sched!Cardinality, Cardinality

Has(f, n) == fires[f].pc \in {"routed", "running"} /\ fires[f].turn = n
Routed(n) == \E f \in Fires : fires[f].pc = "routed" /\ fires[f].turn = n

\* A fire that is at its turn has made one.
FiresHaveTurns ==
    \A f \in Fires : fires[f].pc \in {"routed", "running"} =>
        fires[f].turn \in Sched!Turns /\ turns[fires[f].turn] # "none"

\* A turn is one fire's, and not the row's before that fire has bound it.
OwnTurns ==
    /\ \A f, g \in Fires, n \in Sched!Turns : Has(f, n) /\ Has(g, n) => f = g
    /\ \A f \in Fires : fires[f].pc = "routed" => fires[f].turn # active

\* What may yet become an attempt without another fault: fires that have claimed
\* the row, a row that is due for the next one, and turns that failed under it.
Claimers == {f \in Fires : fires[f].pc = "claimed"}
Open ==
    /\ alive /\ active = 0
    /\ next = "due" \/ (next = "leased" /\ \A f \in Fires : ~Sched!Loose(f))
FailedTurns == Sched!Turned({"failed"})
Again == {n \in FailedTurns : n = active \/ Routed(n)}

Credit ==
    Sched!Attempts + Cardinality(Claimers) + (IF Open THEN 1 ELSE 0) + Cardinality(Again)
        <= occurred + lates + Cardinality(FailedTurns)

\* Without a fault and a failed turn one fire is about; while it is loose the
\* row is not due, or its turn is done; and a turn that runs has its fire.
OneAtATime ==
    /\ \A f, g \in Fires : fires[f].pc # "idle" /\ fires[g].pc # "idle" => f = g
    /\ \A f \in Fires : alive /\ Sched!Loose(f) =>
           next # "due" \/ (active # 0 /\ turns[active] = "done")
    /\ \A f \in Fires : alive /\ fires[f].pc = "running" /\ ~Sched!Loose(f) => active = fires[f].turn
    /\ \A n \in Sched!Running : \E f \in Fires : Has(f, n)

SchIInv ==
    /\ Sched!TypeOK /\ FiresHaveTurns /\ OwnTurns /\ Credit
    /\ (lates = 0 /\ FailedTurns = {}) => OneAtATime

-----------------------------------------------------------------------------
\* Sets that grow and shrink by an element.
LEMMA Grows ==
  ASSUME NEW S, IsFiniteSet(S), NEW x, NEW T \in SUBSET (S \cup {x})
  PROVE  IsFiniteSet(T) /\ Cardinality(T) \in Nat /\ Cardinality(S) \in Nat
         /\ Cardinality(T) <= Cardinality(S) + 1
<1>1. IsFiniteSet(S \cup {x}) /\ Cardinality(S \cup {x}) <= Cardinality(S) + 1 /\ Cardinality(S) \in Nat
  BY FS_AddElement, FS_CardinalityType
<1>2. IsFiniteSet(T) /\ Cardinality(T) <= Cardinality(S \cup {x})
  BY <1>1, FS_Subset
<1>3. Cardinality(T) \in Nat /\ Cardinality(S \cup {x}) \in Nat
  BY <1>1, <1>2, FS_CardinalityType
<1> QED BY <1>1, <1>2, <1>3

\* A set that loses an element.
LEMMA Shrinks ==
  ASSUME NEW S, IsFiniteSet(S), NEW x \in S, NEW T \in SUBSET (S \ {x})
  PROVE  IsFiniteSet(T) /\ Cardinality(T) \in Nat /\ Cardinality(S) \in Nat
         /\ Cardinality(T) + 1 <= Cardinality(S)
<1>1. IsFiniteSet(S \ {x}) /\ Cardinality(S \ {x}) = Cardinality(S) - 1 /\ Cardinality(S) \in Nat
  BY FS_RemoveElement, FS_CardinalityType
<1>2. IsFiniteSet(T) /\ Cardinality(T) <= Cardinality(S \ {x})
  BY <1>1, FS_Subset
<1>3. Cardinality(T) \in Nat /\ Cardinality(S \ {x}) \in Nat
  BY <1>1, <1>2, FS_CardinalityType
<1> QED BY <1>1, <1>2, <1>3

\* What is counted is finite.
LEMMA Counted ==
  /\ \A S \in SUBSET Sched!Turns : IsFiniteSet(S) /\ Cardinality(S) \in Nat
  /\ \A S \in SUBSET Fires : IsFiniteSet(S) /\ Cardinality(S) \in Nat
<1>1. IsFiniteSet(Sched!Turns)
  <2>1. 1 \in Int /\ MaxTurns \in Int
    BY OutsideAssumption
  <2> QED BY <2>1, FS_Interval DEF Sched!Turns
<1> QED BY <1>1, OutsideAssumption, FS_Subset, FS_CardinalityType

\* The turns that the scheduler made are turns, and those that claim are fires.
LEMMA Sets ==
  /\ Sched!Made \in SUBSET Sched!Turns /\ FailedTurns \in SUBSET Sched!Turns /\ Again \in SUBSET Sched!Turns
  /\ Claimers \in SUBSET Fires
BY DEF Sched!Made, FailedTurns, Again, Claimers, Sched!Turned

\* The same of the next state.
LEMMA SetsNext ==
  /\ Sched!Made' \in SUBSET Sched!Turns /\ FailedTurns' \in SUBSET Sched!Turns /\ Again' \in SUBSET Sched!Turns
  /\ Claimers' \in SUBSET Fires
BY DEF Sched!Made, FailedTurns, Again, Claimers, Sched!Turned

\* Steps that make no attempt: nothing new may become one, or a fault or an
\* occurrence pays for it.
LEMMA Ledger ==
  ASSUME Sched!TypeOK, Credit, Sched!TypeOK', UNCHANGED <<turns, sent>>,
         Again' \subseteq Again, Claimers' \subseteq Claimers,
         \/ (Open' => Open) /\ occurred' + lates' >= occurred + lates
         \/ occurred' + lates' >= occurred + lates + 1
  PROVE  Credit'
<1>1. Sched!Made' = Sched!Made /\ FailedTurns' = FailedTurns /\ Sched!Attempts' = Sched!Attempts
  BY SchedCount DEF Sched!Made, FailedTurns, Sched!Turned, Sched!Attempts
<1>2. PICK a \in Nat, a1 \in Nat : a = Cardinality(Claimers) /\ a1 = Cardinality(Claimers') /\ a1 <= a
  BY Counted, Sets, SetsNext, FS_Subset
<1>3. PICK g \in Nat, g1 \in Nat : g = Cardinality(Again) /\ g1 = Cardinality(Again') /\ g1 <= g
  BY Counted, Sets, SetsNext, FS_Subset
<1>4. PICK e \in Nat : e = Cardinality(FailedTurns)
  BY Counted, Sets
<1>5. PICK t \in Nat : t = Sched!Attempts
  BY SchedCount, Counted, Sets DEF Sched!Attempts, Sched!TypeOK
<1>6. PICK z \in 0..1, z1 \in 0..1 :
          z = (IF Open THEN 1 ELSE 0) /\ z1 = (IF Open' THEN 1 ELSE 0) /\ ((Open' => Open) => z1 <= z)
  OBVIOUS
<1>7. PICK c \in Nat, c1 \in Nat : c = occurred + lates /\ c1 = occurred' + lates'
  <2>1. MaxOccurrences \in Nat /\ MaxLate \in Nat
    BY OutsideAssumption
  <2>2. occurred \in 0..MaxOccurrences /\ lates \in 0..MaxLate
    BY DEF Sched!TypeOK
  <2>3. occurred' \in 0..MaxOccurrences /\ lates' \in 0..MaxLate
    BY DEF Sched!TypeOK
  <2>4. occurred \in Nat /\ lates \in Nat /\ occurred' \in Nat /\ lates' \in Nat
    BY <2>1, <2>2, <2>3
  <2>5. occurred + lates \in Nat /\ occurred' + lates' \in Nat
    <3>1. \A m, n \in Nat : m + n \in Nat
      OBVIOUS
    <3> QED BY <2>4, <3>1, Zenon
  <2> QED BY <2>5
<1>8. t + a + z + g <= c + e
  BY <1>2, <1>3, <1>4, <1>5, <1>6, <1>7 DEF Credit
<1>9. z1 + c <= z + c1
  BY <1>6, <1>7
<1>10. t + a1 + z1 + g1 <= c1 + e
  BY <1>2, <1>3, <1>8, <1>9
<1> QED BY <1>1, <1>2, <1>3, <1>4, <1>5, <1>6, <1>7, <1>10 DEF Credit

-----------------------------------------------------------------------------
\* No turn is made and none is owed at the start.
LEMMA SchInit == Sched!Init => SchIInv
<1> SUFFICES ASSUME Sched!Init PROVE SchIInv
  OBVIOUS
<1>1. \A f \in Fires : fires[f] = [pc |-> "idle", turn |-> 0]
  BY DEF Sched!Init, Sched!Idle
<1>2. Sched!Made = {} /\ FailedTurns = {} /\ Again = {} /\ Claimers = {} /\ ~Open
  BY <1>1 DEF Sched!Init, Sched!Made, FailedTurns, Again, Claimers, Open, Sched!Turned
<1>3. Sched!TypeOK
  <2>1. fires \in [Fires -> [pc : {"idle", "claimed", "routed", "running", "over"}, turn : 0..MaxTurns]]
    BY OutsideAssumption DEF Sched!Init, Sched!Idle
  <2>2. turns \in [Sched!Turns -> {"none", "running", "done", "failed"}]
    BY DEF Sched!Init
  <2>3. active \in 0..MaxTurns /\ occurred \in 0..MaxOccurrences /\ lates \in 0..MaxLate /\ sent \in Nat
    BY OutsideAssumption DEF Sched!Init
  <2> QED BY <2>1, <2>2, <2>3 DEF Sched!Init, Sched!TypeOK
<1>4. Credit
  <2>1. Cardinality({}) = 0
    BY FS_EmptySet
  <2> QED BY SchedCount, <1>2, <2>1 DEF Credit, Sched!Attempts, Sched!Init
<1>5. FiresHaveTurns /\ OwnTurns
  BY <1>1 DEF FiresHaveTurns, OwnTurns, Has
<1>6. Sched!Running = {}
  BY DEF Sched!Init, Sched!Running, Sched!Turned
<1>7. OneAtATime
  BY <1>1, <1>6 DEF OneAtATime, Sched!Loose
<1> QED BY <1>3, <1>4, <1>5, <1>7 DEF SchIInv

\* Types, and which turns the fires have.
Turning == Sched!TypeOK /\ FiresHaveTurns /\ OwnTurns

\* Each fire that runs has the turn that it made.
LEMMA TurningStep == Turning /\ [Sched!Next]_(Sched!vars) => Turning'
<1> SUFFICES ASSUME Turning, [Sched!Next]_(Sched!vars) PROVE Turning'
  OBVIOUS
<1>0. 0 \notin Sched!Turns /\ Sched!Turns \subseteq 0..MaxTurns
  BY OutsideAssumption DEF Sched!Turns
<1> USE <1>0, OutsideAssumption DEF Turning, Sched!TypeOK, FiresHaveTurns, OwnTurns, Has
<1>1. CASE Sched!Due
  <2>1. Sched!TypeOK'
    BY <1>1 DEF Sched!Due, Sched!Fault, Sched!Loose
  <2>2. FiresHaveTurns'
    BY <1>1 DEF Sched!Due, Sched!Fault, Sched!Loose
  <2>3. OwnTurns'
    BY <1>1 DEF Sched!Due, Sched!Fault, Sched!Loose
  <2> QED BY <2>1, <2>2, <2>3
<1>2. CASE Sched!ClaimRunning
  <2>1. Sched!TypeOK'
    BY <1>2 DEF Sched!ClaimRunning, Sched!IsDue
  <2>2. FiresHaveTurns'
    BY <1>2 DEF Sched!ClaimRunning, Sched!IsDue
  <2>3. OwnTurns'
    BY <1>2 DEF Sched!ClaimRunning, Sched!IsDue
  <2> QED BY <2>1, <2>2, <2>3
<1>3. CASE Sched!ClaimDone
  <2>1. Sched!TypeOK'
    BY <1>3 DEF Sched!ClaimDone, Sched!IsDue, Sched!MoveOn
  <2>2. FiresHaveTurns'
    BY <1>3 DEF Sched!ClaimDone, Sched!IsDue, Sched!MoveOn
  <2>3. OwnTurns'
    BY <1>3 DEF Sched!ClaimDone, Sched!IsDue, Sched!MoveOn
  <2> QED BY <2>1, <2>2, <2>3
<1>4. CASE Sched!Crash
  <2>1. Sched!TypeOK'
    BY <1>4 DEF Sched!Crash, Sched!Fault, Sched!row, Sched!Idle
  <2>2. FiresHaveTurns'
    BY <1>4 DEF Sched!Crash, Sched!Fault, Sched!row, Sched!Idle
  <2>3. OwnTurns'
    BY <1>4 DEF Sched!Crash, Sched!Fault, Sched!row, Sched!Idle
  <2> QED BY <2>1, <2>2, <2>3
<1>5. CASE Sched!SetEnabled
  <2>1. Sched!TypeOK'
    BY <1>5 DEF Sched!SetEnabled
  <2>2. FiresHaveTurns'
    BY <1>5 DEF Sched!SetEnabled
  <2>3. OwnTurns'
    BY <1>5 DEF Sched!SetEnabled
  <2> QED BY <2>1, <2>2, <2>3
<1>6. CASE Sched!Remove
  <2>1. Sched!TypeOK'
    BY <1>6 DEF Sched!Remove
  <2>2. FiresHaveTurns'
    BY <1>6 DEF Sched!Remove
  <2>3. OwnTurns'
    BY <1>6 DEF Sched!Remove
  <2> QED BY <2>1, <2>2, <2>3
<1>7. ASSUME NEW f \in Fires, Sched!Claim(f) PROVE Turning'
  <2>1. Sched!TypeOK'
    BY <1>7 DEF Sched!Claim, Sched!IsDue, Sched!Goto
  <2>2. FiresHaveTurns'
    BY <1>7 DEF Sched!Claim, Sched!IsDue, Sched!Goto
  <2>3. OwnTurns'
    BY <1>7 DEF Sched!Claim, Sched!IsDue, Sched!Goto
  <2> QED BY <2>1, <2>2, <2>3
<1>8. ASSUME NEW f \in Fires, Sched!BotMissing(f) PROVE Turning'
  <2>1. Sched!TypeOK'
    BY <1>8 DEF Sched!BotMissing, Sched!Idle
  <2>2. FiresHaveTurns'
    BY <1>8 DEF Sched!BotMissing, Sched!Idle
  <2>3. OwnTurns'
    BY <1>8 DEF Sched!BotMissing, Sched!Idle
  <2> QED BY <2>1, <2>2, <2>3
<1>9. ASSUME NEW f \in Fires, Sched!Send(f) PROVE Turning'
  <2>1. Sched!TypeOK'
    BY <1>9 DEF Sched!Send, Sched!Goto, Sched!row
  <2>2. FiresHaveTurns'
    BY <1>9 DEF Sched!Send, Sched!Goto, Sched!row
  <2>3. OwnTurns'
    BY <1>9 DEF Sched!Send, Sched!Goto, Sched!row
  <2> QED BY <2>1, <2>2, <2>3
<1>10. ASSUME NEW f \in Fires, Sched!Route(f) PROVE Turning'
  <2>0. PICK n \in Sched!Turns :
            /\ turns[n] = "none"
            /\ turns' = [turns EXCEPT ![n] = "running"]
            /\ fires' = [fires EXCEPT ![f] = [pc |-> "routed", turn |-> n]]
    BY <1>10 DEF Sched!Route
  <2>1. Sched!TypeOK'
    <3>1. n \in 0..MaxTurns
      OBVIOUS
    <3>2. [pc |-> "routed", turn |-> n] \in [pc : {"idle", "claimed", "routed", "running", "over"}, turn : 0..MaxTurns]
      BY <3>1
    <3>3. fires' \in [Fires -> [pc : {"idle", "claimed", "routed", "running", "over"}, turn : 0..MaxTurns]]
      BY <2>0, <3>2
    <3>4. turns' \in [Sched!Turns -> {"none", "running", "done", "failed"}] /\ (active # 0 => turns'[active] # "none")
      BY <2>0
    <3> QED BY <1>10, <3>3, <3>4 DEF Sched!Route, Sched!row
  <2>2. FiresHaveTurns'
    BY <2>0
  <2>3. OwnTurns'
    <3>1. \A g \in Fires : ~Has(g, n) /\ n # active
      BY <2>0
    <3> QED BY <1>10, <2>0, <3>1 DEF Sched!Route, Sched!row
  <2> QED BY <2>1, <2>2, <2>3
<1>11. ASSUME NEW f \in Fires, Sched!Bind(f) PROVE Turning'
  <2>1. Sched!TypeOK'
    BY <1>11 DEF Sched!Bind, Sched!Goto
  <2>2. FiresHaveTurns'
    BY <1>11 DEF Sched!Bind, Sched!Goto
  <2>3. OwnTurns'
    BY <1>11 DEF Sched!Bind, Sched!Goto
  <2> QED BY <2>1, <2>2, <2>3
<1>12. ASSUME NEW f \in Fires, Sched!Return(f) PROVE Turning'
  <2>1. Sched!TypeOK'
    BY <1>12 DEF Sched!Return, Sched!Goto, Sched!row
  <2>2. FiresHaveTurns'
    BY <1>12 DEF Sched!Return, Sched!Goto, Sched!row
  <2>3. OwnTurns'
    BY <1>12 DEF Sched!Return, Sched!Goto, Sched!row
  <2> QED BY <2>1, <2>2, <2>3
<1>13. ASSUME NEW f \in Fires, Sched!Advance(f) PROVE Turning'
  <2>1. Sched!TypeOK'
    <3>1. [pc |-> "idle", turn |-> 0] \in [pc : {"idle", "claimed", "routed", "running", "over"}, turn : 0..MaxTurns]
      OBVIOUS
    <3>2. fires' \in [Fires -> [pc : {"idle", "claimed", "routed", "running", "over"}, turn : 0..MaxTurns]]
      BY <1>13, <3>1 DEF Sched!Advance, Sched!Idle
    <3>3. CASE alive
      BY <1>13, <3>2, <3>3 DEF Sched!Advance, Sched!MoveOn
    <3>4. CASE ~alive
      BY <1>13, <3>2, <3>4 DEF Sched!Advance, Sched!row
    <3> QED BY <3>3, <3>4
  <2>2. FiresHaveTurns'
    BY <1>13 DEF Sched!Advance, Sched!MoveOn, Sched!Idle, Sched!row
  <2>3. OwnTurns'
    BY <1>13 DEF Sched!Advance, Sched!MoveOn, Sched!Idle, Sched!row
  <2> QED BY <2>1, <2>2, <2>3
<1>14. ASSUME NEW f \in Fires, Sched!Pause(f) PROVE Turning'
  <2>1. Sched!TypeOK'
    BY <1>14 DEF Sched!Pause, Sched!Fault, Sched!Goto, Sched!row
  <2>2. FiresHaveTurns'
    BY <1>14 DEF Sched!Pause, Sched!Fault, Sched!Goto, Sched!row
  <2>3. OwnTurns'
    BY <1>14 DEF Sched!Pause, Sched!Fault, Sched!Goto, Sched!row
  <2> QED BY <2>1, <2>2, <2>3
<1>15. ASSUME NEW f \in Fires, Sched!Raise(f) PROVE Turning'
  <2>1. Sched!TypeOK'
    BY <1>15 DEF Sched!Raise, Sched!Fault, Sched!Goto, Sched!row
  <2>2. FiresHaveTurns'
    BY <1>15 DEF Sched!Raise, Sched!Fault, Sched!Goto, Sched!row
  <2>3. OwnTurns'
    BY <1>15 DEF Sched!Raise, Sched!Fault, Sched!Goto, Sched!row
  <2> QED BY <2>1, <2>2, <2>3
<1>16. ASSUME NEW n \in Sched!Turns, Sched!TurnEnds(n) PROVE Turning'
  <2>1. Sched!TypeOK'
    BY <1>16 DEF Sched!TurnEnds, Sched!row
  <2>2. FiresHaveTurns'
    BY <1>16 DEF Sched!TurnEnds, Sched!row
  <2>3. OwnTurns'
    BY <1>16 DEF Sched!TurnEnds, Sched!row
  <2> QED BY <2>1, <2>2, <2>3
<1>17. CASE UNCHANGED Sched!vars
  BY <1>17 DEF Sched!vars, Sched!row
<1> QED BY <1>1, <1>2, <1>3, <1>4, <1>5, <1>6, <1>7, <1>8, <1>9, <1>10, <1>11, <1>12, <1>13, <1>14,
   <1>15, <1>16, <1>17 DEF Sched!Next, Sched!Fire

\* Steps of a fire that has claimed the row, of the claim, and of a turn that
\* ends: what they take of what may become an attempt pays for what they add.
LEMMA Trade ==
  ASSUME Sched!TypeOK, Sched!TypeOK', Credit, UNCHANGED <<occurred, lates>>,
         NEW dt \in 0..1, NEW da \in -1..1, NEW dz \in -1..1, NEW dg \in -1..1, NEW de \in 0..1,
         dt + da + dz + dg <= de,
         Sched!Attempts' <= Sched!Attempts + dt, Cardinality(Claimers') <= Cardinality(Claimers) + da,
         (IF Open' THEN 1 ELSE 0) <= (IF Open THEN 1 ELSE 0) + dz,
         Cardinality(Again') <= Cardinality(Again) + dg,
         Cardinality(FailedTurns') = Cardinality(FailedTurns) + de
  PROVE  Credit'
<1>1. PICK a \in Nat, a1 \in Nat : a = Cardinality(Claimers) /\ a1 = Cardinality(Claimers')
  BY Counted, Sets, SetsNext
<1>2. PICK g \in Nat, g1 \in Nat : g = Cardinality(Again) /\ g1 = Cardinality(Again')
  BY Counted, Sets, SetsNext
<1>3. PICK e \in Nat, e1 \in Nat : e = Cardinality(FailedTurns) /\ e1 = Cardinality(FailedTurns')
  BY Counted, Sets, SetsNext
<1>4. PICK t \in Nat, t1 \in Nat : t = Sched!Attempts /\ t1 = Sched!Attempts'
  <2>1. Cardinality(Sched!Made) \in Nat /\ Cardinality(Sched!Made') \in Nat
    BY Counted, Sets, SetsNext
  <2>2. sent \in Nat /\ sent' \in Nat
    BY DEF Sched!TypeOK
  <2>3. Sched!Attempts \in Nat /\ Sched!Attempts' \in Nat
    BY SchedCount, <2>1, <2>2 DEF Sched!Attempts
  <2> QED BY <2>3
<1>5. PICK z \in 0..1, z1 \in 0..1 : z = (IF Open THEN 1 ELSE 0) /\ z1 = (IF Open' THEN 1 ELSE 0)
  OBVIOUS
<1>6. PICK c \in Nat : c = occurred + lates
  <2>1. MaxOccurrences \in Nat /\ MaxLate \in Nat /\ occurred \in 0..MaxOccurrences /\ lates \in 0..MaxLate
    BY OutsideAssumption DEF Sched!TypeOK
  <2>2. occurred \in Nat /\ lates \in Nat
    BY <2>1
  <2>3. \A m, n \in Nat : m + n \in Nat
    OBVIOUS
  <2> QED BY <2>2, <2>3, Zenon
<1>7. t + a + z + g <= c + e
  BY <1>1, <1>2, <1>3, <1>4, <1>5, <1>6 DEF Credit
<1>8. t1 <= t + dt /\ a1 <= a + da /\ z1 <= z + dz /\ g1 <= g + dg /\ e1 = e + de
  BY <1>1, <1>2, <1>3, <1>4, <1>5
<1>9. t1 + a1 + z1 + g1 <= c + e1
  BY <1>7, <1>8
<1>10. occurred' + lates' = c
  BY <1>6
<1> QED BY <1>1, <1>2, <1>3, <1>4, <1>5, <1>9, <1>10 DEF Credit

\* The turns made stay within what occurrences, lapses and failures pay for.
LEMMA CreditStep == Turning /\ Turning' /\ Credit /\ [Sched!Next]_(Sched!vars) => Credit'
<1> SUFFICES ASSUME Turning, Turning', Credit, [Sched!Next]_(Sched!vars) PROVE Credit'
  OBVIOUS
<1>0. Sched!TypeOK /\ Sched!TypeOK' /\ 0 \notin Sched!Turns
  BY OutsideAssumption DEF Turning, Sched!Turns
<1>n. occurred \in Nat /\ lates \in Nat
  <2>1. MaxOccurrences \in Nat /\ MaxLate \in Nat /\ occurred \in 0..MaxOccurrences /\ lates \in 0..MaxLate
    BY <1>0, OutsideAssumption DEF Sched!TypeOK
  <2> QED BY <2>1
<1>q. \A m \in Nat, n \in Nat : /\ m + n >= m + n /\ m + (n + 1) >= m + n + 1 /\ (m + 1) + n >= m + n + 1
  OBVIOUS
\* Steps that change no turn and send nothing.
<1>1. CASE Sched!Due
  <2>1. Again' \subseteq Again /\ Claimers' \subseteq Claimers /\ UNCHANGED <<turns, sent>>
    BY <1>1 DEF Sched!Due, Again, FailedTurns, Sched!Turned, Routed, Claimers
  <2>2. CASE next = "later"
    <3>1. occurred' = occurred + 1 /\ (lates' = lates + 1 \/ lates' = lates)
      BY <1>1, <2>2 DEF Sched!Due, Sched!Fault
    <3>2. occurred' + lates' >= occurred + lates + 1
      BY <1>n, <3>1
    <3> QED BY <1>0, <2>1, <3>2, Ledger
  <2>3. CASE next # "later" /\ \E f \in Fires : Sched!Loose(f)
    <3>1. occurred' = occurred /\ lates' = lates + 1
      BY <1>1, <2>3 DEF Sched!Due, Sched!Fault
    <3>2. occurred' + lates' >= occurred + lates + 1
      BY <1>n, <3>1
    <3> QED BY <1>0, <2>1, <3>2, Ledger
  <2>4. CASE next # "later" /\ ~\E f \in Fires : Sched!Loose(f)
    <3>1. occurred' = occurred /\ lates' = lates
      BY <1>1, <2>4 DEF Sched!Due
    <3>2. Open' => Open
      BY <1>0, <1>1, <2>4 DEF Sched!Due, Open, Sched!TypeOK
    <3>3. occurred' + lates' >= occurred + lates
      BY <1>n, <1>q, <3>1
    <3> QED BY <1>0, <2>1, <3>2, <3>3, Ledger
  <2> QED BY <2>2, <2>3, <2>4
<1>2. CASE Sched!ClaimRunning
  <2>1. Again' \subseteq Again /\ Claimers' \subseteq Claimers /\ UNCHANGED <<turns, sent>>
    BY <1>2, <1>0 DEF Sched!ClaimRunning, Again, FailedTurns, Sched!Turned, Routed, Claimers
  <2>2. (Open' => Open) /\ UNCHANGED <<occurred, lates>>
    BY <1>2, <1>0 DEF Sched!ClaimRunning, Open, Sched!Loose, Sched!TypeOK
  <2>3. occurred' + lates' >= occurred + lates
    BY <1>n, <1>q, <2>2
  <2> QED BY <1>0, <2>1, <2>2, <2>3, Ledger
<1>3. CASE Sched!ClaimDone
  <2>1. Again' \subseteq Again /\ Claimers' \subseteq Claimers /\ UNCHANGED <<turns, sent>>
    BY <1>3, <1>0 DEF Sched!ClaimDone, Sched!MoveOn, Again, FailedTurns, Sched!Turned, Routed,
       Claimers
  <2>2. (Open' => Open) /\ UNCHANGED <<occurred, lates>>
    BY <1>3, <1>0 DEF Sched!ClaimDone, Sched!MoveOn, Open, Sched!Loose, Sched!TypeOK
  <2>3. occurred' + lates' >= occurred + lates
    BY <1>n, <1>q, <2>2
  <2> QED BY <1>0, <2>1, <2>2, <2>3, Ledger
<1>4. CASE Sched!SetEnabled
  <2>1. Again' \subseteq Again /\ Claimers' \subseteq Claimers /\ UNCHANGED <<turns, sent>>
    BY <1>4, <1>0 DEF Sched!SetEnabled, Again, FailedTurns, Sched!Turned, Routed, Claimers
  <2>2. (Open' => Open) /\ UNCHANGED <<occurred, lates>>
    BY <1>4, <1>0 DEF Sched!SetEnabled, Open, Sched!Loose, Sched!TypeOK
  <2>3. occurred' + lates' >= occurred + lates
    BY <1>n, <1>q, <2>2
  <2> QED BY <1>0, <2>1, <2>2, <2>3, Ledger
<1>5. CASE Sched!Remove
  <2>1. Again' \subseteq Again /\ Claimers' \subseteq Claimers /\ UNCHANGED <<turns, sent>>
    BY <1>5, <1>0 DEF Sched!Remove, Again, FailedTurns, Sched!Turned, Routed, Claimers
  <2>2. (Open' => Open) /\ UNCHANGED <<occurred, lates>>
    BY <1>5, <1>0 DEF Sched!Remove, Open, Sched!Loose, Sched!TypeOK
  <2>3. occurred' + lates' >= occurred + lates
    BY <1>n, <1>q, <2>2
  <2> QED BY <1>0, <2>1, <2>2, <2>3, Ledger
<1>6. CASE Sched!Crash
  <2>1. Again' \subseteq Again /\ Claimers' \subseteq Claimers /\ UNCHANGED <<turns, sent>>
    BY <1>6, <1>0 DEF Sched!Crash, Sched!Fault, Sched!row, Sched!Idle, Again, FailedTurns,
       Sched!Turned, Routed, Claimers
  <2>2. occurred' = occurred /\ lates' = lates + 1
    BY <1>6 DEF Sched!Crash, Sched!Fault, Sched!row, Sched!Idle
  <2>3. occurred' + lates' >= occurred + lates + 1
    BY <1>n, <1>q, <2>2
  <2> QED BY <1>0, <2>1, <2>3, Ledger
<1>7. ASSUME NEW f \in Fires, Sched!Bind(f) PROVE Credit'
  <2>1. Again' \subseteq Again /\ Claimers' \subseteq Claimers /\ UNCHANGED <<turns, sent>>
    BY <1>7, <1>0 DEF Sched!Bind, Sched!Goto, Again, FailedTurns, Sched!Turned, Routed, Claimers
  <2>2. (Open' => Open) /\ UNCHANGED <<occurred, lates>>
    <3>1. CASE alive
      <4>1. active' # 0
        BY <1>7, <1>0, <3>1 DEF Sched!Bind, Turning, FiresHaveTurns
      <4> QED BY <1>7, <4>1 DEF Sched!Bind, Open
    <3>2. CASE ~alive
      BY <1>7, <3>2 DEF Sched!Bind, Open
    <3> QED BY <3>1, <3>2
  <2>3. occurred' + lates' >= occurred + lates
    BY <1>n, <1>q, <2>2
  <2> QED BY <1>0, <2>1, <2>2, <2>3, Ledger
<1>8. ASSUME NEW f \in Fires, Sched!Return(f) PROVE Credit'
  <2>1. Again' \subseteq Again /\ Claimers' \subseteq Claimers /\ UNCHANGED <<turns, sent>>
    BY <1>8, <1>0 DEF Sched!Return, Sched!Goto, Sched!row, Again, FailedTurns, Sched!Turned, Routed,
       Claimers
  <2>2. (Open' => Open) /\ UNCHANGED <<occurred, lates>>
    BY <1>8, <1>0 DEF Sched!Return, Sched!Goto, Sched!row, Open, Sched!Loose, Sched!TypeOK
  <2>3. occurred' + lates' >= occurred + lates
    BY <1>n, <1>q, <2>2
  <2> QED BY <1>0, <2>1, <2>2, <2>3, Ledger
<1>9. ASSUME NEW f \in Fires, Sched!Advance(f) PROVE Credit'
  <2>1. Again' \subseteq Again /\ Claimers' \subseteq Claimers /\ UNCHANGED <<turns, sent>>
    BY <1>9, <1>0 DEF Sched!Advance, Sched!MoveOn, Sched!Idle, Sched!row, Again, FailedTurns,
       Sched!Turned, Routed, Claimers
  <2>2. (Open' => Open) /\ UNCHANGED <<occurred, lates>>
    BY <1>9, <1>0 DEF Sched!Advance, Sched!MoveOn, Sched!Idle, Sched!row, Open, Sched!Loose,
       Sched!TypeOK
  <2>3. occurred' + lates' >= occurred + lates
    BY <1>n, <1>q, <2>2
  <2> QED BY <1>0, <2>1, <2>2, <2>3, Ledger
<1>10. ASSUME NEW f \in Fires, Sched!Pause(f) PROVE Credit'
  <2>1. Again' \subseteq Again /\ Claimers' \subseteq Claimers /\ UNCHANGED <<turns, sent>>
    BY <1>10, <1>0 DEF Sched!Pause, Sched!Fault, Sched!Goto, Sched!row, Again, FailedTurns,
       Sched!Turned, Routed, Claimers
  <2>2. occurred' = occurred /\ lates' = lates + 1
    BY <1>10 DEF Sched!Pause, Sched!Fault, Sched!Goto, Sched!row
  <2>3. occurred' + lates' >= occurred + lates + 1
    BY <1>n, <1>q, <2>2
  <2> QED BY <1>0, <2>1, <2>3, Ledger
<1>11. ASSUME NEW f \in Fires, Sched!Raise(f) PROVE Credit'
  <2>1. Again' \subseteq Again /\ Claimers' \subseteq Claimers /\ UNCHANGED <<turns, sent>>
    BY <1>11, <1>0 DEF Sched!Raise, Sched!Fault, Sched!Goto, Sched!row, Again, FailedTurns,
       Sched!Turned, Routed, Claimers
  <2>2. occurred' = occurred /\ lates' = lates + 1
    BY <1>11 DEF Sched!Raise, Sched!Fault, Sched!Goto, Sched!row
  <2>3. occurred' + lates' >= occurred + lates + 1
    BY <1>n, <1>q, <2>2
  <2> QED BY <1>0, <2>1, <2>3, Ledger
<1>12. CASE UNCHANGED Sched!vars
  <2>1. Again' = Again /\ Claimers' = Claimers /\ Open' = Open /\ UNCHANGED <<turns, sent, occurred, lates>>
    BY <1>12 DEF Sched!vars, Sched!row, Again, FailedTurns, Sched!Turned, Routed, Claimers, Open,
       Sched!Loose
  <2>2. occurred' + lates' >= occurred + lates
    BY <1>n, <1>q, <2>1
  <2> QED BY <1>0, <2>1, <2>2, Ledger
\* Steps that trade one for another.
<1>13. ASSUME NEW f \in Fires, Sched!Claim(f) PROVE Credit'
  <2>1. Sched!Attempts' = Sched!Attempts /\ FailedTurns' = FailedTurns /\ UNCHANGED <<occurred, lates>>
    BY SchedCount, <1>13 DEF Sched!Claim, Sched!Attempts, Sched!Made, FailedTurns, Sched!Turned
  <2>2. Claimers' \subseteq Claimers \cup {f}
    BY <1>13, <1>0 DEF Sched!Claim, Sched!Goto, Claimers, Sched!TypeOK
  <2>3. Cardinality(Claimers') <= Cardinality(Claimers) + 1
    BY <2>2, Counted, Sets, Grows
  <2>4. ~Open'
    BY <1>13, <1>0 DEF Sched!Claim, Sched!Goto, Open, Sched!Loose, Sched!TypeOK
  <2>7. Sched!Attempts' <= Sched!Attempts + 0 /\ Cardinality(FailedTurns') = Cardinality(FailedTurns) + 0
    <3>1. Cardinality(Sched!Made) \in Nat /\ sent \in Nat /\ Cardinality(FailedTurns) \in Nat
      BY <1>0, Counted, Sets DEF Sched!TypeOK
    <3> QED BY SchedCount, <2>1, <3>1 DEF Sched!Attempts
  <2>5. CASE active = 0
    <3>1. Open
      BY <1>13, <2>5 DEF Sched!Claim, Sched!IsDue, Open
    <3>2. Again' \subseteq Again
      BY <1>13, <1>0 DEF Sched!Claim, Sched!Goto, Again, FailedTurns, Sched!Turned, Routed,
         Sched!TypeOK
    <3>3. Cardinality(Again') <= Cardinality(Again) + 0
      BY <3>2, Counted, Sets, FS_Subset
    <3>4. (IF Open' THEN 1 ELSE 0) <= (IF Open THEN 1 ELSE 0) + (-1)
      BY <2>4, <3>1
    <3> QED BY <1>0, <2>1, <2>3, <2>7, <3>3, <3>4, Trade
  <2>6. CASE active # 0
    <3>1. active \in Again
      BY <1>13, <1>0, <2>6, OutsideAssumption DEF Sched!Claim, Again, FailedTurns, Sched!Turned,
         Sched!TypeOK, Sched!Turns
    <3>2. Again' \subseteq Again \ {active}
      BY <1>13, <1>0 DEF Sched!Claim, Sched!Goto, Again, FailedTurns, Sched!Turned, Routed, Turning,
         OwnTurns, Sched!TypeOK
    <3>3. Cardinality(Again') + 1 <= Cardinality(Again) /\ Cardinality(Again') \in Nat /\ Cardinality(Again) \in Nat
      BY <3>1, <3>2, Counted, Sets, Shrinks
    <3>4. Cardinality(Again') <= Cardinality(Again) + (-1)
      BY <3>3
    <3>5. (IF Open' THEN 1 ELSE 0) <= (IF Open THEN 1 ELSE 0) + 0
      BY <2>4
    <3> QED BY <1>0, <2>1, <2>3, <2>7, <3>4, <3>5, Trade
  <2> QED BY <2>5, <2>6
<1>14. ASSUME NEW f \in Fires, Sched!BotMissing(f) \/ Sched!Send(f) PROVE Credit'
  <2>1. FailedTurns' = FailedTurns /\ Sched!Made' = Sched!Made /\ UNCHANGED <<occurred, lates>>
    BY <1>14 DEF Sched!BotMissing, Sched!Send, Sched!Made, FailedTurns, Sched!Turned
  <2>2. f \in Claimers /\ Claimers' \subseteq Claimers \ {f}
    BY <1>14, <1>0 DEF Sched!BotMissing, Sched!Send, Sched!Goto, Sched!Idle, Claimers, Sched!TypeOK
  <2>3. Cardinality(Claimers') + 1 <= Cardinality(Claimers) /\ Cardinality(Claimers') \in Nat /\ Cardinality(Claimers) \in Nat
    BY <2>2, Counted, Sets, Shrinks
  <2>4. Cardinality(Claimers') <= Cardinality(Claimers) + (-1)
    BY <2>3
  <2>5. Again' \subseteq Again
    BY <1>14, <1>0 DEF Sched!BotMissing, Sched!Send, Sched!Goto, Sched!Idle, Sched!row, Again,
       FailedTurns, Sched!Turned, Routed, Sched!TypeOK
  <2>6. Cardinality(Again') <= Cardinality(Again) + 0
    BY <2>5, Counted, Sets, FS_Subset
  <2>7. Cardinality(FailedTurns') = Cardinality(FailedTurns) + 0
    BY <2>1, Counted, Sets
  <2>8. Cardinality(Sched!Made) \in Nat /\ sent \in Nat
    BY <1>0, Counted, Sets DEF Sched!TypeOK
  <2>9. CASE Sched!BotMissing(f)
    <3>1. Sched!Attempts' <= Sched!Attempts + 0
      BY SchedCount, <2>1, <2>8, <2>9 DEF Sched!BotMissing, Sched!Attempts
    <3>2. (IF Open' THEN 1 ELSE 0) <= (IF Open THEN 1 ELSE 0) + 1
      OBVIOUS
    <3> QED BY <1>0, <2>1, <2>4, <2>6, <2>7, <3>1, <3>2, Trade
  <2>10. CASE Sched!Send(f)
    <3>1. Sched!Attempts' <= Sched!Attempts + 1
      BY SchedCount, <2>1, <2>8, <2>10 DEF Sched!Send, Sched!Attempts
    <3>2. Open' => Open
      BY <2>10, <1>0 DEF Sched!Send, Sched!Goto, Sched!row, Open, Sched!Loose, Sched!TypeOK
    <3>3. (IF Open' THEN 1 ELSE 0) <= (IF Open THEN 1 ELSE 0) + 0
      BY <3>2
    <3> QED BY <1>0, <2>1, <2>4, <2>6, <2>7, <3>1, <3>3, Trade
  <2> QED BY <1>14, <2>9, <2>10
<1>15. ASSUME NEW f \in Fires, Sched!Route(f) PROVE Credit'
  <2>1. PICK n \in Sched!Turns :
            /\ turns[n] = "none"
            /\ turns' = [turns EXCEPT ![n] = "running"]
            /\ fires' = [fires EXCEPT ![f] = [pc |-> "routed", turn |-> n]]
            /\ fires[f].pc = "claimed" /\ UNCHANGED <<Sched!row, sent, occurred, lates>>
    BY <1>15 DEF Sched!Route
  <2>2. Sched!Made' \subseteq Sched!Made \cup {n} /\ FailedTurns' = FailedTurns
    BY <1>0, <2>1 DEF Sched!Made, FailedTurns, Sched!Turned, Sched!TypeOK
  <2>3. Cardinality(Sched!Made') <= Cardinality(Sched!Made) + 1 /\ Cardinality(Sched!Made) \in Nat /\ Cardinality(Sched!Made') \in Nat
    BY <2>2, Counted, Sets, Grows
  <2>4. Sched!Attempts' <= Sched!Attempts + 1
    <3>1. sent \in Nat /\ sent' = sent
      BY <1>0, <2>1 DEF Sched!TypeOK
    <3> QED BY SchedCount, <2>3, <3>1 DEF Sched!Attempts
  <2>5. f \in Claimers /\ Claimers' \subseteq Claimers \ {f}
    BY <1>0, <2>1 DEF Claimers, Sched!TypeOK
  <2>6. Cardinality(Claimers') + 1 <= Cardinality(Claimers) /\ Cardinality(Claimers') \in Nat /\ Cardinality(Claimers) \in Nat
    BY <2>5, Counted, Sets, Shrinks
  <2>7. Cardinality(Claimers') <= Cardinality(Claimers) + (-1)
    BY <2>6
  <2>8. Again' \subseteq Again
    BY <1>0, <2>1 DEF Sched!row, Again, FailedTurns, Sched!Turned, Routed, Sched!TypeOK
  <2>9. Cardinality(Again') <= Cardinality(Again) + 0
    BY <2>8, Counted, Sets, FS_Subset
  <2>10. Cardinality(FailedTurns') = Cardinality(FailedTurns) + 0
    BY <2>2, Counted, Sets
  <2>11. Open' => Open
    BY <1>0, <2>1 DEF Sched!row, Open, Sched!Loose, Sched!TypeOK
  <2>12. (IF Open' THEN 1 ELSE 0) <= (IF Open THEN 1 ELSE 0) + 0
    BY <2>11
  <2> QED BY <1>0, <2>1, <2>4, <2>7, <2>9, <2>10, <2>12, Trade
<1>16. ASSUME NEW n \in Sched!Turns, Sched!TurnEnds(n) PROVE Credit'
  <2>1. PICK s \in {"done", "failed"} :
            /\ turns[n] = "running" /\ turns' = [turns EXCEPT ![n] = s]
            /\ UNCHANGED <<Sched!row, fires, sent, occurred, lates>>
    BY <1>16 DEF Sched!TurnEnds
  <2>2. Sched!Made' = Sched!Made /\ Claimers' = Claimers
    BY <1>0, <2>1 DEF Sched!Made, Claimers, Sched!Turned, Sched!TypeOK
  <2>3. Sched!Attempts' <= Sched!Attempts + 0 /\ Cardinality(Claimers') <= Cardinality(Claimers) + 0
    <3>1. Cardinality(Sched!Made) \in Nat /\ sent \in Nat /\ Cardinality(Claimers) \in Nat
      BY <1>0, Counted, Sets DEF Sched!TypeOK
    <3> QED BY SchedCount, <2>1, <2>2, <3>1 DEF Sched!Attempts
  <2>4. Open' => Open
    BY <1>0, <2>1 DEF Sched!row, Open, Sched!Loose, Sched!TypeOK, Turning, FiresHaveTurns
  <2>5. (IF Open' THEN 1 ELSE 0) <= (IF Open THEN 1 ELSE 0) + 0
    BY <2>4
  <2>6. CASE s = "done"
    <3>1. FailedTurns' = FailedTurns /\ Again' \subseteq Again
      BY <1>0, <2>1, <2>6 DEF Sched!row, Again, FailedTurns, Sched!Turned, Routed, Sched!TypeOK
    <3>2. Cardinality(FailedTurns') = Cardinality(FailedTurns) + 0 /\ Cardinality(Again') <= Cardinality(Again) + 0
      BY <3>1, Counted, Sets, FS_Subset
    <3> QED BY <1>0, <2>1, <2>3, <2>5, <3>2, Trade
  <2>7. CASE s = "failed"
    <3>1. FailedTurns' = FailedTurns \cup {n} /\ n \notin FailedTurns /\ Again' \subseteq Again \cup {n}
      BY <1>0, <2>1, <2>7 DEF Sched!row, Again, FailedTurns, Sched!Turned, Routed, Sched!TypeOK
    <3>2. Cardinality(FailedTurns') = Cardinality(FailedTurns) + 1
      BY <3>1, Counted, Sets, FS_AddElement
    <3>3. Cardinality(Again') <= Cardinality(Again) + 1
      BY <3>1, Counted, Sets, Grows
    <3> QED BY <1>0, <2>1, <2>3, <2>5, <3>2, <3>3, Trade
  <2> QED BY <2>6, <2>7
<1> QED BY <1>1, <1>2, <1>3, <1>4, <1>5, <1>6, <1>7, <1>8, <1>9, <1>10, <1>11, <1>12, <1>13, <1>14,
   <1>15, <1>16 DEF Sched!Next, Sched!Fire

\* Without a lapse and a failed turn there is one fire at a time.
LEMMA OneStep ==
  Turning /\ Turning' /\ lates' = 0 /\ FailedTurns' = {}
  /\ (lates = 0 /\ FailedTurns = {} => OneAtATime) /\ [Sched!Next]_(Sched!vars) => OneAtATime'
<1> SUFFICES ASSUME Turning, Turning', lates' = 0, FailedTurns' = {},
                    lates = 0 /\ FailedTurns = {} => OneAtATime, [Sched!Next]_(Sched!vars)
             PROVE  OneAtATime'
  OBVIOUS
<1>0. Sched!TypeOK /\ Sched!TypeOK' /\ 0 \notin Sched!Turns
  BY OutsideAssumption DEF Turning, Sched!Turns
<1>n. lates \in Nat
  <2>1. MaxLate \in Nat /\ lates \in 0..MaxLate
    BY <1>0, OutsideAssumption DEF Sched!TypeOK
  <2> QED BY <2>1
<1>f. ~Sched!Fault /\ lates = 0
  <2>1. \/ lates' = lates \/ lates' = lates + 1
    BY DEF Sched!Next, Sched!Fire, Sched!vars, Sched!row, Sched!Due, Sched!Fault,
       Sched!ClaimRunning, Sched!ClaimDone, Sched!Crash, Sched!SetEnabled, Sched!Remove,
       Sched!Claim, Sched!BotMissing, Sched!Send, Sched!Route, Sched!Bind, Sched!Return,
       Sched!Advance, Sched!Pause, Sched!Raise, Sched!TurnEnds
  <2> QED BY <1>n, <2>1 DEF Sched!Fault
<1>g. FailedTurns = {}
  <2>1. \A n \in Sched!Turns : turns[n] = "failed" => turns'[n] = "failed"
    BY <1>0 DEF Sched!Next, Sched!Fire, Sched!vars, Sched!row, Sched!Due, Sched!Fault,
       Sched!ClaimRunning, Sched!ClaimDone, Sched!Crash, Sched!SetEnabled, Sched!Remove,
       Sched!Claim, Sched!BotMissing, Sched!Send, Sched!Route, Sched!Bind, Sched!Return,
       Sched!Advance, Sched!Pause, Sched!Raise, Sched!TurnEnds, Sched!TypeOK
  <2> QED BY <2>1 DEF FailedTurns, Sched!Turned
<1>h. OneAtATime
  BY <1>f, <1>g
<1>t. \A n \in Sched!Turns : turns[n] # "failed" /\ turns'[n] # "failed"
  BY <1>g DEF FailedTurns, Sched!Turned
<1> USE <1>0, <1>h, <1>t DEF OneAtATime, Sched!TypeOK, Sched!Loose, Has
<1>1. CASE Sched!Due
  BY <1>1, <1>f DEF Sched!Due, Sched!Running, Sched!Turned
<1>2. CASE Sched!ClaimRunning
  BY <1>2, <1>f DEF Sched!ClaimRunning, Sched!IsDue, Sched!Running, Sched!Turned
<1>3. CASE Sched!ClaimDone
  BY <1>3, <1>f DEF Sched!ClaimDone, Sched!IsDue, Sched!MoveOn, Sched!Running, Sched!Turned
<1>4. CASE Sched!SetEnabled
  BY <1>4, <1>f DEF Sched!SetEnabled, Sched!Running, Sched!Turned
<1>5. CASE Sched!Remove
  BY <1>5, <1>f DEF Sched!Remove, Sched!Running, Sched!Turned
<1>6. ASSUME NEW f \in Fires, Sched!Claim(f) PROVE OneAtATime'
  <2>1. alive /\ next = "due" /\ active = 0
    BY <1>6 DEF Sched!Claim, Sched!IsDue, Sched!Turns
  <2>2. \A g \in Fires : fires[g].pc = "idle"
    BY <2>1 DEF Turning, FiresHaveTurns
  <2>3. fires' = [fires EXCEPT ![f].pc = "claimed"] /\ next' = "leased" /\ turns' = turns
    BY <1>6 DEF Sched!Claim, Sched!Goto
  <2>4. \A g \in Fires : fires'[g].pc # "idle" => g = f /\ fires'[g].pc = "claimed"
    BY <2>2, <2>3
  <2>5. Sched!Running' = {}
    <3>1. Sched!Running = {}
      BY <2>2
    <3> QED BY <2>3, <3>1 DEF Sched!Running, Sched!Turned
  <2> QED BY <2>3, <2>4, <2>5
<1>7. ASSUME NEW f \in Fires, Sched!BotMissing(f) PROVE OneAtATime'
  BY <1>7, <1>f DEF Sched!BotMissing, Sched!Idle, Sched!Running, Sched!Turned
<1>8. ASSUME NEW f \in Fires, Sched!Send(f) PROVE OneAtATime'
  BY <1>8, <1>f DEF Sched!Send, Sched!Goto, Sched!row, Sched!Running, Sched!Turned
<1>9. ASSUME NEW f \in Fires, Sched!Route(f) PROVE OneAtATime'
  BY <1>9, <1>f DEF Sched!Route, Sched!row, Sched!Running, Sched!Turned
<1>10. ASSUME NEW f \in Fires, Sched!Bind(f) PROVE OneAtATime'
  <2>1. /\ fires[f].pc = "routed" /\ fires' = [fires EXCEPT ![f].pc = "running"]
        /\ UNCHANGED <<turns, alive, next>> /\ (alive => active' = fires[f].turn)
    BY <1>10 DEF Sched!Bind, Sched!Goto
  <2>2. \A g \in Fires : fires[g].pc # "idle" => g = f
    BY <2>1
  <2>3. /\ fires'[f].pc = "running" /\ fires'[f].turn = fires[f].turn
        /\ \A g \in Fires : g # f => fires'[g].pc = "idle"
    BY <2>1, <2>2
  <2>4. alive => next # "due" \/ active # 0
    BY <2>1
  <2>5. fires[f].turn \in Sched!Turns
    BY <2>1 DEF Turning, FiresHaveTurns
  <2>6. turns[fires[f].turn] # "running" => turns[fires[f].turn] = "done"
    BY <2>1, <2>5 DEF Turning, FiresHaveTurns
  <2>7. \A g \in Fires : alive' /\ Sched!Loose(g)' =>
           next' # "due" \/ (active' # 0 /\ turns'[active'] = "done")
    BY <2>1, <2>3, <2>5, <2>6
  <2>8. \A g \in Fires : alive' /\ fires'[g].pc = "running" /\ ~Sched!Loose(g)' => active' = fires'[g].turn
    BY <2>1, <2>3
  <2>9. \A n \in Sched!Running' : \E g \in Fires : Has(g, n)'
    BY <2>1, <2>3 DEF Sched!Running, Sched!Turned
  <2> QED BY <2>3, <2>7, <2>8, <2>9
<1>11. ASSUME NEW f \in Fires, Sched!Return(f) PROVE OneAtATime'
  BY <1>11, <1>f DEF Sched!Return, Sched!Goto, Sched!row, Sched!Running, Sched!Turned
<1>12. ASSUME NEW f \in Fires, Sched!Advance(f) PROVE OneAtATime'
  BY <1>12, <1>f DEF Sched!Advance, Sched!MoveOn, Sched!Idle, Sched!row, Sched!Running, Sched!Turned
<1>13. ASSUME NEW n \in Sched!Turns, Sched!TurnEnds(n) PROVE OneAtATime'
  BY <1>13, <1>f DEF Sched!TurnEnds, Sched!row, Sched!Running, Sched!Turned
<1>14. CASE UNCHANGED Sched!vars
  BY <1>14 DEF Sched!vars, Sched!row, Sched!Running, Sched!Turned
<1>15. ASSUME NEW f \in Fires PROVE ~Sched!Pause(f) /\ ~Sched!Raise(f) /\ ~Sched!Crash
  BY <1>f DEF Sched!Pause, Sched!Raise, Sched!Crash
<1>16. ~Sched!Crash
  BY <1>f DEF Sched!Crash
<1> QED BY <1>1, <1>2, <1>3, <1>4, <1>5, <1>6, <1>7, <1>8, <1>9, <1>10, <1>11, <1>12, <1>13, <1>14,
   <1>15, <1>16 DEF Sched!Next, Sched!Fire

\* The invariant of the scheduler, after every step.
LEMMA SchStep == SchIInv /\ [Sched!Next]_(Sched!vars) => SchIInv'
<1> SUFFICES ASSUME SchIInv, [Sched!Next]_(Sched!vars) PROVE SchIInv'
  OBVIOUS
<1>1. Turning /\ Turning'
  BY TurningStep DEF SchIInv, Turning
<1>2. Credit'
  BY <1>1, CreditStep DEF SchIInv
<1>3. lates' = 0 /\ FailedTurns' = {} => OneAtATime'
  BY <1>1, OneStep DEF SchIInv
<1> QED BY <1>1, <1>2, <1>3 DEF SchIInv, Turning

\* Scheduler: once per occurrence, and in parallel after a fault only.
LEMMA SchTruth == SchIInv => Sched!TypeOK /\ Sched!OncePerOccurrence /\ Sched!ParallelOnlyAfterFault
<1> SUFFICES ASSUME SchIInv PROVE Sched!OncePerOccurrence /\ Sched!ParallelOnlyAfterFault
  BY DEF SchIInv
<1>1. Sched!OncePerOccurrence
  <2>1. PICK a \in Nat, g \in Nat, e \in Nat, m \in Nat :
            a = Cardinality(Claimers) /\ g = Cardinality(Again) /\ e = Cardinality(FailedTurns) /\ m = Cardinality(Sched!Made)
    BY Counted, Sets
  <2>2. PICK z \in 0..1 : z = (IF Open THEN 1 ELSE 0)
    OBVIOUS
  <2>3. MaxOccurrences \in Nat /\ MaxLate \in Nat /\ occurred \in 0..MaxOccurrences
        /\ lates \in 0..MaxLate /\ sent \in Nat
    BY OutsideAssumption DEF SchIInv, Sched!TypeOK
  <2>4. occurred \in Nat /\ lates \in Nat
    BY <2>3
  <2>5. (m + sent) + a + z + g <= occurred + lates + e
    BY SchedCount, <2>1, <2>2 DEF SchIInv, Credit, Sched!Attempts
  <2>6. m + sent <= occurred + lates + e
    BY <2>2, <2>3, <2>4, <2>5
  <2> QED BY SchedCount, <2>1, <2>6 DEF Sched!OncePerOccurrence, Sched!Attempts, FailedTurns
<1>2. ASSUME lates = 0, FailedTurns = {} PROVE Cardinality(Sched!Running) <= 1
  <2>1. OneAtATime
    BY <1>2 DEF SchIInv
  <2>2. CASE Sched!Running = {}
    BY <2>2, FS_EmptySet
  <2>3. CASE Sched!Running # {}
    <3>1. PICK n \in Sched!Running : TRUE
      BY <2>3
    <3>2. \A m \in Sched!Running : m = n
      BY <2>1, <3>1 DEF OneAtATime, Has
    <3>3. Sched!Running = {n}
      BY <3>1, <3>2
    <3> QED BY <3>3, FS_Singleton
  <2> QED BY <2>2, <2>3
<1> QED BY SchedCount, <1>1, <1>2 DEF Sched!ParallelOnlyAfterFault, FailedTurns

-----------------------------------------------------------------------------
(* Watches (module Watches).                                                *)
Busy(d) == dog[d].pc # "idle"

\* A watch that failed too often is off; its fails stop there.
Bounded == wrow.there /\ wrow.fails >= MaxFails => ~wrow.enabled

\* Without a mishap one watchdog has the row, and it is not due meanwhile.
OneBusy ==
    /\ \A d, e \in Dogs : Busy(d) /\ Busy(e) => d = e
    /\ \A d \in Dogs : Busy(d) => wrow.next # "due"

\* What the row says, as a number of notices.
Alerts(b) == IF b THEN 1 ELSE 0

\* What the chat was told, and what the watchdog at work has still to tell.
ToTell ==
    wrow.there =>
        /\ \A d \in Dogs :
            /\ dog[d].pc \in {"claimed", "ran", "alert"} =>
                   dog[d].alerting = wrow.alerting
            /\ dog[d].pc = "notify" =>
                   /\ wrow.alerting = dog[d].fires
                   /\ dog[d].fires # dog[d].alerting
                   /\ wasTold = Alerts(dog[d].alerting)
        /\ (\A d \in Dogs : dog[d].pc # "notify") => wasTold = Alerts(wrow.alerting)

\* How often the watch has failed, and that the chat knows when it is off.
Failures ==
    wrow.there =>
        /\ wrow.fails <= MaxFails
        /\ \A d \in Dogs : dog[d].pc \in {"claimed", "ran", "alert", "notify"} =>
               wrow.fails < MaxFails
        /\ wrow.fails = MaxFails /\ (\A d \in Dogs : dog[d].pc # "check") => toldDisabled

DogIInv ==
    /\ Dog!TypeOK /\ Bounded
    /\ mishaps = 0 => OneBusy /\ ToTell /\ Failures

\* All of it holds before the first beat of a watch.
LEMMA DogInit == Dog!Init => DogIInv
<1> SUFFICES ASSUME Dog!Init PROVE DogIInv
  OBVIOUS
<1>1. \A d \in Dogs : dog[d].pc = "idle"
  BY DEF Dog!Init, Dog!Idle
<1>2. wrow.fails = 0 /\ wrow.there /\ ~wrow.alerting /\ wasTold = 0
  BY DEF Dog!Init, Dog!Added
<1>3. Dog!TypeOK
  <2>1. dog \in [Dogs -> [pc : Dog!Pcs, alerting : BOOLEAN, last : Outputs \cup {NoOutput},
                         output : Outputs \cup {NoOutput}, fires : BOOLEAN]]
    BY DEF Dog!Init, Dog!Idle, Dog!Pcs
  <2>2. wrow \in [there : BOOLEAN, enabled : BOOLEAN, alerting : BOOLEAN,
                 last : Outputs \cup {NoOutput}, fails : Nat, next : {"due", "leased", "later"}]
    BY DEF Dog!Init, Dog!Added
  <2>3. wasTold \in Int /\ toldDisabled \in BOOLEAN
    <3>1. wasTold \in Int
      BY DEF Dog!Init
    <3>2. toldDisabled \in BOOLEAN
      BY Zenon DEF Dog!Init
    <3> QED BY <3>1, <3>2
  <2>4. mishaps \in 0..MaxMishaps
    <3>1. MaxMishaps \in Nat /\ mishaps = 0
      BY OutsideAssumption DEF Dog!Init
    <3> QED BY <3>1
  <2> QED BY <2>1, <2>2, <2>3, <2>4 DEF Dog!TypeOK
<1> QED BY <1>1, <1>2, <1>3, OutsideAssumption DEF DogIInv, Bounded, OneBusy, ToTell, Failures,
   Busy, Alerts

\* Evaluate has a truth value for every condition that parse accepts.
LEMMA Evaluates ==
  ASSUME Dog!Parses(Condition), NEW o \in Outputs, NEW previous
  PROVE  Dog!Evaluate(Condition, o, previous) \in BOOLEAN
<1>1. \A op \in {"==", "!=", ">", "<", ">=", "<="}, l \in Int, r \in Int : Dog!Compare(op, l, r) \in BOOLEAN
  <2>1. \A l \in Int, r \in Int : (l > r) \in BOOLEAN /\ (l < r) \in BOOLEAN /\ (l >= r) \in BOOLEAN /\ (l <= r) \in BOOLEAN
    BY SMT
  <2> TAKE op \in {"==", "!=", ">", "<", ">=", "<="}, l \in Int, r \in Int
  <2>2. CASE op = "=="
    <3>1. Dog!Compare(op, l, r) = (l = r)
      BY <2>2 DEF Dog!Compare
    <3>2. (l = r) \in BOOLEAN
      BY Zenon
    <3> QED BY <3>1, <3>2, Zenon
  <2>3. CASE op = "!="
    <3>1. Dog!Compare(op, l, r) = (l # r)
      BY <2>3 DEF Dog!Compare
    <3>2. (l # r) \in BOOLEAN
      BY Zenon
    <3> QED BY <3>1, <3>2, Zenon
  <2>4. CASE op = ">"
    <3>1. Dog!Compare(op, l, r) = (l > r)
      BY <2>4 DEF Dog!Compare
    <3> QED BY <3>1, <2>1, Zenon
  <2>5. CASE op = "<"
    <3>1. Dog!Compare(op, l, r) = (l < r)
      BY <2>5 DEF Dog!Compare
    <3> QED BY <3>1, <2>1, Zenon
  <2>6. CASE op = ">="
    <3>1. Dog!Compare(op, l, r) = (l >= r)
      BY <2>6 DEF Dog!Compare
    <3> QED BY <3>1, <2>1, Zenon
  <2>7. CASE op = "<="
    <3>1. Dog!Compare(op, l, r) = (l <= r)
      BY <2>7 DEF Dog!Compare
    <3> QED BY <3>1, <2>1, Zenon
  <2> QED BY <2>2, <2>3, <2>4, <2>5, <2>6, <2>7
<1>2. CASE Condition.kind \in {"exit", "number"}
  <2>1. /\ Dog!Compare(Condition.operator, o.exit, Condition.number) \in BOOLEAN
        /\ Dog!Compare(Condition.operator, o.number, Condition.number) \in BOOLEAN
    BY <1>1, <1>2, OutsideAssumption DEF Dog!Parses
  <2>2. CASE Condition.kind = "exit"
    BY <2>1, <2>2 DEF Dog!Evaluate
  <2>3. CASE Condition.kind = "number"
    BY <2>1, <2>3 DEF Dog!Evaluate
  <2> QED BY <1>2, <2>2, <2>3
<1>3. CASE Condition.kind \in {"changed", "always"}
  BY <1>3 DEF Dog!Evaluate
<1>4. CASE Condition.kind \in {"empty", "not_empty"}
  BY <1>4 DEF Dog!Evaluate
<1>5. CASE Condition.kind \in {"contains", "not_contains", "matches"}
  <2>1. CASE Condition.kind = "not_contains"
    BY <2>1 DEF Dog!Evaluate
  <2>2. CASE Condition.kind = "contains"
    BY <2>2 DEF Dog!Evaluate
  <2>3. CASE Condition.kind = "matches"
    BY <2>3 DEF Dog!Evaluate
  <2> QED BY <1>5, <2>1, <2>2, <2>3
<1> QED BY <1>2, <1>3, <1>4, <1>5 DEF Dog!Parses

\* The row after _reschedule.
LEMMA Reschedules ==
  ASSUME Dog!TypeOK, Bounded, NEW fell \in BOOLEAN, NEW output \in Outputs \cup {NoOutput},
         wrow' = Dog!Rescheduled(fell, output)
  PROVE  /\ wrow' \in [there : BOOLEAN, enabled : BOOLEAN, alerting : BOOLEAN,
                        last : Outputs \cup {NoOutput}, fails : Nat, next : {"due", "leased", "later"}]
         /\ Bounded'
         /\ wrow'.there = wrow.there /\ wrow'.alerting = wrow.alerting
         /\ wrow.there => /\ wrow'.next = "later"
                          /\ wrow'.fails = IF fell THEN wrow.fails + 1 ELSE 0
         /\ ~wrow.there => wrow' = wrow
<1> USE OutsideAssumption DEF Dog!Rescheduled, Dog!TypeOK, Bounded
<1>1. CASE ~wrow.there
  BY <1>1
<1>2. CASE wrow.there
  <2> DEFINE fails == IF fell THEN wrow.fails + 1 ELSE 0
  <2>1. fails \in Nat
    OBVIOUS
  <2>2. wrow' = [wrow EXCEPT !.fails = fails, !.last = IF output = NoOutput THEN @ ELSE output,
                          !.next = "later", !.enabled = @ /\ fails < MaxFails]
    BY <1>2
  <2>3. (wrow.enabled /\ fails < MaxFails) \in BOOLEAN
    OBVIOUS
  <2> HIDE DEF fails
  <2>4. /\ wrow'.fails = fails /\ wrow'.next = "later" /\ wrow'.there = wrow.there
        /\ wrow'.alerting = wrow.alerting /\ wrow'.enabled = (wrow.enabled /\ fails < MaxFails)
        /\ wrow'.last \in Outputs \cup {NoOutput}
    BY <2>2
  <2>5. wrow' \in [there : BOOLEAN, enabled : BOOLEAN, alerting : BOOLEAN,
                   last : Outputs \cup {NoOutput}, fails : Nat, next : {"due", "leased", "later"}]
    BY <2>1, <2>2, <2>3
  <2>6. Bounded'
    <3>1. wrow'.there /\ wrow'.fails >= MaxFails => ~wrow'.enabled
      <4> SUFFICES ASSUME fails >= MaxFails PROVE ~wrow'.enabled
        BY <2>4
      <4>1. ~(fails < MaxFails)
        BY <2>1
      <4> QED BY <2>4, <4>1, Zenon
    <3> QED BY <3>1
  <2> QED BY <1>2, <2>4, <2>5, <2>6 DEF fails
<1> QED BY <1>1, <1>2

\* A watch in hand moves on while the others rest: still one at most is in hand.
LEMMA OneMoves ==
  ASSUME OneBusy, NEW d \in Dogs, dog[d].pc # "idle",
         \A e \in Dogs : e # d => dog[e].pc = dog'[e].pc,
         wrow'.next = "later" \/ wrow'.next = wrow.next
  PROVE  OneBusy'
<1>1. \A e \in Dogs : Busy(e)' => e = d
  BY DEF OneBusy, Busy
<1>2. wrow'.next # "due"
  BY DEF OneBusy, Busy
<1> QED BY <1>1, <1>2 DEF OneBusy

\* The place of a watch changes, and the row of watches is written anew.
LEMMA SetTyped ==
  ASSUME Dog!TypeOK, NEW d \in Dogs, NEW pc \in Dog!Pcs, Dog!Set(d, pc),
         wrow' \in [there : BOOLEAN, enabled : BOOLEAN, alerting : BOOLEAN,
                   last : Outputs \cup {NoOutput}, fails : Nat, next : {"due", "leased", "later"}],
         UNCHANGED <<wasTold, toldDisabled, mishaps>>
  PROVE  Dog!TypeOK'
<1>1. dog' \in [Dogs -> [pc : Dog!Pcs, alerting : BOOLEAN, last : Outputs \cup {NoOutput},
                        output : Outputs \cup {NoOutput}, fires : BOOLEAN]]
  BY DEF Dog!TypeOK, Dog!Set
<1>2. wasTold' \in Int /\ toldDisabled' \in BOOLEAN
  BY DEF Dog!TypeOK
<1>3. mishaps' \in 0..MaxMishaps
  BY DEF Dog!TypeOK
<1> QED BY <1>1, <1>2, <1>3 DEF Dog!TypeOK

\* What a watch owes its chat is kept by every step.
LEMMA DogStep == DogIInv /\ [Dog!Next]_(Dog!watchVars) => DogIInv'
<1> SUFFICES ASSUME DogIInv, [Dog!Next]_(Dog!watchVars) PROVE DogIInv'
  OBVIOUS
<1> USE OutsideAssumption DEF DogIInv, Dog!TypeOK, Dog!Pcs
<1>1. CASE Dog!Due
  <2>1. Dog!TypeOK'
    BY <1>1 DEF Dog!Due, Dog!Mishap
  <2>2. Bounded'
    BY <1>1 DEF Dog!Due, Dog!Mishap, Bounded
  <2>3. ASSUME mishaps' = 0 PROVE mishaps = 0 /\ OneBusy' /\ ToTell' /\ Failures'
    <3>1. mishaps = 0 /\ OneBusy /\ ToTell /\ Failures
      BY <1>1, <2>3 DEF Dog!Due, Dog!Mishap
    <3>2. OneBusy'
      BY <1>1, <2>3, <3>1 DEF Dog!Due, Dog!Mishap, OneBusy, Busy
    <3>3. ToTell'
      BY <1>1, <2>3, <3>1 DEF Dog!Due, Dog!Mishap, OneBusy, Busy, ToTell, Alerts
    <3>4. Failures'
      BY <1>1, <2>3, <3>1 DEF Dog!Due, Dog!Mishap, OneBusy, Busy, Failures, Bounded
    <3> QED BY <3>1, <3>2, <3>3, <3>4
  <2> QED BY <2>1, <2>2, <2>3
<1>2. CASE Dog!Pause
  <2>1. Dog!TypeOK'
    BY <1>2 DEF Dog!Pause
  <2>2. Bounded'
    BY <1>2 DEF Dog!Pause, Bounded
  <2>3. ASSUME mishaps' = 0 PROVE mishaps = 0 /\ OneBusy' /\ ToTell' /\ Failures'
    <3>1. mishaps = 0 /\ OneBusy /\ ToTell /\ Failures
      BY <1>2, <2>3 DEF Dog!Pause
    <3>2. OneBusy'
      BY <1>2, <2>3, <3>1 DEF Dog!Pause, OneBusy, Busy
    <3>3. ToTell'
      BY <1>2, <2>3, <3>1 DEF Dog!Pause, OneBusy, Busy, ToTell, Alerts
    <3>4. Failures'
      BY <1>2, <2>3, <3>1 DEF Dog!Pause, OneBusy, Busy, Failures, Bounded
    <3> QED BY <3>1, <3>2, <3>3, <3>4
  <2> QED BY <2>1, <2>2, <2>3
<1>3. CASE Dog!Resume
  <2>1. Dog!TypeOK'
    BY <1>3 DEF Dog!Resume
  <2>2. Bounded'
    BY <1>3 DEF Dog!Resume, Bounded
  <2>3. ASSUME mishaps' = 0 PROVE mishaps = 0 /\ OneBusy' /\ ToTell' /\ Failures'
    <3>1. mishaps = 0 /\ OneBusy /\ ToTell /\ Failures
      BY <1>3, <2>3 DEF Dog!Resume
    <3>2. OneBusy'
      BY <1>3, <2>3, <3>1 DEF Dog!Resume, OneBusy, Busy
    <3>3. ToTell'
      BY <1>3, <2>3, <3>1 DEF Dog!Resume, OneBusy, Busy, ToTell, Alerts
    <3>4. Failures'
      BY <1>3, <2>3, <3>1 DEF Dog!Resume, OneBusy, Busy, Failures, Bounded
    <3> QED BY <3>1, <3>2, <3>3, <3>4
  <2> QED BY <2>1, <2>2, <2>3
<1>4. CASE Dog!Remove
  <2>1. Dog!TypeOK'
    BY <1>4 DEF Dog!Remove
  <2>2. Bounded'
    BY <1>4 DEF Dog!Remove, Bounded
  <2>3. ASSUME mishaps' = 0 PROVE mishaps = 0 /\ OneBusy' /\ ToTell' /\ Failures'
    <3>1. mishaps = 0 /\ OneBusy /\ ToTell /\ Failures
      BY <1>4, <2>3 DEF Dog!Remove
    <3>2. OneBusy'
      BY <1>4, <2>3, <3>1 DEF Dog!Remove, OneBusy, Busy
    <3>3. ToTell'
      BY <1>4, <2>3, <3>1 DEF Dog!Remove, OneBusy, Busy, ToTell, Alerts
    <3>4. Failures'
      BY <1>4, <2>3, <3>1 DEF Dog!Remove, OneBusy, Busy, Failures, Bounded
    <3> QED BY <3>1, <3>2, <3>3, <3>4
  <2> QED BY <2>1, <2>2, <2>3
<1>5. ASSUME NEW d \in Dogs, Dog!Claim(d) PROVE DogIInv'
  <2>1. Dog!TypeOK'
    BY <1>5 DEF Dog!Claim
  <2>2. Bounded'
    BY <1>5 DEF Dog!Claim, Bounded
  <2>3. ASSUME mishaps' = 0 PROVE mishaps = 0 /\ OneBusy' /\ ToTell' /\ Failures'
    <3>1. mishaps = 0 /\ OneBusy /\ ToTell /\ Failures
      BY <1>5, <2>3 DEF Dog!Claim
    <3>2. OneBusy'
      BY <1>5, <2>3, <3>1 DEF Dog!Claim, OneBusy, Busy
    <3>3. ToTell'
      BY <1>5, <2>3, <3>1 DEF Dog!Claim, OneBusy, Busy, ToTell, Alerts
    <3>4. Failures'
      BY <1>5, <2>3, <3>1 DEF Dog!Claim, OneBusy, Busy, Failures, Bounded
    <3> QED BY <3>1, <3>2, <3>3, <3>4
  <2> QED BY <2>1, <2>2, <2>3
<1>6. ASSUME NEW d \in Dogs, Dog!TellDisabled(d) PROVE DogIInv'
  <2>1. Dog!TypeOK'
    BY <1>6 DEF Dog!TellDisabled, Dog!Rest, Dog!Idle
  <2>2. Bounded'
    BY <1>6 DEF Dog!TellDisabled, Dog!Rest, Dog!Idle, Bounded
  <2>3. ASSUME mishaps' = 0 PROVE mishaps = 0 /\ OneBusy' /\ ToTell' /\ Failures'
    <3>1. mishaps = 0 /\ OneBusy /\ ToTell /\ Failures
      BY <1>6, <2>3 DEF Dog!TellDisabled, Dog!Rest, Dog!Idle
    <3>2. OneBusy'
      BY <1>6, <2>3, <3>1 DEF Dog!TellDisabled, Dog!Rest, Dog!Idle, OneBusy, Busy
    <3>3. ToTell'
      BY <1>6, <2>3, <3>1 DEF Dog!TellDisabled, Dog!Rest, Dog!Idle, OneBusy, Busy, ToTell, Alerts
    <3>4. Failures'
      BY <1>6, <2>3, <3>1 DEF Dog!TellDisabled, Dog!Rest, Dog!Idle, OneBusy, Busy, Failures, Bounded
    <3> QED BY <3>1, <3>2, <3>3, <3>4
  <2> QED BY <2>1, <2>2, <2>3
<1>7. ASSUME NEW d \in Dogs, Dog!Alert(d) PROVE DogIInv'
  <2>1. Dog!TypeOK'
    <3>1. dog' \in [Dogs -> [pc : Dog!Pcs, alerting : BOOLEAN, last : Outputs \cup {NoOutput}, output : Outputs \cup {NoOutput}, fires : BOOLEAN]]
      <4>1. dog' = [dog EXCEPT ![d].pc = "notify"] \/ dog' = [dog EXCEPT ![d] = Dog!Idle]
        BY <1>7 DEF Dog!Alert, Dog!Set, Dog!Rest
      <4>2. Dog!Idle \in [pc : Dog!Pcs, alerting : BOOLEAN, last : Outputs \cup {NoOutput}, output : Outputs \cup {NoOutput}, fires : BOOLEAN]
        BY DEF Dog!Idle
      <4>3. CASE dog' = [dog EXCEPT ![d].pc = "notify"]
        BY <4>3
      <4>4. CASE dog' = [dog EXCEPT ![d] = Dog!Idle]
        BY <4>2, <4>4
      <4> QED BY <4>1, <4>3, <4>4
    <3>2. wrow' \in [there : BOOLEAN, enabled : BOOLEAN, alerting : BOOLEAN, last : Outputs \cup {NoOutput}, fails : Nat, next : {"due", "leased", "later"}]
      BY <1>7 DEF Dog!Alert, Dog!Set, Dog!Rest, Dog!Idle
    <3>3. wasTold' \in Int /\ toldDisabled' \in BOOLEAN
      BY <1>7 DEF Dog!Alert, Dog!Set, Dog!Rest, Dog!Idle
    <3>4. mishaps' \in 0..MaxMishaps
      <4>1. MaxMishaps \in Nat /\ mishaps \in Nat /\ mishaps <= MaxMishaps
        BY OutsideAssumption
      <4>2. mishaps' = mishaps \/ (mishaps < MaxMishaps /\ mishaps' = mishaps + 1)
        BY <1>7 DEF Dog!Alert, Dog!Set, Dog!Rest, Dog!Idle
      <4> QED BY <4>1, <4>2
    <3> QED BY <3>1, <3>2, <3>3, <3>4
  <2>2. Bounded'
    BY <1>7 DEF Dog!Alert, Dog!Set, Dog!Rest, Dog!Idle, Bounded
  <2>3. ASSUME mishaps' = 0 PROVE mishaps = 0 /\ OneBusy' /\ ToTell' /\ Failures'
    <3>1. mishaps = 0 /\ OneBusy /\ ToTell /\ Failures
      BY <1>7, <2>3 DEF Dog!Alert, Dog!Set, Dog!Rest, Dog!Idle
    <3>2. OneBusy'
      BY <1>7, <2>3, <3>1 DEF Dog!Alert, Dog!Set, Dog!Rest, Dog!Idle, OneBusy, Busy
    <3>3. ToTell'
      BY <1>7, <2>3, <3>1 DEF Dog!Alert, Dog!Set, Dog!Rest, Dog!Idle, OneBusy, Busy, ToTell, Alerts
    <3>4. Failures'
      BY <1>7, <2>3, <3>1 DEF Dog!Alert, Dog!Set, Dog!Rest, Dog!Idle, OneBusy, Busy, Failures,
         Bounded
    <3> QED BY <3>1, <3>2, <3>3, <3>4
  <2> QED BY <2>1, <2>2, <2>3
<1>8. ASSUME NEW d \in Dogs, Dog!Notify(d) PROVE DogIInv'
  <2>1. Dog!TypeOK'
    BY <1>8 DEF Dog!Notify, Dog!Rest, Dog!Idle
  <2>2. Bounded'
    BY <1>8 DEF Dog!Notify, Dog!Rest, Dog!Idle, Bounded
  <2>3. ASSUME mishaps' = 0 PROVE mishaps = 0 /\ OneBusy' /\ ToTell' /\ Failures'
    <3>1. mishaps = 0 /\ OneBusy /\ ToTell /\ Failures
      BY <1>8, <2>3 DEF Dog!Notify, Dog!Rest, Dog!Idle
    <3>2. OneBusy'
      BY <1>8, <2>3, <3>1 DEF Dog!Notify, Dog!Rest, Dog!Idle, OneBusy, Busy
    <3>3. ToTell'
      BY <1>8, <2>3, <3>1 DEF Dog!Notify, Dog!Rest, Dog!Idle, OneBusy, Busy, ToTell, Alerts
    <3>4. Failures'
      BY <1>8, <2>3, <3>1 DEF Dog!Notify, Dog!Rest, Dog!Idle, OneBusy, Busy, Failures, Bounded
    <3> QED BY <3>1, <3>2, <3>3, <3>4
  <2> QED BY <2>1, <2>2, <2>3
<1>9. ASSUME NEW d \in Dogs, Dog!Crash(d) PROVE DogIInv'
  <2>1. Dog!TypeOK'
    BY <1>9 DEF Dog!Crash, Dog!Mishap, Dog!Rest, Dog!Idle
  <2>2. Bounded'
    BY <1>9 DEF Dog!Crash, Dog!Mishap, Dog!Rest, Dog!Idle, Bounded
  <2>3. ASSUME mishaps' = 0 PROVE mishaps = 0 /\ OneBusy' /\ ToTell' /\ Failures'
    <3>1. mishaps = 0 /\ OneBusy /\ ToTell /\ Failures
      BY <1>9, <2>3 DEF Dog!Crash, Dog!Mishap, Dog!Rest, Dog!Idle
    <3>2. OneBusy'
      BY <1>9, <2>3, <3>1 DEF Dog!Crash, Dog!Mishap, Dog!Rest, Dog!Idle, OneBusy, Busy
    <3>3. ToTell'
      BY <1>9, <2>3, <3>1 DEF Dog!Crash, Dog!Mishap, Dog!Rest, Dog!Idle, OneBusy, Busy, ToTell,
         Alerts
    <3>4. Failures'
      BY <1>9, <2>3, <3>1 DEF Dog!Crash, Dog!Mishap, Dog!Rest, Dog!Idle, OneBusy, Busy, Failures,
         Bounded
    <3> QED BY <3>1, <3>2, <3>3, <3>4
  <2> QED BY <2>1, <2>2, <2>3
<1>10. ASSUME NEW d \in Dogs, NEW o \in Outputs, Dog!Runs(d, o) PROVE DogIInv'
  <2>0. Dog!Evaluate(Condition, o, dog[d].last) \in BOOLEAN
    BY <1>10, Evaluates DEF Dog!Runs
  <2>1. Dog!TypeOK'
    <3>1. dog' \in [Dogs -> [pc : Dog!Pcs, alerting : BOOLEAN, last : Outputs \cup {NoOutput}, output : Outputs \cup {NoOutput}, fires : BOOLEAN]]
      <4>1. PICK b \in BOOLEAN : b = Dog!Evaluate(Condition, o, dog[d].last)
        BY <2>0
      <4>2. dog' = [dog EXCEPT ![d].pc = "ran", ![d].output = o, ![d].fires = b]
        BY <1>10, <4>1 DEF Dog!Runs
      <4>3. dog[d] \in [pc : Dog!Pcs, alerting : BOOLEAN, last : Outputs \cup {NoOutput},
                        output : Outputs \cup {NoOutput}, fires : BOOLEAN]
        OBVIOUS
      <4>4. "ran" \in Dog!Pcs /\ o \in Outputs \cup {NoOutput}
        BY DEF Dog!Pcs
      <4>5. [dog[d] EXCEPT !.pc = "ran", !.output = o, !.fires = b] \in
               [pc : Dog!Pcs, alerting : BOOLEAN, last : Outputs \cup {NoOutput},
                output : Outputs \cup {NoOutput}, fires : BOOLEAN]
        BY <4>3, <4>4
      <4>6. dog' = [dog EXCEPT ![d] = [dog[d] EXCEPT !.pc = "ran", !.output = o, !.fires = b]]
        BY <4>2
      <4> QED BY <4>5, <4>6
    <3>2. wrow' \in [there : BOOLEAN, enabled : BOOLEAN, alerting : BOOLEAN, last : Outputs \cup {NoOutput}, fails : Nat, next : {"due", "leased", "later"}]
      BY <1>10, <2>0 DEF Dog!Runs
    <3>3. wasTold' \in Int /\ toldDisabled' \in BOOLEAN
      BY <1>10, <2>0 DEF Dog!Runs
    <3>4. mishaps' \in 0..MaxMishaps
      <4>1. MaxMishaps \in Nat /\ mishaps \in Nat /\ mishaps <= MaxMishaps
        BY OutsideAssumption
      <4>2. mishaps' = mishaps \/ (mishaps < MaxMishaps /\ mishaps' = mishaps + 1)
        BY <1>10, <2>0 DEF Dog!Runs
      <4> QED BY <4>1, <4>2
    <3> QED BY <3>1, <3>2, <3>3, <3>4
  <2>2. Bounded'
    BY <1>10, <2>0 DEF Dog!Runs, Bounded
  <2>3. ASSUME mishaps' = 0 PROVE mishaps = 0 /\ OneBusy' /\ ToTell' /\ Failures'
    <3>1. mishaps = 0 /\ OneBusy /\ ToTell /\ Failures
      BY <1>10, <2>0, <2>3 DEF Dog!Runs
    <3>2. OneBusy'
      BY <1>10, <2>0, <2>3, <3>1 DEF Dog!Runs, OneBusy, Busy
    <3>3. ToTell'
      BY <1>10, <2>0, <2>3, <3>1 DEF Dog!Runs, OneBusy, Busy, ToTell, Alerts
    <3>4. Failures'
      BY <1>10, <2>0, <2>3, <3>1 DEF Dog!Runs, OneBusy, Busy, Failures, Bounded
    <3> QED BY <3>1, <3>2, <3>3, <3>4
  <2> QED BY <2>1, <2>2, <2>3
<1>11. ASSUME NEW d \in Dogs, Dog!BotMissing(d) PROVE DogIInv'
  <2>0. /\ wrow' \in [there : BOOLEAN, enabled : BOOLEAN, alerting : BOOLEAN,
                     last : Outputs \cup {NoOutput}, fails : Nat, next : {"due", "leased", "later"}]
        /\ Bounded'
        /\ wrow'.there = wrow.there /\ wrow'.alerting = wrow.alerting
        /\ wrow.there => wrow'.next = "later" /\ wrow'.fails = 0
        /\ ~wrow.there => wrow' = wrow
    <3>1. wrow' = Dog!Rescheduled(FALSE, NoOutput) /\ NoOutput \in Outputs \cup {NoOutput}
      BY <1>11 DEF Dog!BotMissing
    <3> QED BY <3>1, Reschedules
  <2>1. Dog!TypeOK'
    BY <1>11, <2>0 DEF Dog!BotMissing, Dog!Rest, Dog!Idle
  <2>2. Bounded'
    BY <1>11, <2>0 DEF Dog!BotMissing, Dog!Rest, Dog!Idle, Bounded
  <2>3. ASSUME mishaps' = 0 PROVE mishaps = 0 /\ OneBusy' /\ ToTell' /\ Failures'
    <3>1. mishaps = 0 /\ OneBusy /\ ToTell /\ Failures
      BY <1>11, <2>0, <2>3 DEF Dog!BotMissing, Dog!Rest, Dog!Idle
    <3>5. dog[d].pc = "claimed" /\ dog'[d].pc = "idle" /\ UNCHANGED <<wasTold, toldDisabled>>
      BY <1>11 DEF Dog!BotMissing, Dog!Rest, Dog!Idle
    <3>6. \A e \in Dogs : e # d => dog'[e] = dog[e] /\ dog[e].pc = "idle"
      BY <1>11, <3>1 DEF Dog!BotMissing, Dog!Rest, Dog!Idle, OneBusy, Busy
    <3>2. OneBusy'
      <4>1. dog[d].pc # "idle" /\ \A e \in Dogs : e # d => dog[e].pc = dog'[e].pc
        BY <3>5, <3>6
      <4>2. wrow'.next = "later" \/ wrow'.next = wrow.next
        BY <2>0
      <4> QED BY <3>1, <4>1, <4>2, OneMoves
    <3>3. ToTell'
      BY <2>0, <3>1, <3>5, <3>6 DEF ToTell
    <3>4. Failures'
      BY <2>0, <3>1, <3>5, <3>6 DEF Failures
    <3> QED BY <3>1, <3>2, <3>3, <3>4
  <2> QED BY <2>1, <2>2, <2>3
<1>12. ASSUME NEW d \in Dogs, Dog!Refused(d) PROVE DogIInv'
  <2>0. /\ wrow' \in [there : BOOLEAN, enabled : BOOLEAN, alerting : BOOLEAN,
                     last : Outputs \cup {NoOutput}, fails : Nat, next : {"due", "leased", "later"}]
        /\ Bounded'
        /\ wrow'.there = wrow.there /\ wrow'.alerting = wrow.alerting
        /\ wrow.there => wrow'.next = "later" /\ wrow'.fails = wrow.fails + 1
        /\ ~wrow.there => wrow' = wrow
    <3>1. wrow' = Dog!Rescheduled(TRUE, NoOutput) /\ NoOutput \in Outputs \cup {NoOutput}
      BY <1>12 DEF Dog!Refused
    <3> QED BY <3>1, Reschedules
  <2>1. Dog!TypeOK'
    <3>1. Dog!Set(d, "check") /\ "check" \in Dog!Pcs /\ UNCHANGED <<wasTold, toldDisabled, mishaps>>
      BY <1>12 DEF Dog!Refused, Dog!Pcs
    <3> QED BY <2>0, <3>1, SetTyped
  <2>2. Bounded'
    BY <1>12, <2>0 DEF Dog!Refused, Dog!Set, Bounded
  <2>3. ASSUME mishaps' = 0 PROVE mishaps = 0 /\ OneBusy' /\ ToTell' /\ Failures'
    <3>1. mishaps = 0 /\ OneBusy /\ ToTell /\ Failures
      BY <1>12, <2>0, <2>3 DEF Dog!Refused, Dog!Set
    <3>5. dog[d].pc = "claimed" /\ dog'[d].pc = "check" /\ UNCHANGED <<wasTold, toldDisabled>>
      BY <1>12 DEF Dog!Refused, Dog!Set
    <3>6. \A e \in Dogs : e # d => dog'[e] = dog[e] /\ dog[e].pc = "idle"
      BY <1>12, <3>1 DEF Dog!Refused, Dog!Set, OneBusy, Busy
    <3>2. OneBusy'
      <4>1. dog[d].pc # "idle" /\ \A e \in Dogs : e # d => dog[e].pc = dog'[e].pc
        BY <3>5, <3>6
      <4>2. wrow'.next = "later" \/ wrow'.next = wrow.next
        BY <2>0
      <4> QED BY <3>1, <4>1, <4>2, OneMoves
    <3>3. ToTell'
      BY <2>0, <3>1, <3>5, <3>6 DEF ToTell
    <3>4. Failures'
      BY <2>0, <3>1, <3>5, <3>6 DEF Failures
    <3> QED BY <3>1, <3>2, <3>3, <3>4
  <2> QED BY <2>1, <2>2, <2>3
<1>13. ASSUME NEW d \in Dogs, Dog!Saved(d) PROVE DogIInv'
  <2>0. /\ wrow' \in [there : BOOLEAN, enabled : BOOLEAN, alerting : BOOLEAN,
                     last : Outputs \cup {NoOutput}, fails : Nat, next : {"due", "leased", "later"}]
        /\ Bounded'
        /\ wrow'.there = wrow.there /\ wrow'.alerting = wrow.alerting
        /\ wrow.there => wrow'.next = "later" /\ wrow'.fails = 0
        /\ ~wrow.there => wrow' = wrow
    <3>1. wrow' = Dog!Rescheduled(FALSE, dog[d].output) /\ dog[d].output \in Outputs \cup {NoOutput}
      BY <1>13 DEF Dog!Saved
    <3> QED BY <3>1, Reschedules
  <2>1. Dog!TypeOK'
    <3>1. Dog!Set(d, "alert") /\ "alert" \in Dog!Pcs /\ UNCHANGED <<wasTold, toldDisabled, mishaps>>
      BY <1>13 DEF Dog!Saved, Dog!Pcs
    <3> QED BY <2>0, <3>1, SetTyped
  <2>2. Bounded'
    BY <1>13, <2>0 DEF Dog!Saved, Dog!Set, Bounded
  <2>3. ASSUME mishaps' = 0 PROVE mishaps = 0 /\ OneBusy' /\ ToTell' /\ Failures'
    <3>1. mishaps = 0 /\ OneBusy /\ ToTell /\ Failures
      BY <1>13, <2>0, <2>3 DEF Dog!Saved, Dog!Set
    <3>5. dog[d].pc = "ran" /\ dog'[d].pc = "alert" /\ dog'[d].alerting = dog[d].alerting /\ UNCHANGED <<wasTold, toldDisabled>>
      BY <1>13 DEF Dog!Saved, Dog!Set
    <3>6. \A e \in Dogs : e # d => dog'[e] = dog[e] /\ dog[e].pc = "idle"
      BY <1>13, <3>1 DEF Dog!Saved, Dog!Set, OneBusy, Busy
    <3>2. OneBusy'
      <4>1. dog[d].pc # "idle" /\ \A e \in Dogs : e # d => dog[e].pc = dog'[e].pc
        BY <3>5, <3>6
      <4>2. wrow'.next = "later" \/ wrow'.next = wrow.next
        BY <2>0
      <4> QED BY <3>1, <4>1, <4>2, OneMoves
    <3>3. ToTell'
      BY <2>0, <3>1, <3>5, <3>6 DEF ToTell
    <3>4. Failures'
      BY <2>0, <3>1, <3>5, <3>6 DEF Failures
    <3> QED BY <3>1, <3>2, <3>3, <3>4
  <2> QED BY <2>1, <2>2, <2>3
<1>14. ASSUME NEW d \in Dogs, Dog!Raises(d) PROVE DogIInv'
  <2>0. /\ wrow' \in [there : BOOLEAN, enabled : BOOLEAN, alerting : BOOLEAN,
                     last : Outputs \cup {NoOutput}, fails : Nat, next : {"due", "leased", "later"}]
        /\ Bounded'
        /\ wrow'.there = wrow.there /\ wrow'.alerting = wrow.alerting
        /\ wrow.there => wrow'.next = "later" /\ wrow'.fails = wrow.fails + 1
        /\ ~wrow.there => wrow' = wrow
    <3>1. wrow' = Dog!Rescheduled(TRUE, NoOutput) /\ NoOutput \in Outputs \cup {NoOutput}
      BY <1>14 DEF Dog!Raises
    <3> QED BY <3>1, Reschedules
  <2>1. Dog!TypeOK'
    <3>1. dog' \in [Dogs -> [pc : Dog!Pcs, alerting : BOOLEAN, last : Outputs \cup {NoOutput}, output : Outputs \cup {NoOutput}, fires : BOOLEAN]]
      BY <1>14, <2>0 DEF Dog!Raises, Dog!Mishap, Dog!Rest, Dog!Idle
    <3>2. wrow' \in [there : BOOLEAN, enabled : BOOLEAN, alerting : BOOLEAN, last : Outputs \cup {NoOutput}, fails : Nat, next : {"due", "leased", "later"}]
      BY <1>14, <2>0 DEF Dog!Raises, Dog!Mishap, Dog!Rest, Dog!Idle
    <3>3. wasTold' \in Int /\ toldDisabled' \in BOOLEAN
      BY <1>14, <2>0 DEF Dog!Raises, Dog!Mishap, Dog!Rest, Dog!Idle
    <3>4. mishaps' \in 0..MaxMishaps
      <4>1. MaxMishaps \in Nat /\ mishaps \in Nat /\ mishaps <= MaxMishaps
        BY OutsideAssumption
      <4>2. mishaps' = mishaps \/ (mishaps < MaxMishaps /\ mishaps' = mishaps + 1)
        BY <1>14, <2>0 DEF Dog!Raises, Dog!Mishap, Dog!Rest, Dog!Idle
      <4> QED BY <4>1, <4>2
    <3> QED BY <3>1, <3>2, <3>3, <3>4
  <2>2. Bounded'
    BY <1>14, <2>0 DEF Dog!Raises, Dog!Mishap, Dog!Rest, Dog!Idle, Bounded
  <2>3. ASSUME mishaps' = 0 PROVE mishaps = 0 /\ OneBusy' /\ ToTell' /\ Failures'
    <3>1. mishaps = 0 /\ OneBusy /\ ToTell /\ Failures
      BY <1>14, <2>0, <2>3 DEF Dog!Raises, Dog!Mishap, Dog!Rest, Dog!Idle
    <3>2. OneBusy'
      BY <1>14, <2>0, <2>3, <3>1 DEF Dog!Raises, Dog!Mishap, Dog!Rest, Dog!Idle, OneBusy, Busy
    <3>3. ToTell'
      BY <1>14, <2>0, <2>3, <3>1 DEF Dog!Raises, Dog!Mishap, Dog!Rest, Dog!Idle, OneBusy, Busy,
         ToTell, Alerts
    <3>4. Failures'
      BY <1>14, <2>0, <2>3, <3>1 DEF Dog!Raises, Dog!Mishap, Dog!Rest, Dog!Idle, OneBusy, Busy,
         Failures, Bounded
    <3> QED BY <3>1, <3>2, <3>3, <3>4
  <2> QED BY <2>1, <2>2, <2>3
<1>15. CASE UNCHANGED Dog!watchVars
  BY <1>15 DEF Dog!watchVars, OneBusy, ToTell, Failures, Busy, Alerts, Bounded
<1> QED BY <1>1, <1>2, <1>3, <1>4, <1>5, <1>6, <1>7, <1>8, <1>9, <1>10, <1>11, <1>12, <1>13, <1>14,
   <1>15 DEF Dog!Next, Dog!Step

\* Watches: the chat knows what happened, and when a watch is off.
LEMMA DogTruth == DogIInv => Dog!TypeOK /\ Dog!ChatKnows /\ Dog!OffIsTold
<1> SUFFICES ASSUME DogIInv PROVE Dog!ChatKnows /\ Dog!OffIsTold
  BY DEF DogIInv
<1>1. Dog!ChatKnows
  BY DEF DogIInv, ToTell, Alerts, Dog!ChatKnows, Dog!Resting
<1>2. Dog!OffIsTold
  BY OutsideAssumption DEF DogIInv, Dog!TypeOK, Bounded, Failures, Dog!OffIsTold, Dog!Resting
<1> QED BY <1>1, <1>2

-----------------------------------------------------------------------------
(* Connections (module SshPool).                                            *)
Locked(c) == call[c].pc \in {"connecting", "pin", "keep"}
Fresh(c) == call[c].pc \in {"pin", "keep"}

\* The lock is held by the one call that connects, and meanwhile nothing is held.
OneConnects ==
    /\ \A c \in Calls : Locked(c) <=> owner = c
    /\ owner # Ssh!Nobody => held = 0

\* The connection of a call: nobody else's while it is made, open unless the
\* server closed it.
Connection ==
    \A c \in Calls :
        /\ call[c].pc \in {"run", "pin", "keep"} => call[c].conn \in 1..made
        /\ call[c].pc \in {"want", "connecting"} => call[c].conn = 0
        /\ Fresh(c) => call[c].conn \notin forgotten /\ (call[c].conn \in open \/ errors > 0)

\* What is closed under a call is broken, or was idle too long.
Explained ==
    \A c \in Calls :
        /\ call[c].pc = "run" /\ call[c].conn = held /\ idle => overran
        /\ call[c].pc = "drop" => errors > 0 \/ overran

SshIInv ==
    /\ Ssh!TypeOK /\ Ssh!NoneIsLost /\ Ssh!Undisturbed
    /\ held \notin forgotten
    /\ OneConnects /\ Connection /\ Explained

\* All of it holds of a pool without connections.
LEMMA SshInit == Ssh!Init => SshIInv
<1> SUFFICES ASSUME Ssh!Init PROVE SshIInv
  OBVIOUS
<1>1. shown \in Keys
  BY OutsideAssumption DEF Ssh!Init
<1>2. call \in [Calls -> [pc : {"idle"}, pinned : {NoKey}, conn : {0}]]
  BY DEF Ssh!Init, Ssh!Resting
<1>3. Ssh!TypeOK
  <2>1. made \in 0..MaxMade /\ errors \in 0..MaxErrors /\ held \in 0..made
    BY OutsideAssumption DEF Ssh!Init
  <2>2. [pc |-> "idle", pinned |-> NoKey, conn |-> 0] \in
            [pc : {"idle", "want", "closing", "connecting", "pin", "keep", "run", "drop"},
             pinned : Keys \cup {NoKey}, conn : 0..MaxMade]
    BY OutsideAssumption
  <2>3. host \in [there : BOOLEAN, key : Keys \cup {NoKey}]
    BY DEF Ssh!Init
  <2> QED BY <1>1, <2>1, <2>2, <2>3 DEF Ssh!Init, Ssh!TypeOK, Ssh!Resting
<1>4. \A c \in Calls : call[c].pc = "idle"
  BY <1>2
<1>5. OneConnects /\ Connection /\ Explained /\ Ssh!Undisturbed
  BY <1>4, OutsideAssumption DEF Ssh!Init, OneConnects, Connection, Explained, Ssh!Undisturbed,
     Locked, Fresh
<1> QED BY <1>3, <1>5 DEF SshIInv, Ssh!Init, Ssh!NoneIsLost

\* Whoever uses a connection is counted, after every step of the pool.
LEMMA SshStep == SshIInv /\ [Ssh!Next]_(Ssh!sshVars) => SshIInv'
<1> SUFFICES ASSUME SshIInv, [Ssh!Next]_(Ssh!sshVars) PROVE SshIInv'
  OBVIOUS
<1> USE OutsideAssumption DEF SshIInv, Ssh!TypeOK, Ssh!NoneIsLost, Ssh!Undisturbed, OneConnects, Connection, Explained, Locked, Fresh
<1>1. ASSUME NEW c \in Calls, Ssh!Resolve(c) PROVE SshIInv'
  BY <1>1 DEF Ssh!Resolve, Ssh!Goto, Ssh!End, Ssh!Error, Ssh!Resting, Ssh!Usable, Ssh!Expected
<1>2. ASSUME NEW c \in Calls, Ssh!Reuse(c) PROVE SshIInv'
  BY <1>2 DEF Ssh!Reuse, Ssh!Goto, Ssh!End, Ssh!Error, Ssh!Resting, Ssh!Usable, Ssh!Expected
<1>3. ASSUME NEW c \in Calls, Ssh!Lock(c) PROVE SshIInv'
  BY <1>3 DEF Ssh!Lock, Ssh!Goto, Ssh!End, Ssh!Error, Ssh!Resting, Ssh!Usable, Ssh!Expected
<1>4. ASSUME NEW c \in Calls, Ssh!Refused(c) PROVE SshIInv'
  BY <1>4 DEF Ssh!Refused, Ssh!Goto, Ssh!End, Ssh!Error, Ssh!Resting, Ssh!Usable, Ssh!Expected
<1>5. ASSUME NEW c \in Calls, Ssh!Connected(c) PROVE SshIInv'
  <2> DEFINE p == IF call[c].pinned = NoKey THEN "pin" ELSE "keep"
             now == [pc |-> p, pinned |-> shown, conn |-> made + 1]
  <2>1. /\ call[c].pc = "connecting" /\ made < MaxMade /\ call' = [call EXCEPT ![c] = now]
        /\ made' = made + 1 /\ open' = open \cup {made + 1}
        /\ UNCHANGED <<host, shown, owner, held, idle, errors, forgotten, overran>>
    BY <1>5 DEF Ssh!Connected
  <2>2. made' \in 0..MaxMade /\ made' \in Nat /\ made' \in 1..made' /\ made \in Nat /\ p \in {"pin", "keep"}
    BY <2>1
  <2>3. now \in [pc : {"pin", "keep"}, pinned : Keys, conn : {made'}] /\ call'[c] = now
    BY <2>1, <2>2
  <2>4. \A d \in Calls : d # c => call'[d] = call[d]
    BY <2>1
  <2> HIDE DEF now, p
  <2>5. Ssh!TypeOK'
    <3>1. now \in [pc : {"idle", "want", "closing", "connecting", "pin", "keep", "run", "drop"},
                   pinned : Keys \cup {NoKey}, conn : 0..MaxMade]
      BY <2>2, <2>3
    <3>2. call' \in [Calls -> [pc : {"idle", "want", "closing", "connecting", "pin", "keep", "run", "drop"},
                               pinned : Keys \cup {NoKey}, conn : 0..MaxMade]]
      BY <2>1, <3>1
    <3>3. open' \subseteq 1..made' /\ forgotten' \subseteq open' /\ held' \in 0..made'
      BY <2>1, <2>2
    <3> QED BY <2>1, <2>2, <3>2, <3>3
  <2>6. OneConnects'
    BY <2>1, <2>3, <2>4
  <2>7. Connection'
    BY <2>1, <2>2, <2>3, <2>4
  <2>8. Explained' /\ Ssh!NoneIsLost' /\ Ssh!Undisturbed' /\ (held \notin forgotten)'
    BY <2>1, <2>2, <2>3, <2>4
  <2> QED BY <2>5, <2>6, <2>7, <2>8
<1>6. ASSUME NEW c \in Calls, Ssh!Pin(c) PROVE SshIInv'
  BY <1>6 DEF Ssh!Pin, Ssh!Goto, Ssh!End, Ssh!Error, Ssh!Resting, Ssh!Usable, Ssh!Expected
<1>7. ASSUME NEW c \in Calls, Ssh!Keep(c) PROVE SshIInv'
  <2>1. Ssh!TypeOK'
    <3>1. call[c].conn \in 0..made /\ made' = made
      BY <1>7 DEF Ssh!Keep
    <3>2. call' \in [Calls -> [pc : {"idle", "want", "closing", "connecting", "pin", "keep", "run", "drop"},
                               pinned : Keys \cup {NoKey}, conn : 0..MaxMade]]
      BY <1>7 DEF Ssh!Keep, Ssh!Goto
    <3> QED BY <1>7, <3>1, <3>2 DEF Ssh!Keep
  <2>2. OneConnects' /\ Connection'
    BY <1>7 DEF Ssh!Keep, Ssh!Goto
  <2>3. Ssh!NoneIsLost'
    <3>1. owner = c /\ held = 0 /\ held \notin open /\ call[c].conn \in 1..made
      BY <1>7 DEF Ssh!Keep, Ssh!Goto
    <3>2. open \subseteq forgotten \cup {call[c].conn}
      BY <3>1
    <3> QED BY <1>7, <3>1, <3>2 DEF Ssh!Keep, Ssh!Goto
  <2>5. (held \notin forgotten)'
    BY <1>7 DEF Ssh!Keep, Ssh!Goto
  <2>4. Explained' /\ Ssh!Undisturbed'
    BY <1>7 DEF Ssh!Keep, Ssh!Goto
  <2> QED BY <2>1, <2>2, <2>3, <2>4, <2>5
<1>8. ASSUME NEW c \in Calls, Ssh!Forgets(c) PROVE SshIInv'
  <2>1. Ssh!TypeOK'
    <3>1. forgotten' \subseteq open'
      BY <1>8 DEF Ssh!Forgets
    <3>3. errors' \in 0..MaxErrors
      <4>1. errors \in Nat /\ errors < MaxErrors /\ errors' = errors + 1
        BY <1>8 DEF Ssh!Forgets, Ssh!Error
      <4> QED BY <4>1
    <3>2. call' \in [Calls -> [pc : {"idle", "want", "closing", "connecting", "pin", "keep", "run", "drop"},
                               pinned : Keys \cup {NoKey}, conn : 0..MaxMade]]
      BY <1>8 DEF Ssh!Forgets, Ssh!End, Ssh!Resting
    <3> QED BY <1>8, <3>1, <3>2, <3>3 DEF Ssh!Forgets
  <2>2. OneConnects' /\ Connection'
    BY <1>8 DEF Ssh!Forgets, Ssh!Error, Ssh!End, Ssh!Resting
  <2>3. Ssh!NoneIsLost'
    <3>1. owner = c /\ held = 0 /\ held \notin open /\ call[c].conn \in 1..made
      BY <1>8 DEF Ssh!Forgets, Ssh!Error, Ssh!End, Ssh!Resting
    <3>2. open \subseteq forgotten \cup {call[c].conn}
      BY <3>1
    <3> QED BY <1>8, <3>1, <3>2 DEF Ssh!Forgets, Ssh!Error, Ssh!End, Ssh!Resting
  <2>5. (held \notin forgotten)'
    BY <1>8 DEF Ssh!Forgets, Ssh!Error, Ssh!End, Ssh!Resting
  <2>4. Explained' /\ Ssh!Undisturbed'
    BY <1>8 DEF Ssh!Forgets, Ssh!Error, Ssh!End, Ssh!Resting
  <2> QED BY <2>1, <2>2, <2>3, <2>4, <2>5
<1>9. ASSUME NEW c \in Calls, Ssh!Done(c) PROVE SshIInv'
  BY <1>9 DEF Ssh!Done, Ssh!Goto, Ssh!End, Ssh!Error, Ssh!Resting, Ssh!Usable, Ssh!Expected
<1>10. ASSUME NEW c \in Calls, Ssh!TimesOut(c) PROVE SshIInv'
  BY <1>10 DEF Ssh!TimesOut, Ssh!Goto, Ssh!End, Ssh!Error, Ssh!Resting, Ssh!Usable, Ssh!Expected
<1>11. ASSUME NEW c \in Calls, Ssh!TransferFails(c) PROVE SshIInv'
  BY <1>11 DEF Ssh!TransferFails, Ssh!Goto, Ssh!End, Ssh!Error, Ssh!Resting, Ssh!Usable,
     Ssh!Expected
<1>12. ASSUME NEW c \in Calls, Ssh!Disconnect(c) PROVE SshIInv'
  BY <1>12 DEF Ssh!Disconnect, Ssh!Goto, Ssh!End, Ssh!Error, Ssh!Resting, Ssh!Usable, Ssh!Expected
<1>13. CASE Ssh!Sweep \/ Ssh!Idles \/ Ssh!RemoveHost
  <2>1. CASE Ssh!Sweep
    BY <2>1 DEF Ssh!Sweep, Ssh!Usable
  <2>2. CASE Ssh!Idles
    BY <2>2 DEF Ssh!Idles
  <2>3. CASE Ssh!RemoveHost
    BY <2>3 DEF Ssh!RemoveHost
  <2> QED BY <1>13, <2>1, <2>2, <2>3
<1>14. ASSUME NEW n \in 1..MaxMade, Ssh!Breaks(n) PROVE SshIInv'
  BY <1>14 DEF Ssh!Breaks, Ssh!Error
<1>15. ASSUME NEW k \in Keys, Ssh!ShowsOther(k) PROVE SshIInv'
  BY <1>15 DEF Ssh!ShowsOther, Ssh!Error
<1>16. CASE UNCHANGED Ssh!sshVars
  BY <1>16 DEF Ssh!sshVars
<1> QED BY <1>1, <1>2, <1>3, <1>4, <1>5, <1>6, <1>7, <1>8, <1>9, <1>10, <1>11, <1>12, <1>13,
           <1>14, <1>15, <1>16 DEF Ssh!Next

-----------------------------------------------------------------------------
(* The client of GitHub (module GithubHTTP).                                *)
\* The number of elements, as the instance Http has it.
LEMMA HttpCount == \A S : Http!Cardinality(S) = Cardinality(S)
  BY DEF Http!Cardinality, Cardinality

\* The numbers of the items, when none was taken out.
Whole(n) == [i \in 1..n |-> i]

\* The list at GitHub, and what the calls have read of it.
Items ==
    /\ list \in Seq(1..Size) /\ out \in [Requests -> Seq(1..Size)]
    /\ Len(list) + changed = Size
    /\ changed = 0 => list = Whole(Size)

\* A call that reads has whole pages, and wants more.
Reads ==
    \A c \in Requests : at[c] # "ended" =>
        /\ page[c] > 0 /\ Len(out[c]) = (page[c] - 1) * PerPage
        /\ ~Http!Enough(out[c])
        /\ changed = 0 => Len(out[c]) <= Size /\ out[c] = Whole(Len(out[c]))

\* While there is a spare every attempt was a wait; with the app's token one was not.
Attempted ==
    \A c \in Requests :
        /\ at[c] # "ended" => verdict[c] = "none"
        /\ at[c] \in {"session", "send", "sleep"} =>
            LET n == IF at[c] = "sleep" THEN slept[c] ELSE slept[c] + 1
            IN  /\ attempt[c] = n \/ (attempt[c] = n + 1 /\ ~spare[c] /\ bearer[c] = "app")
                /\ holds[c].app = "token" /\ ~holds[c].download => spare[c] \/ bearer[c] = "app"
        /\ at[c] = "sleep" => attempt[c] < Retries

CallsAreTrue ==
    /\ holds \in [Requests -> Http!Holds]
    /\ at \in [Requests -> {"new", "auth", "session", "send", "sleep", "ended"}]
    /\ attempt \in [Requests -> 1..Retries]
    /\ spare \in [Requests -> BOOLEAN]
    /\ bearer \in [Requests -> {"user", "app", Http!Nobody}]
    /\ slept \in [Requests -> 0..Retries]
    /\ verdict \in [Requests -> {"none", "ok", "absent", "error", "refused", "exhausted"}]
    /\ Attempted /\ Http!SpareIsTried

ListsAreTrue ==
    /\ changed \in 0..MaxChanges /\ page \in [Requests -> Nat]
    /\ Items /\ Reads /\ Http!ListIsWhole

\* There is one session, unless one was lost.
SessionsAreTrue ==
    /\ using \in [Requests -> 0..MaxOpened] /\ closing \in BOOLEAN /\ lost \in BOOLEAN
    /\ opened \in 0..MaxOpened
    /\ sessions \subseteq 1..opened /\ current \in 0..opened
    /\ ~lost => sessions \subseteq {current}

HttpIInv == CallsAreTrue /\ ListsAreTrue /\ SessionsAreTrue

\* A new client has one session at most.
LEMMA SessionsInit == Http!Init => SessionsAreTrue
<1> SUFFICES ASSUME Http!Init PROVE SessionsAreTrue
  OBVIOUS
<1>1. MaxOpened \in Nat
  BY OutsideAssumption
<1>2. using \in [Requests -> 0..MaxOpened]
  BY <1>1 DEF Http!Init
<1>3. opened = 0 /\ current = 0 /\ sessions = {} /\ opened \in 0..MaxOpened /\ current \in 0..opened
  BY <1>1 DEF Http!Init
<1>4. closing = FALSE /\ lost = FALSE
  BY DEF Http!Init
<1> QED BY <1>2, <1>3, <1>4 DEF SessionsAreTrue

\* A session that a call sends with is the open one.
LEMMA SessionsStep == SessionsAreTrue /\ [Http!Next]_(Http!vars) => SessionsAreTrue'
<1> SUFFICES ASSUME SessionsAreTrue, [Http!Next]_(Http!vars) PROVE SessionsAreTrue'
  OBVIOUS
<1>0. MaxOpened \in Nat
  BY OutsideAssumption
<1>1. ASSUME NEW c \in Requests, Http!Session(c) PROVE SessionsAreTrue'
  <2>1. CASE current \in sessions
    <3>1. using' = [using EXCEPT ![c] = current] /\ UNCHANGED <<opened, current, sessions, closing, lost>>
      BY <1>1, <2>1 DEF Http!Session
    <3>2. current \in 0..MaxOpened
      BY <1>0 DEF SessionsAreTrue
    <3> QED BY <3>1, <3>2 DEF SessionsAreTrue
  <2>2. CASE current \notin sessions
    <3>1. /\ opened < MaxOpened /\ opened' = opened + 1 /\ current' = opened + 1
          /\ sessions' = sessions \cup {opened + 1}
          /\ using' = [using EXCEPT ![c] = opened + 1] /\ UNCHANGED <<closing, lost>>
      BY <1>1, <2>2 DEF Http!Session
    <3>2. opened + 1 \in 0..MaxOpened /\ opened \in Nat
      BY <1>0, <3>1 DEF SessionsAreTrue
    <3> QED BY <2>2, <3>1, <3>2 DEF SessionsAreTrue
  <2> QED BY <2>1, <2>2
<1>2. CASE Http!Close
  BY <1>2 DEF Http!Close, SessionsAreTrue
<1>3. CASE Http!Closed
  <2>1. lost' \in BOOLEAN
    BY <1>3, Zenon DEF Http!Closed, SessionsAreTrue
  <2>2. ~lost' => sessions' \subseteq {current'}
    BY <1>3 DEF Http!Closed, SessionsAreTrue
  <2>3. current' = 0 /\ 0 \in 0..opened' /\ UNCHANGED <<sessions, opened, using>> /\ closing' = FALSE
    BY <1>0, <1>3 DEF Http!Closed, SessionsAreTrue
  <2> QED BY <2>1, <2>2, <2>3 DEF SessionsAreTrue
<1>4. CASE UNCHANGED Http!sessionVars
  BY <1>4 DEF Http!sessionVars, SessionsAreTrue
<1>5. ASSUME NEW c \in Requests, Http!Request(c), ~Http!Session(c) PROVE UNCHANGED Http!sessionVars
  BY <1>5 DEF Http!Request, Http!Call, Http!Auth, Http!Wake, Http!Broken, Http!FallBack,
     Http!Denied, Http!Page, Http!Limited, Http!Download
<1>6. ASSUME NEW i \in 1..Size, Http!TakeOut(i) PROVE UNCHANGED Http!sessionVars
  BY <1>6 DEF Http!TakeOut
<1>7. UNCHANGED Http!vars => UNCHANGED Http!sessionVars
  BY DEF Http!vars
<1> QED BY <1>1, <1>2, <1>3, <1>4, <1>5, <1>6, <1>7 DEF Http!Next

\* No more than one session is open.
LEMMA OneSessionTrue == SessionsAreTrue => Http!OneSession
<1> SUFFICES ASSUME SessionsAreTrue, ~lost PROVE Cardinality(sessions) <= 1
  <2>1. SessionsAreTrue => Cardinality(sessions) \in Nat
    <3> SUFFICES ASSUME SessionsAreTrue PROVE Cardinality(sessions) \in Nat
      OBVIOUS
    <3>1. 1 \in Int /\ opened \in Int
      BY OutsideAssumption DEF SessionsAreTrue
    <3>2. IsFiniteSet(1..opened)
      BY <3>1, FS_Interval
    <3> QED BY <3>2, FS_Subset, FS_CardinalityType DEF SessionsAreTrue
  <2> QED BY HttpCount, <2>1 DEF Http!OneSession
<1>1. IsFiniteSet({current}) /\ Cardinality({current}) = 1 /\ sessions \in SUBSET {current}
  BY FS_Singleton DEF SessionsAreTrue
<1> QED BY <1>1, FS_Subset

-----------------------------------------------------------------------------
\* Every call is new at the start.
LEMMA CallsInit == Http!Init => CallsAreTrue
<1> SUFFICES ASSUME Http!Init PROVE CallsAreTrue
  OBVIOUS
<1>1. 1 \in 1..Retries /\ 0 \in 0..Retries
  BY OutsideAssumption
<1>2. /\ attempt \in [Requests -> 1..Retries] /\ slept \in [Requests -> 0..Retries]
  BY <1>1 DEF Http!Init
<1>3. \A c \in Requests : at[c] = "new" /\ verdict[c] = "none"
  BY DEF Http!Init
<1> QED BY <1>2, <1>3 DEF Http!Init, CallsAreTrue, Attempted, Http!SpareIsTried

\* A step of one call leaves the others as they are.
CallOf(c) ==
    /\ holds[c] \in Http!Holds
    /\ at[c] \in {"new", "auth", "session", "send", "sleep", "ended"}
    /\ attempt[c] \in 1..Retries /\ spare[c] \in BOOLEAN
    /\ bearer[c] \in {"user", "app", Http!Nobody} /\ slept[c] \in 0..Retries
    /\ verdict[c] \in {"none", "ok", "absent", "error", "refused", "exhausted"}
    /\ at[c] # "ended" => verdict[c] = "none"
    /\ at[c] \in {"session", "send", "sleep"} =>
        LET n == IF at[c] = "sleep" THEN slept[c] ELSE slept[c] + 1
        IN  /\ attempt[c] = n \/ (attempt[c] = n + 1 /\ ~spare[c] /\ bearer[c] = "app")
            /\ holds[c].app = "token" /\ ~holds[c].download => spare[c] \/ bearer[c] = "app"
    /\ at[c] = "sleep" => attempt[c] < Retries
    /\ verdict[c] = "refused" /\ ~holds[c].download /\ holds[c].app = "token" =>
           bearer[c] = "app" /\ "app" \notin holds[c].sees
    /\ verdict[c] = "exhausted" => bearer[c] = "app" /\ slept[c] = Retries - 1

Shapes ==
    /\ DOMAIN holds = Requests /\ holds = [c \in Requests |-> holds[c]]
    /\ at = [c \in Requests |-> at[c]] /\ attempt = [c \in Requests |-> attempt[c]]
    /\ spare = [c \in Requests |-> spare[c]] /\ bearer = [c \in Requests |-> bearer[c]]
    /\ slept = [c \in Requests |-> slept[c]] /\ verdict = [c \in Requests |-> verdict[c]]

\* What holds of all calls holds of each one, apart from the others.
LEMMA CallsSplit == CallsAreTrue <=> Shapes /\ \A c \in Requests : CallOf(c)
<1>1. CallsAreTrue => Shapes /\ \A c \in Requests : CallOf(c)
  <2> SUFFICES ASSUME CallsAreTrue PROVE Shapes /\ \A c \in Requests : CallOf(c)
    OBVIOUS
  <2>1. Shapes
    BY DEF CallsAreTrue, Shapes
  <2>2. \A c \in Requests : CallOf(c)
    BY DEF CallsAreTrue, Attempted, Http!SpareIsTried, CallOf
  <2> QED BY <2>1, <2>2
<1>2. ASSUME Shapes, \A c \in Requests : CallOf(c) PROVE CallsAreTrue
  <2>1. Attempted
    BY <1>2 DEF Attempted, CallOf
  <2>2. Http!SpareIsTried
    BY <1>2 DEF Http!SpareIsTried, CallOf
  <2> QED BY <1>2, <2>1, <2>2 DEF CallsAreTrue, Shapes, CallOf
<1> QED BY <1>1, <1>2

\* A step of one call leaves what holds of the others.
LEMMA OneCall ==
  ASSUME CallsAreTrue, NEW c \in Requests, holds' = holds, CallOf(c)',
         at' = [at EXCEPT ![c] = at'[c]], attempt' = [attempt EXCEPT ![c] = attempt'[c]],
         spare' = [spare EXCEPT ![c] = spare'[c]], bearer' = [bearer EXCEPT ![c] = bearer'[c]],
         slept' = [slept EXCEPT ![c] = slept'[c]], verdict' = [verdict EXCEPT ![c] = verdict'[c]]
  PROVE  CallsAreTrue'
<1>1. Shapes /\ \A d \in Requests : CallOf(d)
  BY CallsSplit
<1>2. Shapes'
  BY <1>1 DEF Shapes
<1>3. ASSUME NEW d \in Requests, d # c PROVE CallOf(d)'
  <2>1. /\ at'[d] = at[d] /\ attempt'[d] = attempt[d] /\ spare'[d] = spare[d] /\ bearer'[d] = bearer[d]
        /\ slept'[d] = slept[d] /\ verdict'[d] = verdict[d] /\ holds'[d] = holds[d]
    BY <1>1, <1>3 DEF Shapes
  <2>2. CallOf(d)
    BY <1>1
  <2> QED BY <2>1, <2>2 DEF CallOf
<1>4. \A d \in Requests : CallOf(d)'
  BY <1>3
<1>5. Attempted'
  BY <1>2, <1>4 DEF Attempted, CallOf
<1>6. Http!SpareIsTried'
  BY <1>4 DEF Http!SpareIsTried, CallOf
<1> QED BY <1>2, <1>4, <1>5, <1>6 DEF CallsAreTrue, Shapes, CallOf

\* A call's update, written out.
Writes(c, w, a, s, b, n, v) ==
    /\ holds' = holds /\ at' = [at EXCEPT ![c] = w] /\ attempt' = [attempt EXCEPT ![c] = a]
    /\ spare' = [spare EXCEPT ![c] = s] /\ bearer' = [bearer EXCEPT ![c] = b]
    /\ slept' = [slept EXCEPT ![c] = n] /\ verdict' = [verdict EXCEPT ![c] = v]

\* A call that is written as it should be leaves all calls true.
LEMMA Written ==
  ASSUME CallsAreTrue, NEW c \in Requests, NEW w, NEW a, NEW s, NEW b, NEW n, NEW v,
         Writes(c, w, a, s, b, n, v),
         w \in {"new", "auth", "session", "send", "sleep", "ended"}, a \in 1..Retries, s \in BOOLEAN,
         b \in {"user", "app", Http!Nobody}, n \in 0..Retries,
         v \in {"none", "ok", "absent", "error", "refused", "exhausted"},
         w # "ended" => v = "none",
         w \in {"session", "send", "sleep"} =>
            /\ a = (IF w = "sleep" THEN n ELSE n + 1) \/ (a = (IF w = "sleep" THEN n ELSE n + 1) + 1 /\ ~s /\ b = "app")
            /\ holds[c].app = "token" /\ ~holds[c].download => s \/ b = "app",
         w = "sleep" => a < Retries,
         v = "refused" /\ ~holds[c].download /\ holds[c].app = "token" => b = "app" /\ "app" \notin holds[c].sees,
         v = "exhausted" => b = "app" /\ n = Retries - 1
  PROVE  CallsAreTrue'
<1>1. Shapes /\ \A d \in Requests : CallOf(d)
  BY CallsSplit
<1>2. /\ at'[c] = w /\ attempt'[c] = a /\ spare'[c] = s /\ bearer'[c] = b /\ slept'[c] = n
      /\ verdict'[c] = v /\ holds'[c] = holds[c]
  BY <1>1 DEF Shapes, Writes
<1>3. holds[c] \in Http!Holds
  BY <1>1 DEF CallOf
<1>4. CallOf(c)'
  BY <1>2, <1>3 DEF CallOf
<1>5. /\ at' = [at EXCEPT ![c] = at'[c]] /\ attempt' = [attempt EXCEPT ![c] = attempt'[c]]
      /\ spare' = [spare EXCEPT ![c] = spare'[c]] /\ bearer' = [bearer EXCEPT ![c] = bearer'[c]]
      /\ slept' = [slept EXCEPT ![c] = slept'[c]] /\ verdict' = [verdict EXCEPT ![c] = verdict'[c]]
  BY <1>2 DEF Writes
<1> QED BY <1>4, <1>5, OneCall DEF Writes

\* A function is what it is when one of its values is put in its place.
LEMMA Same ==
  ASSUME NEW S, NEW f, f = [x \in S |-> f[x]], NEW c \in S
  PROVE  f = [f EXCEPT ![c] = f[c]]
OBVIOUS

\* What holds of each call is kept by every step.
LEMMA CallsStep == CallsAreTrue /\ [Http!Next]_(Http!vars) => CallsAreTrue'
<1> SUFFICES ASSUME CallsAreTrue, [Http!Next]_(Http!vars) PROVE CallsAreTrue'
  OBVIOUS
<1>0. Retries \in Nat \ {0} /\ 1 \in 1..Retries /\ 0 \in 0..Retries
  BY OutsideAssumption
<1>s. Shapes /\ \A c \in Requests : CallOf(c)
  BY CallsSplit
<1>f. PICK no \in BOOLEAN : no = FALSE
  BY Zenon
<1>t. ASSUME NEW c \in Requests
      PROVE  /\ at = [at EXCEPT ![c] = at[c]] /\ attempt = [attempt EXCEPT ![c] = attempt[c]]
             /\ spare = [spare EXCEPT ![c] = spare[c]] /\ bearer = [bearer EXCEPT ![c] = bearer[c]]
             /\ slept = [slept EXCEPT ![c] = slept[c]] /\ verdict = [verdict EXCEPT ![c] = verdict[c]]
  <2>1. at = [at EXCEPT ![c] = at[c]]
    BY <1>s, Same DEF Shapes
  <2>2. attempt = [attempt EXCEPT ![c] = attempt[c]]
    BY <1>s, Same DEF Shapes
  <2>3. spare = [spare EXCEPT ![c] = spare[c]]
    BY <1>s, Same DEF Shapes
  <2>4. bearer = [bearer EXCEPT ![c] = bearer[c]]
    BY <1>s, Same DEF Shapes
  <2>5. slept = [slept EXCEPT ![c] = slept[c]]
    BY <1>s, Same DEF Shapes
  <2>6. verdict = [verdict EXCEPT ![c] = verdict[c]]
    BY <1>s, Same DEF Shapes
  <2> QED BY <2>1, <2>2, <2>3, <2>4, <2>5, <2>6
<1>1. ASSUME NEW c \in Requests, Http!Call(c) PROVE CallsAreTrue'
  <2>1. Writes(c, "auth", attempt[c], spare[c], bearer[c], slept[c], verdict[c])
    BY <1>1, <1>t DEF Http!Call, Http!Goto, Writes
  <2>2. CallOf(c) /\ at[c] = "new"
    BY <1>1, <1>s DEF Http!Call
  <2> QED BY <2>1, <2>2, Written DEF CallOf
<1>2. ASSUME NEW c \in Requests, Http!Auth(c) PROVE CallsAreTrue'
  <2>0. CallOf(c) /\ at[c] = "auth" /\ verdict[c] = "none" /\ holds[c] \in Http!Holds
    BY <1>2, <1>s DEF Http!Auth, CallOf
  <2>1. CASE holds[c].app = "absent" /\ holds[c].user = "asks"
    <3>1. Writes(c, "ended", 1, spare[c], bearer[c], 0, "refused")
      BY <1>2, <1>t, <2>1 DEF Http!Auth, Http!End, Http!Goto, Writes
    <3> QED BY <1>0, <2>0, <2>1, <3>1, Written DEF CallOf
  <2>2. CASE ~(holds[c].app = "absent" /\ holds[c].user = "asks")
    <3> DEFINE b == IF holds[c].user = "asks" THEN (IF holds[c].app = "token" THEN "app" ELSE Http!Nobody)
                    ELSE (IF holds[c].user = "token" THEN "user" ELSE Http!Nobody)
               s == holds[c].app # "absent" /\ holds[c].user # "asks" /\ ~holds[c].download
    <3>1. Writes(c, "session", 1, s, b, 0, verdict[c])
      BY <1>2, <1>t, <2>2 DEF Http!Auth, Http!Goto, Writes
    <3>2. s \in BOOLEAN
      BY Zenon
    <3>3. b \in {"user", "app", Http!Nobody}
      OBVIOUS
    <3>4. holds[c].app = "token" /\ ~holds[c].download => s \/ b = "app"
      OBVIOUS
    <3> HIDE DEF s, b
    <3> QED BY <1>0, <2>0, <3>1, <3>2, <3>3, <3>4, Written DEF CallOf
  <2> QED BY <2>1, <2>2
<1>3. ASSUME NEW c \in Requests, Http!Session(c) PROVE CallsAreTrue'
  <2>1. Writes(c, "send", attempt[c], spare[c], bearer[c], slept[c], verdict[c])
    BY <1>3, <1>t DEF Http!Session, Http!Goto, Writes
  <2>2. CallOf(c) /\ at[c] = "session"
    BY <1>3, <1>s DEF Http!Session
  <2> QED BY <2>1, <2>2, Written DEF CallOf
<1>4. ASSUME NEW c \in Requests, Http!Wake(c) PROVE CallsAreTrue'
  <2>0. CallOf(c) /\ at[c] = "sleep" /\ attempt[c] < Retries
    BY <1>4, <1>s DEF Http!Wake, CallOf
  <2>1. Writes(c, "send", attempt[c] + 1, spare[c], bearer[c], slept[c], verdict[c])
    BY <1>4, <1>t, <2>0 DEF Http!Wake, Http!Again, Http!Goto, Writes
  <2>2. attempt[c] + 1 \in 1..Retries
    BY <1>0, <2>0 DEF CallOf
  <2> QED BY <1>0, <2>0, <2>1, <2>2, Written DEF CallOf
<1>5. ASSUME NEW c \in Requests, Http!Broken(c) PROVE CallsAreTrue'
  <2>1. Writes(c, "ended", attempt[c], spare[c], bearer[c], slept[c], "error")
    BY <1>5, <1>t DEF Http!Broken, Http!End, Http!Goto, Writes
  <2>2. CallOf(c)
    BY <1>s
  <2> QED BY <2>1, <2>2, Written DEF CallOf
<1>6. ASSUME NEW c \in Requests, Http!FallBack(c) PROVE CallsAreTrue'
  <2>0. CallOf(c) /\ at[c] = "send" /\ spare[c] = TRUE /\ verdict[c] = "none"
    BY <1>6, <1>s DEF Http!FallBack, Http!Sends, Http!FallsBack, CallOf
  <2>1. CASE attempt[c] < Retries
    <3>1. Writes(c, "send", attempt[c] + 1, no, "app", slept[c], "none")
      BY <1>6, <1>f, <1>t, <2>0, <2>1 DEF Http!FallBack, Http!Again, Http!Goto, Writes
    <3>2. attempt[c] + 1 \in 1..Retries
      BY <1>0, <2>0, <2>1 DEF CallOf
    <3> QED BY <1>f, <1>0, <2>0, <3>1, <3>2, Written DEF CallOf
  <2>2. CASE ~(attempt[c] < Retries)
    <3>1. Writes(c, "ended", attempt[c], no, "app", slept[c], "exhausted")
      BY <1>6, <1>f, <1>t, <2>0, <2>2 DEF Http!FallBack, Http!Again, Http!End, Http!Goto, Writes
    <3>2. slept[c] = Retries - 1
      BY <1>0, <2>0, <2>2 DEF CallOf
    <3> QED BY <1>f, <1>0, <2>0, <3>1, <3>2, Written DEF CallOf
  <2> QED BY <2>1, <2>2
<1>7. ASSUME NEW c \in Requests, Http!Denied(c) PROVE CallsAreTrue'
  <2>0. CallOf(c) /\ at[c] = "send" /\ ~Http!Sees(c) /\ ~Http!FallsBack(c)
    BY <1>7, <1>s DEF Http!Denied, Http!Sends
  <2>1. PICK how \in {"refused", "absent"} : Writes(c, "ended", attempt[c], no, bearer[c], slept[c], how)
    BY <1>7, <1>f, <1>t DEF Http!Denied, Http!End, Http!Goto, Writes
  <2>2. ~holds[c].download /\ holds[c].app = "token" => bearer[c] = "app" /\ "app" \notin holds[c].sees
    BY <2>0 DEF CallOf, Http!Sees, Http!FallsBack
  <2> QED BY <1>f, <2>0, <2>1, <2>2, Written DEF CallOf
<1>8. ASSUME NEW c \in Requests, Http!Page(c) PROVE CallsAreTrue'
  <2>0. CallOf(c) /\ at[c] = "send" /\ verdict[c] = "none"
    BY <1>8, <1>s DEF Http!Page, Http!Sends, CallOf
  <2>1. \/ Writes(c, "ended", attempt[c], spare[c], bearer[c], slept[c], "ok")
        \/ Writes(c, "auth", attempt[c], spare[c], bearer[c], slept[c], "none")
    <3> DEFINE short == Len(Http!PageOf(page[c])) < PerPage \/ Http!Enough(out'[c])
    <3>1. /\ IF short THEN Http!End(c, "ok") ELSE Http!Goto(c, "auth") /\ UNCHANGED verdict
          /\ UNCHANGED <<holds, attempt, spare, bearer, slept>>
      BY <1>8 DEF Http!Page
    <3> HIDE DEF short
    <3> QED BY <1>t, <2>0, <3>1 DEF Http!End, Http!Goto, Writes
  <2>2. CASE Writes(c, "ended", attempt[c], spare[c], bearer[c], slept[c], "ok")
    BY <2>0, <2>2, Written DEF CallOf
  <2>3. CASE Writes(c, "auth", attempt[c], spare[c], bearer[c], slept[c], "none")
    BY <2>0, <2>3, Written DEF CallOf
  <2> QED BY <2>1, <2>2, <2>3
<1>9. ASSUME NEW c \in Requests, NEW short \in BOOLEAN, Http!Limited(c, short) PROVE CallsAreTrue'
  <2>0. CallOf(c) /\ at[c] = "send" /\ verdict[c] = "none"
    BY <1>9, <1>s DEF Http!Limited, Http!Sends, CallOf
  <2>1. CASE short /\ attempt[c] < Retries /\ ~holds[c].download
    <3>1. Writes(c, "sleep", attempt[c], spare[c], bearer[c], slept[c] + 1, "none")
      BY <1>9, <1>t, <2>0, <2>1 DEF Http!Limited, Http!Goto, Writes
    <3>2. slept[c] + 1 \in 0..Retries
      BY <1>0, <2>0, <2>1 DEF CallOf
    <3> QED BY <1>0, <2>0, <2>1, <3>1, <3>2, Written DEF CallOf
  <2>2. CASE ~(short /\ attempt[c] < Retries /\ ~holds[c].download)
    <3>1. Writes(c, "ended", attempt[c], spare[c], bearer[c], slept[c], "error")
      BY <1>9, <1>t, <2>0, <2>2 DEF Http!Limited, Http!End, Http!Goto, Writes
    <3> QED BY <2>0, <3>1, Written DEF CallOf
  <2> QED BY <2>1, <2>2
<1>10. ASSUME NEW c \in Requests, NEW fits \in BOOLEAN, Http!Download(c, fits) PROVE CallsAreTrue'
  <2>1. PICK how \in {"ok", "absent"} : Writes(c, "ended", attempt[c], spare[c], bearer[c], slept[c], how)
    BY <1>10, <1>t DEF Http!Download, Http!End, Http!Goto, Writes
  <2>2. CallOf(c)
    BY <1>s
  <2> QED BY <2>1, <2>2, Written DEF CallOf
<1>11. CASE UNCHANGED Http!callVars
  BY <1>11 DEF Http!callVars, CallsAreTrue, Attempted, Http!SpareIsTried
<1>12. Http!Close \/ Http!Closed \/ (\E j \in 1..Size : Http!TakeOut(j)) \/ UNCHANGED Http!vars => UNCHANGED Http!callVars
  BY DEF Http!Close, Http!Closed, Http!TakeOut, Http!vars
<1> QED BY <1>1, <1>2, <1>3, <1>4, <1>5, <1>6, <1>7, <1>8, <1>9, <1>10, <1>11, <1>12 DEF Http!Next,
   Http!Request
-----------------------------------------------------------------------------
\* The whole list of n items.
LEMMA WholeTyped ==
  ASSUME NEW n \in Nat
  PROVE  Len(Whole(n)) = n /\ Whole(n) \in Seq(1..n) /\ \A i \in 1..n : Whole(n)[i] = i
<1>1. Whole(n) \in [1..n -> 1..n]
  BY DEF Whole
<1>2. Whole(n) \in Seq(1..n)
  BY <1>1, SeqDef
<1> QED BY <1>1, <1>2, LenProperties DEF Whole

\* ... is a list of items that there are.
LEMMA WholeInAll == ASSUME NEW n \in Nat, n <= Size PROVE Whole(n) \in Seq(1..Size)
<1>1. Size \in Nat
  BY OutsideAssumption
<1>2. Whole(n) \in [1..n -> 1..Size]
  BY <1>1 DEF Whole
<1> QED BY <1>2, SeqDef

\* A list cut at the number that is wanted.
LEMMA CutTyped ==
  ASSUME NEW s \in Seq(1..Size)
  PROVE  /\ Http!Cut(s) \in Seq(1..Size)
         /\ Len(Http!Cut(s)) = (IF Wanted > 0 /\ Len(s) > Wanted THEN Wanted ELSE Len(s))
<1>1. Wanted \in Nat /\ Len(s) \in Nat
  BY OutsideAssumption
<1>2. CASE Wanted > 0 /\ Len(s) > Wanted
  <2>0. \A i \in 1..Wanted : i \in 1..Len(s)
    BY <1>1, <1>2
  <2>1. \A i \in 1..Wanted : s[i] \in 1..Size
    BY <2>0, ElementOfSeq
  <2>3. 1 \in Int /\ Wanted \in Int /\ (IF 1 <= Wanted THEN Wanted - 1 + 1 ELSE 0) = Wanted
    BY <1>1
  <2>2. SubSeq(s, 1, Wanted) \in Seq(1..Size) /\ Len(SubSeq(s, 1, Wanted)) = Wanted
    BY <2>1, <2>3, SubSeqProperties
  <2> QED BY <1>2, <2>2 DEF Http!Cut
<1> QED BY <1>1, <1>2 DEF Http!Cut

\* The whole list, cut, is the whole list of fewer.
LEMMA CutWhole ==
  ASSUME NEW n \in Nat
  PROVE  Http!Cut(Whole(n)) = IF Wanted > 0 /\ n > Wanted THEN Whole(Wanted) ELSE Whole(n)
<1>1. Wanted \in Nat /\ Len(Whole(n)) = n /\ Whole(n) \in Seq(1..n) /\ \A i \in 1..n : Whole(n)[i] = i
  BY OutsideAssumption, WholeTyped
<1>2. CASE Wanted > 0 /\ n > Wanted
  <2>1. /\ SubSeq(Whole(n), 1, Wanted) \in Seq(1..n) /\ Len(SubSeq(Whole(n), 1, Wanted)) = Wanted
        /\ \A i \in 1..Wanted : SubSeq(Whole(n), 1, Wanted)[i] = Whole(n)[1 + i - 1]
    BY <1>1, <1>2, SubSeqProperties
  <2>2. \A i \in 1..Wanted : i \in 1..n /\ 1 + i - 1 = i
    BY <1>1, <1>2
  <2>3. \A i \in 1..Wanted : SubSeq(Whole(n), 1, Wanted)[i] = Whole(Wanted)[i]
    BY <1>1, <2>1, <2>2 DEF Whole
  <2>4. Whole(Wanted) \in Seq(1..Wanted) /\ Len(Whole(Wanted)) = Wanted
    BY <1>1, WholeTyped
  <2>5. SubSeq(Whole(n), 1, Wanted) = Whole(Wanted)
    BY <1>1, <2>1, <2>3, <2>4, SeqEqual
  <2> QED BY <1>1, <1>2, <2>5 DEF Http!Cut
<1> QED BY <1>1, <1>2 DEF Http!Cut

\* What the page after a items holds.
LEMMA PageTrue ==
  ASSUME Items, NEW n \in Nat, n > 0, NEW a, a = (n - 1) * PerPage
  PROVE  \E l \in 0..PerPage :
            /\ a \in Nat /\ n * PerPage = a + PerPage
            /\ Http!PageOf(n) = [i \in 1..l |-> list[a + i]]
            /\ Http!PageOf(n) \in Seq(1..Size) /\ Len(Http!PageOf(n)) = l
            /\ l > 0 => a + l <= Len(list)
            /\ l < PerPage => Len(list) <= a + l
<1>0. PerPage \in Nat \ {0} /\ list \in Seq(1..Size) /\ Len(list) \in Nat
  BY OutsideAssumption DEF Items
<1>1. a \in Nat /\ n * PerPage = a + PerPage
  BY <1>0
<1> DEFINE l == IF Len(list) >= a + PerPage THEN PerPage ELSE IF Len(list) > a THEN Len(list) - a ELSE 0
<1>2. l \in 0..PerPage /\ (l > 0 => a + l <= Len(list)) /\ (l < PerPage => Len(list) <= a + l)
  <2>1. CASE Len(list) >= a + PerPage
    BY <1>0, <1>1, <2>1
  <2>2. CASE ~(Len(list) >= a + PerPage) /\ Len(list) > a
    <3>1. l = Len(list) - a
      BY <2>2
    <3> QED BY <1>0, <1>1, <2>2, <3>1
  <2>3. CASE ~(Len(list) >= a + PerPage) /\ ~(Len(list) > a)
    <3>1. l = 0
      BY <2>3
    <3> QED BY <1>0, <1>1, <2>3, <3>1
  <2> QED BY <2>1, <2>2, <2>3
<1>3. Http!PageOf(n) = [i \in 1..l |-> list[a + i]]
  BY <1>0, <1>1 DEF Http!PageOf
<1> HIDE DEF l
<1>4. \A i \in 1..l : a + i \in 1..Len(list)
  BY <1>0, <1>1, <1>2
<1>5. Http!PageOf(n) \in [1..l -> 1..Size]
  BY <1>0, <1>3, <1>4, ElementOfSeq
<1>6. Http!PageOf(n) \in Seq(1..Size) /\ Len(Http!PageOf(n)) = l
  BY <1>2, <1>3, <1>5, SeqDef, LenProperties
<1> QED BY <1>1, <1>2, <1>3, <1>6

\* No page was read at the start.
LEMMA ListsInit == Http!Init => ListsAreTrue
<1> SUFFICES ASSUME Http!Init PROVE ListsAreTrue
  OBVIOUS
<1>0. Size \in Nat /\ PerPage \in Nat \ {0} /\ Wanted \in Nat /\ MaxChanges \in Nat
  BY OutsideAssumption
<1>1. list = Whole(Size) /\ Len(Whole(Size)) = Size /\ Whole(Size) \in Seq(1..Size)
  BY <1>0, WholeTyped DEF Http!Init, Whole
<1>2. changed = 0 /\ changed \in 0..MaxChanges
  BY <1>0 DEF Http!Init
<1>3. <<>> \in Seq(1..Size) /\ Len(<<>>) = 0
  OBVIOUS
<1>4. out \in [Requests -> Seq(1..Size)] /\ page \in [Requests -> Nat]
  BY <1>3 DEF Http!Init
<1>5. Items
  BY <1>0, <1>1, <1>2, <1>4 DEF Items
<1>6. <<>> = Whole(0)
  <2>1. Whole(0) \in Seq(1..0) /\ Len(Whole(0)) = 0
    BY WholeTyped
  <2> QED BY <2>1
<1>7. (1 - 1) * PerPage = 0
  BY <1>0
<1>8. \A c \in Requests : out[c] = <<>> /\ page[c] = 1 /\ verdict[c] = "none"
  BY DEF Http!Init
<1>9. ~Http!Enough(<<>>)
  BY <1>0, <1>3 DEF Http!Enough
<1>10. Reads
  BY <1>0, <1>3, <1>6, <1>7, <1>8, <1>9 DEF Reads
<1>11. Http!ListIsWhole
  BY <1>8 DEF Http!ListIsWhole
<1> QED BY <1>2, <1>4, <1>5, <1>10, <1>11 DEF ListsAreTrue

\* What reads nothing ends no list, and starts none that had ended.
LEMMA ListsKept ==
  ASSUME ListsAreTrue, UNCHANGED <<list, changed, out, page, holds>>,
         \A c \in Requests :
            /\ at'[c] # "ended" => at[c] # "ended"
            /\ verdict'[c] = "ok" /\ ~holds[c].download => verdict[c] = "ok"
  PROVE  ListsAreTrue'
<1>1. Items' /\ Reads'
  BY DEF ListsAreTrue, Items, Reads, Http!Enough
<1>2. Http!ListIsWhole'
  BY DEF ListsAreTrue, Http!ListIsWhole, Http!Enough, Http!Cut
<1> QED BY <1>1, <1>2 DEF ListsAreTrue

\* Two sequences one after the other.
LEMMA Joined ==
  ASSUME NEW T, NEW s \in Seq(T), NEW t \in Seq(T)
  PROVE  /\ s \o t \in Seq(T) /\ Len(s \o t) = Len(s) + Len(t)
         /\ \A i \in 1..Len(s) : (s \o t)[i] = s[i]
         /\ \A i \in 1..Len(t) : (s \o t)[Len(s) + i] = t[i]
<1>1. Len(s) \in Nat /\ Len(t) \in Nat
  BY LenProperties
<1>2. s \o t \in Seq(T) /\ Len(s \o t) = Len(s) + Len(t)
  BY ConcatProperties
<1>3. \A i \in 1..Len(s) + Len(t) : (s \o t)[i] = IF i <= Len(s) THEN s[i] ELSE t[i - Len(s)]
  BY ConcatProperties
<1>4. ASSUME NEW i \in 1..Len(s) PROVE (s \o t)[i] = s[i]
  <2>1. i \in 1..Len(s) + Len(t) /\ i <= Len(s)
    BY <1>1
  <2> QED BY <1>3, <2>1
<1>5. ASSUME NEW i \in 1..Len(t) PROVE (s \o t)[Len(s) + i] = t[i]
  <2>1. Len(s) + i \in 1..Len(s) + Len(t) /\ ~(Len(s) + i <= Len(s)) /\ (Len(s) + i) - Len(s) = i
    BY <1>1
  <2>2. (s \o t)[Len(s) + i] = IF Len(s) + i <= Len(s) THEN s[Len(s) + i] ELSE t[(Len(s) + i) - Len(s)]
    BY <1>3, <2>1
  <2> QED BY <2>1, <2>2
<1> QED BY <1>2, <1>4, <1>5


\* A page that is added leaves a list whole, or something has changed under it.
LEMMA PageStep ==
  ASSUME CallsAreTrue, ListsAreTrue, NEW c \in Requests, Http!Page(c)
  PROVE  ListsAreTrue'
<1>0. Size \in Nat /\ PerPage \in Nat \ {0} /\ Wanted \in Nat /\ MaxChanges \in Nat
  BY OutsideAssumption
<1>1. Items /\ Reads /\ Http!ListIsWhole /\ page \in [Requests -> Nat] /\ changed \in 0..MaxChanges
  BY DEF ListsAreTrue
<1>2. at[c] = "send"
  BY DEF Http!Page, Http!Sends
<1> DEFINE old == out[c]
           got == Http!PageOf(page[c])
           new == old \o got
<1>3. PICK a : a = (page[c] - 1) * PerPage
  OBVIOUS
<1>4. /\ page[c] \in Nat /\ page[c] > 0 /\ Len(old) = a /\ old \in Seq(1..Size)
      /\ changed = 0 => a <= Size /\ old = Whole(a)
  BY <1>1, <1>2, <1>3 DEF Reads, Items
<1>5. PICK l \in 0..PerPage :
            /\ a \in Nat /\ page[c] * PerPage = a + PerPage
            /\ got = [i \in 1..l |-> list[a + i]]
            /\ got \in Seq(1..Size) /\ Len(got) = l
            /\ l > 0 => a + l <= Len(list)
            /\ l < PerPage => Len(list) <= a + l
  BY <1>1, <1>3, <1>4, PageTrue
<1>6. /\ list \in Seq(1..Size) /\ Len(list) \in Nat /\ Len(list) + changed = Size
      /\ changed = 0 => list = Whole(Size)
      /\ out \in [Requests -> Seq(1..Size)]
  BY <1>1 DEF Items
<1>7. /\ new \in Seq(1..Size) /\ Len(new) = a + l
      /\ \A i \in 1..a : new[i] = old[i]
      /\ \A i \in 1..l : new[a + i] = got[i]
  <2>1. ASSUME NEW s \in Seq(1..Size), NEW t \in Seq(1..Size)
        PROVE  /\ s \o t \in Seq(1..Size) /\ Len(s \o t) = Len(s) + Len(t)
               /\ \A i \in 1..Len(s) : (s \o t)[i] = s[i]
               /\ \A i \in 1..Len(t) : (s \o t)[Len(s) + i] = t[i]
    BY Joined
  <2>2. old \in Seq(1..Size) /\ got \in Seq(1..Size) /\ Len(old) = a /\ Len(got) = l
    BY <1>4, <1>5
  <2> HIDE DEF old, got
  <2>3. /\ old \o got \in Seq(1..Size) /\ Len(old \o got) = Len(old) + Len(got)
        /\ \A i \in 1..Len(old) : (old \o got)[i] = old[i]
        /\ \A i \in 1..Len(got) : (old \o got)[Len(old) + i] = got[i]
    BY <2>1, <2>2
  <2> QED BY <2>2, <2>3
<1>8. ASSUME changed = 0 PROVE a + l <= Size /\ new = Whole(a + l)
  <2>1. Len(list) = Size
    BY <1>0, <1>6, <1>8
  <2>2. a + l <= Size /\ a + l \in Nat
    BY <1>4, <1>5, <1>8, <2>1
  <2>3. Whole(a + l) \in Seq(1..(a + l)) /\ Len(Whole(a + l)) = a + l
    BY <2>2, WholeTyped
  <2>4. ASSUME NEW i \in 1..(a + l) PROVE new[i] = Whole(a + l)[i]
    <3>1. Whole(a + l)[i] = i
      BY DEF Whole
    <3>2. CASE i <= a
      <4>1. i \in 1..a
        BY <1>5, <3>2
      <4>2. new[i] = old[i]
        BY <1>7, <4>1
      <4> QED BY <1>4, <1>8, <3>1, <4>1, <4>2 DEF Whole
    <3>3. CASE i > a
      <4>1. i - a \in 1..l /\ a + (i - a) = i /\ i \in 1..Size
        BY <1>0, <1>5, <2>2, <3>3
      <4>2. new[i] = got[i - a]
        BY <1>7, <4>1
      <4>3. got[i - a] = list[i]
        BY <1>5, <4>1
      <4> QED BY <1>6, <1>8, <3>1, <4>1, <4>2, <4>3 DEF Whole
    <3>4. i \in Int /\ a \in Int
      BY <1>5, <2>2
    <3>5. i <= a \/ i > a
      BY <3>4
    <3> QED BY <3>2, <3>3, <3>5, Zenon
  <2>5. new = Whole(a + l)
    BY <1>7, <2>2, <2>3, <2>4, WholeInAll, SeqEqual
  <2> QED BY <2>2, <2>5
<1>9. /\ out' = [out EXCEPT ![c] = Http!Cut(new)] /\ out'[c] = Http!Cut(new)
      /\ IF Len(got) < PerPage \/ Http!Enough(out'[c])
         THEN Http!End(c, "ok") /\ UNCHANGED page
         ELSE Http!Goto(c, "auth") /\ page' = [page EXCEPT ![c] = @ + 1] /\ UNCHANGED verdict
      /\ UNCHANGED <<list, changed, holds>>
  BY <1>6 DEF Http!Page, Http!listVars
<1>10. Http!Cut(new) \in Seq(1..Size) /\ Len(Http!Cut(new)) = IF Wanted > 0 /\ Len(new) > Wanted THEN Wanted ELSE Len(new)
  BY <1>7, CutTyped
<1> HIDE DEF old, got, new
<1>11. Items'
  BY <1>6, <1>9, <1>10 DEF Items
<1>12. page' \in [Requests -> Nat]
  BY <1>1, <1>9
<1>13. ASSUME NEW d \in Requests, d # c
       PROVE  out'[d] = out[d] /\ page'[d] = page[d] /\ at'[d] = at[d] /\ verdict'[d] = verdict[d] /\ holds'[d] = holds[d]
  BY <1>1, <1>6, <1>9, <1>13 DEF CallsAreTrue, Http!End, Http!Goto
<1>14. at'[c] # "ended" => /\ l = PerPage /\ ~Http!Enough(Http!Cut(new)) /\ page'[c] = page[c] + 1
  BY <1>0, <1>1, <1>5, <1>9 DEF CallsAreTrue, Http!End, Http!Goto
<1>15. ~Http!Enough(Http!Cut(new)) => Http!Cut(new) = new
  BY <1>0, <1>7, <1>10 DEF Http!Enough, Http!Cut
<1>16. Reads'
  <2> SUFFICES ASSUME NEW d \in Requests, at'[d] # "ended"
               PROVE  /\ page'[d] > 0 /\ Len(out'[d]) = (page'[d] - 1) * PerPage
                      /\ ~Http!Enough(out'[d])
                      /\ changed' = 0 => Len(out'[d]) <= Size /\ out'[d] = Whole(Len(out'[d]))
    BY DEF Reads, Http!Enough
  <2>1. CASE d # c
    BY <1>1, <1>9, <1>13, <2>1 DEF Reads
  <2>2. CASE d = c
    <3>1. l = PerPage /\ ~Http!Enough(Http!Cut(new)) /\ page'[c] = page[c] + 1 /\ out'[c] = new
      BY <1>9, <1>14, <1>15, <2>2
    <3>2. page'[c] > 0 /\ page'[c] - 1 = page[c]
      BY <1>4, <3>1
    <3>3. Len(out'[c]) = (page'[c] - 1) * PerPage
      BY <1>5, <1>7, <3>1, <3>2
    <3> QED BY <1>7, <1>8, <1>9, <1>15, <2>2, <3>1, <3>2, <3>3
  <2> QED BY <2>1, <2>2
<1>17. verdict'[c] = "ok" => l < PerPage \/ Http!Enough(Http!Cut(new))
  <2>1. verdict[c] = "none"
    BY <1>2 DEF CallsAreTrue, Attempted
  <2> QED BY <1>5, <1>9, <2>1 DEF CallsAreTrue, Http!End, Http!Goto
<1>18. Http!ListIsWhole'
  <2> SUFFICES ASSUME NEW d \in Requests, verdict'[d] = "ok", ~holds[d].download
               PROVE  /\ changed = 0 => out'[d] = Http!Cut(Whole(Size))
                      /\ ~Http!Enough(out'[d]) => Len(out'[d]) + 2 * changed >= Size
    BY <1>9 DEF Http!ListIsWhole, Http!Enough, Whole, Http!Cut
  <2>1. CASE d # c
    BY <1>1, <1>13, <2>1 DEF Http!ListIsWhole, Whole
  <2>2. CASE d = c
    <3>1. l < PerPage \/ Http!Enough(Http!Cut(new))
      BY <1>17, <2>2
    <3>2. changed \in Nat
      BY <1>0, <1>1
    <3>3. ASSUME ~Http!Enough(Http!Cut(new)) PROVE Len(Http!Cut(new)) + 2 * changed >= Size
      <4>1. Http!Cut(new) = new /\ Len(list) <= a + l
        BY <1>5, <1>15, <3>1, <3>3
      <4> QED BY <1>0, <1>5, <1>6, <1>7, <3>2, <4>1
    <3>4. ASSUME changed = 0 PROVE Http!Cut(new) = Http!Cut(Whole(Size))
      <4>1. a + l <= Size /\ new = Whole(a + l) /\ a + l \in Nat /\ Len(new) = a + l
        BY <1>5, <1>7, <1>8, <3>4
      <4>2. /\ Http!Cut(new) = IF Wanted > 0 /\ a + l > Wanted THEN Whole(Wanted) ELSE Whole(a + l)
            /\ Http!Cut(Whole(Size)) = IF Wanted > 0 /\ Size > Wanted THEN Whole(Wanted) ELSE Whole(Size)
        BY <1>0, <4>1, CutWhole
      <4>3. CASE l < PerPage
        <5>1. a + l = Size
          BY <1>0, <1>5, <1>6, <3>4, <4>1, <4>3
        <5> QED BY <4>1, <5>1
      <4>4. CASE Http!Enough(Http!Cut(new))
        <5>1. Wanted > 0 /\ a + l >= Wanted
          BY <1>0, <1>10, <4>1, <4>4 DEF Http!Enough
        <5> QED BY <1>0, <4>1, <4>2, <5>1
      <4> QED BY <3>1, <4>3, <4>4
    <3> QED BY <1>9, <2>2, <3>3, <3>4
  <2> QED BY <2>1, <2>2
<1> QED BY <1>1, <1>9, <1>11, <1>12, <1>16, <1>18 DEF ListsAreTrue

\* An item that is taken out is counted as a change.
LEMMA TakeOutStep ==
  ASSUME CallsAreTrue, ListsAreTrue, NEW i \in 1..Size, Http!TakeOut(i)
  PROVE  ListsAreTrue'
<1>0. Size \in Nat /\ MaxChanges \in Nat
  BY OutsideAssumption
<1>1. /\ Items /\ Reads /\ Http!ListIsWhole /\ page \in [Requests -> Nat] /\ changed \in 0..MaxChanges
      /\ list \in Seq(1..Size) /\ Len(list) \in Nat /\ Len(list) + changed = Size
  BY DEF ListsAreTrue, Items
<1>2. /\ changed < MaxChanges /\ changed' = changed + 1 /\ i \in 1..Len(list)
      /\ list' = SubSeq(list, 1, i - 1) \o SubSeq(list, i + 1, Len(list))
      /\ UNCHANGED <<out, page, holds, at, verdict>>
  BY DEF Http!TakeOut, Http!callVars
<1>3. changed' \in 0..MaxChanges /\ changed' # 0 /\ changed' \in Nat
  BY <1>0, <1>1, <1>2
<1>4. SubSeq(list, 1, i - 1) \in Seq(1..Size) /\ Len(SubSeq(list, 1, i - 1)) = i - 1
  BY <1>1, <1>2, SubSeqProperties
<1>5. SubSeq(list, i + 1, Len(list)) \in Seq(1..Size) /\ Len(SubSeq(list, i + 1, Len(list))) = Len(list) - i
  BY <1>1, <1>2, SubSeqProperties
<1> DEFINE before == SubSeq(list, 1, i - 1)
           after == SubSeq(list, i + 1, Len(list))
<1>6. list' \in Seq(1..Size) /\ Len(list') = (i - 1) + (Len(list) - i)
  <2>1. list' = before \o after /\ before \in Seq(1..Size) /\ after \in Seq(1..Size)
        /\ Len(before) = i - 1 /\ Len(after) = Len(list) - i
    BY <1>2, <1>4, <1>5
  <2>2. ASSUME NEW s \in Seq(1..Size), NEW t \in Seq(1..Size)
        PROVE  s \o t \in Seq(1..Size) /\ Len(s \o t) = Len(s) + Len(t)
    BY Joined
  <2>3. before \o after \in Seq(1..Size) /\ Len(before \o after) = Len(before) + Len(after)
    BY <2>1, <2>2
  <2> HIDE DEF before, after
  <2> QED BY <2>1, <2>3
<1>c. changed \in Nat
  BY <1>0, <1>1
<1>7. Len(list') + changed' = Size
  <2>1. PICK m \in Nat, n \in Nat : m = Len(list) /\ n = changed
    BY <1>1, <1>c
  <2>2. i \in Int /\ m + n = Size
    BY <1>1, <2>1
  <2>3. Len(list') = (i - 1) + (m - i) /\ changed' = n + 1
    BY <1>2, <1>6, <2>1
  <2>4. (i - 1) + (m - i) + (n + 1) = Size
    BY <2>2
  <2> QED BY <2>3, <2>4
<1>8. Items'
  BY <1>1, <1>2, <1>3, <1>6, <1>7 DEF Items
<1>9. Reads'
  BY <1>1, <1>2, <1>3 DEF Reads, Http!Enough
<1>10. Http!ListIsWhole'
  <2> SUFFICES ASSUME NEW d \in Requests, verdict[d] = "ok", ~holds[d].download, ~Http!Enough(out[d])
               PROVE  Len(out[d]) + 2 * changed' >= Size
    BY <1>2, <1>3 DEF Http!ListIsWhole, Http!Enough
  <2>1. Len(out[d]) + 2 * changed >= Size
    BY <1>1 DEF Http!ListIsWhole
  <2>2. Len(out[d]) \in Nat
    BY <1>1 DEF Items
  <2>3. PICK n \in Nat : n = Len(out[d])
    BY <2>2
  <2>4. n + 2 * changed >= Size /\ changed' = changed + 1
    BY <1>2, <2>1, <2>3
  <2>5. n + 2 * changed' >= Size
    BY <1>0, <1>c, <2>4
  <2> QED BY <2>3, <2>5
<1> QED BY <1>1, <1>2, <1>3, <1>8, <1>9, <1>10 DEF ListsAreTrue

\* What was read of a list is whole, after every step.
LEMMA ListsStep == CallsAreTrue /\ ListsAreTrue /\ [Http!Next]_(Http!vars) => ListsAreTrue'
<1> SUFFICES ASSUME CallsAreTrue, ListsAreTrue, [Http!Next]_(Http!vars) PROVE ListsAreTrue'
  OBVIOUS
<1>0. /\ at \in [Requests -> {"new", "auth", "session", "send", "sleep", "ended"}]
      /\ verdict \in [Requests -> {"none", "ok", "absent", "error", "refused", "exhausted"}]
  BY DEF CallsAreTrue
<1> DEFINE Kept == /\ UNCHANGED <<list, changed, out, page, holds>>
                   /\ \A c \in Requests :
                         /\ at'[c] # "ended" => at[c] # "ended"
                         /\ verdict'[c] = "ok" /\ ~holds[c].download => verdict[c] = "ok"
<1>1. Kept => ListsAreTrue'
  BY ListsKept
<1>2. ASSUME NEW c \in Requests, Http!Call(c) \/ Http!Auth(c) PROVE Kept
  BY <1>0, <1>2 DEF Http!Call, Http!Auth, Http!Goto, Http!End, Http!listVars
<1>3. ASSUME NEW c \in Requests, Http!Session(c) PROVE Kept
  BY <1>0, <1>3 DEF Http!Session, Http!Goto, Http!listVars
<1>4. ASSUME NEW c \in Requests, Http!Wake(c) \/ Http!Broken(c) PROVE Kept
  BY <1>0, <1>4 DEF Http!Wake, Http!Broken, Http!Again, Http!Goto, Http!End, Http!listVars
<1>5. ASSUME NEW c \in Requests, Http!FallBack(c) PROVE Kept
  BY <1>0, <1>5 DEF Http!FallBack, Http!Sends, Http!Again, Http!Goto, Http!End, Http!listVars
<1>6. ASSUME NEW c \in Requests, Http!Denied(c) PROVE Kept
  BY <1>0, <1>6 DEF Http!Denied, Http!Sends, Http!Goto, Http!End, Http!listVars
<1>7. ASSUME NEW c \in Requests, NEW b \in BOOLEAN, Http!Limited(c, b) PROVE Kept
  BY <1>0, <1>7 DEF Http!Limited, Http!Sends, Http!Goto, Http!End, Http!listVars
<1>8. ASSUME NEW c \in Requests, NEW b \in BOOLEAN, Http!Download(c, b) PROVE Kept
  BY <1>0, <1>8 DEF Http!Download, Http!Sends, Http!Goto, Http!End, Http!listVars
<1>9. CASE Http!Close \/ Http!Closed \/ UNCHANGED Http!vars
  <2>1. UNCHANGED <<Http!listVars, Http!callVars>>
    BY <1>9 DEF Http!Close, Http!Closed, Http!vars
  <2>2. UNCHANGED <<list, changed, out, page, holds, at, verdict>>
    BY <2>1 DEF Http!listVars, Http!callVars
  <2>3. at' = at /\ verdict' = verdict
    BY <2>2
  <2>4. \A c \in Requests : /\ at'[c] # "ended" => at[c] # "ended"
                            /\ verdict'[c] = "ok" /\ ~holds[c].download => verdict[c] = "ok"
    BY <2>3, Zenon
  <2> QED BY <1>1, <2>2, <2>4
<1> HIDE DEF Kept
<1> QED BY <1>1, <1>2, <1>3, <1>4, <1>5, <1>6, <1>7, <1>8, <1>9, PageStep, TakeOutStep
   DEF Http!Next, Http!Request

\* All of it holds before the first call.
LEMMA HttpInit == Http!Init => HttpIInv
  BY CallsInit, ListsInit, SessionsInit DEF HttpIInv

\* ... and after every step of the calls.
LEMMA HttpStep == HttpIInv /\ [Http!Next]_(Http!vars) => HttpIInv'
  BY CallsStep, ListsStep, SessionsStep DEF HttpIInv

\* GithubHTTP: the spare token is tried, lists are whole, one session is open.
LEMMA HttpTruth == HttpIInv => Http!TypeOK /\ Http!SpareIsTried /\ Http!ListIsWhole /\ Http!OneSession
<1> SUFFICES ASSUME HttpIInv PROVE Http!TypeOK /\ Http!SpareIsTried /\ Http!ListIsWhole /\ Http!OneSession
  OBVIOUS
<1>1. Http!SpareIsTried /\ Http!ListIsWhole /\ Http!OneSession
  BY OneSessionTrue DEF HttpIInv, CallsAreTrue, ListsAreTrue
<1>2. opened \in 0..MaxOpened /\ MaxOpened \in Nat
  BY OutsideAssumption DEF HttpIInv, SessionsAreTrue
<1>3. sessions \subseteq 1..MaxOpened /\ current \in 0..MaxOpened
  BY <1>2 DEF HttpIInv, SessionsAreTrue
<1>4. /\ \A i \in 1..Len(list) : list[i] \in 1..Size
      /\ \A c \in Requests : \A i \in 1..Len(out[c]) : out[c][i] \in 1..Size
  BY ElementOfSeq DEF HttpIInv, ListsAreTrue, Items
<1>5. /\ using \in [Requests -> 0..MaxOpened] /\ closing \in BOOLEAN /\ lost \in BOOLEAN
  BY Zenon DEF HttpIInv, SessionsAreTrue
<1> QED BY <1>1, <1>2, <1>3, <1>4, <1>5 DEF HttpIInv, CallsAreTrue, ListsAreTrue, Http!TypeOK

-----------------------------------------------------------------------------
(* Accounts and tokens (module GithubAccounts).                             *)
\* The number of elements, as the instance Acc has it.
LEMMA AccCount == \A S : Acc!Cardinality(S) = Cardinality(S)
  BY DEF Acc!Cardinality, Cardinality

\* What a sequence holds, and that it holds nothing twice.
Once(s) == \A i, j \in 1..Len(s) : s[i] = s[j] => i = j
Within(s) == {s[i] : i \in 1..Len(s)}

\* The rows of the user, each once.
RowsOnce ==
    /\ recent \in Seq(Logins)
    /\ Within(recent) = {l \in Logins : account[l] # Acc!NoRow} /\ Once(recent)

\* Tokens have owners once they are made, and the rows hold what is made.
Owned ==
    /\ tokensMade \in 0..MaxTokens /\ valid \subseteq 1..tokensMade
    /\ owners \in [1..MaxTokens -> Logins \cup {Acc!NoName}]
    /\ account \in [Logins -> (0..MaxTokens) \cup {Acc!NoRow}]
    /\ \A t \in 1..tokensMade : owners[t] \in Logins
    /\ \A l \in Logins : account[l] \notin {0, Acc!NoRow} => account[l] <= tokensMade /\ owners[account[l]] = l

\* What a task has read.
TasksAreTrue ==
    /\ task \in [Tasks -> Acc!Places]
    /\ holding \in [Tasks -> [token : 0..(MaxTokens + MaxIssued), names : SUBSET Acc!Names]]
    /\ subject \in [Tasks -> Logins \cup Repos \cup {Acc!NoName}]
    /\ \A k \in Tasks :
        /\ task[k] = "verified" =>
            /\ holding[k].token \in 1..tokensMade /\ subject[k] \in Logins
            /\ owners[holding[k].token] = subject[k]
        /\ task[k] = "issued" => holding[k].token \in 1..MaxIssued
        /\ task[k] = "bind" => subject[k] \in Repos

AppIsTrue ==
    /\ installed \in BOOLEAN /\ late \in BOOLEAN
    /\ cached \in 0..MaxIssued /\ issued \in 0..MaxIssued
    /\ Acc!NoTokenOfTheGone

NamesAreTrue ==
    /\ alias \in [Repos -> Acc!Names \cup {Acc!NoName}] /\ linked \subseteq Repos
    /\ \A r, s \in Repos : r # s /\ alias[r] = alias[s] => alias[r] = Acc!NoName

AccIInv == RowsOnce /\ Owned /\ TasksAreTrue /\ AppIsTrue /\ NamesAreTrue

-----------------------------------------------------------------------------
\* A sequence without one of its elements, element by element.
Leaves(t, s, n) ==
    /\ Len(t) = Len(s) - 1
    /\ \A i \in 1..(Len(s) - 1) : t[i] = IF i < n THEN s[i] ELSE s[i + 1]

\* A list without the n-th of its items.
LEMMA Removed ==
  ASSUME NEW S, NEW s \in Seq(S), NEW n \in 1..Len(s)
  PROVE  LET t == SubSeq(s, 1, n - 1) \o SubSeq(s, n + 1, Len(s))
         IN  t \in Seq(S) /\ Leaves(t, s, n)
<1>0. PICK m \in Nat : m = Len(s)
  OBVIOUS
<1>1. n \in Int /\ n >= 1 /\ n <= m /\ n - 1 \in Int /\ n + 1 \in Int /\ 1 \in Int
  BY <1>0
<1>2. \A i \in 1..(n - 1) : s[i] \in S
  <2>1. \A i \in 1..(n - 1) : i \in 1..m
    BY <1>0, <1>1
  <2> QED BY <1>0, <2>1, ElementOfSeq
<1>3. \A i \in (n + 1)..m : s[i] \in S
  <2>1. \A i \in (n + 1)..m : i \in 1..m
    BY <1>0, <1>1
  <2> QED BY <1>0, <2>1, ElementOfSeq
<1>4. /\ SubSeq(s, 1, n - 1) \in Seq(S)
      /\ Len(SubSeq(s, 1, n - 1)) = IF 1 <= n - 1 THEN n - 1 - 1 + 1 ELSE 0
      /\ \A i \in 1..(n - 1 - 1 + 1) : SubSeq(s, 1, n - 1)[i] = s[1 + i - 1]
  BY <1>1, <1>2, SubSeqProperties
<1>5. /\ SubSeq(s, n + 1, m) \in Seq(S)
      /\ Len(SubSeq(s, n + 1, m)) = IF n + 1 <= m THEN m - (n + 1) + 1 ELSE 0
      /\ \A i \in 1..(m - (n + 1) + 1) : SubSeq(s, n + 1, m)[i] = s[n + 1 + i - 1]
  BY <1>0, <1>1, <1>3, SubSeqProperties
<1>6. PICK a \in Seq(S), b \in Seq(S) :
        /\ a = SubSeq(s, 1, n - 1) /\ b = SubSeq(s, n + 1, m)
        /\ Len(a) = n - 1 /\ Len(b) = m - n
        /\ \A i \in 1..(n - 1 - 1 + 1) : a[i] = s[1 + i - 1]
        /\ \A i \in 1..(m - (n + 1) + 1) : b[i] = s[n + 1 + i - 1]
  <2>1. (IF 1 <= n - 1 THEN n - 1 - 1 + 1 ELSE 0) = n - 1 /\ (IF n + 1 <= m THEN m - (n + 1) + 1 ELSE 0) = m - n
    BY <1>0, <1>1
  <2> QED BY <1>4, <1>5, <2>1, ZenonT(60)
<1>7. \A i \in 1..Len(a) : a[i] = s[i]
  BY <1>1, <1>6
<1>8. \A i \in 1..Len(b) : b[i] = s[n + i]
  <2>1. \A i \in 1..(m - n) : i \in 1..(m - (n + 1) + 1) /\ n + 1 + i - 1 = n + i
    BY <1>1
  <2> QED BY <1>6, <2>1
<1>8b. n \in Int /\ n >= 1 /\ n <= m /\ Len(a) = n - 1 /\ Len(b) = m - n
  BY <1>1, <1>6
<1>j2. PICK t : t = a \o b
  OBVIOUS
<1>jc. /\ t \in Seq(S) /\ Len(t) = Len(a) + Len(b)
      /\ \A i \in 1..(Len(a) + Len(b)) : t[i] = IF i <= Len(a) THEN a[i] ELSE b[i - Len(a)]
  <2>1. /\ a \o b \in Seq(S) /\ Len(a \o b) = Len(a) + Len(b)
        /\ \A i \in 1..(Len(a) + Len(b)) : (a \o b)[i] = IF i <= Len(a) THEN a[i] ELSE b[i - Len(a)]
    BY ConcatProperties
  <2> QED BY <1>j2, <2>1, Zenon
<1>j3. /\ t \in Seq(S) /\ Len(t) = (n - 1) + (m - n)
      /\ \A i \in 1..((n - 1) + (m - n)) : t[i] = IF i <= n - 1 THEN a[i] ELSE b[i - (n - 1)]
  BY <1>8b, <1>jc
<1>j4. (n - 1) + (m - n) = m - 1
  BY <1>8b
<1>j5. ASSUME NEW i \in 1..(m - 1) PROVE t[i] = IF i < n THEN s[i] ELSE s[i + 1]
  <2>0. t[i] = IF i <= n - 1 THEN a[i] ELSE b[i - (n - 1)]
    BY <1>j3, <1>j4
  <2>1. CASE i < n
    <3>1. i \in 1..(n - 1) /\ i <= n - 1
      BY <1>8b, <2>1
    <3> QED BY <1>7, <1>8, <1>8b, <2>0, <2>1, <3>1
  <2>2. CASE ~(i < n)
    <3>1. i - (n - 1) \in 1..(m - n) /\ n + (i - (n - 1)) = i + 1 /\ ~(i <= n - 1)
      BY <1>8b, <2>2
    <3> QED BY <1>7, <1>8, <1>8b, <2>0, <2>2, <3>1
  <2> QED BY <2>1, <2>2
<1> QED BY <1>0, <1>6, <1>j2, <1>j3, <1>j4, <1>j5 DEF Leaves

\* ... has every other item, once.
LEMMA RemovedOnce ==
  ASSUME NEW S, NEW s \in Seq(S), NEW n \in 1..Len(s), NEW t \in Seq(S), Leaves(t, s, n), Once(s)
  PROVE  Within(t) = Within(s) \ {s[n]} /\ Once(t)
<1>0. PICK m \in Nat : m = Len(s)
  OBVIOUS
<1> DEFINE p(i) == IF i < n THEN i ELSE i + 1
<1>1. n \in Int /\ n >= 1 /\ n <= m
  BY <1>0
<1>2. /\ \A i \in 1..(m - 1) : p(i) \in 1..m /\ p(i) # n
      /\ \A i, j \in 1..(m - 1) : p(i) = p(j) => i = j
      /\ \A k \in 1..m : k # n => \E i \in 1..(m - 1) : p(i) = k
  <2>2. \A i \in 1..(m - 1) : p(i) \in 1..m /\ p(i) # n
    BY <1>1
  <2>3. \A i, j \in 1..(m - 1) : p(i) = p(j) => i = j
    BY <1>1
  <2>4. ASSUME NEW k \in 1..m, k # n PROVE \E i \in 1..(m - 1) : p(i) = k
    <3>1. CASE k < n
      <4>1. k \in 1..(m - 1) /\ p(k) = k
        BY <1>1, <3>1
      <4> QED BY <4>1
    <3>2. CASE k > n
      <4>1. k - 1 \in 1..(m - 1) /\ p(k - 1) = k
        BY <1>1, <3>2
      <4> QED BY <4>1
    <3> QED BY <1>1, <2>4, <3>1, <3>2
  <2> QED BY <2>2, <2>3, <2>4
<1>3. \A i \in 1..(m - 1) : t[i] = s[p(i)]
  BY <1>0 DEF Leaves
<1>m. Len(t) = m - 1
  BY <1>0 DEF Leaves
<1> HIDE DEF p
<1>4. \A i, j \in 1..(m - 1) : t[i] = t[j] => i = j
  <2> SUFFICES ASSUME NEW i \in 1..(m - 1), NEW j \in 1..(m - 1), t[i] = t[j] PROVE i = j
    OBVIOUS
  <2>1. s[p(i)] = s[p(j)] /\ p(i) \in 1..Len(s) /\ p(j) \in 1..Len(s)
    BY <1>0, <1>2, <1>3
  <2>2. p(i) = p(j)
    BY <2>1 DEF Once
  <2> QED BY <1>2, <2>2
<1>5. {t[i] : i \in 1..(m - 1)} = {s[i] : i \in 1..m} \ {s[n]}
  <2>1. ASSUME NEW i \in 1..(m - 1) PROVE t[i] \in {s[k] : k \in 1..m} \ {s[n]}
    <3>1. t[i] = s[p(i)] /\ p(i) \in 1..m /\ p(i) # n /\ p(i) \in 1..Len(s)
      BY <1>0, <1>2, <1>3
    <3>2. s[p(i)] # s[n]
      BY <3>1 DEF Once
    <3> QED BY <3>1, <3>2
  <2>2. ASSUME NEW k \in 1..m, s[k] # s[n] PROVE s[k] \in {t[i] : i \in 1..(m - 1)}
    <3>1. PICK i \in 1..(m - 1) : p(i) = k
      BY <1>2, <2>2
    <3> QED BY <1>3, <3>1
  <2>3. {s[i] : i \in 1..m} \ {s[n]} \subseteq {t[i] : i \in 1..(m - 1)}
    BY <2>2
  <2>4. {t[i] : i \in 1..(m - 1)} \subseteq {s[i] : i \in 1..m} \ {s[n]}
    BY <2>1
  <2> QED BY <2>3, <2>4
<1> QED BY <1>0, <1>m, <1>4, <1>5 DEF Within, Once

\* The rows without the row of a login.
LEMMA Shortened ==
  ASSUME RowsOnce, account \in [Logins -> (0..MaxTokens) \cup {Acc!NoRow}], NEW l \in Logins
  PROVE  /\ Acc!Without(l) \in Seq(Logins)
         /\ Within(Acc!Without(l)) = {m \in Logins : account[m] # Acc!NoRow} \ {l}
         /\ Once(Acc!Without(l))
<1>1. CASE account[l] = Acc!NoRow
  <2>1. Acc!Without(l) = recent
    BY <1>1 DEF Acc!Without
  <2>2. l \notin {m \in Logins : account[m] # Acc!NoRow}
    BY <1>1
  <2> QED BY <2>1, <2>2 DEF RowsOnce, Within, Once
<1>2. CASE account[l] # Acc!NoRow
  <2> DEFINE n == CHOOSE i \in 1..Len(recent) : recent[i] = l
  <2>1. \E i \in 1..Len(recent) : recent[i] = l
    BY <1>2 DEF RowsOnce, Within
  <2>2. n \in 1..Len(recent) /\ recent[n] = l
    BY <2>1
  <2>3. Acc!Without(l) = SubSeq(recent, 1, n - 1) \o SubSeq(recent, n + 1, Len(recent))
    BY <1>2 DEF Acc!Without
  <2>4. PICK t : t = Acc!Without(l)
    OBVIOUS
  <2>5. PICK k \in 1..Len(recent) : k = n /\ recent[k] = l
    BY <2>2
  <2> HIDE DEF n
  <2>6. recent \in Seq(Logins) /\ Once(recent) /\ Within(recent) = {m \in Logins : account[m] # Acc!NoRow}
    BY DEF RowsOnce, Once, Within
  <2>7. t = SubSeq(recent, 1, k - 1) \o SubSeq(recent, k + 1, Len(recent))
    BY <2>3, <2>4, <2>5
  <2>8. t \in Seq(Logins) /\ Leaves(t, recent, k)
    BY <2>6, <2>7, Removed
  <2>9. Within(t) = Within(recent) \ {recent[k]} /\ Once(t)
    BY <2>6, <2>8, RemovedOnce
  <2> QED BY <2>4, <2>5, <2>6, <2>8, <2>9
<1> QED BY <1>1, <1>2

\* The rows with the row of a login in front.
LEMMA Fronted ==
  ASSUME RowsOnce, account \in [Logins -> (0..MaxTokens) \cup {Acc!NoRow}], NEW l \in Logins, NEW f, f = Acc!Front(l)
  PROVE  /\ f \in Seq(Logins)
         /\ Within(f) = {m \in Logins : account[m] # Acc!NoRow} \cup {l}
         /\ Once(f)
<1> DEFINE w == Acc!Without(l)
<1>1. /\ w \in Seq(Logins)
      /\ {w[i] : i \in 1..Len(w)} = {m \in Logins : account[m] # Acc!NoRow} \ {l}
      /\ \A i, j \in 1..Len(w) : w[i] = w[j] => i = j
  BY Shortened DEF Within, Once
<1>2. f = <<l>> \o w
  BY DEF Acc!Front
<1> HIDE DEF w
<1>3. PICK n \in Nat : n = Len(w)
  BY <1>1
<1>4. /\ f \in Seq(Logins) /\ Len(f) = n + 1 /\ f[1] = l
      /\ \A i \in 1..n : f[i + 1] = w[i]
  <2>1. <<l>> \in Seq(Logins) /\ Len(<<l>>) = 1 /\ <<l>>[1] = l
    OBVIOUS
  <2>2. /\ f \in Seq(Logins) /\ Len(f) = 1 + n
        /\ \A i \in 1..(1 + n) : f[i] = IF i <= 1 THEN <<l>>[i] ELSE w[i - 1]
    BY <1>1, <1>2, <1>3, <2>1, ConcatProperties
  <2>3. ASSUME NEW i \in 1..n PROVE f[i + 1] = w[i]
    <3>1. i + 1 \in 1..(1 + n) /\ ~(i + 1 <= 1) /\ (i + 1) - 1 = i
      BY <1>3
    <3> QED BY <2>2, <3>1
  <2>4. 1 \in 1..(1 + n)
    BY <1>3
  <2> QED BY <1>3, <2>1, <2>2, <2>3, <2>4
<1>5. \A i \in 1..(n + 1) : i = 1 \/ (i - 1 \in 1..n /\ f[i] = w[i - 1])
  <2> SUFFICES ASSUME NEW i \in 1..(n + 1), i # 1 PROVE i - 1 \in 1..n /\ f[i] = w[i - 1]
    OBVIOUS
  <2>1. i - 1 \in 1..n /\ (i - 1) + 1 = i
    BY <1>3
  <2> QED BY <1>4, <2>1
<1>6. \A i \in 1..n : w[i] # l
  BY <1>1, <1>3
<1>7. \A i, j \in 1..(n + 1) : f[i] = f[j] => i = j
  <2> SUFFICES ASSUME NEW i \in 1..(n + 1), NEW j \in 1..(n + 1), f[i] = f[j] PROVE i = j
    OBVIOUS
  <2>1. CASE i = 1 \/ j = 1
    BY <1>4, <1>5, <1>6, <2>1, SMTT(30)
  <2>2. CASE i # 1 /\ j # 1
    <3>1. i - 1 \in 1..n /\ j - 1 \in 1..n /\ w[i - 1] = w[j - 1]
      BY <1>5, <2>2
    <3>2. i - 1 = j - 1
      BY <1>1, <1>3, <3>1
    <3> QED BY <3>2
  <2> QED BY <2>1, <2>2
<1>8. {f[i] : i \in 1..(n + 1)} = {w[i] : i \in 1..n} \cup {l}
  <2>1. ASSUME NEW i \in 1..(n + 1) PROVE f[i] \in {w[k] : k \in 1..n} \cup {l}
    BY <1>4, <1>5
  <2>2. ASSUME NEW k \in 1..n PROVE w[k] \in {f[i] : i \in 1..(n + 1)}
    <3>1. k + 1 \in 1..(n + 1)
      BY <1>3
    <3> QED BY <1>4, <3>1
  <2>3. 1 \in 1..(n + 1)
    BY <1>3
  <2> QED BY <1>4, <2>1, <2>2, <2>3
<1> QED BY <1>1, <1>3, <1>4, <1>7, <1>8 DEF Within, Once

\* The account that a call is made with has a row.
LEMMA Known ==
  ASSUME RowsOnce, account \in [Logins -> (0..MaxTokens) \cup {Acc!NoRow}],
         NEW l \in Logins \cup {Acc!NoName}, Acc!AccountOf(l) # Acc!NoName
  PROVE  Acc!AccountOf(l) \in Logins /\ account[Acc!AccountOf(l)] # Acc!NoRow
<1>1. CASE l # Acc!NoName
  BY <1>1 DEF Acc!AccountOf, Acc!HasToken
<1>2. CASE l = Acc!NoName
  <2> DEFINE rows == {i \in 1..Len(recent) : Acc!HasToken(recent[i])}
             n == CHOOSE i \in rows : \A j \in rows : i <= j
  <2>1. rows # {} /\ Acc!AccountOf(l) = recent[n]
    BY <1>2 DEF Acc!AccountOf
  <2>2. \E i \in rows : \A j \in rows : i <= j
    <3>1. rows \subseteq Nat
      OBVIOUS
    <3>2. PICK i \in rows : \A j \in rows : ~(<<j, i>> \in OpToRel(<, Nat))
      BY <2>1, <3>1, NatLessThanWellFounded, WFMin
    <3>3. ASSUME NEW j \in rows PROVE i <= j
      <4>1. i \in Nat /\ j \in Nat /\ ~(<<j, i>> \in OpToRel(<, Nat))
        BY <3>1, <3>2
      <4> HIDE DEF rows
      <4> QED BY <4>1 DEF OpToRel
    <3> QED BY <3>3
  <2>3. n \in rows
    BY <2>2
  <2> QED BY <2>1, <2>3, ElementOfSeq DEF RowsOnce, Acc!HasToken
<1> QED BY <1>1, <1>2

-----------------------------------------------------------------------------
\* All of it holds of the accounts at the start.
LEMMA AccInit == Acc!Init => AccIInv
<1> SUFFICES ASSUME Acc!Init PROVE AccIInv
  OBVIOUS
<1>0. MaxTokens \in Nat /\ MaxIssued \in Nat /\ 0 \in 0..MaxTokens /\ 0 \in 0..MaxIssued
  BY OutsideAssumption
<1>1. RowsOnce
  BY DEF Acc!Init, RowsOnce, Within, Once
<1>2. Owned
  BY <1>0 DEF Acc!Init, Owned
<1>3. TasksAreTrue
  <2>1. Acc!Nothing \in [token : 0..(MaxTokens + MaxIssued), names : SUBSET Acc!Names]
    BY <1>0 DEF Acc!Nothing
  <2>2. holding \in [Tasks -> [token : 0..(MaxTokens + MaxIssued), names : SUBSET Acc!Names]]
    BY <2>1 DEF Acc!Init
  <2> QED BY <2>2 DEF Acc!Init, TasksAreTrue, Acc!Places
<1>4. AppIsTrue
  BY <1>0 DEF Acc!Init, AppIsTrue, Acc!NoTokenOfTheGone
<1>5. NamesAreTrue
  BY DEF Acc!Init, NamesAreTrue
<1> QED BY <1>1, <1>2, <1>3, <1>4, <1>5 DEF AccIInv

\* Each account that has a row is among the rows once.
LEMMA RowsStep == AccIInv /\ [Acc!Next]_(Acc!vars) => RowsOnce'
<1> SUFFICES ASSUME AccIInv, [Acc!Next]_(Acc!vars) PROVE RowsOnce'
  OBVIOUS
<1>0. /\ MaxTokens \in Nat /\ MaxIssued \in Nat /\ Acc!NoRow \notin 0..MaxTokens /\ Acc!NoRow = MaxTokens + 1
      /\ RowsOnce /\ account \in [Logins -> (0..MaxTokens) \cup {Acc!NoRow}]
  BY OutsideAssumption DEF AccIInv, Owned, Acc!NoRow
<1>1. ASSUME NEW k \in Tasks, Acc!Save(k) PROVE RowsOnce'
  <2>1. /\ subject[k] \in Logins /\ holding[k].token \in 1..tokensMade /\ tokensMade \in 0..MaxTokens
    BY <1>1 DEF Acc!Save, AccIInv, TasksAreTrue, Owned
  <2>2. holding[k].token # Acc!NoRow
    BY <1>0, <2>1
  <2>3. recent' = Acc!Front(subject[k]) /\ account' = [account EXCEPT ![subject[k]] = holding[k].token]
    BY <1>1 DEF Acc!Save
  <2>4. /\ recent' \in Seq(Logins) /\ Once(recent')
        /\ Within(recent') = {m \in Logins : account[m] # Acc!NoRow} \cup {subject[k]}
    BY <1>0, <2>1, <2>3, Fronted
  <2>5. {m \in Logins : account'[m] # Acc!NoRow} = {m \in Logins : account[m] # Acc!NoRow} \cup {subject[k]}
    BY <1>0, <2>1, <2>2, <2>3
  <2> QED BY <2>4, <2>5 DEF RowsOnce, Within, Once
<1>2. ASSUME NEW l \in Logins, Acc!Forget(l) PROVE RowsOnce'
  <2>1. recent' = Acc!Without(l) /\ account' = [account EXCEPT ![l] = Acc!NoRow]
    BY <1>2 DEF Acc!Forget
  <2>2. /\ recent' \in Seq(Logins) /\ Once(recent')
        /\ Within(recent') = {m \in Logins : account[m] # Acc!NoRow} \ {l}
    BY <1>0, <2>1, Shortened
  <2>3. {m \in Logins : account'[m] # Acc!NoRow} = {m \in Logins : account[m] # Acc!NoRow} \ {l}
    BY <1>0, <2>1
  <2> QED BY <2>2, <2>3 DEF RowsOnce, Within, Once
<1>3. ASSUME NEW k \in Tasks, NEW l \in Logins \cup {Acc!NoName}, Acc!Give(k, l) PROVE RowsOnce'
  <2>1. Acc!AccountOf(l) # Acc!NoName /\ recent' = Acc!Front(Acc!AccountOf(l)) /\ account' = account
    BY <1>3 DEF Acc!Give
  <2>2. Acc!AccountOf(l) \in Logins /\ account[Acc!AccountOf(l)] # Acc!NoRow
    BY <1>0, <2>1, Known
  <2>3. /\ recent' \in Seq(Logins) /\ Once(recent')
        /\ Within(recent') = {m \in Logins : account[m] # Acc!NoRow} \cup {Acc!AccountOf(l)}
    BY <1>0, <2>1, <2>2, Fronted
  <2>4. {m \in Logins : account[m] # Acc!NoRow} \cup {Acc!AccountOf(l)} = {m \in Logins : account[m] # Acc!NoRow}
    BY <2>2
  <2> QED BY <2>1, <2>3, <2>4 DEF RowsOnce, Within, Once
<1>4. UNCHANGED <<account, recent>> => RowsOnce'
  BY <1>0 DEF RowsOnce, Within, Once
<1>5. ASSUME NEW l \in Logins, Acc!Make(l) PROVE UNCHANGED <<account, recent>>
  BY <1>5 DEF Acc!Make
<1>6. ASSUME NEW k \in Tasks, (\E t \in 1..MaxTokens : Acc!Verify(k, t)) \/ Acc!Refuse(k) \/ Acc!Cached(k) \/ Acc!Issue(k) \/ Acc!Put(k) \/ Acc!Insert(k)
      PROVE  UNCHANGED <<account, recent>>
  BY <1>6 DEF Acc!Verify, Acc!Refuse, Acc!Cached, Acc!Issue, Acc!Put, Acc!Insert, Acc!accountVars
<1>7. ASSUME NEW k \in Tasks, NEW r \in Repos, Acc!Ask(k, r) \/ Acc!Remember(k, r) \/ Acc!Sync(k, r)
      PROVE  UNCHANGED <<account, recent>>
  BY <1>7 DEF Acc!Ask, Acc!Remember, Acc!Sync, Acc!accountVars
<1>8. (\E r \in Repos : Acc!Unbind(r)) \/ Acc!Expire \/ Acc!Uninstall \/ UNCHANGED Acc!vars => UNCHANGED <<account, recent>>
  BY DEF Acc!Unbind, Acc!Expire, Acc!Uninstall, Acc!vars, Acc!accountVars
<1> QED BY <1>1, <1>2, <1>3, <1>4, <1>5, <1>6, <1>7, <1>8 DEF Acc!Next

\* Every token has the account that it was made for.
LEMMA OwnedStep == AccIInv /\ [Acc!Next]_(Acc!vars) => Owned'
<1> SUFFICES ASSUME AccIInv, [Acc!Next]_(Acc!vars) PROVE Owned'
  OBVIOUS
<1>0. MaxTokens \in Nat /\ Acc!NoRow \notin 0..MaxTokens /\ Owned /\ tokensMade \in Nat
  BY OutsideAssumption DEF AccIInv, Owned, Acc!NoRow
<1>1. ASSUME NEW l \in Logins, Acc!Make(l) PROVE Owned'
  <2>1. /\ tokensMade < MaxTokens /\ tokensMade' = tokensMade + 1 /\ owners' = [owners EXCEPT ![tokensMade + 1] = l]
        /\ valid' = {t \in valid : owners[t] # l} \cup {tokensMade + 1} /\ account' = account
    BY <1>1 DEF Acc!Make
  <2>2. tokensMade + 1 \in 0..MaxTokens /\ tokensMade + 1 \in 1..MaxTokens
    BY <1>0, <2>1
  <2>3. owners' \in [1..MaxTokens -> Logins \cup {Acc!NoName}] /\ owners'[tokensMade + 1] = l
    BY <1>0, <2>1, <2>2 DEF Owned
  <2>4. ASSUME NEW t \in 1..tokensMade PROVE owners'[t] = owners[t] /\ t \in 1..(tokensMade + 1)
    BY <1>0, <2>1, <2>2 DEF Owned
  <2>5. valid' \subseteq 1..tokensMade'
    <3>1. valid \subseteq 1..tokensMade /\ tokensMade + 1 \in 1..(tokensMade + 1)
      BY <1>0 DEF Owned
    <3> QED BY <2>1, <2>4, <3>1
  <2>6. \A t \in 1..tokensMade' : owners'[t] \in Logins
    <3>1. \A t \in 1..tokensMade' : t \in 1..tokensMade \/ t = tokensMade + 1
      BY <1>0, <2>1
    <3> QED BY <1>0, <2>3, <2>4, <3>1 DEF Owned
  <2>7. \A m \in Logins : account'[m] \notin {0, Acc!NoRow} => account'[m] <= tokensMade' /\ owners'[account'[m]] = m
    <3> SUFFICES ASSUME NEW m \in Logins, account[m] \notin {0, Acc!NoRow}
                 PROVE  account[m] <= tokensMade + 1 /\ owners'[account[m]] = m
      BY <2>1
    <3>1. account[m] \in 0..MaxTokens /\ account[m] # 0 /\ account[m] <= tokensMade /\ owners[account[m]] = m
      BY <1>0 DEF Owned
    <3>2. account[m] \in 1..tokensMade /\ account[m] <= tokensMade + 1
      BY <1>0, <3>1
    <3> QED BY <2>4, <3>1, <3>2
  <2> QED BY <1>0, <2>1, <2>2, <2>3, <2>5, <2>6, <2>7 DEF Owned
<1>2. ASSUME NEW k \in Tasks, Acc!Save(k) PROVE Owned'
  <2>1. /\ subject[k] \in Logins /\ holding[k].token \in 1..tokensMade /\ owners[holding[k].token] = subject[k]
    BY <1>2 DEF Acc!Save, AccIInv, TasksAreTrue
  <2>2. /\ UNCHANGED <<tokensMade, owners, valid>> /\ account' = [account EXCEPT ![subject[k]] = holding[k].token]
    BY <1>2 DEF Acc!Save
  <2>3. holding[k].token \in 0..MaxTokens /\ holding[k].token <= tokensMade
    BY <1>0, <2>1 DEF Owned
  <2>4. account' \in [Logins -> (0..MaxTokens) \cup {Acc!NoRow}]
    BY <1>0, <2>2, <2>3 DEF Owned
  <2>5. \A m \in Logins : account'[m] \notin {0, Acc!NoRow} => account'[m] <= tokensMade /\ owners[account'[m]] = m
    BY <1>0, <2>1, <2>2, <2>3 DEF Owned
  <2> QED BY <1>0, <2>2, <2>4, <2>5 DEF Owned
<1>3. ASSUME NEW l \in Logins, Acc!Forget(l) PROVE Owned'
  <2>1. UNCHANGED <<tokensMade, owners, valid>> /\ account' = [account EXCEPT ![l] = Acc!NoRow]
    BY <1>3 DEF Acc!Forget
  <2> QED BY <1>0, <2>1 DEF Owned
<1>4. UNCHANGED <<tokensMade, owners, valid, account>> => Owned'
  BY <1>0 DEF Owned
<1>5. ASSUME NEW k \in Tasks, NEW l \in Logins \cup {Acc!NoName}, Acc!Give(k, l) PROVE UNCHANGED <<tokensMade, owners, valid, account>>
  BY <1>5 DEF Acc!Give
<1>6. ASSUME NEW k \in Tasks, (\E t \in 1..MaxTokens : Acc!Verify(k, t)) \/ Acc!Refuse(k) \/ Acc!Cached(k) \/ Acc!Issue(k) \/ Acc!Put(k) \/ Acc!Insert(k)
      PROVE  UNCHANGED <<tokensMade, owners, valid, account>>
  BY <1>6 DEF Acc!Verify, Acc!Refuse, Acc!Cached, Acc!Issue, Acc!Put, Acc!Insert, Acc!accountVars
<1>7. ASSUME NEW k \in Tasks, NEW r \in Repos, Acc!Ask(k, r) \/ Acc!Remember(k, r) \/ Acc!Sync(k, r)
      PROVE  UNCHANGED <<tokensMade, owners, valid, account>>
  BY <1>7 DEF Acc!Ask, Acc!Remember, Acc!Sync, Acc!accountVars
<1>8. (\E r \in Repos : Acc!Unbind(r)) \/ Acc!Expire \/ Acc!Uninstall \/ UNCHANGED Acc!vars => UNCHANGED <<tokensMade, owners, valid, account>>
  BY DEF Acc!Unbind, Acc!Expire, Acc!Uninstall, Acc!vars, Acc!accountVars
<1> QED BY <1>1, <1>2, <1>3, <1>4, <1>5, <1>6, <1>7, <1>8 DEF Acc!Next

\* A step of one task, written out; the others stay where they are.
LEMMA OneTask ==
  ASSUME TasksAreTrue, Owned, tokensMade' \in Nat, tokensMade <= tokensMade',
         \A t \in 1..tokensMade : owners'[t] = owners[t],
         NEW k \in Tasks, NEW p \in Acc!Places,
         NEW h \in [token : 0..(MaxTokens + MaxIssued), names : SUBSET Acc!Names],
         NEW s \in Logins \cup Repos \cup {Acc!NoName},
         task' = [task EXCEPT ![k] = p], holding' = [holding EXCEPT ![k] = h],
         subject' = [subject EXCEPT ![k] = s],
         p = "verified" => h.token \in 1..tokensMade' /\ s \in Logins /\ owners'[h.token] = s,
         p = "issued" => h.token \in 1..MaxIssued,
         p = "bind" => s \in Repos
  PROVE  TasksAreTrue'
<1>1. /\ task' \in [Tasks -> Acc!Places]
      /\ holding' \in [Tasks -> [token : 0..(MaxTokens + MaxIssued), names : SUBSET Acc!Names]]
      /\ subject' \in [Tasks -> Logins \cup Repos \cup {Acc!NoName}]
  BY DEF TasksAreTrue
<1>2. task'[k] = p /\ holding'[k] = h /\ subject'[k] = s
  BY DEF TasksAreTrue
<1>3. ASSUME NEW d \in Tasks, d # k
      PROVE  task'[d] = task[d] /\ holding'[d] = holding[d] /\ subject'[d] = subject[d]
  BY <1>3 DEF TasksAreTrue
<1>4. \A t \in 1..tokensMade : t \in 1..tokensMade'
  BY DEF Owned
<1> QED BY <1>1, <1>2, <1>3, <1>4 DEF TasksAreTrue

\* A task has a token that was issued, of the account that it works for.
LEMMA TasksStep == AccIInv /\ [Acc!Next]_(Acc!vars) => TasksAreTrue'
<1> SUFFICES ASSUME AccIInv, [Acc!Next]_(Acc!vars) PROVE TasksAreTrue'
  OBVIOUS
<1> DEFINE H == [token : 0..(MaxTokens + MaxIssued), names : SUBSET Acc!Names]
           S == Logins \cup Repos \cup {Acc!NoName}
<1>0. /\ MaxTokens \in Nat /\ MaxIssued \in Nat /\ Owned /\ TasksAreTrue /\ tokensMade \in Nat /\ tokensMade \in 0..MaxTokens
      /\ \A n \in 0..(MaxTokens + MaxIssued), x \in SUBSET Acc!Names : [token |-> n, names |-> x] \in H
      /\ 0 \in 0..(MaxTokens + MaxIssued) /\ {} \in SUBSET Acc!Names /\ Acc!NoName \in S
      /\ {"idle", "verified", "asked", "issued", "bind", "refused"} \subseteq Acc!Places
  BY OutsideAssumption DEF AccIInv, Owned, Acc!Places
<1>t. ASSUME NEW k \in Tasks
      PROVE  /\ task = [task EXCEPT ![k] = task[k]] /\ holding = [holding EXCEPT ![k] = holding[k]]
             /\ subject = [subject EXCEPT ![k] = subject[k]]
             /\ task[k] \in Acc!Places /\ holding[k] \in H /\ subject[k] \in S
  BY <1>0 DEF TasksAreTrue
<1>u. ASSUME UNCHANGED <<tokensMade, owners>>
      PROVE  tokensMade' \in Nat /\ tokensMade <= tokensMade' /\ \A t \in 1..tokensMade : owners'[t] = owners[t]
  BY <1>0, <1>u
<1>1. ASSUME NEW l \in Logins, Acc!Make(l) PROVE TasksAreTrue'
  <2>1. /\ tokensMade' = tokensMade + 1 /\ owners' = [owners EXCEPT ![tokensMade + 1] = l] /\ UNCHANGED <<task, holding, subject>>
    BY <1>1 DEF Acc!Make, Acc!taskVars
  <2>2. \A t \in 1..tokensMade : t \in 1..tokensMade' /\ owners'[t] = owners[t]
    BY <1>0, <2>1 DEF Owned
  <2> QED BY <1>0, <2>1, <2>2 DEF TasksAreTrue
<1>2. ASSUME NEW k \in Tasks, NEW t \in 1..MaxTokens, Acc!Verify(k, t) PROVE TasksAreTrue'
  <2>1. /\ t \in valid /\ UNCHANGED <<tokensMade, owners>>
        /\ task' = [task EXCEPT ![k] = "verified"]
        /\ holding' = [holding EXCEPT ![k] = [token |-> t, names |-> {}]]
        /\ subject' = [subject EXCEPT ![k] = owners[t]]
    BY <1>2 DEF Acc!Verify, Acc!Move, Acc!Hold, Acc!accountVars
  <2>2. t \in 1..tokensMade /\ t \in 0..(MaxTokens + MaxIssued) /\ owners[t] \in Logins
    BY <1>0, <2>1 DEF Owned
  <2>3. PICK h \in H : h = [token |-> t, names |-> {}] /\ h.token = t
    BY <1>0, <2>2
  <2> QED BY <1>0, <1>u, <2>1, <2>2, <2>3, OneTask
<1>3. ASSUME NEW k \in Tasks, Acc!Finish(k), UNCHANGED <<tokensMade, owners>> PROVE TasksAreTrue'
  <2>1. PICK h \in H : h = [token |-> 0, names |-> {}]
    BY <1>0
  <2> QED BY <1>0, <1>3, <1>u, <2>1, OneTask DEF Acc!Finish, Acc!Move, Acc!Hold
<1>4. ASSUME NEW k \in Tasks, Acc!Save(k) \/ Acc!Refuse(k) \/ Acc!Cached(k) \/ Acc!Put(k) \/ Acc!Insert(k) \/ \E l \in Logins \cup {Acc!NoName} : Acc!Give(k, l)
      PROVE  TasksAreTrue'
  <2>1. Acc!Finish(k) /\ UNCHANGED <<tokensMade, owners>>
    BY <1>4 DEF Acc!Save, Acc!Refuse, Acc!Cached, Acc!Put, Acc!Insert, Acc!Give, Acc!accountVars
  <2> QED BY <1>3, <2>1
<1>5. ASSUME NEW k \in Tasks, NEW r \in Repos, Acc!Ask(k, r) PROVE TasksAreTrue'
  <2>1. PICK p \in {"asked", "refused"} :
          /\ task' = [task EXCEPT ![k] = p] /\ holding' = holding /\ subject' = [subject EXCEPT ![k] = r]
          /\ UNCHANGED <<tokensMade, owners>>
    BY <1>5 DEF Acc!Ask, Acc!Move, Acc!accountVars
  <2> QED BY <1>0, <1>t, <1>u, <2>1, OneTask
<1>6. ASSUME NEW k \in Tasks, Acc!Issue(k) PROVE TasksAreTrue'
  <2>0. UNCHANGED <<tokensMade, owners>> /\ subject' = subject
    BY <1>6 DEF Acc!Issue, Acc!accountVars
  <2>1. CASE installed
    <3>1. /\ issued < MaxIssued /\ task' = [task EXCEPT ![k] = "issued"]
          /\ holding' = [holding EXCEPT ![k] = [token |-> issued + 1, names |-> {}]]
      BY <1>6, <2>1 DEF Acc!Issue, Acc!Move, Acc!Hold
    <3>2. issued + 1 \in 1..MaxIssued /\ issued + 1 \in 0..(MaxTokens + MaxIssued)
      BY <1>0, <3>1 DEF AccIInv, AppIsTrue
    <3>3. PICK h \in H : h = [token |-> issued + 1, names |-> {}] /\ h.token = issued + 1
      BY <1>0, <3>2
    <3> QED BY <1>0, <1>t, <1>u, <2>0, <3>1, <3>2, <3>3, OneTask, ZenonT(60)
  <2>2. CASE ~installed
    <3>1. PICK p \in {"refused"} : task' = [task EXCEPT ![k] = p] /\ holding' = holding
      BY <1>6, <2>2 DEF Acc!Issue, Acc!Move
    <3>2. PICK h \in H, x \in S : h = holding[k] /\ x = subject[k]
      BY <1>t
    <3>3. holding' = [holding EXCEPT ![k] = h] /\ subject' = [subject EXCEPT ![k] = x]
      BY <1>t, <2>0, <3>1, <3>2
    <3>4. p \in Acc!Places /\ p # "verified" /\ p # "issued" /\ p # "bind"
      BY <1>0, <3>1
    <3> QED BY <1>0, <1>u, <2>0, <3>1, <3>3, <3>4, OneTask
  <2> QED BY <2>1, <2>2
<1>7. ASSUME UNCHANGED <<tokensMade, owners, task, holding, subject>> PROVE TasksAreTrue'
  BY <1>0, <1>7 DEF TasksAreTrue
<1>8. ASSUME NEW k \in Tasks, NEW r \in Repos, Acc!Remember(k, r) \/ Acc!Sync(k, r) PROVE TasksAreTrue'
  <2>0. Acc!LookUp(k, r) /\ UNCHANGED <<tokensMade, owners>>
    BY <1>8 DEF Acc!Remember, Acc!Sync, Acc!accountVars
  <2>1. CASE Acc!Bound(r)
    BY <1>7, <2>0, <2>1 DEF Acc!LookUp
  <2>2. CASE ~Acc!Bound(r)
    <3>1. /\ task' = [task EXCEPT ![k] = "bind"]
          /\ holding' = [holding EXCEPT ![k] = [token |-> 0, names |-> Acc!Taken]]
          /\ subject' = [subject EXCEPT ![k] = r]
      BY <2>0, <2>2 DEF Acc!LookUp, Acc!Move, Acc!Hold
    <3>2. Acc!Taken \in SUBSET Acc!Names
      BY DEF Acc!Taken, AccIInv, NamesAreTrue
    <3>3. PICK h \in H : h = [token |-> 0, names |-> Acc!Taken]
      BY <1>0, <3>2
    <3> QED BY <1>0, <1>u, <2>0, <3>1, <3>3, OneTask
  <2> QED BY <2>1, <2>2
<1>9. (\E l \in Logins : Acc!Forget(l)) \/ (\E r \in Repos : Acc!Unbind(r)) \/ Acc!Expire \/ Acc!Uninstall \/ UNCHANGED Acc!vars
        => UNCHANGED <<tokensMade, owners, task, holding, subject>>
  BY DEF Acc!Forget, Acc!Unbind, Acc!Expire, Acc!Uninstall, Acc!vars, Acc!accountVars, Acc!taskVars
<1> QED BY <1>1, <1>2, <1>4, <1>5, <1>6, <1>7, <1>8, <1>9 DEF Acc!Next

\* The app has no token of an installation that is gone.
LEMMA AppStep == AccIInv /\ [Acc!Next]_(Acc!vars) => AppIsTrue'
<1> SUFFICES ASSUME AccIInv, [Acc!Next]_(Acc!vars) PROVE AppIsTrue'
  OBVIOUS
<1>0. /\ MaxIssued \in Nat /\ AppIsTrue /\ 0 \in 0..MaxIssued
  BY OutsideAssumption DEF AccIInv
<1>1. ASSUME NEW k \in Tasks, Acc!Put(k) PROVE AppIsTrue'
  <2>1. /\ cached' = holding[k].token /\ late' = (late \/ ~installed) /\ UNCHANGED <<installed, issued>>
        /\ holding[k].token \in 1..MaxIssued
    BY <1>1 DEF Acc!Put, AccIInv, TasksAreTrue
  <2>2. cached' \in 0..MaxIssued
    BY <1>0, <2>1
  <2>3. late' \in BOOLEAN
    BY <2>1, Zenon
  <2>4. Acc!NoTokenOfTheGone'
    BY <2>1 DEF Acc!NoTokenOfTheGone
  <2> QED BY <1>0, <2>1, <2>2, <2>3, <2>4 DEF AppIsTrue
<1>2. ASSUME NEW k \in Tasks, Acc!Issue(k) PROVE AppIsTrue'
  <2>1. issued' \in 0..MaxIssued /\ UNCHANGED <<installed, cached, late>>
    BY <1>0, <1>2 DEF Acc!Issue, AppIsTrue
  <2> QED BY <1>0, <2>1 DEF AppIsTrue, Acc!NoTokenOfTheGone
<1>3. CASE Acc!Expire \/ Acc!Uninstall
  <2>1. cached' = 0 /\ UNCHANGED <<issued, late>> /\ installed' \in BOOLEAN
    BY <1>0, <1>3, Zenon DEF Acc!Expire, Acc!Uninstall, AppIsTrue
  <2> QED BY <1>0, <2>1 DEF AppIsTrue, Acc!NoTokenOfTheGone
<1>4. UNCHANGED Acc!appVars => AppIsTrue'
  BY <1>0 DEF Acc!appVars, AppIsTrue, Acc!NoTokenOfTheGone
<1>5. ASSUME NEW l \in Logins, Acc!Make(l) \/ Acc!Forget(l) PROVE UNCHANGED Acc!appVars
  BY <1>5 DEF Acc!Make, Acc!Forget
<1>6. ASSUME NEW k \in Tasks, Acc!Save(k) \/ Acc!Refuse(k) \/ Acc!Insert(k) PROVE UNCHANGED Acc!appVars
  BY <1>6 DEF Acc!Save, Acc!Refuse, Acc!Insert
<1>7. ASSUME NEW k \in Tasks, (\E t \in 1..MaxTokens : Acc!Verify(k, t)) \/ (\E l \in Logins \cup {Acc!NoName} : Acc!Give(k, l)) \/ Acc!Cached(k)
      PROVE UNCHANGED Acc!appVars
  BY <1>7 DEF Acc!Verify, Acc!Give, Acc!Cached
<1>8. ASSUME NEW k \in Tasks, NEW r \in Repos, Acc!Ask(k, r) \/ Acc!Remember(k, r) \/ Acc!Sync(k, r) PROVE UNCHANGED Acc!appVars
  BY <1>8 DEF Acc!Ask, Acc!Remember, Acc!Sync
<1>9. (\E r \in Repos : Acc!Unbind(r)) \/ UNCHANGED Acc!vars => UNCHANGED Acc!appVars
  BY DEF Acc!Unbind, Acc!vars
<1> QED BY <1>1, <1>2, <1>3, <1>4, <1>5, <1>6, <1>7, <1>8, <1>9 DEF Acc!Next

\* A name leads to one repository at most.
LEMMA NamesStep == AccIInv /\ [Acc!Next]_(Acc!vars) => NamesAreTrue'
<1> SUFFICES ASSUME AccIInv, [Acc!Next]_(Acc!vars) PROVE NamesAreTrue'
  OBVIOUS
<1>0. NamesAreTrue
  BY DEF AccIInv
<1>1. ASSUME NEW k \in Tasks, Acc!Insert(k) PROVE NamesAreTrue'
  <2> DEFINE r == subject[k]
             name == Acc!Choice(r, holding[k].names)
  <2>1. linked' = linked /\ r \in Repos
    BY <1>1 DEF Acc!Insert, AccIInv, TasksAreTrue
  <2>2. CASE name \in Acc!Taken \/ Acc!Bound(r)
    BY <1>0, <1>1, <2>1, <2>2 DEF Acc!Insert, NamesAreTrue
  <2>3. CASE name \notin Acc!Taken /\ ~Acc!Bound(r)
    <3>1. alias' = [alias EXCEPT ![r] = name]
      BY <1>1, <2>3 DEF Acc!Insert
    <3>2. name \in Acc!Names
      BY <2>1 DEF Acc!Choice, Acc!Names
    <3>3. \A s \in Repos : alias[s] = name => name = Acc!NoName
      BY <2>3 DEF Acc!Taken
    <3> HIDE DEF name, r
    <3>4. alias' \in [Repos -> Acc!Names \cup {Acc!NoName}]
      BY <1>0, <2>1, <3>1, <3>2 DEF NamesAreTrue
    <3>5. \A s, t \in Repos : s # t /\ alias'[s] = alias'[t] => alias'[s] = Acc!NoName
      BY <1>0, <2>1, <3>1, <3>3 DEF NamesAreTrue
    <3> QED BY <1>0, <2>1, <3>4, <3>5 DEF NamesAreTrue
  <2> QED BY <2>2, <2>3
<1>2. ASSUME NEW r \in Repos, Acc!Unbind(r) PROVE NamesAreTrue'
  <2>1. linked' = linked /\ alias' = [alias EXCEPT ![r] = Acc!NoName]
    BY <1>2 DEF Acc!Unbind
  <2> QED BY <1>0, <2>1 DEF NamesAreTrue
<1>3. ASSUME NEW k \in Tasks, NEW r \in Repos, Acc!Remember(k, r) \/ Acc!Sync(k, r) PROVE NamesAreTrue'
  <2>1. alias' = alias /\ linked' \subseteq Repos
    BY <1>0, <1>3 DEF Acc!Remember, Acc!Sync, Acc!Upsert, NamesAreTrue
  <2> QED BY <1>0, <2>1 DEF NamesAreTrue
<1>4. UNCHANGED <<alias, linked>> => NamesAreTrue'
  BY <1>0 DEF NamesAreTrue
<1>5. ASSUME NEW l \in Logins, Acc!Make(l) \/ Acc!Forget(l) PROVE UNCHANGED <<alias, linked>>
  BY <1>5 DEF Acc!Make, Acc!Forget, Acc!repoVars
<1>6. ASSUME NEW k \in Tasks, Acc!Save(k) \/ Acc!Refuse(k) \/ Acc!Cached(k) \/ Acc!Issue(k) \/ Acc!Put(k) PROVE UNCHANGED <<alias, linked>>
  BY <1>6 DEF Acc!Save, Acc!Refuse, Acc!Cached, Acc!Issue, Acc!Put, Acc!repoVars
<1>7. ASSUME NEW k \in Tasks, (\E t \in 1..MaxTokens : Acc!Verify(k, t)) \/ (\E l \in Logins \cup {Acc!NoName} : Acc!Give(k, l))
             \/ (\E r \in Repos : Acc!Ask(k, r))
      PROVE  UNCHANGED <<alias, linked>>
  BY <1>7 DEF Acc!Verify, Acc!Give, Acc!Ask, Acc!repoVars
<1>8. Acc!Expire \/ Acc!Uninstall \/ UNCHANGED Acc!vars => UNCHANGED <<alias, linked>>
  BY DEF Acc!Expire, Acc!Uninstall, Acc!vars, Acc!repoVars
<1> QED BY <1>1, <1>2, <1>3, <1>4, <1>5, <1>6, <1>7, <1>8 DEF Acc!Next

\* The invariant of the accounts, after every step.
LEMMA AccStep == AccIInv /\ [Acc!Next]_(Acc!vars) => AccIInv'
  BY RowsStep, OwnedStep, TasksStep, AppStep, NamesStep DEF AccIInv

\* GithubAccounts: own things only, and no token of an account that is gone.
LEMMA AccTruth == AccIInv => Acc!TypeOK /\ Acc!OwnThings /\ Acc!NoTokenOfTheGone
<1> SUFFICES ASSUME AccIInv PROVE Acc!TypeOK /\ Acc!OwnThings /\ Acc!NoTokenOfTheGone
  OBVIOUS
<1>1. Acc!OwnThings /\ Acc!NoTokenOfTheGone
  BY DEF AccIInv, Owned, NamesAreTrue, AppIsTrue, Acc!OwnThings
<1>2. PICK n \in Nat : n = Len(recent)
  BY DEF AccIInv, RowsOnce
<1>3. Cardinality({l \in Logins : account[l] # Acc!NoRow}) = n
  <2>1. IsFiniteSet(1..n) /\ Cardinality(1..n) = n
    <3>1. 1 \in Int /\ n \in Int
      OBVIOUS
    <3> QED BY <3>1, FS_Interval
  <2> DEFINE f == [i \in 1..n |-> recent[i]]
             T == {l \in Logins : account[l] # Acc!NoRow}
  <2>2. T = {recent[i] : i \in 1..n} /\ \A i, j \in 1..n : recent[i] = recent[j] => i = j
    BY <1>2 DEF AccIInv, RowsOnce, Within, Once
  <2>3. f \in Bijection(1..n, T)
    <3>1. f \in [1..n -> T]
      BY <2>2
    <3>2. \A i, j \in 1..n : f[i] = f[j] => i = j
      BY <2>2
    <3>3. \A t \in T : \E i \in 1..n : f[i] = t
      BY <2>2
    <3> HIDE DEF f, T
    <3> QED BY <3>1, <3>2, <3>3, Fun_IsBij DEF Bijection, Injection, Surjection, IsInjective
  <2> QED BY <2>1, <2>3, FS_Bijection DEF ExistsBijection
<1>4. {recent[i] : i \in 1..Len(recent)} = {l \in Logins : account[l] # Acc!NoRow}
  BY DEF AccIInv, RowsOnce, Within
<1> QED BY AccCount, <1>1, <1>2, <1>3, <1>4 DEF AccIInv, RowsOnce, Owned, TasksAreTrue, AppIsTrue,
   NamesAreTrue, Acc!TypeOK

-----------------------------------------------------------------------------
(* A tunnel.                                                               *)

TubePlaces == {"none", "asked", "waits", "told", "dials", "listens", "pumps", "ended", "refused", "silent"}
Answers == {"yes", "no"}

TunTypes ==
    /\ asked \in BOOLEAN /\ ready \in Seq(Answers)
    /\ sidePc \in [Tube!Sides -> TubePlaces]
    /\ sidePc["browser"] \in {"none", "asked", "waits", "pumps", "ended", "refused", "silent"}
    /\ sidePc["machine"] \in {"none", "told", "dials", "listens", "pumps", "ended", "refused"}
    /\ listens \in [Tube!Sides -> BOOLEAN] /\ socket \in [Tube!Sides -> BOOLEAN] /\ done \in [Tube!Sides -> BOOLEAN]
    /\ said \in [Tube!Sides -> 0..MaxSaid]
    /\ heard \in [Tube!Sides -> Seq(1..MaxSaid)] /\ inbox \in [Tube!Sides -> Seq(0..MaxSaid)]
    /\ early \in BOOLEAN /\ failed \in BOOLEAN

\* Who listens, and what cannot have happened yet: the browser's side joins after
\* the machine's side has said that it is there, and that listens first.
TunPlaces ==
    /\ listens["browser"] <=> sidePc["browser"] \in {"waits", "pumps"}
    /\ listens["machine"] <=> sidePc["machine"] \in {"listens", "pumps"}
    /\ sidePc["browser"] = "none" <=> sidePc["machine"] = "none"
    /\ sidePc["machine"] \notin {"pumps", "ended"} =>
          /\ said["machine"] = 0 /\ said["browser"] = 0
          /\ \A k \in 1..Len(ready) : ready[k] # "yes"
          /\ sidePc["browser"] # "pumps" /\ (sidePc["browser"] = "ended" => failed)
    /\ sidePc["machine"] \in {"none", "told", "dials"} =>
          inbox["machine"] = <<>> /\ heard["machine"] = <<>>
    /\ sidePc["browser"] \in {"none", "asked"} =>
          /\ inbox["browser"] = <<>> /\ heard["browser"] = <<>>
          /\ ~early => said["machine"] = 0
          /\ ~early /\ ~failed => sidePc["machine"] # "ended"

\* A side has heard what was said from the first message on, and what it holds
\* goes on from there.
HeardWell(s) ==
    /\ \A k \in 1..Len(heard[s]) : heard[s][k] = k
    /\ listens[s] => \A k \in 1..Len(inbox[s]) : inbox[s][k] # Tube!Eof => inbox[s][k] = Len(heard[s]) + k
    /\ listens[s] /\ sidePc[Tube!Other(s)] # "ended" => Len(heard[s]) + Len(inbox[s]) = said[Tube!Other(s)]
TunHeard == \A s \in Tube!Sides : s = "machine" \/ ~early => HeardWell(s)

\* Who ended has told the side that listens.
TunTold ==
    \A s \in Tube!Sides : sidePc[s] = "ended" /\ listens[Tube!Other(s)] /\ ~failed /\ ~early =>
        done[Tube!Other(s)] \/ \E k \in 1..Len(inbox[Tube!Other(s)]) : inbox[Tube!Other(s)][k] = Tube!Eof

TunInv == TunTypes /\ TunPlaces /\ TunHeard /\ TunTold

\* A sequence with one element more, and one without its first.
LEMMA Appended ==
    ASSUME NEW S, NEW q \in Seq(S), NEW e \in S
    PROVE /\ Append(q, e) \in Seq(S) /\ Len(q) \in Nat
          /\ Len(Append(q, e)) = Len(q) + 1 /\ Append(q, e)[Len(q) + 1] = e
          /\ \A k \in 1..Len(q) : Append(q, e)[k] = q[k] /\ q[k] \in S
OBVIOUS
\* A queue without its head.
LEMMA Shifted ==
    ASSUME NEW S, NEW q \in Seq(S), q # <<>>
    PROVE /\ Tail(q) \in Seq(S) /\ Head(q) \in S /\ Head(q) = q[1]
          /\ Len(q) \in Nat /\ Len(q) >= 1 /\ Len(Tail(q)) = Len(q) - 1
          /\ \A k \in 1..Len(Tail(q)) : Tail(q)[k] = q[k + 1]
BY HeadTailProperties

\* What is heard next is what comes next.
LEMMA HeardNext ==
    ASSUME NEW h \in Seq(1..MaxSaid), NEW b \in Seq(0..MaxSaid), b # <<>>, Head(b) # Tube!Eof,
           \A k \in 1..Len(h) : h[k] = k,
           \A k \in 1..Len(b) : b[k] # Tube!Eof => b[k] = Len(h) + k
    PROVE /\ \A k \in 1..Len(Append(h, Head(b))) : Append(h, Head(b))[k] = k
          /\ \A k \in 1..Len(Tail(b)) : Tail(b)[k] # Tube!Eof => Tail(b)[k] = Len(Append(h, Head(b))) + k
          /\ Len(Append(h, Head(b))) + Len(Tail(b)) = Len(h) + Len(b)
<1> DEFINE h2 == Append(h, Head(b))
           b2 == Tail(b)
<1>1. /\ Head(b) \in 0..MaxSaid /\ Head(b) = b[1] /\ Len(b) \in Nat /\ Len(b) >= 1 /\ Len(b2) = Len(b) - 1
      /\ \A k \in 1..Len(b2) : b2[k] = b[k + 1]
  BY Shifted
<1>2. Head(b) \in 1..MaxSaid
  BY <1>1, TunnelAssumption DEF Tube!Eof
<1>3. /\ Len(h) \in Nat /\ Len(h2) = Len(h) + 1 /\ h2[Len(h) + 1] = Head(b)
      /\ \A k \in 1..Len(h) : h2[k] = h[k]
  BY <1>2, Appended
<1>4. Head(b) = Len(h) + 1
  BY <1>1, <1>3
<1> HIDE DEF h2, b2
<1>5. \A k \in 1..Len(h2) : h2[k] = k
  BY <1>3, <1>4
<1>6. ASSUME NEW k \in 1..Len(b2), b2[k] # Tube!Eof PROVE b2[k] = Len(h2) + k
  <2>1. k + 1 \in 1..Len(b) /\ b2[k] = b[k + 1] /\ k \in Nat
    BY <1>1
  <2>2. b[k + 1] = Len(h) + (k + 1)
    BY <1>6, <2>1
  <2>3. QED
    BY <1>3, <2>1, <2>2
<1>7. Len(h2) + Len(b2) = Len(h) + Len(b)
  BY <1>1, <1>3
<1>8. QED
  BY <1>5, <1>6, <1>7 DEF h2, b2

\* The two sides.
LEMMA TunSides ==
    /\ "browser" \in Tube!Sides /\ "machine" \in Tube!Sides /\ "browser" # "machine"
    /\ Tube!Other("browser") = "machine" /\ Tube!Other("machine") = "browser"
    /\ \A s \in Tube!Sides : s \in {"browser", "machine"} /\ Tube!Other(s) \in Tube!Sides /\ Tube!Other(s) # s /\ Tube!Other(Tube!Other(s)) = s
BY DEF Tube!Sides, Tube!Other

\* Nobody asked at first.
LEMMA TunBegins == Tube!Init => TunInv
<1> SUFFICES ASSUME Tube!Init PROVE TunInv
  OBVIOUS
<1>1. /\ ready = <<>> /\ Len(ready) = 0 /\ ready \in Seq(Answers)
      /\ \A s \in Tube!Sides : /\ heard[s] = <<>> /\ inbox[s] = <<>> /\ sidePc[s] = "none" /\ said[s] = 0
                               /\ Len(heard[s]) = 0 /\ Len(inbox[s]) = 0
                               /\ listens[s] = FALSE
  BY DEF Tube!Init, Tube!Both
<1>2. heard \in [Tube!Sides -> Seq(1..MaxSaid)] /\ inbox \in [Tube!Sides -> Seq(0..MaxSaid)]
  BY DEF Tube!Init, Tube!Both
<1>3. asked \in BOOLEAN /\ early \in BOOLEAN /\ failed \in BOOLEAN
  BY Zenon DEF Tube!Init
<1>4. sidePc \in [Tube!Sides -> TubePlaces] /\ said \in [Tube!Sides -> 0..MaxSaid]
  BY TunnelAssumption DEF Tube!Init, Tube!Both, TubePlaces
<1>5. listens \in [Tube!Sides -> BOOLEAN] /\ socket \in [Tube!Sides -> BOOLEAN] /\ done \in [Tube!Sides -> BOOLEAN]
  BY DEF Tube!Init, Tube!Both
<1>6. "browser" \in Tube!Sides /\ "machine" \in Tube!Sides
  BY DEF Tube!Sides
<1>7. TunTypes
  BY <1>1, <1>2, <1>3, <1>4, <1>5, <1>6 DEF TunTypes
<1>8. TunPlaces
  BY <1>1, <1>6 DEF TunPlaces
<1>9. TunHeard /\ TunTold
  <2>1. ASSUME NEW s \in Tube!Sides
        PROVE /\ \A k \in 1..Len(heard[s]) : heard[s][k] = k
              /\ ~listens[s] /\ ~listens[Tube!Other(s)]
    BY <1>1, TunSides
  <2>2. QED
    BY <2>1 DEF TunHeard, HeardWell, TunTold
<1>10. QED
  BY <1>7, <1>8, <1>9 DEF TunInv

\* Every step keeps it.
LEMMA TunKeeps ==
    ASSUME TunInv, Tube!Next
    PROVE TunInv'
<1> USE TunnelAssumption
<1>a. /\ asked \in BOOLEAN /\ ready \in Seq(Answers) /\ early \in BOOLEAN /\ failed \in BOOLEAN
      /\ sidePc["browser"] \in {"none", "asked", "waits", "pumps", "ended", "refused", "silent"}
      /\ sidePc["machine"] \in {"none", "told", "dials", "listens", "pumps", "ended", "refused"}
  BY DEF TunInv, TunTypes
<1>b. /\ sidePc \in [Tube!Sides -> TubePlaces] /\ listens \in [Tube!Sides -> BOOLEAN] /\ socket \in [Tube!Sides -> BOOLEAN]
      /\ done \in [Tube!Sides -> BOOLEAN] /\ said \in [Tube!Sides -> 0..MaxSaid]
  BY DEF TunInv, TunTypes
<1>c. heard \in [Tube!Sides -> Seq(1..MaxSaid)] /\ inbox \in [Tube!Sides -> Seq(0..MaxSaid)]
  BY DEF TunInv, TunTypes
<1>1. CASE Tube!Ask
  <2>1. TunTypes'
    BY <1>a, <1>b, <1>c, <1>1, TunSides DEF Tube!Ask, TunTypes, TubePlaces
  <2>2. TunPlaces'
    BY <1>a, <1>b, <1>1, TunSides DEF Tube!Ask, TunInv, TunPlaces
  <2>3. TunHeard'
    BY <1>a, <1>b, <1>1, TunSides DEF Tube!Ask, TunInv, TunHeard, HeardWell, TunPlaces
  <2>4. TunTold'
    BY <1>a, <1>b, <1>1, TunSides DEF Tube!Ask, TunInv, TunTold, TunPlaces
  <2>5. QED
    BY <2>1, <2>2, <2>3, <2>4 DEF TunInv
<1>2. CASE Tube!Listen
  <2>1. TunTypes'
    BY <1>a, <1>b, <1>c, <1>2, TunSides DEF Tube!Listen, Tube!Goto, TunTypes, TubePlaces
  <2>2. TunPlaces'
    BY <1>a, <1>b, <1>2, TunSides DEF Tube!Listen, Tube!Goto, TunInv, TunPlaces
  <2>3. TunHeard'
    <3>1. inbox["browser"] = <<>> /\ heard["browser"] = <<>> /\ (~early => said["machine"] = 0)
          /\ (~early /\ ~failed => sidePc["machine"] # "ended")
      BY <1>2 DEF Tube!Listen, TunInv, TunPlaces
    <3>2. Len(inbox["browser"]) = 0 /\ Len(heard["browser"]) = 0
      BY <3>1
    <3>3. listens' = [listens EXCEPT !["browser"] = TRUE] /\ sidePc' = [sidePc EXCEPT !["browser"] = "waits"]
          /\ UNCHANGED <<inbox, said, heard, early>> /\ sidePc["browser"] = "asked"
      BY <1>2 DEF Tube!Listen, Tube!Goto
    <3>4. ASSUME NEW s \in Tube!Sides, s = "machine" \/ ~early
          PROVE HeardWell(s)'
      <4>1. CASE s = "machine"
        <5>1. listens'[s] = listens[s] /\ (sidePc'[Tube!Other(s)] # "ended" => sidePc[Tube!Other(s)] # "ended")
          BY <1>b, <3>3, <4>1, TunSides
        <5>2. QED
          BY <3>3, <3>4, <5>1 DEF TunInv, TunHeard, HeardWell
      <4>2. CASE s = "browser"
        <5>1. Len(heard'[s]) = 0 /\ Len(inbox'[s]) = 0 /\ sidePc'[Tube!Other(s)] = sidePc["machine"] /\ said'[Tube!Other(s)] = 0
          BY <1>b, <3>1, <3>2, <3>3, <3>4, <4>2, TunSides
        <5>2. QED
          BY <5>1 DEF HeardWell
      <4>3. QED
        BY <4>1, <4>2, TunSides
    <3>5. QED
      BY <3>3, <3>4 DEF TunHeard
  <2>4. TunTold'
    BY <1>a, <1>b, <1>2, TunSides DEF Tube!Listen, Tube!Goto, TunInv, TunTold, TunPlaces
  <2>5. QED
    BY <2>1, <2>2, <2>3, <2>4 DEF TunInv
<1>3. CASE Tube!Dial
  <2>1. TunTypes'
    BY <1>a, <1>b, <1>c, <1>3, TunSides DEF Tube!Dial, Tube!Goto, TunTypes, TubePlaces
  <2>2. TunPlaces'
    BY <1>a, <1>b, <1>3, TunSides DEF Tube!Dial, Tube!Goto, TunInv, TunPlaces
  <2>3. TunHeard'
    BY <1>a, <1>b, <1>3, TunSides DEF Tube!Dial, Tube!Goto, TunInv, TunHeard, HeardWell, TunPlaces
  <2>4. TunTold'
    BY <1>a, <1>b, <1>3, TunSides DEF Tube!Dial, Tube!Goto, TunInv, TunTold, TunPlaces
  <2>5. QED
    BY <2>1, <2>2, <2>3, <2>4 DEF TunInv
<1>4. CASE Tube!TunnelFailed
  <2>1. TunTypes'
    <3>1. ready' \in Seq(Answers)
      BY <1>a, <1>4 DEF Tube!TunnelFailed, Answers
    <3>2. QED
      BY <1>a, <1>b, <1>c, <1>4, <3>1, TunSides DEF Tube!TunnelFailed, Tube!Goto, TunTypes, TubePlaces
  <2>2. TunPlaces'
    BY <1>a, <1>b, <1>4, TunSides DEF Tube!TunnelFailed, Tube!Goto, TunInv, TunPlaces
  <2>3. TunHeard'
    BY <1>a, <1>b, <1>4, TunSides DEF Tube!TunnelFailed, Tube!Goto, TunInv, TunHeard, HeardWell, TunPlaces
  <2>4. TunTold'
    BY <1>a, <1>b, <1>4, TunSides DEF Tube!TunnelFailed, Tube!Goto, TunInv, TunTold, TunPlaces
  <2>5. QED
    BY <2>1, <2>2, <2>3, <2>4 DEF TunInv
<1>5. CASE Tube!Accept
  <2>1. TunTypes'
    BY <1>a, <1>b, <1>c, <1>5, TunSides DEF Tube!Accept, Tube!Goto, TunTypes, TubePlaces
  <2>2. TunPlaces'
    BY <1>a, <1>b, <1>5, TunSides DEF Tube!Accept, Tube!Goto, TunInv, TunPlaces
  <2>3. TunHeard'
    <3>1. inbox["machine"] = <<>> /\ heard["machine"] = <<>> /\ said["browser"] = 0
      BY <1>5 DEF Tube!Accept, TunInv, TunPlaces
    <3>2. Len(inbox["machine"]) = 0 /\ Len(heard["machine"]) = 0
      BY <3>1
    <3>3. listens' = [listens EXCEPT !["machine"] = TRUE] /\ sidePc' = [sidePc EXCEPT !["machine"] = "listens"]
          /\ UNCHANGED <<inbox, said, heard, early>> /\ sidePc["machine"] = "dials"
      BY <1>5 DEF Tube!Accept, Tube!Goto
    <3>4. ASSUME NEW s \in Tube!Sides, s = "machine" \/ ~early
          PROVE HeardWell(s)'
      <4>1. CASE s = "browser"
        <5>1. listens'[s] = listens[s] /\ (sidePc'[Tube!Other(s)] # "ended" => sidePc[Tube!Other(s)] # "ended")
          BY <1>b, <3>3, <4>1, TunSides
        <5>2. QED
          BY <3>3, <3>4, <5>1 DEF TunInv, TunHeard, HeardWell
      <4>2. CASE s = "machine"
        <5>1. Len(heard'[s]) = 0 /\ Len(inbox'[s]) = 0 /\ said'[Tube!Other(s)] = 0
          BY <1>b, <3>1, <3>2, <3>3, <3>4, <4>2, TunSides
        <5>2. QED
          BY <5>1 DEF HeardWell
      <4>3. QED
        BY <4>1, <4>2, TunSides
    <3>5. QED
      BY <3>3, <3>4 DEF TunHeard
  <2>4. TunTold'
    BY <1>a, <1>b, <1>5, TunSides DEF Tube!Accept, Tube!Goto, TunInv, TunTold, TunPlaces
  <2>5. QED
    BY <2>1, <2>2, <2>3, <2>4 DEF TunInv
<1>6. CASE Tube!Announce
  <2>1. TunTypes'
    <3>1. ready' \in Seq(Answers)
      BY <1>a, <1>6 DEF Tube!Announce, Answers
    <3>2. QED
      BY <1>a, <1>b, <1>c, <1>6, <3>1, TunSides DEF Tube!Announce, Tube!Goto, TunTypes, TubePlaces
  <2>2. TunPlaces'
    BY <1>a, <1>b, <1>6, TunSides DEF Tube!Announce, Tube!Goto, TunInv, TunPlaces
  <2>3. TunHeard'
    BY <1>a, <1>b, <1>6, TunSides DEF Tube!Announce, Tube!Goto, TunInv, TunHeard, HeardWell, TunPlaces
  <2>4. TunTold'
    BY <1>a, <1>b, <1>6, TunSides DEF Tube!Announce, Tube!Goto, TunInv, TunTold, TunPlaces
  <2>5. QED
    BY <2>1, <2>2, <2>3, <2>4 DEF TunInv
<1>7. CASE Tube!MachineReady
  <2>1. TunTypes'
    BY <1>a, <1>b, <1>c, <1>7, TunSides DEF Tube!MachineReady, Tube!Goto, TunTypes, TubePlaces
  <2>2. TunPlaces'
    BY <1>a, <1>b, <1>7, TunSides DEF Tube!MachineReady, Tube!Goto, TunInv, TunPlaces
  <2>3. TunHeard'
    BY <1>a, <1>b, <1>7, TunSides DEF Tube!MachineReady, Tube!Goto, TunInv, TunHeard, HeardWell, TunPlaces
  <2>4. TunTold'
    BY <1>a, <1>b, <1>7, TunSides DEF Tube!MachineReady, Tube!Goto, TunInv, TunTold, TunPlaces
  <2>5. QED
    BY <2>1, <2>2, <2>3, <2>4 DEF TunInv
<1>8. CASE Tube!GiveUp
  <2>1. TunTypes'
    <3>1. ready' \in Seq(Answers)
      BY <1>8 DEF Tube!GiveUp
    <3>2. asked' \in BOOLEAN
      BY <1>8, Zenon DEF Tube!GiveUp
    <3>3. QED
      BY <1>a, <1>b, <1>c, <1>8, <3>1, <3>2, TunSides DEF Tube!GiveUp, Tube!Goto, Tube!Quit, TunTypes, TubePlaces
  <2>2. TunPlaces'
    BY <1>a, <1>b, <1>8, TunSides DEF Tube!GiveUp, Tube!Goto, Tube!Quit, TunInv, TunPlaces
  <2>3. TunHeard'
    BY <1>a, <1>b, <1>8, TunSides DEF Tube!GiveUp, Tube!Goto, Tube!Quit, TunInv, TunHeard, HeardWell, TunPlaces
  <2>4. TunTold'
    BY <1>a, <1>b, <1>8, TunSides DEF Tube!GiveUp, Tube!Goto, Tube!Quit, TunInv, TunTold, TunPlaces
  <2>5. QED
    BY <2>1, <2>2, <2>3, <2>4 DEF TunInv
<1>9. CASE Tube!Expire
  <2>1. TunTypes'
    <3>1. ready' \in Seq(Answers)
      BY <1>9 DEF Tube!Expire
    <3>2. asked' \in BOOLEAN
      BY <1>9, Zenon DEF Tube!Expire
    <3>3. QED
      BY <1>a, <1>b, <1>c, <1>9, <3>1, <3>2, TunSides DEF Tube!Expire, TunTypes, TubePlaces
  <2>2. TunPlaces'
    BY <1>a, <1>b, <1>9, TunSides DEF Tube!Expire, TunInv, TunPlaces
  <2>3. TunHeard'
    BY <1>a, <1>b, <1>9, TunSides DEF Tube!Expire, TunInv, TunHeard, HeardWell, TunPlaces
  <2>4. TunTold'
    BY <1>a, <1>b, <1>9, TunSides DEF Tube!Expire, TunInv, TunTold, TunPlaces
  <2>5. QED
    BY <2>1, <2>2, <2>3, <2>4 DEF TunInv
<1>10. ASSUME NEW s \in Tube!Sides, Tube!Say(s)
      PROVE TunInv'
  <2>1. TunTypes'
    <3>1. said' \in [Tube!Sides -> 0..MaxSaid] /\ said'[s] \in 1..MaxSaid /\ said' = [said EXCEPT ![s] = @ + 1]
      BY <1>b, <1>10 DEF Tube!Say
    <3>2. inbox' \in [Tube!Sides -> Seq(0..MaxSaid)]
      <4>1. Append(inbox[Tube!Other(s)], said'[s]) \in Seq(0..MaxSaid)
        BY <1>c, <3>1, TunSides
      <4>2. QED
        BY <1>c, <1>10, <4>1, TunSides DEF Tube!Say, Tube!Publish
    <3>3. early' \in BOOLEAN
      BY <1>10 DEF Tube!Say, Tube!Deaf
    <3>4. UNCHANGED <<asked, ready, sidePc, listens, heard, socket, done, failed>>
      BY <1>10 DEF Tube!Say
    <3>5. QED
      BY <1>a, <1>b, <1>c, <3>1, <3>2, <3>3, <3>4 DEF TunTypes
  <2>2. TunPlaces'
    BY <1>a, <1>b, <1>10, TunSides DEF Tube!Say, Tube!Publish, Tube!Deaf, Tube!Pumps, TunInv, TunPlaces
  <2>3. TunHeard'
    <3>1. said'[s] = said[s] + 1 /\ said' = [said EXCEPT ![s] = said[s] + 1] /\ said[s] \in 0..MaxSaid
      BY <1>b, <1>10 DEF Tube!Say
    <3>2. inbox' = [inbox EXCEPT ![Tube!Other(s)] = IF listens[Tube!Other(s)] THEN Append(@, said'[s]) ELSE @]
          /\ UNCHANGED <<sidePc, listens, heard>> /\ sidePc[s] = "pumps"
          /\ early' = (early \/ (s = "machine" /\ sidePc["browser"] = "asked"))
      BY <1>10 DEF Tube!Say, Tube!Publish, Tube!Deaf, Tube!Pumps
    <3>3. ASSUME NEW v \in Tube!Sides, v = "machine" \/ ~early'
          PROVE HeardWell(v)'
      <4>0. v = "machine" \/ ~early
        BY <3>2, <3>3
      <4>1. CASE v = s
        <5>1. inbox'[v] = inbox[v] /\ said'[Tube!Other(v)] = said[Tube!Other(v)]
          BY <1>b, <1>c, <3>1, <3>2, <4>1, TunSides
        <5>2. HeardWell(v)
          BY <4>0 DEF TunInv, TunHeard
        <5>3. heard'[v] = heard[v] /\ listens'[v] = listens[v] /\ sidePc'[Tube!Other(v)] = sidePc[Tube!Other(v)]
          BY <3>2
        <5>4. QED
          BY <5>1, <5>2, <5>3 DEF HeardWell
      <4>2. CASE v = Tube!Other(s) /\ ~listens[v]
        BY <3>2, <4>0, <4>2 DEF TunInv, TunHeard, HeardWell
      <4>3. CASE v = Tube!Other(s) /\ listens[v]
        <5>1. inbox'[v] = Append(inbox[v], said[s] + 1) /\ said'[Tube!Other(v)] = said[s] + 1 /\ Tube!Other(v) = s
          BY <1>b, <1>c, <3>1, <3>2, <4>3, TunSides
        <5>2. Len(heard[v]) + Len(inbox[v]) = said[s]
          BY <3>2, <4>0, <4>3, <5>1 DEF TunInv, TunHeard, HeardWell
        <5>3. inbox[v] \in Seq(0..MaxSaid) /\ heard[v] \in Seq(1..MaxSaid)
          BY <1>c
        <5>4. Len(inbox'[v]) = Len(inbox[v]) + 1 /\ inbox'[v][Len(inbox[v]) + 1] = said[s] + 1
              /\ \A k \in 1..Len(inbox[v]) : inbox'[v][k] = inbox[v][k]
          <6>1. said[s] + 1 \in 0..MaxSaid
            BY <3>1, <1>b, <1>10 DEF Tube!Say
          <6>2. QED
            BY <5>1, <5>3, <6>1, Appended
        <5>5. Len(inbox[v]) \in Nat /\ Len(heard[v]) \in Nat
          BY <5>3
        <5>6. /\ \A k \in 1..Len(heard[v]) : heard[v][k] = k
              /\ \A k \in 1..Len(inbox[v]) : inbox[v][k] # Tube!Eof => inbox[v][k] = Len(heard[v]) + k
          BY <4>0, <4>3 DEF TunInv, TunHeard, HeardWell
        <5>7. \A k \in 1..Len(inbox'[v]) : inbox'[v][k] # Tube!Eof => inbox'[v][k] = Len(heard[v]) + k
          <6>1. ASSUME NEW k \in 1..Len(inbox'[v]), inbox'[v][k] # Tube!Eof PROVE inbox'[v][k] = Len(heard[v]) + k
            <7>1. CASE k = Len(inbox[v]) + 1
              <8>1. inbox'[v][k] = said[s] + 1
                BY <5>4, <7>1
              <8>2. Len(heard[v]) + k = said[s] + 1
                <9>1. PICK a \in Nat, b \in Nat : a = Len(heard[v]) /\ b = Len(inbox[v])
                  BY <5>5
                <9>2. a + b = said[s] /\ k = b + 1
                  BY <5>2, <7>1, <9>1
                <9>3. a + k = said[s] + 1
                  BY <9>2
                <9>4. QED
                  BY <9>1, <9>3
              <8>3. QED
                BY <8>1, <8>2
            <7>2. CASE k # Len(inbox[v]) + 1
              <8>1. k \in 1..Len(inbox[v]) /\ inbox'[v][k] = inbox[v][k]
                BY <5>4, <5>5, <7>2
              <8>2. QED
                BY <5>6, <6>1, <8>1
            <7>3. QED
              BY <7>1, <7>2
          <6>2. QED
            BY <6>1
        <5>8. Len(heard[v]) + Len(inbox'[v]) = said'[Tube!Other(v)]
          <6>1. said'[Tube!Other(v)] = said[s] + 1 /\ Len(inbox'[v]) = Len(inbox[v]) + 1
            BY <5>1, <5>4
          <6>2. QED
            <7>1. PICK a \in Nat, b \in Nat : a = Len(heard[v]) /\ b = Len(inbox[v])
              BY <5>5
            <7>2. a + b = said[s] /\ Len(inbox'[v]) = b + 1
              BY <5>2, <6>1, <7>1
            <7>3. a + (b + 1) = said[s] + 1
              BY <7>2
            <7>4. QED
              BY <6>1, <7>1, <7>2, <7>3
        <5>9. QED
          BY <3>2, <5>6, <5>7, <5>8 DEF HeardWell
      <4>4. QED
        BY <4>1, <4>2, <4>3, TunSides
    <3>4. QED
      BY <3>2, <3>3 DEF TunHeard
  <2>4. TunTold'
    <3>1. said'[s] = said[s] + 1 /\ said[s] + 1 \in 0..MaxSaid
      BY <1>b, <1>10 DEF Tube!Say
    <3>2. inbox' = [inbox EXCEPT ![Tube!Other(s)] = IF listens[Tube!Other(s)] THEN Append(@, said'[s]) ELSE @]
          /\ UNCHANGED <<sidePc, listens, done, failed>> /\ (early => early')
      BY <1>10 DEF Tube!Say, Tube!Publish, Tube!Deaf
    <3>3. ASSUME NEW v \in Tube!Sides, NEW k \in 1..Len(inbox[v]), inbox[v][k] = Tube!Eof
          PROVE \E m \in 1..Len(inbox'[v]) : inbox'[v][m] = Tube!Eof
      <4>1. inbox[v] \in Seq(0..MaxSaid) /\ inbox'[v] \in {inbox[v], Append(inbox[v], said[s] + 1)}
        BY <1>c, <3>1, <3>2
      <4>2. k \in 1..Len(inbox'[v]) /\ inbox'[v][k] = inbox[v][k]
        <5>1. CASE inbox'[v] = inbox[v]
          BY <5>1
        <5>2. CASE inbox'[v] = Append(inbox[v], said[s] + 1)
          <6>1. Len(inbox'[v]) = Len(inbox[v]) + 1 /\ Len(inbox[v]) \in Nat /\ inbox'[v][k] = inbox[v][k]
            BY <3>1, <4>1, <5>2, Appended
          <6>2. QED
            BY <6>1
        <5>3. QED
          BY <4>1, <5>1, <5>2
      <4>3. QED
        BY <3>3, <4>2
    <3>4. ASSUME NEW v \in Tube!Sides, sidePc[v] = "ended", listens[Tube!Other(v)], ~failed, ~early
          PROVE done[Tube!Other(v)] \/ \E k \in 1..Len(inbox'[Tube!Other(v)]) : inbox'[Tube!Other(v)][k] = Tube!Eof
      <4>1. done[Tube!Other(v)] \/ \E k \in 1..Len(inbox[Tube!Other(v)]) : inbox[Tube!Other(v)][k] = Tube!Eof
        BY <3>4 DEF TunInv, TunTold
      <4>2. QED
        BY <3>3, <4>1, TunSides
    <3>5. QED
      BY <3>2, <3>4 DEF TunTold
  <2>5. QED
    BY <2>1, <2>2, <2>3, <2>4 DEF TunInv
<1>11. ASSUME NEW s \in Tube!Sides, Tube!Hear(s)
      PROVE TunInv'
  <2>1. TunTypes'
    <3>1. /\ heard' = [heard EXCEPT ![s] = Append(@, Head(inbox[s]))] /\ inbox' = [inbox EXCEPT ![s] = Tail(@)]
          /\ inbox[s] # <<>> /\ Head(inbox[s]) # Tube!Eof
          /\ UNCHANGED <<asked, ready, sidePc, listens, said, socket, done, early, failed>>
      BY <1>11 DEF Tube!Hear
    <3>2. inbox[s] \in Seq(0..MaxSaid) /\ heard[s] \in Seq(1..MaxSaid)
      BY <1>c
    <3>3. Tail(inbox[s]) \in Seq(0..MaxSaid) /\ Head(inbox[s]) \in 0..MaxSaid
      BY <3>1, <3>2, Shifted
    <3>4. Head(inbox[s]) \in 1..MaxSaid
      BY <3>1, <3>3 DEF Tube!Eof
    <3>5. Append(heard[s], Head(inbox[s])) \in Seq(1..MaxSaid)
      BY <3>2, <3>4
    <3>6. heard' \in [Tube!Sides -> Seq(1..MaxSaid)] /\ inbox' \in [Tube!Sides -> Seq(0..MaxSaid)]
      BY <1>c, <3>1, <3>3, <3>5
    <3>7. QED
      BY <1>a, <1>b, <3>1, <3>6 DEF TunTypes
  <2>2. TunPlaces'
    BY <1>a, <1>b, <1>11, TunSides DEF Tube!Hear, Tube!Pumps, TunInv, TunPlaces
  <2>3. TunHeard'
    <3>1. /\ heard' = [heard EXCEPT ![s] = Append(@, Head(inbox[s]))] /\ inbox' = [inbox EXCEPT ![s] = Tail(@)]
          /\ inbox[s] # <<>> /\ Head(inbox[s]) # Tube!Eof /\ sidePc[s] = "pumps"
          /\ UNCHANGED <<sidePc, listens, said, early>>
      BY <1>11 DEF Tube!Hear, Tube!Pumps
    <3>2. inbox[s] \in Seq(0..MaxSaid) /\ heard[s] \in Seq(1..MaxSaid) /\ Len(inbox[s]) \in Nat /\ Len(heard[s]) \in Nat
      BY <1>c
    <3>3. listens[s]
      BY <3>1, TunSides DEF TunInv, TunPlaces
    <3>4. heard'[s] = Append(heard[s], Head(inbox[s])) /\ inbox'[s] = Tail(inbox[s])
          /\ \A v \in Tube!Sides \ {s} : heard'[v] = heard[v] /\ inbox'[v] = inbox[v]
      BY <1>c, <3>1
    <3>5. ASSUME s = "machine" \/ ~early
          PROVE HeardWell(s)'
      <4>1. /\ \A k \in 1..Len(heard[s]) : heard[s][k] = k
            /\ \A k \in 1..Len(inbox[s]) : inbox[s][k] # Tube!Eof => inbox[s][k] = Len(heard[s]) + k
            /\ sidePc[Tube!Other(s)] # "ended" => Len(heard[s]) + Len(inbox[s]) = said[Tube!Other(s)]
        BY <3>3, <3>5 DEF TunInv, TunHeard, HeardWell
      <4>2. /\ \A k \in 1..Len(heard'[s]) : heard'[s][k] = k
            /\ \A k \in 1..Len(inbox'[s]) : inbox'[s][k] # Tube!Eof => inbox'[s][k] = Len(heard'[s]) + k
            /\ Len(heard'[s]) + Len(inbox'[s]) = Len(heard[s]) + Len(inbox[s])
        <5> DEFINE h == heard[s]
                   b == inbox[s]
        <5>1. h \in Seq(1..MaxSaid) /\ b \in Seq(0..MaxSaid) /\ b # <<>> /\ Head(b) # Tube!Eof
          BY <3>1, <3>2
        <5>2. /\ \A k \in 1..Len(h) : h[k] = k
              /\ \A k \in 1..Len(b) : b[k] # Tube!Eof => b[k] = Len(h) + k
          BY <4>1
        <5>3. heard'[s] = Append(h, Head(b)) /\ inbox'[s] = Tail(b)
          BY <3>4
        <5> HIDE DEF h, b
        <5>4. /\ \A k \in 1..Len(Append(h, Head(b))) : Append(h, Head(b))[k] = k
              /\ \A k \in 1..Len(Tail(b)) : Tail(b)[k] # Tube!Eof => Tail(b)[k] = Len(Append(h, Head(b))) + k
              /\ Len(Append(h, Head(b))) + Len(Tail(b)) = Len(h) + Len(b)
          BY <5>1, <5>2, HeardNext
        <5>5. QED
          BY <5>3, <5>4, Zenon DEF h, b
      <4>3. QED
        BY <3>1, <4>1, <4>2 DEF HeardWell
    <3>6. ASSUME NEW v \in Tube!Sides \ {s}, v = "machine" \/ ~early
          PROVE HeardWell(v)'
      <4>1. HeardWell(v)
        BY <3>6 DEF TunInv, TunHeard
      <4>2. heard'[v] = heard[v] /\ inbox'[v] = inbox[v] /\ listens' = listens /\ sidePc' = sidePc /\ said' = said
        BY <3>1, <3>4, <3>6
      <4>3. QED
        BY <4>1, <4>2 DEF HeardWell
    <3>7. QED
      BY <3>1, <3>5, <3>6 DEF TunHeard
  <2>4. TunTold'
    <3>1. /\ inbox' = [inbox EXCEPT ![s] = Tail(@)] /\ inbox[s] # <<>> /\ Head(inbox[s]) # Tube!Eof
          /\ UNCHANGED <<sidePc, listens, done, early, failed>>
      BY <1>11 DEF Tube!Hear
    <3>2. inbox[s] \in Seq(0..MaxSaid) /\ inbox'[s] = Tail(inbox[s]) /\ \A v \in Tube!Sides \ {s} : inbox'[v] = inbox[v]
      BY <1>c, <3>1
    <3>3. ASSUME NEW k \in 1..Len(inbox[s]), inbox[s][k] = Tube!Eof
          PROVE \E m \in 1..Len(inbox'[s]) : inbox'[s][m] = Tube!Eof
      <4>1. k # 1
        BY <3>1, <3>2, <3>3, Shifted
      <4>2. k - 1 \in 1..Len(inbox'[s]) /\ inbox'[s][k - 1] = inbox[s][k]
        <5>1. /\ Len(inbox[s]) \in Nat /\ Len(inbox'[s]) = Len(inbox[s]) - 1
              /\ \A m \in 1..Len(inbox'[s]) : inbox'[s][m] = inbox[s][m + 1]
          <6>1. /\ Len(inbox[s]) \in Nat /\ Len(Tail(inbox[s])) = Len(inbox[s]) - 1
                /\ \A m \in 1..Len(Tail(inbox[s])) : Tail(inbox[s])[m] = inbox[s][m + 1]
            BY <3>1, <3>2, Shifted
          <6>2. QED
            BY <3>2, <6>1
        <5>2. k - 1 \in 1..Len(inbox'[s]) /\ (k - 1) + 1 = k
          BY <4>1, <5>1
        <5>3. QED
          BY <5>1, <5>2
      <4>3. QED
        BY <3>3, <4>2
    <3>4. ASSUME NEW v \in Tube!Sides, sidePc[v] = "ended", listens[Tube!Other(v)], ~failed, ~early
          PROVE done[Tube!Other(v)] \/ \E k \in 1..Len(inbox'[Tube!Other(v)]) : inbox'[Tube!Other(v)][k] = Tube!Eof
      <4>1. done[Tube!Other(v)] \/ \E k \in 1..Len(inbox[Tube!Other(v)]) : inbox[Tube!Other(v)][k] = Tube!Eof
        BY <3>4 DEF TunInv, TunTold
      <4>2. CASE Tube!Other(v) = s
        BY <3>3, <4>1, <4>2
      <4>3. CASE Tube!Other(v) # s
        BY <3>2, <4>1, <4>3, TunSides
      <4>4. QED
        BY <4>2, <4>3
    <3>5. QED
      BY <3>1, <3>4 DEF TunTold
  <2>5. QED
    BY <2>1, <2>2, <2>3, <2>4 DEF TunInv
<1>12. ASSUME NEW s \in Tube!Sides, Tube!HearEnd(s)
      PROVE TunInv'
  <2>1. TunTypes'
    BY <1>a, <1>b, <1>c, <1>12, TunSides DEF Tube!HearEnd, Tube!Pumps, TunTypes, TubePlaces
  <2>2. TunPlaces'
    BY <1>a, <1>b, <1>12, TunSides DEF Tube!HearEnd, Tube!Pumps, TunInv, TunPlaces
  <2>3. TunHeard'
    BY <1>a, <1>b, <1>12, TunSides DEF Tube!HearEnd, Tube!Pumps, TunInv, TunHeard, HeardWell, TunPlaces
  <2>4. TunTold'
    BY <1>a, <1>b, <1>12, TunSides DEF Tube!HearEnd, Tube!Pumps, TunInv, TunTold, TunPlaces
  <2>5. QED
    BY <2>1, <2>2, <2>3, <2>4 DEF TunInv
<1>13. ASSUME NEW s \in Tube!Sides, Tube!Hangup(s)
      PROVE TunInv'
  <2>1. TunTypes'
    BY <1>a, <1>b, <1>c, <1>13, TunSides DEF Tube!Hangup, TunTypes, TubePlaces
  <2>2. TunPlaces'
    BY <1>a, <1>b, <1>13, TunSides DEF Tube!Hangup, TunInv, TunPlaces
  <2>3. TunHeard'
    BY <1>a, <1>b, <1>13, TunSides DEF Tube!Hangup, TunInv, TunHeard, HeardWell, TunPlaces
  <2>4. TunTold'
    BY <1>a, <1>b, <1>13, TunSides DEF Tube!Hangup, TunInv, TunTold, TunPlaces
  <2>5. QED
    BY <2>1, <2>2, <2>3, <2>4 DEF TunInv
<1>14. ASSUME NEW s \in Tube!Sides, Tube!Disconnected(s)
      PROVE TunInv'
  <2>1. TunTypes'
    BY <1>a, <1>b, <1>c, <1>14, TunSides DEF Tube!Disconnected, Tube!Pumps, TunTypes, TubePlaces
  <2>2. TunPlaces'
    BY <1>a, <1>b, <1>14, TunSides DEF Tube!Disconnected, Tube!Pumps, TunInv, TunPlaces
  <2>3. TunHeard'
    BY <1>a, <1>b, <1>14, TunSides DEF Tube!Disconnected, Tube!Pumps, TunInv, TunHeard, HeardWell, TunPlaces
  <2>4. TunTold'
    BY <1>a, <1>b, <1>14, TunSides DEF Tube!Disconnected, Tube!Pumps, TunInv, TunTold, TunPlaces
  <2>5. QED
    BY <2>1, <2>2, <2>3, <2>4 DEF TunInv
<1>15. ASSUME NEW s \in Tube!Sides, Tube!End(s)
      PROVE TunInv'
  <2>1. TunTypes'
    <3>1. /\ inbox' = [inbox EXCEPT ![Tube!Other(s)] = IF listens[Tube!Other(s)] THEN Append(@, Tube!Eof) ELSE @]
          /\ early' = (early \/ (s = "machine" /\ sidePc["browser"] = "asked"))
          /\ sidePc' = [sidePc EXCEPT ![s] = "ended"] /\ listens' = [listens EXCEPT ![s] = FALSE]
          /\ socket' = [socket EXCEPT ![s] = FALSE]
          /\ asked' = (asked /\ s # "browser") /\ ready' = IF s = "browser" THEN <<>> ELSE ready
          /\ UNCHANGED <<said, heard, done, failed>>
      BY <1>15 DEF Tube!End, Tube!Publish, Tube!Deaf, Tube!Goto, Tube!Quit
    <3>2. inbox' \in [Tube!Sides -> Seq(0..MaxSaid)]
      <4>1. Append(inbox[Tube!Other(s)], Tube!Eof) \in Seq(0..MaxSaid)
        BY <1>c, TunSides DEF Tube!Eof
      <4>2. QED
        BY <1>c, <3>1, <4>1, TunSides
    <3>3. early' \in BOOLEAN /\ asked' \in BOOLEAN /\ ready' \in Seq(Answers)
      BY <1>a, <3>1
    <3>4. /\ sidePc' \in [Tube!Sides -> TubePlaces] /\ listens' \in [Tube!Sides -> BOOLEAN] /\ socket' \in [Tube!Sides -> BOOLEAN]
          /\ sidePc'["browser"] \in {"none", "asked", "waits", "pumps", "ended", "refused", "silent"}
          /\ sidePc'["machine"] \in {"none", "told", "dials", "listens", "pumps", "ended", "refused"}
      BY <1>a, <1>b, <3>1, TunSides DEF TubePlaces
    <3>5. QED
      BY <1>a, <1>b, <1>c, <3>1, <3>2, <3>3, <3>4 DEF TunTypes
  <2>2. TunPlaces'
    BY <1>a, <1>b, <1>15, TunSides DEF Tube!End, Tube!Publish, Tube!Deaf, Tube!Goto, Tube!Quit, TunInv, TunPlaces
  <2>3. TunHeard'
    <3>1. /\ inbox' = [inbox EXCEPT ![Tube!Other(s)] = IF listens[Tube!Other(s)] THEN Append(@, Tube!Eof) ELSE @]
          /\ early' = (early \/ (s = "machine" /\ sidePc["browser"] = "asked"))
          /\ sidePc' = [sidePc EXCEPT ![s] = "ended"] /\ listens' = [listens EXCEPT ![s] = FALSE]
          /\ UNCHANGED <<said, heard>>
      BY <1>15 DEF Tube!End, Tube!Publish, Tube!Deaf, Tube!Goto, Tube!Quit
    <3>2. ASSUME NEW v \in Tube!Sides, v = "machine" \/ ~early'
          PROVE HeardWell(v)'
      <4>0. v = "machine" \/ ~early
        BY <3>1, <3>2
      <4>1. CASE v = s
        BY <1>b, <3>1, <4>0, <4>1 DEF TunInv, TunHeard, HeardWell
      <4>2. CASE v = Tube!Other(s)
        <5>1. Tube!Other(v) = s /\ sidePc'[s] = "ended" /\ listens'[v] = listens[v]
          BY <1>b, <3>1, <4>2, TunSides
        <5>2. CASE ~listens[v]
          BY <3>1, <4>0, <5>1, <5>2 DEF TunInv, TunHeard, HeardWell
        <5>3. CASE listens[v]
          <6>1. inbox[v] \in Seq(0..MaxSaid) /\ inbox'[v] = Append(inbox[v], Tube!Eof)
            BY <1>c, <3>1, <4>2, <5>3, TunSides
          <6>2. Len(inbox'[v]) = Len(inbox[v]) + 1 /\ inbox'[v][Len(inbox[v]) + 1] = Tube!Eof /\ Len(inbox[v]) \in Nat
                /\ \A k \in 1..Len(inbox[v]) : inbox'[v][k] = inbox[v][k]
            BY <6>1 DEF Tube!Eof
          <6>3. /\ \A k \in 1..Len(heard[v]) : heard[v][k] = k
                /\ \A k \in 1..Len(inbox[v]) : inbox[v][k] # Tube!Eof => inbox[v][k] = Len(heard[v]) + k
            BY <4>0, <5>3 DEF TunInv, TunHeard, HeardWell
          <6>4. \A k \in 1..Len(inbox'[v]) : inbox'[v][k] # Tube!Eof => inbox'[v][k] = Len(heard[v]) + k
            BY <6>2, <6>3
          <6>5. QED
            BY <3>1, <5>1, <6>3, <6>4 DEF HeardWell
        <5>4. QED
          BY <5>2, <5>3
      <4>3. QED
        BY <4>1, <4>2, TunSides
    <3>3. QED
      BY <3>1, <3>2 DEF TunHeard
  <2>4. TunTold'
    <3>1. /\ inbox' = [inbox EXCEPT ![Tube!Other(s)] = IF listens[Tube!Other(s)] THEN Append(@, Tube!Eof) ELSE @]
          /\ early' = (early \/ (s = "machine" /\ sidePc["browser"] = "asked"))
          /\ sidePc' = [sidePc EXCEPT ![s] = "ended"] /\ listens' = [listens EXCEPT ![s] = FALSE]
          /\ UNCHANGED <<done, failed>>
      BY <1>15 DEF Tube!End, Tube!Publish, Tube!Deaf, Tube!Goto, Tube!Quit
    <3>2. ASSUME NEW v \in Tube!Sides, sidePc'[v] = "ended", listens'[Tube!Other(v)], ~failed, ~early'
          PROVE done[Tube!Other(v)] \/ \E k \in 1..Len(inbox'[Tube!Other(v)]) : inbox'[Tube!Other(v)][k] = Tube!Eof
      <4>1. Tube!Other(v) # s
        BY <1>b, <3>1, <3>2
      <4>2. v = s /\ listens[Tube!Other(s)]
        BY <1>b, <3>1, <3>2, <4>1, TunSides
      <4>3. inbox[Tube!Other(s)] \in Seq(0..MaxSaid) /\ inbox'[Tube!Other(s)] = Append(inbox[Tube!Other(s)], Tube!Eof)
        BY <1>c, <3>1, <4>2, TunSides
      <4>4. Len(inbox[Tube!Other(s)]) + 1 \in 1..Len(inbox'[Tube!Other(s)]) /\ inbox'[Tube!Other(s)][Len(inbox[Tube!Other(s)]) + 1] = Tube!Eof
        BY <4>3 DEF Tube!Eof
      <4>5. QED
        BY <4>2, <4>4
    <3>3. QED
      BY <3>1, <3>2 DEF TunTold
  <2>5. QED
    BY <2>1, <2>2, <2>3, <2>4 DEF TunInv
<1>16. ASSUME NEW s \in Tube!Sides, Tube!Crash(s)
      PROVE TunInv'
  <2>1. TunTypes'
    BY <1>a, <1>b, <1>c, <1>16, TunSides DEF Tube!Crash, Tube!Goto, Tube!Quit, TunTypes, TubePlaces
  <2>2. TunPlaces'
    BY <1>a, <1>b, <1>16, TunSides DEF Tube!Crash, Tube!Goto, Tube!Quit, TunInv, TunPlaces
  <2>3. TunHeard'
    BY <1>a, <1>b, <1>16, TunSides DEF Tube!Crash, Tube!Goto, Tube!Quit, TunInv, TunHeard, HeardWell, TunPlaces
  <2>4. TunTold'
    BY <1>a, <1>b, <1>16, TunSides DEF Tube!Crash, Tube!Goto, Tube!Quit, TunInv, TunTold, TunPlaces
  <2>5. QED
    BY <2>1, <2>2, <2>3, <2>4 DEF TunInv
<1>17. QED
  BY <1>1, <1>2, <1>3, <1>4, <1>5, <1>6, <1>7, <1>8, <1>9, <1>10, <1>11, <1>12, <1>13, <1>14, <1>15, <1>16 DEF Tube!Next

\* What it says of the tunnel.
LEMMA TunTruth ==
    ASSUME TunInv
    PROVE Tube!TypeOK /\ Tube!TunnelIsWhole
<1>1. \A s \in Tube!Sides : s = "machine" \/ ~early => heard[s] = [k \in 1..Len(heard[s]) |-> k]
  <2>1. ASSUME NEW s \in Tube!Sides, s = "machine" \/ ~early PROVE heard[s] = [k \in 1..Len(heard[s]) |-> k]
    <3>1. heard[s] \in Seq(1..MaxSaid)
      BY DEF TunInv, TunTypes
    <3>2. \A k \in 1..Len(heard[s]) : heard[s][k] = k
      BY <2>1 DEF TunInv, TunHeard, HeardWell
    <3>3. QED
      BY <3>1, <3>2
  <2>2. QED
    BY <2>1
<1>2. Tube!TunnelIsWhole
  <2>1. ASSUME NEW s \in Tube!Sides, sidePc[s] = "ended", sidePc[Tube!Other(s)] = "pumps", ~failed, ~early
        PROVE done[Tube!Other(s)] \/ \E k \in 1..Len(inbox[Tube!Other(s)]) : inbox[Tube!Other(s)][k] = Tube!Eof
    <3>1. listens[Tube!Other(s)]
      BY <2>1, TunSides DEF TunInv, TunPlaces
    <3>2. QED
      BY <2>1, <3>1 DEF TunInv, TunTold
  <2>2. QED
    BY <1>1, <2>1 DEF Tube!TunnelIsWhole
<1>3. Tube!TypeOK
  <2>1. \A k \in 1..Len(ready) : ready[k] \in {"yes", "no"}
    BY DEF TunInv, TunTypes, Answers
  <2>2. ASSUME NEW s \in Tube!Sides, NEW k \in 1..Len(heard[s]) PROVE heard[s][k] \in 1..MaxSaid
    <3>1. heard[s] \in Seq(1..MaxSaid)
      BY DEF TunInv, TunTypes
    <3>2. QED
      BY <3>1, ElementOfSeq
  <2>3. ASSUME NEW s \in Tube!Sides, NEW k \in 1..Len(inbox[s]) PROVE inbox[s][k] \in 0..MaxSaid
    <3>1. inbox[s] \in Seq(0..MaxSaid)
      BY DEF TunInv, TunTypes
    <3>2. QED
      BY <3>1, ElementOfSeq
  <2>4. QED
    BY <2>1, <2>2, <2>3 DEF TunInv, TunTypes, Tube!TypeOK
<1>4. QED
  BY <1>2, <1>3

-----------------------------------------------------------------------------
(* The DevTools connection.                                                *)

Outcomes == {"none", "answer", "silence"}

\* What is stored was read, what is on the wire was called, and the answer that is
\* waited for is stored as soon as it is read.
DevInv ==
    /\ Dev!TypeOK
    /\ sentCalls \in Nat /\ Len(outcome) = sentCalls
    /\ outcome \in Seq(Outcomes)
    /\ answers \in Seq(Nat) /\ Dev!Stored \subseteq taken
    /\ wire \in Seq(0..sentCalls)
    /\ Dev!AnswersAreOwn

\* Nothing was called at first.
LEMMA DevBegins == Dev!Init => DevInv
<1> SUFFICES ASSUME Dev!Init PROVE DevInv
  OBVIOUS
<1>1. torn \in BOOLEAN
  BY Zenon DEF Dev!Init
<1>2. Dev!Stored = {}
  BY DEF Dev!Init, Dev!Stored
<1>3. QED
  BY <1>1, <1>2, DevtoolsAssumption DEF Dev!Init, DevInv, Dev!TypeOK, Dev!AnswersAreOwn, Dev!NoCall

\* The answers that are kept when one more comes: that one, and of the others all
\* but the oldest at most.
LEMMA AnswersStay ==
    ASSUME NEW n \in Nat, answers \in Seq(Nat), Len(answers) <= KeptAnswers
    PROVE /\ Dev!Kept(n) \in Seq(Nat) /\ Len(Dev!Kept(n)) <= KeptAnswers
          /\ \A i \in 1..Len(Dev!Kept(n)) : Dev!Kept(n)[i] = n \/ Dev!Kept(n)[i] \in Dev!Stored
          /\ \E i \in 1..Len(Dev!Kept(n)) : Dev!Kept(n)[i] = n
<1> DEFINE more == Append(answers, n)
<1>1. more \in Seq(Nat) /\ Len(more) = Len(answers) + 1 /\ Len(answers) \in Nat
      /\ more[Len(answers) + 1] = n /\ \A i \in 1..Len(answers) : more[i] = answers[i]
  OBVIOUS
<1>2. CASE Len(more) <= KeptAnswers
  <2>1. Dev!Kept(n) = more
    BY <1>1, <1>2, DevtoolsAssumption DEF Dev!Kept
  <2>2. QED
    BY <1>1, <1>2, <2>1 DEF Dev!Stored
<1>3. CASE Len(more) > KeptAnswers
  <2>1. Dev!Kept(n) = Tail(more)
    BY <1>3 DEF Dev!Kept
  <2>2. Tail(more) \in Seq(Nat) /\ Len(Tail(more)) = Len(answers)
        /\ \A i \in 1..Len(answers) : Tail(more)[i] = more[i + 1]
    BY <1>1
  <2>3. Len(answers) = KeptAnswers /\ KeptAnswers \in Nat /\ KeptAnswers > 0
    BY <1>1, <1>3, DevtoolsAssumption
  <2>4. Tail(more)[KeptAnswers] = n
    BY <1>1, <2>2, <2>3
  <2>5. QED
    BY <1>1, <2>1, <2>2, <2>3, <2>4 DEF Dev!Stored
<1>4. QED
  BY <1>1, <1>2, <1>3, DevtoolsAssumption

\* One frame is read: an event, or an answer that is stored.
LEMMA FrameKeeps ==
    ASSUME DevInv, Dev!Frame, UNCHANGED <<sentCalls, unanswered, waiting, outcome, torn, events>>,
           waiting # Dev!NoCall => waiting \notin Dev!Stored
    PROVE DevInv'
<1> DEFINE n == Head(wire)
<1>1. sentCalls \in Nat /\ wire \in Seq(0..sentCalls) /\ wire # <<>> /\ answers \in Seq(Nat) /\ Len(answers) <= KeptAnswers
      /\ taken \subseteq 1..sentCalls /\ Dev!Stored \subseteq taken
  BY DEF DevInv, Dev!Frame, Dev!TypeOK
<1>2. wire' \in Seq(0..sentCalls) /\ n \in 0..sentCalls
  BY <1>1 DEF Dev!Frame
<1>3. waiting = Dev!NoCall \/ waiting \notin taken
  BY DEF DevInv, Dev!AnswersAreOwn
<1>4. CASE n = Dev!Event
  <2>1. UNCHANGED <<answers, taken>>
    BY <1>4 DEF Dev!Frame
  <2>2. QED
    BY <1>2, <2>1 DEF DevInv, Dev!TypeOK, Dev!AnswersAreOwn, Dev!Stored
<1>5. CASE n # Dev!Event
  <2>1. answers' = Dev!Kept(n) /\ taken' = taken \cup {n} /\ n \in 1..sentCalls
    BY <1>1, <1>2, <1>5 DEF Dev!Frame, Dev!Event
  <2>2. /\ answers' \in Seq(Nat) /\ Len(answers') <= KeptAnswers
        /\ \A i \in 1..Len(answers') : answers'[i] = n \/ answers'[i] \in Dev!Stored
        /\ \E i \in 1..Len(answers') : answers'[i] = n
    <3>1. n \in Nat
      BY <1>1, <2>1
    <3> HIDE DEF n
    <3>2. QED
      BY <1>1, <2>1, <3>1, AnswersStay
  <2>3. Dev!Stored' \subseteq taken' /\ n \in Dev!Stored' /\ taken' \subseteq 1..sentCalls
    BY <1>1, <2>1, <2>2 DEF Dev!Stored
  <2>4. Dev!AnswersAreOwn'
    BY <1>3, <2>1, <2>3 DEF DevInv, Dev!AnswersAreOwn
  <2>5. QED
    BY <1>1, <1>2, <2>2, <2>3, <2>4 DEF DevInv, Dev!TypeOK
<1>6. QED
  BY <1>4, <1>5

\* Every step of the client and of the browser keeps it.
LEMMA DevKeeps ==
    ASSUME DevInv, Dev!Next
    PROVE DevInv'
<1>0. /\ sentCalls \in Nat /\ outcome \in Seq(Outcomes) /\ Len(outcome) = sentCalls
      /\ answers \in Seq(Nat) /\ wire \in Seq(0..sentCalls) /\ sentCalls <= MaxCalls
      /\ waiting \in 0..sentCalls /\ taken \subseteq 1..sentCalls /\ Dev!Stored \subseteq taken
      /\ torn \in BOOLEAN /\ unanswered \subseteq 1..sentCalls /\ Len(answers) <= KeptAnswers
  BY DevtoolsAssumption DEF DevInv, Dev!TypeOK
<1>1. CASE Dev!Call
  <2>1. /\ waiting = Dev!NoCall /\ sentCalls < MaxCalls /\ sentCalls' = sentCalls + 1
        /\ unanswered' = unanswered \cup {sentCalls + 1} /\ waiting' = sentCalls + 1
        /\ outcome' = Append(outcome, "none") /\ UNCHANGED <<wire, answers, taken, torn, events>>
    BY <1>1 DEF Dev!Call
  <2>2. /\ sentCalls' \in 0..MaxCalls /\ waiting' \in 0..sentCalls' /\ unanswered' \subseteq 1..sentCalls'
        /\ taken' \subseteq 1..sentCalls' /\ wire' \in Seq(0..sentCalls')
    BY <1>0, <2>1, DevtoolsAssumption
  <2>3. /\ outcome' \in Seq(Outcomes) /\ Len(outcome') = sentCalls'
        /\ outcome'[sentCalls'] = "none" /\ \A i \in 1..sentCalls : outcome'[i] = outcome[i]
    <3>1. "none" \in Outcomes
      BY DEF Outcomes
    <3>2. QED
      BY <1>0, <2>1, <3>1
  <2>4. Dev!Stored' = Dev!Stored
    BY <2>1 DEF Dev!Stored
  <2>5. Dev!AnswersAreOwn'
    BY <1>0, <2>1, <2>3 DEF DevInv, Dev!AnswersAreOwn
  <2>6. QED
    BY <1>0, <2>1, <2>2, <2>3, <2>4, <2>5 DEF DevInv, Dev!TypeOK
<1>2. CASE Dev!Happen
  <2>1. wire' = Append(wire, Dev!Event) /\ UNCHANGED <<sentCalls, unanswered, answers, waiting, outcome, taken, torn>>
    BY <1>2 DEF Dev!Happen
  <2>2. wire' \in Seq(0..sentCalls)
    BY <1>0, <2>1 DEF Dev!Event
  <2>3. QED
    BY <2>1, <2>2 DEF DevInv, Dev!TypeOK, Dev!AnswersAreOwn, Dev!Stored
<1>3. ASSUME NEW i \in 1..MaxCalls, Dev!Answer(i)
      PROVE DevInv'
  <2>1. i \in unanswered /\ unanswered' = unanswered \ {i} /\ wire' = Append(wire, i)
        /\ UNCHANGED <<sentCalls, answers, waiting, outcome, taken, torn, events>>
    BY <1>3 DEF Dev!Answer
  <2>2. wire' \in Seq(0..sentCalls)
    BY <1>0, <2>1
  <2>3. QED
    BY <2>1, <2>2 DEF DevInv, Dev!TypeOK, Dev!AnswersAreOwn, Dev!Stored
<1>4. CASE Dev!Found
  <2>1. waiting # Dev!NoCall /\ outcome' = [outcome EXCEPT ![waiting] = "answer"] /\ waiting' = Dev!NoCall
        /\ UNCHANGED <<sentCalls, unanswered, wire, taken, torn, events>>
    BY <1>4 DEF Dev!Found, Dev!Ended
  <2>2. PICK n \in 1..Len(answers) :
            /\ answers[n] = waiting
            /\ answers' = SubSeq(answers, 1, n - 1) \o SubSeq(answers, n + 1, Len(answers))
    BY <1>4 DEF Dev!Found
  <2> DEFINE b == SubSeq(answers, 1, n - 1)
             e == SubSeq(answers, n + 1, Len(answers))
  <2>3. b \in Seq(Nat) /\ Len(b) = n - 1 /\ \A i \in 1..Len(b) : b[i] = answers[i]
    BY <1>0, SubSeqProperties
  <2>4. e \in Seq(Nat) /\ Len(e) = Len(answers) - n /\ \A i \in 1..Len(e) : e[i] = answers[n + i]
    BY <1>0, SubSeqProperties
  <2> HIDE DEF b, e
  <2>5. answers' = b \o e
    BY <2>2 DEF b, e
  <2>6. answers' \in Seq(Nat) /\ Len(answers') = Len(answers) - 1
        /\ \A i \in 1..Len(answers') : answers'[i] = IF i < n THEN b[i] ELSE e[i - (n - 1)]
    <3>1. n \in Nat /\ Len(answers) \in Nat /\ Len(b) \in Nat /\ Len(e) \in Nat /\ Len(b) + Len(e) = Len(answers) - 1
      BY <1>0, <2>2, <2>3, <2>4
    <3>2. /\ b \o e \in Seq(Nat) /\ Len(b \o e) = Len(b) + Len(e)
          /\ \A i \in 1..(Len(b) + Len(e)) : (b \o e)[i] = IF i <= Len(b) THEN b[i] ELSE e[i - Len(b)]
      BY <2>3, <2>4, ConcatProperties
    <3>3. \A i \in 1..(Len(b) + Len(e)) : (i <= Len(b) <=> i < n) /\ i - Len(b) = i - (n - 1)
      BY <2>3, <3>1
    <3>4. QED
      BY <2>5, <3>1, <3>2, <3>3
  <2>7. Dev!Stored' \subseteq Dev!Stored
    <3>1. \A i \in 1..Len(answers') : answers'[i] \in Dev!Stored
      <4>1. ASSUME NEW i \in 1..Len(answers') PROVE answers'[i] \in Dev!Stored
        <5>0. n \in Nat /\ i \in Nat /\ Len(answers) \in Nat /\ i < Len(answers) /\ i >= 1
          BY <1>0, <2>6
        <5>1. CASE i < n
          <6>1. answers'[i] = answers[i] /\ i \in 1..Len(answers)
            BY <2>3, <2>6, <5>0, <5>1
          <6>2. QED
            BY <6>1 DEF Dev!Stored
        <5>2. CASE i >= n
          <6>1. i - (n - 1) \in 1..Len(e) /\ i + 1 \in 1..Len(answers) /\ n + (i - (n - 1)) = i + 1
            BY <2>4, <5>0, <5>2
          <6>2. answers'[i] = answers[i + 1]
            BY <2>4, <2>6, <5>0, <5>2, <6>1
          <6>3. QED
            BY <6>1, <6>2 DEF Dev!Stored
        <5>3. QED
          BY <5>0, <5>1, <5>2
      <4>2. QED
        BY <4>1
    <3>2. QED
      BY <3>1 DEF Dev!Stored
  <2>8. waiting \in 1..sentCalls /\ waiting \in taken
    BY <1>0, <2>1, <2>2 DEF Dev!NoCall, Dev!Stored
  <2>9. /\ outcome' \in Seq(Outcomes) /\ Len(outcome') = sentCalls
        /\ \A i \in 1..sentCalls : outcome'[i] = IF i = waiting THEN "answer" ELSE outcome[i]
    <3>1. "answer" \in Outcomes
      BY DEF Outcomes
    <3>2. QED
      BY <1>0, <2>1, <2>8, <3>1
  <2>10. Dev!AnswersAreOwn'
    BY <2>1, <2>8, <2>9 DEF DevInv, Dev!AnswersAreOwn
  <2>11. Dev!TypeOK'
    <3>1. /\ sentCalls' \in 0..MaxCalls /\ waiting' \in 0..sentCalls' /\ unanswered' \subseteq 1..sentCalls'
          /\ taken' \subseteq 1..sentCalls' /\ torn' = torn /\ Len(answers') <= KeptAnswers
      BY <1>0, <2>1, <2>6, DevtoolsAssumption DEF Dev!NoCall
    <3>2. Dev!Stored' \subseteq 1..sentCalls'
      BY <1>0, <2>1, <2>7
    <3>3. QED
      BY <1>0, <3>1, <3>2 DEF Dev!TypeOK
  <2>12. QED
    BY <1>0, <2>1, <2>6, <2>7, <2>9, <2>10, <2>11 DEF DevInv
<1>5. CASE Dev!Receive
  BY <1>5, FrameKeeps DEF Dev!Receive
<1>6. CASE Dev!GiveUp
  <2>1. waiting # Dev!NoCall /\ outcome' = [outcome EXCEPT ![waiting] = "silence"] /\ waiting' = Dev!NoCall
        /\ UNCHANGED <<sentCalls, unanswered, wire, answers, taken, torn, events>>
    BY <1>6 DEF Dev!GiveUp, Dev!Ended
  <2>2. waiting \in 1..sentCalls
    <3>1. waiting # 0
      BY <2>1 DEF Dev!NoCall
    <3>2. QED
      BY <1>0, <3>1
  <2>3. /\ outcome' \in Seq(Outcomes) /\ Len(outcome') = sentCalls
        /\ \A i \in 1..sentCalls : outcome'[i] = IF i = waiting THEN "silence" ELSE outcome[i]
    <3>1. "silence" \in Outcomes
      BY DEF Outcomes
    <3>2. QED
      BY <1>0, <2>1, <2>2, <3>1
  <2>4. Dev!Stored' = Dev!Stored
    BY <2>1 DEF Dev!Stored
  <2>5. Dev!AnswersAreOwn'
    BY <2>1, <2>3 DEF DevInv, Dev!AnswersAreOwn
  <2>6. waiting' \in 0..sentCalls'
    BY <1>0, <2>1 DEF Dev!NoCall
  <2>7. QED
    BY <2>1, <2>3, <2>4, <2>5, <2>6 DEF DevInv, Dev!TypeOK
<1>7. CASE Dev!Drain
  BY <1>7, FrameKeeps DEF Dev!Drain
<1>8. CASE Dev!DrainTorn
  BY <1>8 DEF Dev!DrainTorn, DevInv, Dev!TypeOK, Dev!AnswersAreOwn, Dev!Stored
<1>9. QED
  BY <1>1, <1>2, <1>3, <1>4, <1>5, <1>6, <1>7, <1>8 DEF Dev!Next

\* What it says of the answers.
LEMMA DevTruth == DevInv => Dev!TypeOK /\ Dev!AnswersAreOwn
BY DEF DevInv

-----------------------------------------------------------------------------
(* The log of a job.                                                       *)

\* What the file has: every chunk once, and nothing before there is a log.
LogFile ==
    /\ whole \in BOOLEAN /\ exists \in BOOLEAN /\ ended \in BOOLEAN /\ over \in BOOLEAN
    /\ printed \in 0..MaxChunks /\ tasks \subseteq 1..printed
    /\ file \in Seq(Log!Chunk)
    /\ \A n \in 1..Len(file) : file[n] <= printed
    /\ \A n, k \in 1..Len(file) : file[n] = file[k] => n = k
    /\ ~exists => file = <<>> /\ printed = 0
    /\ whole /\ ~ended => \A n \in 1..Len(file) : file[n] = 0

\* What a connection holds: chunks that were published, each once.
LogQueue ==
    /\ conn \in [at : {"off", "read", "open", "check"}, offset : Nat, queue : Seq(Log!Chunk),
                 count : 0..MaxConnects, sent : Nat, late : BOOLEAN]
    /\ \A n \in 1..Len(conn.queue) : conn.queue[n] \in 1..printed /\ conn.queue[n] \notin tasks
    /\ \A n, k \in 1..Len(conn.queue) : conn.queue[n] = conn.queue[k] => n = k
    /\ conn.at \in {"off", "read"} => conn.queue = <<>>

\* What a page shows whose connection is up: the file as it was, then messages,
\* each once; and the file alone, if it came after the end.
LogHeard ==
    /\ conn.offset <= Len(file) /\ conn.offset <= Len(logs)
    /\ \A n \in 1..conn.offset : logs[n] = file[n]
    /\ \A n \in (conn.offset + 1)..Len(logs) :
          /\ logs[n] \in 1..printed /\ logs[n] \notin tasks
          /\ \A k \in 1..Len(conn.queue) : conn.queue[k] # logs[n]
    /\ \A n, k \in (conn.offset + 1)..Len(logs) : logs[n] = logs[k] => n = k
    /\ conn.late => /\ ended /\ tasks = {} /\ conn.queue = <<>>
                    /\ Len(logs) = conn.offset /\ Len(file) = conn.offset

\* No chunk is there for a third time.
LogTwice ==
    \A i, j, k \in 1..Len(logs) :
        i # j /\ j # k /\ i # k /\ logs[i] = logs[j] => logs[k] # logs[i]

LogPage ==
    /\ logs \in Seq(Log!Chunk)
    /\ ~exists => logs = <<>>
    /\ LogTwice

\* What a page was told, it was told at the end of a connection.
LogTold ==
    /\ shownLog \in [status : BOOLEAN, size : Nat, all : BOOLEAN]
    /\ shownLog.status => conn.at = "off" /\ shownLog.size <= Len(file)
    /\ Log!LogIsShown

LogInv ==
    /\ LogFile /\ LogQueue /\ LogPage /\ LogTold
    /\ conn.at # "off" => LogHeard

\* Nothing is printed at first.
LEMMA LogBegins == Log!Init => LogInv
<1> SUFFICES ASSUME Log!Init PROVE LogInv
  OBVIOUS
<1> USE LogAssumption
<1>1. file = <<>> /\ logs = <<>> /\ Len(file) = 0 /\ Len(logs) = 0 /\ <<>> \in Seq(Log!Chunk)
  BY DEF Log!Init
<1>2. LogFile
  <2>1. FALSE \in BOOLEAN
    BY Zenon
  <2>2. whole \in BOOLEAN /\ exists \in BOOLEAN /\ ended \in BOOLEAN /\ over \in BOOLEAN
    BY <2>1, Zenon DEF Log!Init
  <2>3. printed = 0 /\ tasks = {} /\ 0 \in 0..MaxChunks
    BY DEF Log!Init
  <2>4. QED
    BY <1>1, <2>2, <2>3 DEF LogFile
<1>3. /\ conn.at = "off" /\ conn.queue = <<>> /\ Len(conn.queue) = 0
      /\ conn \in [at : {"off", "read", "open", "check"}, offset : Nat, queue : Seq(Log!Chunk),
                   count : 0..MaxConnects, sent : Nat, late : BOOLEAN]
  BY <1>1 DEF Log!Init
<1>4. LogQueue
  BY <1>3 DEF LogQueue
<1>5. LogPage
  BY <1>1 DEF LogPage, LogTwice
<1>6. LogTold
  BY DEF Log!Init, LogTold, Log!LogIsShown, Log!NotTold
<1>7. QED
  BY <1>2, <1>3, <1>4, <1>5, <1>6 DEF LogInv

\* What a runner prints does not disturb what a page has.
LEMMA LogGrows ==
    ASSUME LogInv, LogFile', Len(file) <= Len(file'), \A n \in 1..Len(file) : file'[n] = file[n],
           printed <= printed', \A c \in tasks' : c \in tasks \/ c > printed,
           exists => exists', ended /\ tasks = {} => ended' /\ tasks' = {} /\ file' = file,
           UNCHANGED <<conn, logs, shownLog>>
    PROVE LogInv'
<1>1. /\ printed \in Nat /\ printed' \in Nat /\ Len(file) \in Nat /\ Len(file') \in Nat
      /\ exists \in BOOLEAN /\ exists' \in BOOLEAN
      /\ conn' = conn /\ logs' = logs /\ shownLog' = shownLog
  BY LogAssumption DEF LogInv, LogFile
<1>2. \A c : c \in 1..printed /\ c \notin tasks => c \in 1..printed' /\ c \notin tasks'
  BY <1>1
<1>3. LogQueue'
  <2>1. \A n \in 1..Len(conn.queue) : conn.queue[n] \in 1..printed' /\ conn.queue[n] \notin tasks'
    BY <1>2 DEF LogInv, LogQueue
  <2>2. QED
    BY <1>1, <2>1 DEF LogInv, LogQueue
<1>4. LogPage'
  <2>1. LogTwice'
    BY <1>1 DEF LogInv, LogPage, LogTwice
  <2>2. QED
    BY <1>1, <2>1 DEF LogInv, LogPage
<1>5. LogTold'
  <2>1. shownLog.status => shownLog.size \in Nat /\ shownLog.size <= Len(file)
    BY DEF LogInv, LogTold
  <2>2. shownLog.status => shownLog.size <= Len(file')
    BY <1>1, <2>1
  <2>3. Log!LogIsShown'
    <3>1. ASSUME shownLog.status
          PROVE /\ \A n \in 1..shownLog.size : file'[n] = file[n]
                /\ shownLog.all => logs = SubSeq(file', 1, shownLog.size)
      <4>1. \A n \in 1..shownLog.size : file'[n] = file[n]
        BY <1>1, <2>1, <3>1
      <4>2. ASSUME shownLog.all PROVE SubSeq(file', 1, shownLog.size) = SubSeq(file, 1, shownLog.size)
        <5>1. file \in Seq(Log!Chunk) /\ file' \in Seq(Log!Chunk)
          BY DEF LogInv, LogFile, Log!Chunk
        <5>2. \A n \in 1..shownLog.size : n \in 1..Len(file) /\ n \in 1..Len(file')
          BY <1>1, <2>1, <2>2, <3>1
        <5>3. Len(SubSeq(file, 1, shownLog.size)) = shownLog.size /\ Len(SubSeq(file', 1, shownLog.size)) = shownLog.size
          BY <2>1, <3>1, <5>1, <5>2
        <5>4. \A n \in 1..shownLog.size : SubSeq(file, 1, shownLog.size)[n] = file[n] /\ SubSeq(file', 1, shownLog.size)[n] = file'[n]
          BY <2>1, <3>1, <5>1, <5>2
        <5>5. SubSeq(file, 1, shownLog.size) \in Seq(Log!Chunk) /\ SubSeq(file', 1, shownLog.size) \in Seq(Log!Chunk)
          BY <2>1, <3>1, <5>1, <5>2
        <5>6. QED
          BY <4>1, <5>3, <5>4, <5>5, SeqEqual
      <4>3. QED
        BY <3>1, <4>1, <4>2 DEF LogInv, LogTold, Log!LogIsShown
    <3>2. QED
      BY <1>1, <3>1 DEF LogInv, LogTold, Log!LogIsShown
  <2>4. QED
    BY <1>1, <2>2, <2>3 DEF LogInv, LogTold
<1>6. ASSUME conn.at # "off" PROVE LogHeard'
  <2>1. LogHeard
    BY <1>6 DEF LogInv
  <2>2. /\ conn.offset <= Len(file') /\ \A n \in 1..conn.offset : logs[n] = file'[n]
    <3>1. conn.offset \in Nat
      BY DEF LogInv, LogQueue
    <3>2. QED
      BY <1>1, <2>1, <3>1 DEF LogHeard
  <2>3. \A n \in (conn.offset + 1)..Len(logs) : logs[n] \in 1..printed' /\ logs[n] \notin tasks'
    BY <1>2, <2>1 DEF LogHeard
  <2>4. QED
    BY <1>1, <2>1, <2>2, <2>3 DEF LogHeard
<1>7. QED
  BY <1>1, <1>3, <1>4, <1>5, <1>6 DEF LogInv

\* A page with a connection has no chunk for a third time,
LEMMA LogAtMostTwiceNext ==
    ASSUME LogFile', LogHeard', conn'.offset \in Nat, logs' \in Seq(Log!Chunk)
    PROVE LogTwice'
<1>1. Len(logs') \in Nat /\ Len(file') \in Nat
  BY DEF LogFile
<1>2. \A n, k \in 1..conn'.offset : logs'[n] = logs'[k] => n = k
  BY <1>1 DEF LogFile, LogHeard
<1>3. \A n \in 1..Len(logs') : n \in 1..conn'.offset \/ n \in (conn'.offset + 1)..Len(logs')
  BY <1>1
<1>4. QED
  BY <1>2, <1>3 DEF LogTwice, LogHeard

\* ... also when it gets the rest of the file.
LEMMA LogRest ==
    ASSUME LogFile, LogHeard, conn.offset \in Nat, logs \in Seq(Log!Chunk)
    PROVE /\ Len(logs \o Log!Rest) = Len(logs) + Len(file) - conn.offset
          /\ logs \o Log!Rest \in Seq(Log!Chunk)
          /\ \A n \in 1..Len(logs) : (logs \o Log!Rest)[n] = logs[n]
          /\ \A n \in (Len(logs) + 1)..(Len(logs) + Len(file) - conn.offset) :
                (logs \o Log!Rest)[n] = file[conn.offset + n - Len(logs)]
          /\ \A i, j, k \in 1..Len(logs \o Log!Rest) :
                i # j /\ j # k /\ i # k /\ (logs \o Log!Rest)[i] = (logs \o Log!Rest)[j]
                    => (logs \o Log!Rest)[k] # (logs \o Log!Rest)[i]
<1> DEFINE o == conn.offset
           l == Len(logs)
           r == Log!Rest
           s == logs \o r
           f == file
<1>1. l \in Nat /\ Len(f) \in Nat /\ o \in Nat /\ o <= Len(f) /\ o <= l /\ f \in Seq(Log!Chunk)
  BY DEF LogFile, LogHeard
<1>2. r \in Seq(Log!Chunk) /\ Len(r) = Len(f) - o /\ \A n \in 1..(Len(f) - o) : r[n] = f[o + n]
  <2> HIDE DEF o, f
  <2>1. \A n \in (o + 1)..Len(f) : f[n] \in Log!Chunk
    BY <1>1
  <2>2. r = SubSeq(f, o + 1, Len(f))
    BY DEF Log!Rest, o, f
  <2> HIDE DEF r
  <2>3. r \in Seq(Log!Chunk) /\ Len(r) = (IF o + 1 <= Len(f) THEN Len(f) - (o + 1) + 1 ELSE 0)
        /\ \A n \in 1..(Len(f) - (o + 1) + 1) : r[n] = f[(o + 1) + n - 1]
    BY <1>1, <2>1, <2>2, SubSeqProperties
  <2>4. (IF o + 1 <= Len(f) THEN Len(f) - (o + 1) + 1 ELSE 0) = Len(f) - o
    BY <1>1
  <2>5. ASSUME NEW n \in 1..(Len(f) - o) PROVE r[n] = f[o + n]
    <3>1. n \in 1..(Len(f) - (o + 1) + 1) /\ (o + 1) + n - 1 = o + n
      BY <1>1
    <3>2. QED
      BY <2>3, <3>1
  <2>6. QED
    BY <2>3, <2>4, <2>5
<1> HIDE DEF r, o, f
<1>3. s \in Seq(Log!Chunk) /\ Len(s) = l + Len(f) - o
  <2>1. s \in Seq(Log!Chunk) /\ Len(s) = Len(logs) + Len(r)
    BY <1>2, ConcatProperties
  <2>2. QED
    BY <1>1, <1>2, <2>1
<1>4. \A n \in 1..l : s[n] = logs[n]
  BY <1>1, <1>2
<1>5. ASSUME NEW n \in (l + 1)..(l + Len(f) - o) PROVE s[n] = f[o + n - l]
  <2>1. n - l \in 1..(Len(f) - o) /\ s[n] = r[n - l]
    <3>1. n - l \in 1..(Len(f) - o) /\ n \in 1..(Len(logs) + Len(r)) /\ ~(n <= Len(logs))
      BY <1>1, <1>2, <1>5
    <3>2. s[n] = IF n <= Len(logs) THEN logs[n] ELSE r[n - Len(logs)]
      BY <1>2, <3>1, ConcatProperties
    <3>3. QED
      BY <3>1, <3>2
  <2>2. r[n - l] = f[o + (n - l)] /\ o + (n - l) = o + n - l
    BY <1>1, <1>2, <2>1
  <2>3. QED
    BY <2>1, <2>2
<1> HIDE DEF s, l
\* Where an entry of the file comes from, and which entry.
<1> DEFINE At(n) == IF n <= o THEN n ELSE o + n - l
           Of(n) == n <= o \/ n > l
<1>6. \A n \in 1..Len(s) : Of(n) => At(n) \in 1..Len(f) /\ s[n] = f[At(n)]
  <2>1. \A n \in 1..o : s[n] = f[n]
    BY <1>1, <1>4 DEF LogHeard, o, f, l
  <2>2. QED
    BY <1>1, <1>3, <1>5, <2>1
<1>7. \A n, k \in 1..Len(s) : Of(n) /\ Of(k) /\ s[n] = s[k] => n = k
  <2>1. \A n, k \in 1..Len(f) : f[n] = f[k] => n = k
    BY DEF LogFile, f
  <2>2. \A n, k \in 1..Len(s) : Of(n) /\ Of(k) /\ At(n) = At(k) => n = k
    BY <1>1, <1>3
  <2> HIDE DEF At, Of
  <2>3. QED
    BY <1>6, <2>1, <2>2
<1>8. \A n, k \in 1..Len(s) : ~Of(n) /\ ~Of(k) /\ s[n] = s[k] => n = k
  <2>1. \A n \in 1..Len(s) : ~Of(n) => n \in (o + 1)..l /\ s[n] = logs[n]
    <3>1. ASSUME NEW n \in 1..Len(s), ~Of(n) PROVE n \in (o + 1)..l
      BY <1>1, <1>3, <3>1
    <3>2. \A n \in (o + 1)..l : n \in 1..l
      BY <1>1
    <3>3. QED
      BY <1>4, <3>1, <3>2
  <2>2. \A n, k \in (o + 1)..l : logs[n] = logs[k] => n = k
    BY DEF LogHeard, o, l
  <2>3. QED
    BY <2>1, <2>2
<1> HIDE DEF At, Of
<1>9. \A i, j, k \in 1..Len(s) : i # j /\ j # k /\ i # k /\ s[i] = s[j] => s[k] # s[i]
  BY <1>7, <1>8
<1>10. QED
  BY <1>3, <1>4, <1>5, <1>9 DEF s, l, o, f, r

\* Every step keeps it.
LEMMA LogKeeps ==
    ASSUME LogInv, Log!Next
    PROVE LogInv'
<1>a. /\ whole \in BOOLEAN /\ exists \in BOOLEAN /\ ended \in BOOLEAN /\ over \in BOOLEAN
      /\ printed \in Nat /\ printed \in 0..MaxChunks /\ tasks \subseteq 1..printed
      /\ file \in Seq(Log!Chunk) /\ Len(file) \in Nat /\ logs \in Seq(Log!Chunk) /\ Len(logs) \in Nat
  BY LogAssumption DEF LogInv, LogFile, LogPage
<1>b. /\ \A n \in 1..Len(file) : file[n] <= printed /\ file[n] \in Nat
      /\ \A n, k \in 1..Len(file) : file[n] = file[k] => n = k
      /\ ~exists => file = <<>> /\ printed = 0
      /\ whole /\ ~ended => \A n \in 1..Len(file) : file[n] = 0
  <2>1. \A n \in 1..Len(file) : file[n] \in Log!Chunk
    BY <1>a
  <2>2. \A n \in 1..Len(file) : file[n] \in Nat
    BY <2>1 DEF Log!Chunk
  <2>3. QED
    BY <2>2 DEF LogInv, LogFile
<1>c. /\ conn \in [at : {"off", "read", "open", "check"}, offset : Nat, queue : Seq(Log!Chunk),
                   count : 0..MaxConnects, sent : Nat, late : BOOLEAN]
      /\ conn.offset \in Nat /\ conn.queue \in Seq(Log!Chunk) /\ Len(conn.queue) \in Nat
  BY DEF LogInv, LogQueue
<1>1. CASE Log!Start
  <2>1. /\ ~exists /\ ~ended /\ exists' = TRUE /\ file' = <<0>>
        /\ UNCHANGED <<whole, printed, tasks, ended, over, conn, logs, shownLog>>
    BY <1>1 DEF Log!Start
  <2>2. file = <<>> /\ Len(file) = 0 /\ printed = 0 /\ Len(file') = 1 /\ file'[1] = 0
        /\ file' \in Seq(Log!Chunk)
    BY <1>b, <2>1, LogAssumption DEF Log!Chunk
  <2>3. LogFile'
    BY <1>a, <2>1, <2>2 DEF LogFile
  <2>4. QED
    BY <1>a, <2>1, <2>2, <2>3, LogGrows
<1>2. CASE Log!Output
  <2>1. /\ exists /\ ~ended /\ printed < MaxChunks /\ printed' = printed + 1
        /\ file' = (IF whole THEN file ELSE Append(file, printed + 1))
        /\ tasks' = tasks \cup {printed + 1}
        /\ UNCHANGED <<whole, exists, ended, over, conn, logs, shownLog>>
    BY <1>2 DEF Log!Output
  <2>2. printed' \in 0..MaxChunks /\ tasks' \subseteq 1..printed'
    <3>1. printed' \in 0..MaxChunks /\ \A c \in 1..printed : c \in 1..printed'
      BY <1>a, <2>1, LogAssumption
    <3>2. printed + 1 \in 1..printed'
      BY <1>a, <2>1
    <3>3. QED
      BY <1>a, <2>1, <3>1, <3>2
  <2>3. CASE whole
    <3>1. LogFile'
      BY <1>a, <1>b, <2>1, <2>2, <2>3 DEF LogFile
    <3>2. QED
      BY <1>a, <2>1, <2>3, <3>1, LogGrows
  <2>4. CASE ~whole
    <3>1. /\ file' \in Seq(Log!Chunk) /\ Len(file') = Len(file) + 1
          /\ \A n \in 1..Len(file) : file'[n] = file[n]
          /\ file'[Len(file) + 1] = printed + 1
      <4>1. printed + 1 \in Log!Chunk
        BY <1>a, <2>1, LogAssumption DEF Log!Chunk
      <4>2. QED
        BY <1>a, <2>1, <2>4, <4>1
    <3>2. \A n \in 1..Len(file') : file'[n] <= printed'
      BY <1>a, <1>b, <2>1, <3>1
    <3>3. \A n, k \in 1..Len(file') : file'[n] = file'[k] => n = k
      <4>1. \A n \in 1..Len(file) : file'[n] # printed + 1
        BY <1>a, <1>b, <3>1
      <4>2. \A n \in 1..Len(file') : n \in 1..Len(file) \/ n = Len(file) + 1
        BY <1>a, <3>1
      <4>3. QED
        BY <1>b, <3>1, <4>1, <4>2
    <3>4. LogFile'
      BY <1>a, <2>1, <2>2, <2>4, <3>1, <3>2, <3>3 DEF LogFile
    <3>5. QED
      BY <1>a, <2>1, <3>1, <3>4, LogGrows
  <2>5. QED
    BY <2>3, <2>4
<1>3. CASE Log!Finish
  <2>1. /\ ~ended /\ exists /\ file' = (IF whole THEN file \o Log!Numbers(printed) ELSE file)
        /\ ended' = TRUE /\ over' = TRUE
        /\ UNCHANGED <<whole, exists, printed, tasks, conn, logs, shownLog>>
    BY <1>3 DEF Log!Finish
  <2>2. CASE ~whole
    <3>1. LogFile'
      BY <1>a, <1>b, <2>1, <2>2 DEF LogFile
    <3>2. QED
      BY <1>a, <2>1, <2>2, <3>1, LogGrows
  <2>3. CASE whole
    <3> DEFINE s == Log!Numbers(printed)
    <3>1. s \in Seq(Log!Chunk) /\ Len(s) = printed /\ \A n \in 1..printed : s[n] = n
      BY <1>a, LogAssumption DEF Log!Numbers, Log!Chunk
    <3> HIDE DEF s
    <3>2. /\ file' \in Seq(Log!Chunk) /\ Len(file') = Len(file) + printed
          /\ \A n \in 1..Len(file) : file'[n] = file[n]
          /\ \A n \in (Len(file) + 1)..(Len(file) + printed) : file'[n] = n - Len(file)
      <4>1. file' = file \o s
        BY <2>1, <2>3 DEF s
      <4>2. file' \in Seq(Log!Chunk) /\ Len(file') = Len(file) + printed
        BY <1>a, <3>1, <4>1, ConcatProperties
      <4>3. \A n \in 1..Len(file) : file'[n] = file[n]
        BY <1>a, <3>1, <4>1
      <4>4. ASSUME NEW n \in (Len(file) + 1)..(Len(file) + printed) PROVE file'[n] = n - Len(file)
        <5>1. n - Len(file) \in 1..printed /\ file'[n] = s[n - Len(file)]
          BY <1>a, <3>1, <4>1
        <5>2. QED
          BY <3>1, <5>1
      <4>5. QED
        BY <4>2, <4>3, <4>4
    <3>3. \A n \in 1..Len(file') : n \in 1..Len(file) \/ n \in (Len(file) + 1)..(Len(file) + printed)
      BY <1>a, <3>2
    <3>4. \A n \in 1..Len(file) : file'[n] = 0
      BY <1>b, <2>1, <2>3, <3>2
    <3>5. \A n \in 1..Len(file') : file'[n] <= printed
      BY <1>a, <3>2, <3>3, <3>4
    <3>6. \A n, k \in 1..Len(file') : file'[n] = file'[k] => n = k
      <4>1. \A n \in (Len(file) + 1)..(Len(file) + printed) : file'[n] # 0
        BY <1>a, <3>2
      <4>2. \A n, k \in (Len(file) + 1)..(Len(file) + printed) : file'[n] = file'[k] => n = k
        BY <1>a, <3>2
      <4>3. \A n, k \in 1..Len(file) : file'[n] = file'[k] => n = k
        BY <1>b, <3>2
      <4>4. QED
        BY <3>3, <3>4, <4>1, <4>2, <4>3
    <3>7. LogFile'
      BY <1>a, <2>1, <3>2, <3>5, <3>6 DEF LogFile
    <3>8. QED
      BY <1>a, <2>1, <3>2, <3>7, LogGrows
  <2>4. QED
    BY <2>2, <2>3
<1>4. CASE Log!Die
  <2>1. /\ ended' = TRUE /\ tasks' = {}
        /\ UNCHANGED <<whole, exists, file, printed, over, conn, logs, shownLog>>
    BY <1>4 DEF Log!Die
  <2>2. LogFile'
    BY <1>a, <1>b, <2>1 DEF LogFile
  <2>3. QED
    BY <1>a, <2>1, <2>2, LogGrows
<1>5. CASE Log!Lapse
  <2>1. /\ over' = ~over
        /\ UNCHANGED <<whole, exists, file, printed, tasks, ended, conn, logs, shownLog>>
    BY <1>5 DEF Log!Lapse
  <2>2. LogFile'
    BY <1>a, <1>b, <2>1 DEF LogFile
  <2>3. QED
    BY <1>a, <2>1, <2>2, LogGrows
<1>6. ASSUME NEW chunk \in Log!Chunk, Log!Drop(chunk)
      PROVE LogInv'
  <2>1. /\ tasks' = tasks \ {chunk}
        /\ UNCHANGED <<whole, exists, file, printed, ended, over, conn, logs, shownLog>>
    BY <1>6 DEF Log!Drop
  <2>2. tasks' \subseteq tasks /\ (tasks = {} => tasks' = {})
    BY <2>1
  <2>3. LogFile'
    <3>1. tasks' \subseteq 1..printed
      BY <1>a, <2>2
    <3>2. QED
      BY <2>1, <3>1 DEF LogInv, LogFile
  <2>4. UNCHANGED <<exists, file, printed, ended, conn, logs, shownLog>>
    BY <2>1
  <2>5. QED
    BY <1>a, <2>2, <2>3, <2>4, LogGrows
<1>7. ASSUME NEW chunk \in Log!Chunk, Log!Publish(chunk)
      PROVE LogInv'
  <2>1. /\ chunk \in tasks /\ tasks' = tasks \ {chunk}
        /\ UNCHANGED <<whole, exists, file, printed, ended, over, logs, shownLog>>
    BY <1>7 DEF Log!Publish
  <2>2. CASE conn.at \notin {"open", "check"}
    <3>1. Log!Drop(chunk)
      BY <1>7, <2>2 DEF Log!Publish, Log!Drop
    <3>2. QED
      BY <1>6, <3>1
  <2>3. CASE conn.at \in {"open", "check"}
    <3>1. conn' = [conn EXCEPT !.queue = Append(@, chunk)]
      BY <1>7, <2>3 DEF Log!Publish
    <3> DEFINE q == conn.queue
    <3>2. /\ conn'.queue = Append(q, chunk) /\ conn'.at = conn.at /\ conn'.offset = conn.offset /\ conn'.late = conn.late
          /\ conn' \in [at : {"off", "read", "open", "check"}, offset : Nat, queue : Seq(Log!Chunk),
                        count : 0..MaxConnects, sent : Nat, late : BOOLEAN]
      <4>1. Append(q, chunk) \in Seq(Log!Chunk)
        BY <1>c, <1>7
      <4> DEFINE p == Append(q, chunk)
      <4>2. conn' = [conn EXCEPT !.queue = p] /\ p \in Seq(Log!Chunk)
        BY <3>1, <4>1
      <4> HIDE DEF p
      <4>3. conn'.queue = p
        BY <1>c, <4>2
      <4>4. QED
        BY <1>c, <4>2, <4>3 DEF p
    <3>3. /\ Len(conn'.queue) = Len(q) + 1 /\ conn'.queue[Len(q) + 1] = chunk
          /\ \A n \in 1..Len(q) : conn'.queue[n] = q[n]
      BY <1>c, <3>2
    <3>4. \A n \in 1..Len(conn'.queue) : n \in 1..Len(q) \/ n = Len(q) + 1
      BY <1>c, <3>3
    <3>5. LogFile' /\ LogPage'
      <4>1. LogFile'
        BY <1>a, <1>b, <2>1 DEF LogFile
      <4>2. QED
        BY <2>1, <4>1 DEF LogInv, LogPage, LogTwice
    <3>6. LogQueue'
      <4>1. \A n \in 1..Len(q) : q[n] \in 1..printed /\ q[n] \notin tasks
        BY DEF LogInv, LogQueue
      <4>2. \A n, k \in 1..Len(q) : q[n] = q[k] => n = k
        BY DEF LogInv, LogQueue
      <4> HIDE DEF q
      <4>3. \A n \in 1..Len(conn'.queue) : conn'.queue[n] \in 1..printed /\ conn'.queue[n] \notin tasks'
        BY <1>a, <2>1, <3>3, <3>4, <4>1
      <4>4. \A n, k \in 1..Len(conn'.queue) : conn'.queue[n] = conn'.queue[k] => n = k
        BY <2>1, <3>3, <3>4, <4>1, <4>2
      <4>5. QED
        BY <2>1, <2>3, <3>2, <4>3, <4>4 DEF LogQueue
    <3>7. LogHeard'
      <4>1. LogHeard
        BY <2>3 DEF LogInv
      <4>2. \A n \in (conn.offset + 1)..Len(logs) : \A k \in 1..Len(conn'.queue) : conn'.queue[k] # logs[n]
        BY <2>1, <3>3, <3>4, <4>1 DEF LogHeard
      <4>3. ~conn.late
        BY <2>1, <4>1 DEF LogHeard
      <4>4. conn'.offset = conn.offset /\ ~conn'.late
        BY <3>2, <4>3
      <4>5. QED
        BY <2>1, <4>1, <4>2, <4>4 DEF LogHeard
    <3>8. LogTold'
      BY <2>1, <2>3 DEF LogInv, LogTold, Log!LogIsShown
    <3>9. QED
      BY <3>5, <3>6, <3>7, <3>8 DEF LogInv
  <2>4. QED
    BY <2>2, <2>3
<1>8. CASE Log!Connect
  <2>1. /\ conn.at = "off" /\ conn.count < MaxConnects
        /\ conn' = [at |-> "read", offset |-> Len(file), queue |-> <<>>,
                    count |-> conn.count + 1, sent |-> Len(file), late |-> ended /\ tasks = {}]
        /\ logs' = (IF exists THEN file ELSE logs) /\ shownLog' = Log!NotTold
        /\ UNCHANGED <<whole, exists, file, printed, tasks, ended, over>>
    BY <1>8 DEF Log!Connect
  <2>2. logs' = file
    BY <1>b, <2>1 DEF LogInv, LogPage
  <2>3. /\ conn'.at = "read" /\ conn'.offset = Len(file) /\ conn'.queue = <<>> /\ Len(conn'.queue) = 0
        /\ conn'.late => ended /\ tasks = {}
    BY <2>1
  <2>4. conn' \in [at : {"off", "read", "open", "check"}, offset : Nat, queue : Seq(Log!Chunk),
                   count : 0..MaxConnects, sent : Nat, late : BOOLEAN]
    <3>1. conn.count + 1 \in 0..MaxConnects /\ <<>> \in Seq(Log!Chunk)
      BY <1>c, <2>1, LogAssumption
    <3>2. (ended /\ tasks = {}) \in BOOLEAN
      BY Zenon
    <3> DEFINE atEnd == ended /\ tasks = {}
    <3>3. atEnd \in BOOLEAN
      BY <3>2
    <3> HIDE DEF atEnd
    <3>4. conn' = [at |-> "read", offset |-> Len(file), queue |-> <<>>,
                   count |-> conn.count + 1, sent |-> Len(file), late |-> atEnd]
      BY <2>1, Zenon DEF atEnd
    <3>5. QED
      BY <1>a, <3>1, <3>3, <3>4
  <2>5. LogFile'
    BY <1>a, <1>b, <2>1 DEF LogFile
  <2>6. LogQueue'
    BY <2>3, <2>4 DEF LogQueue
  <2>7. LogHeard'
    BY <1>a, <2>1, <2>2, <2>3 DEF LogHeard
  <2>8. LogPage'
    <3>1. LogTwice'
      BY <1>b, <2>2 DEF LogTwice
    <3>2. QED
      BY <1>a, <1>b, <2>1, <2>2, <3>1 DEF LogPage
  <2>9. LogTold'
    BY <2>1 DEF LogTold, Log!LogIsShown, Log!NotTold
  <2>10. QED
    BY <2>5, <2>6, <2>7, <2>8, <2>9 DEF LogInv
<1>9. CASE Log!Subscribe
  <2>1. /\ conn.at = "read" /\ conn' = [conn EXCEPT !.at = "open"]
        /\ UNCHANGED <<whole, exists, file, printed, tasks, ended, over, logs, shownLog>>
    BY <1>9 DEF Log!Subscribe
  <2>2. /\ conn'.queue = conn.queue /\ conn'.at = "open" /\ conn'.offset = conn.offset /\ conn'.late = conn.late
        /\ conn' \in [at : {"off", "read", "open", "check"}, offset : Nat, queue : Seq(Log!Chunk),
                      count : 0..MaxConnects, sent : Nat, late : BOOLEAN]
    BY <1>c, <2>1
  <2>3. LogFile' /\ LogPage'
    BY <2>1 DEF LogInv, LogFile, LogPage, LogTwice
  <2>4. LogQueue'
    BY <2>1, <2>2 DEF LogInv, LogQueue
  <2>5. LogHeard'
    BY <2>1, <2>2 DEF LogInv, LogHeard
  <2>6. LogTold'
    BY <2>1 DEF LogInv, LogTold, Log!LogIsShown
  <2>7. QED
    BY <2>3, <2>4, <2>5, <2>6 DEF LogInv
<1>10. CASE Log!Message
  <2>1. conn.at = "open" /\ UNCHANGED <<whole, exists, file, printed, tasks, ended, over, shownLog>>
    BY <1>10 DEF Log!Message
  <2>2. LogHeard /\ LogFile
    BY <2>1 DEF LogInv
  <2>3. LogFile' /\ LogTold'
    BY <2>1 DEF LogInv, LogFile, LogTold, Log!LogIsShown
  <2>4. CASE conn.queue = <<>>
    <3>1. conn' = [conn EXCEPT !.at = "check"] /\ logs' = logs
      BY <1>10, <2>4 DEF Log!Message
    <3>2. /\ conn'.queue = conn.queue /\ conn'.at = "check" /\ conn'.offset = conn.offset /\ conn'.late = conn.late
          /\ conn' \in [at : {"off", "read", "open", "check"}, offset : Nat, queue : Seq(Log!Chunk),
                        count : 0..MaxConnects, sent : Nat, late : BOOLEAN]
      BY <1>c, <3>1
    <3>3. LogPage'
      BY <2>1, <3>1 DEF LogInv, LogPage, LogTwice
    <3>4. LogQueue'
      BY <2>1, <3>2 DEF LogInv, LogQueue
    <3>5. LogHeard'
      BY <2>1, <2>2, <3>1, <3>2 DEF LogHeard
    <3>6. QED
      BY <2>3, <3>3, <3>4, <3>5 DEF LogInv
  <2>5. CASE conn.queue # <<>>
    <3>1. /\ conn' = [conn EXCEPT !.at = "check", !.queue = Tail(@), !.sent = @ + 1]
          /\ logs' = Append(logs, Head(conn.queue))
      BY <1>10, <2>5 DEF Log!Message
    <3> DEFINE q == conn.queue
               h == Head(q)
    <3>2. /\ conn'.queue = Tail(q) /\ conn'.at = "check" /\ conn'.offset = conn.offset /\ conn'.late = conn.late
          /\ conn' \in [at : {"off", "read", "open", "check"}, offset : Nat, queue : Seq(Log!Chunk),
                        count : 0..MaxConnects, sent : Nat, late : BOOLEAN]
      <4> DEFINE p == Tail(q)
                 k == conn.sent + 1
      <4>1. p \in Seq(Log!Chunk) /\ k \in Nat
        BY <1>c, <2>5
      <4>2. conn' = [conn EXCEPT !.at = "check", !.queue = p, !.sent = k]
        BY <3>1
      <4> HIDE DEF p, k
      <4>3. conn'.queue = p /\ conn'.at = "check" /\ conn'.offset = conn.offset /\ conn'.late = conn.late
        BY <1>c, <4>2
      <4>4. QED
        BY <1>c, <4>1, <4>2, <4>3 DEF p
    <3>3. /\ Len(Tail(q)) = Len(q) - 1 /\ h = q[1] /\ 1 \in 1..Len(q) /\ h \in Log!Chunk
          /\ \A n \in 1..(Len(q) - 1) : Tail(q)[n] = q[n + 1] /\ n + 1 \in 1..Len(q) /\ n + 1 # 1
      BY <1>c, <2>5
    <3>4. /\ \A n \in 1..Len(q) : q[n] \in 1..printed /\ q[n] \notin tasks
          /\ \A n, k \in 1..Len(q) : q[n] = q[k] => n = k
      BY DEF LogInv, LogQueue
    <3>5. \A n \in 1..Len(Tail(q)) : Tail(q)[n] \in 1..printed /\ Tail(q)[n] \notin tasks /\ Tail(q)[n] # h
      BY <3>3, <3>4
    <3>6. \A n, k \in 1..Len(Tail(q)) : Tail(q)[n] = Tail(q)[k] => n = k
      <4>1. ASSUME NEW n \in 1..Len(Tail(q)), NEW k \in 1..Len(Tail(q)), Tail(q)[n] = Tail(q)[k] PROVE n = k
        <5>1. n + 1 = k + 1
          BY <3>3, <3>4, <4>1
        <5>2. QED
          BY <5>1
      <4>2. QED
        BY <4>1
    <3>7. /\ logs' \in Seq(Log!Chunk) /\ Len(logs') = Len(logs) + 1 /\ logs'[Len(logs) + 1] = h
          /\ \A n \in 1..Len(logs) : logs'[n] = logs[n]
      <4> HIDE DEF h
      <4>1. logs' = Append(logs, h) /\ h \in Log!Chunk
        BY <3>1, <3>3 DEF h
      <4>2. QED
        BY <1>a, <4>1
    <3>8. \A k \in (conn.offset + 1)..Len(logs) : logs[k] # h
      BY <2>2, <3>3 DEF LogHeard
    <3> HIDE DEF q, h
    <3>9. LogQueue'
      BY <2>1, <3>2, <3>5, <3>6 DEF LogQueue
    <3>10. LogHeard'
      <4>1. \A n \in (conn.offset + 1)..Len(logs') : n \in (conn.offset + 1)..Len(logs) \/ n = Len(logs) + 1
        BY <1>a, <1>c, <3>7
      <4>2. conn.offset \in 0..Len(logs) /\ \A n \in (conn.offset + 1)..Len(logs) : n \in 1..Len(logs)
        BY <1>a, <1>c, <2>2 DEF LogHeard
      <4>3. \A n \in 1..conn.offset : logs'[n] = file[n]
        BY <1>a, <2>2, <3>7, <4>2 DEF LogHeard
      <4>4. \A n \in (conn.offset + 1)..Len(logs') : logs'[n] \in 1..printed /\ logs'[n] \notin tasks
        BY <2>2, <3>3, <3>4, <3>7, <4>1, <4>2 DEF LogHeard
      <4>5. \A n \in (conn.offset + 1)..Len(logs') : \A k \in 1..Len(Tail(q)) : Tail(q)[k] # logs'[n]
        <5>1. \A n \in (conn.offset + 1)..Len(logs), k \in 1..Len(q) : q[k] # logs[n]
          BY <2>2 DEF LogHeard, q
        <5>2. \A n \in (conn.offset + 1)..Len(logs), k \in 1..Len(Tail(q)) : Tail(q)[k] # logs[n]
          BY <3>3, <5>1
        <5>3. QED
          BY <3>5, <3>7, <4>1, <4>2, <5>2
      <4>6. \A n, k \in (conn.offset + 1)..Len(logs') : logs'[n] = logs'[k] => n = k
        <5>1. \A n, k \in (conn.offset + 1)..Len(logs) : logs[n] = logs[k] => n = k
          BY <2>2 DEF LogHeard
        <5>2. QED
          BY <3>7, <3>8, <4>1, <4>2, <5>1
      <4>7. ~conn.late
        BY <2>2, <2>5 DEF LogHeard
      <4>8. conn.offset <= Len(file) /\ conn.offset <= Len(logs')
        BY <1>a, <2>2, <3>7, <4>2 DEF LogHeard
      <4>9. QED
        BY <2>1, <3>2, <4>3, <4>4, <4>5, <4>6, <4>7, <4>8 DEF LogHeard
    <3>11. LogPage'
      <4>1. LogTwice'
        <5>1. conn'.offset \in Nat /\ logs' \in Seq(Log!Chunk)
          BY <1>c, <3>2, <3>7
        <5>2. QED
          BY <2>3, <3>10, <5>1, LogAtMostTwiceNext
      <4>2. exists
        BY <1>b, <3>3, <3>4
      <4>3. QED
        BY <2>1, <3>7, <4>1, <4>2 DEF LogPage
    <3>12. QED
      BY <2>3, <3>9, <3>10, <3>11 DEF LogInv
  <2>6. QED
    BY <2>4, <2>5
<1>11. CASE Log!Check
  <2>1. conn.at = "check" /\ UNCHANGED <<whole, exists, file, printed, tasks, ended, over>>
    BY <1>11 DEF Log!Check
  <2>2. LogHeard /\ LogFile /\ LogFile'
    BY <2>1 DEF LogInv, LogFile
  <2>3. CASE over
    <3>1. /\ logs' = logs \o Log!Rest /\ conn' = [conn EXCEPT !.at = "off", !.queue = <<>>]
          /\ shownLog' = [status |-> TRUE, size |-> Len(file), all |-> conn.late]
      BY <1>11, <2>3 DEF Log!Check
    <3>2. /\ conn'.queue = <<>> /\ conn'.at = "off" /\ Len(conn'.queue) = 0
          /\ conn' \in [at : {"off", "read", "open", "check"}, offset : Nat, queue : Seq(Log!Chunk),
                        count : 0..MaxConnects, sent : Nat, late : BOOLEAN]
      <4>1. <<>> \in Seq(Log!Chunk)
        OBVIOUS
      <4>2. QED
        BY <1>c, <3>1, <4>1
    <3>3. LogQueue'
      BY <3>2 DEF LogQueue
    <3>4. /\ Len(logs') = Len(logs) + Len(file) - conn.offset /\ logs' \in Seq(Log!Chunk)
          /\ \A n \in 1..Len(logs) : logs'[n] = logs[n]
          /\ \A n \in (Len(logs) + 1)..(Len(logs) + Len(file) - conn.offset) : logs'[n] = file[conn.offset + n - Len(logs)]
          /\ LogTwice'
      <4> DEFINE s == logs \o Log!Rest
      <4>1. /\ Len(s) = Len(logs) + Len(file) - conn.offset /\ s \in Seq(Log!Chunk)
            /\ \A n \in 1..Len(logs) : s[n] = logs[n]
            /\ \A n \in (Len(logs) + 1)..(Len(logs) + Len(file) - conn.offset) : s[n] = file[conn.offset + n - Len(logs)]
            /\ \A i, j, k \in 1..Len(s) : i # j /\ j # k /\ i # k /\ s[i] = s[j] => s[k] # s[i]
        BY <1>a, <1>c, <2>2, LogRest
      <4>2. logs' = s
        BY <3>1
      <4> HIDE DEF s
      <4>3. QED
        BY <4>1, <4>2 DEF LogTwice
    <3>5. LogPage'
      <4>1. ~exists => logs' = <<>>
        <5>1. ASSUME ~exists PROVE logs' = <<>>
          <6>1. Len(logs) = 0 /\ Len(file) = 0
            BY <1>b, <5>1 DEF LogInv, LogPage
          <6>2. Len(logs') = 0
            BY <1>c, <2>2, <3>4, <6>1 DEF LogHeard
          <6>3. QED
            BY <3>4, <6>2
        <5>2. QED
          BY <5>1
      <4>2. QED
        BY <2>1, <3>4, <4>1 DEF LogPage
    <3>6. \A n \in 1..Len(file) : \E i \in 1..Len(logs') : logs'[i] = file[n]
      <4>1. ASSUME NEW n \in 1..Len(file) PROVE \E i \in 1..Len(logs') : logs'[i] = file[n]
        <5>1. CASE n <= conn.offset
          <6>1. n \in 1..Len(logs) /\ n \in 1..Len(logs') /\ logs[n] = file[n]
            BY <1>a, <1>c, <2>2, <3>4, <5>1 DEF LogHeard
          <6>2. QED
            BY <3>4, <6>1
        <5>2. CASE n > conn.offset
          <6> DEFINE k == Len(logs) + n - conn.offset
          <6>1. k \in (Len(logs) + 1)..(Len(logs) + Len(file) - conn.offset) /\ k \in 1..Len(logs') /\ conn.offset + k - Len(logs) = n
            BY <1>a, <1>c, <3>4, <5>2
          <6>2. logs'[k] = file[conn.offset + k - Len(logs)]
            BY <3>4, <6>1
          <6>3. QED
            BY <6>1, <6>2
        <5>3. QED
          BY <1>c, <5>1, <5>2
      <4>2. QED
        BY <4>1
    <3>7. conn.late => logs' = SubSeq(file, 1, Len(file))
      <4>1. ASSUME conn.late PROVE logs' = SubSeq(file, 1, Len(file))
        <5>1. Len(logs) = conn.offset /\ Len(file) = conn.offset
          BY <2>2, <4>1 DEF LogHeard
        <5>2. Len(logs') = Len(file) /\ \A n \in 1..Len(file) : logs'[n] = file[n]
          BY <1>a, <1>c, <2>2, <3>4, <5>1 DEF LogHeard
        <5>3. SubSeq(file, 1, Len(file)) = file
          BY <1>a
        <5>4. QED
          BY <1>a, <3>4, <5>2, <5>3, SeqEqual
      <4>2. QED
        BY <4>1
    <3>8. LogTold'
      <4>1. shownLog'.status = TRUE /\ shownLog'.size = Len(file) /\ shownLog'.all = conn.late
        BY <3>1
      <4>2. shownLog' \in [status : BOOLEAN, size : Nat, all : BOOLEAN]
        <5>1. conn.late \in BOOLEAN
          BY <1>c
        <5>2. QED
          BY <1>a, <3>1, <5>1
      <4>3. DOMAIN logs' = 1..Len(logs')
        BY <3>4
      <4>4. QED
        <5>1. Log!LogIsShown'
          BY <2>1, <3>6, <3>7, <4>1, <4>3 DEF Log!LogIsShown
        <5>2. Len(file) <= Len(file)
          BY <1>a
        <5>3. QED
          BY <2>1, <3>2, <4>1, <4>2, <5>1, <5>2 DEF LogTold
    <3>9. QED
      BY <2>2, <3>2, <3>3, <3>5, <3>8 DEF LogInv
  <2>4. CASE ~over
    <3>1. conn' = [conn EXCEPT !.at = "open"] /\ UNCHANGED <<logs, shownLog>>
      BY <1>11, <2>4 DEF Log!Check
    <3>2. /\ conn'.queue = conn.queue /\ conn'.at = "open" /\ conn'.offset = conn.offset /\ conn'.late = conn.late
          /\ conn' \in [at : {"off", "read", "open", "check"}, offset : Nat, queue : Seq(Log!Chunk),
                        count : 0..MaxConnects, sent : Nat, late : BOOLEAN]
      BY <1>c, <3>1
    <3>3. LogPage'
      BY <2>1, <3>1 DEF LogInv, LogPage, LogTwice
    <3>4. LogQueue'
      BY <2>1, <3>2 DEF LogInv, LogQueue
    <3>5. LogHeard'
      BY <2>1, <2>2, <3>1, <3>2 DEF LogHeard
    <3>6. LogTold'
      BY <2>1, <3>1 DEF LogInv, LogTold, Log!LogIsShown
    <3>7. QED
      BY <2>2, <3>3, <3>4, <3>5, <3>6 DEF LogInv
  <2>5. QED
    BY <2>3, <2>4
<1>12. CASE Log!Break
  <2>1. /\ conn.at # "off" /\ conn' = [conn EXCEPT !.at = "off", !.queue = <<>>]
        /\ UNCHANGED <<whole, exists, file, printed, tasks, ended, over, logs, shownLog>>
    BY <1>12 DEF Log!Break
  <2>2. /\ conn'.queue = <<>> /\ conn'.at = "off" /\ Len(conn'.queue) = 0
        /\ conn' \in [at : {"off", "read", "open", "check"}, offset : Nat, queue : Seq(Log!Chunk),
                      count : 0..MaxConnects, sent : Nat, late : BOOLEAN]
    <3>1. <<>> \in Seq(Log!Chunk)
      OBVIOUS
    <3>2. QED
      BY <1>c, <2>1, <3>1
  <2>3. LogFile' /\ LogPage'
    BY <2>1 DEF LogInv, LogFile, LogPage, LogTwice
  <2>4. LogQueue'
    BY <2>2 DEF LogQueue
  <2>5. LogTold'
    BY <2>1, <2>2 DEF LogInv, LogTold, Log!LogIsShown
  <2>6. QED
    BY <2>2, <2>3, <2>4, <2>5 DEF LogInv
<1>13. QED
  BY <1>1, <1>2, <1>3, <1>4, <1>5, <1>6, <1>7, <1>8, <1>9, <1>10, <1>11, <1>12 DEF Log!Next

\* Of a set of which no three differ there are at most two.
LEMMA LogNoThree ==
    ASSUME NEW S, IsFiniteSet(S),
           \A i, j, k \in S : i = j \/ j = k \/ i = k
    PROVE Cardinality(S) <= 2
<1>1. CASE S = {}
  BY <1>1, FS_EmptySet
<1>2. CASE S # {}
  <2>1. PICK a \in S : TRUE
    BY <1>2
  <2>2. CASE S = {a}
    BY <2>2, FS_Singleton
  <2>3. CASE S # {a}
    <3>1. PICK b \in S : b # a
      BY <2>1, <2>3
    <3>2. S = {a} \cup {b}
      BY <3>1
    <3>3. IsFiniteSet({a}) /\ Cardinality({a}) = 1 /\ b \notin {a}
      BY <3>1, FS_Singleton
    <3>4. Cardinality({a} \cup {b}) = 2
      BY <3>3, FS_AddElement
    <3>5. QED
      BY <3>2, <3>4
  <2>4. QED
    BY <2>2, <2>3
<1>3. QED
  BY <1>1, <1>2

\* CiLog counts with the same Cardinality.
LEMMA LogCardinal == \A S : Log!Cardinality(S) = Cardinality(S)
  BY DEF Log!Cardinality, Cardinality

\* What it says of the log.
LEMMA LogTruth ==
    ASSUME LogInv
    PROVE Log!TypeOK /\ Log!LogIsShown /\ Log!NoThirdTime
<1>1. Log!LogIsShown
  BY DEF LogInv, LogTold
<1>2. Log!NoThirdTime
  <2>1. ASSUME NEW chunk \in 1..printed
        PROVE Cardinality({i \in DOMAIN logs : logs[i] = chunk}) <= 2
    <3> DEFINE S == {i \in DOMAIN logs : logs[i] = chunk}
    <3>1. DOMAIN logs = 1..Len(logs) /\ Len(logs) \in Nat
      BY DEF LogInv, LogPage
    <3>2. IsFiniteSet(S)
      <4>1. IsFiniteSet(1..Len(logs))
        BY <3>1, FS_Interval
      <4>2. S \subseteq 1..Len(logs)
        BY <3>1
      <4> HIDE DEF S
      <4>3. QED
        BY <4>1, <4>2, FS_Subset
    <3>3. \A i, j, k \in S : i = j \/ j = k \/ i = k
      BY <3>1 DEF LogInv, LogPage, LogTwice
    <3> HIDE DEF S
    <3>4. Cardinality(S) <= 2
      BY <3>2, <3>3, LogNoThree
    <3>5. QED
      BY <3>4 DEF S
  <2>2. QED
    BY <2>1, LogCardinal, Zenon DEF Log!NoThirdTime
<1>3. Log!TypeOK
  <2>1. {ended, over} \subseteq BOOLEAN
    BY DEF LogInv, LogFile
  <2>2. QED
    BY <2>1 DEF LogInv, LogFile, LogQueue, LogPage, LogTold, Log!TypeOK
<1>4. QED
  BY <1>1, <1>2, <1>3

-----------------------------------------------------------------------------
(* The components together.                                                *)

\* What holds in every state of every component, of the one that is on and of
\* those that are not; and of the last three, which begin only when they are on.
OutsideIInv ==
    /\ DlvIInv /\ SchIInv /\ DogIInv /\ SshIInv /\ HttpIInv /\ AccIInv
    /\ on = "tunnel" => TunInv
    /\ on = "devtools" => DevInv
    /\ on = "log" => LogInv

\* A step of the whole is a step or a stutter of each component.
LEMMA Apart ==
  ASSUME [OutsideNext]_allVars
  PROVE  /\ [Next]_vars /\ [Sched!Next]_(Sched!vars) /\ [Dog!Next]_(Dog!watchVars)
         /\ [Ssh!Next]_(Ssh!sshVars) /\ [Http!Next]_(Http!vars) /\ [Acc!Next]_(Acc!vars)
         /\ on' = on
         /\ on = "tunnel" => [Tube!Next]_(Tube!vars)
         /\ on = "devtools" => [Dev!Next]_(Dev!vars)
         /\ on = "log" => [Log!Next]_(Log!vars)
<1>1. UNCHANGED schedVars => UNCHANGED Sched!vars
  BY DEF schedVars, Sched!vars, Sched!row
<1>2. UNCHANGED dogVars => UNCHANGED Dog!watchVars
  BY DEF dogVars, Dog!watchVars
<1>3. UNCHANGED sshVars => UNCHANGED Ssh!sshVars
  BY DEF sshVars, Ssh!sshVars
<1>4. UNCHANGED httpVars => UNCHANGED Http!vars
  BY DEF httpVars, Http!vars, Http!listVars, Http!callVars, Http!sessionVars
<1>5. UNCHANGED accVars => UNCHANGED Acc!vars
  BY DEF accVars, Acc!vars, Acc!accountVars, Acc!taskVars, Acc!appVars, Acc!repoVars
<1>6. /\ UNCHANGED tubeVars => UNCHANGED Tube!vars
      /\ UNCHANGED devVars => UNCHANGED Dev!vars
      /\ UNCHANGED logVars => UNCHANGED Log!vars
  BY DEF tubeVars, Tube!vars, devVars, Dev!vars, logVars, Log!vars
<1>7. UNCHANGED allVars =>
        UNCHANGED vars /\ UNCHANGED schedVars /\ UNCHANGED dogVars /\ UNCHANGED sshVars
        /\ UNCHANGED httpVars /\ UNCHANGED accVars /\ UNCHANGED tubeVars
        /\ UNCHANGED devVars /\ UNCHANGED logVars /\ on' = on
  BY DEF allVars
<1>8. CASE OutsideNext
  <2>1. /\ \/ on = "webhooks" /\ Next /\ UNCHANGED <<schedVars, dogVars, sshVars, httpVars, accVars>>
           \/ on = "tasks" /\ Sched!Next /\ UNCHANGED <<vars, dogVars, sshVars, httpVars, accVars>>
           \/ on = "watches" /\ Dog!Next /\ UNCHANGED <<vars, schedVars, sshVars, httpVars, accVars>>
           \/ on = "ssh" /\ Ssh!Next /\ UNCHANGED <<vars, schedVars, dogVars, httpVars, accVars>>
           \/ on = "http" /\ Http!Next /\ UNCHANGED <<vars, schedVars, dogVars, sshVars, accVars>>
           \/ on = "accounts" /\ Acc!Next /\ UNCHANGED <<vars, schedVars, dogVars, sshVars, httpVars>>
           \/ /\ \/ on = "tunnel" /\ Tube!Next
                 \/ on = "devtools" /\ Dev!Next
                 \/ on = "log" /\ Log!Next
              /\ UNCHANGED <<vars, schedVars, dogVars, sshVars, httpVars, accVars>>
        /\ on' = on
    BY <1>8 DEF OutsideNext
  <2> QED BY <1>1, <1>2, <1>3, <1>4, <1>5, <1>6, <2>1
<1> QED BY <1>1, <1>2, <1>3, <1>4, <1>5, <1>6, <1>7, <1>8

\* A tunnel that stays as it is keeps what is true of it.
LEMMA TunStays == TunInv /\ UNCHANGED Tube!vars => TunInv'
  BY DEF Tube!vars, TunInv, TunTypes, Tube!Sides, TubePlaces, Answers, TunTold,
         Tube!Other, Tube!Eof, TunPlaces, TunHeard, HeardWell

\* So does a DevTools connection.
LEMMA DevStays == DevInv /\ UNCHANGED Dev!vars => DevInv'
  BY DEF Dev!vars, DevInv, Dev!TypeOK, Dev!Stored, Outcomes, Dev!AnswersAreOwn,
         Dev!NoCall

\* So does the log of a job.
LEMMA LogStays == LogInv /\ UNCHANGED Log!vars => LogInv'
<1> SUFFICES ASSUME LogInv, UNCHANGED Log!vars PROVE LogInv'
  OBVIOUS
<1>1. UNCHANGED <<whole, exists, file, printed, tasks, ended, over, conn, logs, shownLog>>
  BY DEF Log!vars
<1>2. LogFile'
  BY <1>1 DEF LogInv, LogFile
<1>3. LogQueue'
  BY <1>1 DEF LogInv, LogQueue
<1>4. LogPage'
  BY <1>1 DEF LogInv, LogPage, LogTwice
<1>5. LogTold'
  <2>1. Log!LogIsShown'
    BY <1>1 DEF LogInv, LogTold, Log!LogIsShown
  <2> QED BY <1>1, <2>1 DEF LogInv, LogTold
<1>6. (conn.at # "off" => LogHeard)'
  BY <1>1 DEF LogInv, LogHeard
<1> QED BY <1>2, <1>3, <1>4, <1>5, <1>6 DEF LogInv

\* The invariant holds at the start, and every step keeps it.
LEMMA OutsideAlways == OutsideSpec => []OutsideIInv
<1>1. OutsideInit => OutsideIInv
  <2>1. OutsideInit => /\ Init /\ Sched!Init /\ Dog!Init /\ Ssh!Init /\ Http!Init /\ Acc!Init
                       /\ on = "tunnel" => Tube!Init
                       /\ on = "devtools" => Dev!Init
                       /\ on = "log" => Log!Init
    BY DEF OutsideInit
  <2> QED BY <2>1, DlvInit, SchInit, DogInit, SshInit, HttpInit, AccInit, TunBegins,
             DevBegins, LogBegins
          DEF OutsideIInv
<1>2. OutsideIInv /\ [OutsideNext]_allVars => OutsideIInv'
  <2> SUFFICES ASSUME OutsideIInv, [OutsideNext]_allVars PROVE OutsideIInv'
    OBVIOUS
  <2>1. DlvIInv' /\ SchIInv' /\ DogIInv' /\ SshIInv' /\ HttpIInv' /\ AccIInv'
    BY Apart, DlvStep, SchStep, DogStep, SshStep, HttpStep, AccStep DEF OutsideIInv
  <2>2. ASSUME on = "tunnel" PROVE TunInv'
    BY <2>2, Apart, TunKeeps, TunStays DEF OutsideIInv
  <2>3. ASSUME on = "devtools" PROVE DevInv'
    BY <2>3, Apart, DevKeeps, DevStays DEF OutsideIInv
  <2>4. ASSUME on = "log" PROVE LogInv'
    BY <2>4, Apart, LogKeeps, LogStays DEF OutsideIInv
  <2> QED BY <2>1, <2>2, <2>3, <2>4, Apart DEF OutsideIInv
<1> QED BY <1>1, <1>2, PTL DEF OutsideSpec

\* Whatever fails, dies or is late, a delivery has run its turns and told its
\* subscribers once, but for what the faults of the run explain.
THEOREM EffectsCorrect == OutsideSpec => []EffectsAreTrue
<1>1. OutsideIInv => EffectsAreTrue
  BY DlvTruth DEF OutsideIInv, EffectsAreTrue
<1> QED BY <1>1, OutsideAlways, PTL

\* A delivery that was tried once, with nothing before it in other hands, does
\* not undo a suspension that came after it.
THEOREM AppliedCorrect == OutsideSpec => AppliedInTurn
<1>1. ASSUME OutsideIInv
      PROVE  \A w \in Workers, e \in Deliveries :
               (SyncInstallation(w) /\ Delivery(w) < e /\ row[e] = "settled" /\ ~error[e]
                  /\ Suspends(payload[e]))
               => Delivery(w) \in crossed \/ attempts[Delivery(w)] > 1
  BY <1>1, InTurn DEF OutsideIInv
<1>2. OutsideIInv =>
        [\A w \in Workers, e \in Deliveries :
           (SyncInstallation(w) /\ Delivery(w) < e /\ row[e] = "settled" /\ ~error[e]
              /\ Suspends(payload[e]))
           => Delivery(w) \in crossed \/ attempts[Delivery(w)] > 1]_vars
  BY <1>1
<1> QED BY <1>2, OutsideAlways, PTL DEF AppliedInTurn

\* An occurrence of a task is fired once, but for faults, and two turns of a row
\* run at a time only after one; the chat knows what a watch says, and that it is
\* off; no connection is lost, and none is closed under a call; a tunnel carries
\* all that is said, an answer goes to its own call, and the end of a log is told
\* with the log.
THEOREM ServicesCorrect == OutsideSpec => []ServicesAreTrue
<1>1. OutsideIInv => ServicesAreTrue
  <2> SUFFICES ASSUME OutsideIInv PROVE ServicesAreTrue
    OBVIOUS
  <2>1. /\ on = "tunnel" => Tube!TypeOK /\ Tube!TunnelIsWhole
        /\ on = "devtools" => Dev!TypeOK /\ Dev!AnswersAreOwn
        /\ on = "log" => Log!TypeOK /\ Log!LogIsShown /\ Log!NoThirdTime
    BY TunTruth, DevTruth, LogTruth DEF OutsideIInv
  <2> QED BY <2>1, SchTruth, DogTruth DEF OutsideIInv, SshIInv, ServicesAreTrue
<1> QED BY <1>1, OutsideAlways, PTL

\* Nobody is refused whom the app may see, a list that nothing was taken out of is
\* whole, one session is open and used; a row of an account, a task and the token
\* of an installation are those of who they belong to.
THEOREM GithubCorrect == OutsideSpec => []GithubIsTrue
<1>1. OutsideIInv => GithubIsTrue
  BY HttpTruth, AccTruth DEF OutsideIInv, GithubIsTrue
<1> QED BY <1>1, OutsideAlways, PTL
=============================================================================
