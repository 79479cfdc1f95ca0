----------------------------- MODULE TurnsProofs ----------------------------
(* What is proved of a turn on all instances (TurnRecovery): its types, and *)
(* that it is executed twice or settled twice only after it was overtaken   *)
(* in its finally block.  And of the loop an executor runs (AgentLoop):     *)
(* what a later executor loads, what the model is sent, and that outputs    *)
(* are kept.                                                                *)
EXTENDS MCTurns, SequenceTheorems, WellFoundedInduction, TLAPS

\* Rows and executors that do not exist yet, and verdicts that do.
Orderly ==
    /\ \A t \in Turns, k \in Attempts : k > attempts[t] => pc[t][k] = "none"
    /\ \A t \in Turns : status[t] = "none" =>
          /\ \A k \in Attempts : pc[t][k] = "none"
          /\ \A i \in Instances : t \notin found[i]
          /\ attempts[t] = 0
    /\ \A t \in Turns, k \in Attempts : home[t][k] # NoInstance => pc[t][k] \in Live
    /\ \A t \in Turns, k \in Attempts :
          pc[t][k] \in Leaving => ending[t][k] \in {"RUNNING"} \cup Terminal

\* A turn that was never overtaken has at most one live executor, is RUNNING
\* while it has one, beats while that one is active, and is not on the list
\* of the supervisor that could claim it in spite of the beat.
Exclusive(t) ==
    /\ \A j, k \in Attempts : pc[t][j] \in Live /\ pc[t][k] \in Live => j = k
    /\ \A k \in Attempts : pc[t][k] \in Live => status[t] = "RUNNING"
    /\ \A k \in Attempts : pc[t][k] \in Active =>
          /\ heartbeat[t] = 0
          /\ \A i \in Instances : t \in found[i] => instance[t] # i
    /\ \A k \in Attempts : pc[t][k] = "saving" => heartbeat[t] = Null
    /\ (status[t] = "RUNNING" /\ ~HasExecutor(t) /\ ~lost[t]) => heartbeat[t] = Null

IInv ==
    /\ TypeOK
    /\ Orderly
    /\ \A t \in Turns : overtaken[t] \/ BeatLoss \/ Exclusive(t)

USE RecoveryAssumption

-----------------------------------------------------------------------------
\* Every variable keeps the type TypeOK gives it.
THEOREM TypeCorrect == Spec => []TypeOK
<1> USE DEF Attempts, Terminal, Preparing, Active, Leaving, Live, Over,
            Null, rowVars, execVars
<1>1. Init => TypeOK
  BY DEF Init, TypeOK
<1>2. TypeOK /\ [Next]_vars => TypeOK'
  <2> SUFFICES ASSUME TypeOK, [Next]_vars PROVE TypeOK'
    OBVIOUS
  <2> USE DEF TypeOK
  <2>1. ASSUME NEW i \in Instances, Process(i) PROVE TypeOK'
    <3>1. CASE Start(i) BY <3>1 DEF Start, FindResumable
    <3>2. CASE Ready(i) BY <3>2 DEF Ready
    <3>3. CASE Shutdown(i) BY <3>3 DEF Shutdown
    <3>4. CASE Exit(i) BY <3>4 DEF Exit
    <3>5. CASE Crash(i)
      <4>1. lost' \in [Turns -> BOOLEAN]
        <5>1. \A t \in Turns :
                (lost[t] \/ \E k \in Attempts : home[t][k] = i) \in BOOLEAN
          OBVIOUS
        <5> QED BY <3>5, <5>1, Zenon DEF Crash
      <4>2. pc' \in [Turns -> [Attempts -> Live \cup Over]]
        BY <3>5 DEF Crash
      <4>3. crashes' \in 0..MaxCrashes
        <5>1. crashes < MaxCrashes /\ crashes' = crashes + 1
          BY <3>5 DEF Crash
        <5> QED BY <5>1
      <4>4. /\ home' \in [Turns -> [Attempts -> Instances \cup {NoInstance}]]
            /\ ending' \in [Turns -> [Attempts -> {"none", "RUNNING"} \cup Terminal]]
        BY <3>5 DEF Crash
      <4>5. /\ phase' \in [Instances -> {"down", "sweeping", "up", "draining"}]
            /\ found' \in [Instances -> SUBSET Turns]
        BY <3>5 DEF Crash
      <4>6. UNCHANGED <<rowVars, asked, overtaken>>
        BY <3>5 DEF Crash
      <4> QED BY <4>1, <4>2, <4>3, <4>4, <4>5, <4>6
    <3> QED BY <2>1, <3>1, <3>2, <3>3, <3>4, <3>5 DEF Process
  <2>2. ASSUME NEW i \in Instances, Tick(i) PROVE TypeOK'
    BY <2>2 DEF Tick, FindStaleRunning
  <2>3. ASSUME NEW i \in Instances, Reap(i) PROVE TypeOK'
    BY <2>3 DEF Reap, Overtake
  <2>4. ASSUME NEW i \in Instances, NEW t \in Turns, Create(i, t) PROVE TypeOK'
    BY <2>4 DEF Create
  <2>5. ASSUME NEW i \in Instances, NEW t \in Turns, Recover(i, t) PROVE TypeOK'
    <3>1. CASE RecoverSkip(i, t) BY <3>1 DEF RecoverSkip
    <3>2. CASE RecoverPoisoned(i, t) BY <3>2 DEF RecoverPoisoned, Overtake
    <3>3. CASE RecoverClaim(i, t)
      <4>1. attempts[t] + 1 \in Attempts BY <3>3 DEF RecoverClaim
      <4> QED BY <3>3, <4>1 DEF RecoverClaim, Overtake
    <3> QED BY <2>5, <3>1, <3>2, <3>3 DEF Recover
  <2>6. ASSUME NEW t \in Turns, Stop(t) PROVE TypeOK'
    BY <2>6 DEF Stop
  <2>7. ASSUME NEW t \in Turns, Beat(t) PROVE TypeOK'
    <3>1. Older(created[t], 3) \in 0..3
      BY DEF Older
    <3>2. created' = [created EXCEPT ![t] = Older(created[t], 3)]
      BY <2>7 DEF Beat
    <3>3. created' \in [Turns -> 0..3]
      BY <3>1, <3>2
    <3> QED BY <2>7, <3>3 DEF Beat
  <2>8. ASSUME NEW t \in Turns, Silence(t) PROVE TypeOK'
    BY <2>8 DEF Silence, Older
  <2>9. ASSUME NEW t \in Turns, NEW k \in Attempts, Executor(t, k) PROVE TypeOK'
    <3> USE DEF Leave, Sealed, Quit
    <3>1. CASE ResumeRead(t, k) BY <3>1 DEF ResumeRead
    <3>2. CASE SetupFails(t, k) BY <3>2 DEF SetupFails
    <3>3. CASE Enter(t, k) BY <3>3 DEF Enter
    <3>4. CASE WorkOk(t, k) BY <3>4 DEF WorkOk
    <3>5. CASE WorkFailed(t, k) BY <3>5 DEF WorkFailed
    <3>6. CASE WorkPaused(t, k) BY <3>6 DEF WorkPaused
    <3>7. CASE WorkCancelled(t, k) BY <3>7 DEF WorkCancelled
    <3>8. CASE Teardown(t, k) BY <3>8 DEF Teardown
    <3>9. CASE Finish(t, k) BY <3>9 DEF Finish
    <3>10. CASE FinishPaused(t, k) BY <3>10 DEF FinishPaused
    <3>11. CASE ResumeGivesUp(t, k) BY <3>11 DEF ResumeGivesUp
    <3> QED BY <2>9, <3>1, <3>2, <3>3, <3>4, <3>5, <3>6, <3>7, <3>8, <3>9, <3>10, <3>11
            DEF Executor, Work
  <2>10. CASE UNCHANGED vars BY <2>10 DEF vars
  <2> QED BY <2>1, <2>2, <2>3, <2>4, <2>5, <2>6, <2>7, <2>8, <2>9, <2>10 DEF Next
<1> QED BY <1>1, <1>2, PTL DEF Spec

-----------------------------------------------------------------------------
\* One step keeps Orderly.
LEMMA OrderlyStep == TypeOK /\ TypeOK' /\ Orderly /\ [Next]_vars => Orderly'
<1> USE DEF Attempts, Terminal, Preparing, Active, Leaving, Live, Over,
            Null, rowVars, execVars
<1> SUFFICES ASSUME TypeOK, TypeOK', Orderly, [Next]_vars PROVE Orderly'
  OBVIOUS
<1> USE DEF TypeOK, Orderly
<1>1. ASSUME NEW i \in Instances, Process(i) PROVE Orderly'
  <2>1. CASE Start(i) BY <2>1 DEF Start, FindResumable
  <2>2. CASE Ready(i) BY <2>2 DEF Ready
  <2>3. CASE Shutdown(i) BY <2>3 DEF Shutdown
  <2>4. CASE Exit(i) BY <2>4 DEF Exit
  <2>5. CASE Crash(i)
    <3>1. \A t \in Turns, k \in Attempts :
            \/ pc'[t][k] = "killed" /\ home[t][k] = i /\ home'[t][k] = NoInstance
            \/ /\ home[t][k] # i
               /\ pc'[t][k] = pc[t][k]
               /\ ending'[t][k] = ending[t][k]
               /\ home'[t][k] = home[t][k]
      BY <2>5 DEF Crash
    <3>2. \A t \in Turns, k \in Attempts : pc[t][k] = "none" => pc'[t][k] = "none"
      <4>1. \A t \in Turns, k \in Attempts : pc[t][k] = "none" => home[t][k] = NoInstance
        OBVIOUS
      <4>2. i # NoInstance
        OBVIOUS
      <4> QED BY <3>1, <4>1, <4>2
    <3>3. UNCHANGED <<status, attempts>>
      BY <2>5 DEF Crash
    <3>4. \A j \in Instances : found'[j] \subseteq found[j]
      BY <2>5 DEF Crash
    <3>5. \A t \in Turns, k \in Attempts : k > attempts'[t] => pc'[t][k] = "none"
      BY <3>2, <3>3
    <3>6. \A t \in Turns : status'[t] = "none" =>
                /\ \A k \in Attempts : pc'[t][k] = "none"
                /\ \A j \in Instances : t \notin found'[j]
                /\ attempts'[t] = 0
      BY <3>2, <3>3, <3>4
    <3>7. \A t \in Turns, k \in Attempts :
                /\ home'[t][k] # NoInstance => pc'[t][k] \in Live
                /\ pc'[t][k] \in Leaving => ending'[t][k] \in {"RUNNING"} \cup Terminal
      <4> SUFFICES ASSUME NEW t \in Turns, NEW k \in Attempts
                   PROVE /\ home'[t][k] # NoInstance => pc'[t][k] \in Live
                         /\ pc'[t][k] \in Leaving => ending'[t][k] \in {"RUNNING"} \cup Terminal
        OBVIOUS
      <4>1. CASE pc'[t][k] = "killed" /\ home'[t][k] = NoInstance
        BY <4>1
      <4>2. CASE pc'[t][k] = pc[t][k] /\ ending'[t][k] = ending[t][k] /\ home'[t][k] = home[t][k]
        <5>1. home[t][k] # NoInstance => pc[t][k] \in Live
          OBVIOUS
        <5>2. pc[t][k] \in Leaving => ending[t][k] \in {"RUNNING"} \cup Terminal
          OBVIOUS
        <5> QED BY <4>2, <5>1, <5>2
      <4> QED BY <3>1, <4>1, <4>2
    <3> QED BY <3>5, <3>6, <3>7
  <2> QED BY <1>1, <2>1, <2>2, <2>3, <2>4, <2>5 DEF Process
<1>2. ASSUME NEW i \in Instances, Tick(i) PROVE Orderly'
  BY <1>2 DEF Tick, FindStaleRunning
<1>3. ASSUME NEW i \in Instances, Reap(i) PROVE Orderly'
  BY <1>3 DEF Reap, Reapable
<1>4. ASSUME NEW i \in Instances, NEW t \in Turns, Create(i, t) PROVE Orderly'
  BY <1>4 DEF Create
<1>5. ASSUME NEW i \in Instances, NEW t \in Turns, Recover(i, t) PROVE Orderly'
  <2>1. CASE RecoverSkip(i, t) BY <2>1 DEF RecoverSkip
  <2>2. CASE RecoverPoisoned(i, t) BY <2>2 DEF RecoverPoisoned, Claimable
  <2>3. CASE RecoverClaim(i, t) BY <2>3 DEF RecoverClaim, Claimable
  <2> QED BY <1>5, <2>1, <2>2, <2>3 DEF Recover
<1>6. ASSUME NEW t \in Turns, Stop(t) \/ Beat(t) \/ Silence(t) PROVE Orderly'
  BY <1>6 DEF Stop, Beat, Silence
<1>7. ASSUME NEW t \in Turns, NEW k \in Attempts, Executor(t, k) PROVE Orderly'
  <2> USE DEF Leave, Quit
  <2>1. CASE ResumeRead(t, k) BY <2>1 DEF ResumeRead
  <2>2. CASE SetupFails(t, k) BY <2>2 DEF SetupFails
  <2>3. CASE Enter(t, k) BY <2>3 DEF Enter
  <2>4. CASE WorkOk(t, k) BY <2>4 DEF WorkOk
  <2>5. CASE WorkFailed(t, k) BY <2>5 DEF WorkFailed
  <2>6. CASE WorkPaused(t, k) BY <2>6 DEF WorkPaused
  <2>7. CASE WorkCancelled(t, k) BY <2>7 DEF WorkCancelled
  <2>8. CASE Teardown(t, k)
    <3>1. /\ pc[t][k] = "leaving"
          /\ pc' = [pc EXCEPT ![t][k] = "saving"]
          /\ UNCHANGED <<found, status, attempts, home, ending>>
      BY <2>8 DEF Teardown
    <3> QED BY <3>1
  <2>9. CASE Finish(t, k)
    <3>1. /\ pc[t][k] = "saving"
          /\ pc' = [pc EXCEPT ![t][k] = "gone"]
          /\ home' = [home EXCEPT ![t][k] = NoInstance]
          /\ ending' = [ending EXCEPT ![t][k] = "none"]
          /\ status' = [status EXCEPT ![t] = ending[t][k]]
          /\ ending[t][k] \in Terminal
          /\ UNCHANGED <<found, attempts>>
      BY <2>9 DEF Finish
    <3> QED BY <3>1
  <2>10. CASE FinishPaused(t, k) BY <2>10 DEF FinishPaused
  <2>11. CASE ResumeGivesUp(t, k) BY <2>11 DEF ResumeGivesUp
  <2> QED BY <1>7, <2>1, <2>2, <2>3, <2>4, <2>5, <2>6, <2>7, <2>8, <2>9, <2>10, <2>11
          DEF Executor, Work
<1>8. CASE UNCHANGED vars BY <1>8 DEF vars
<1> QED BY <1>1, <1>2, <1>3, <1>4, <1>5, <1>6, <1>7, <1>8 DEF Next

\* One step keeps Exclusive for a turn that is not overtaken by it.
LEMMA ExclusiveStep ==
  ASSUME TypeOK, TypeOK', Orderly, [Next]_vars, ~BeatLoss,
         NEW u \in Turns, ~overtaken[u], ~overtaken'[u], Exclusive(u)
  PROVE  Exclusive(u)'
<1> USE DEF Attempts, Terminal, Preparing, Active, Leaving, Live, Over,
            Null, rowVars, execVars, TypeOK, Exclusive, HasExecutor
<1>1. ASSUME NEW i \in Instances, Process(i) PROVE Exclusive(u)'
  <2>1. CASE Start(i) BY <2>1 DEF Start, FindResumable
  <2>2. CASE Ready(i) BY <2>2 DEF Ready
  <2>3. CASE Shutdown(i) BY <2>3 DEF Shutdown
  <2>4. CASE Exit(i) BY <2>4 DEF Exit
  <2>5. CASE Crash(i) BY <2>5, ZenonT(60) DEF Crash
  <2> QED BY <1>1, <2>1, <2>2, <2>3, <2>4, <2>5 DEF Process
<1>2. ASSUME NEW i \in Instances, Tick(i) PROVE Exclusive(u)'
  BY <1>2 DEF Tick, FindStaleRunning, Coalesce
<1>3. ASSUME NEW i \in Instances, Reap(i) PROVE Exclusive(u)'
  <2>1. /\ UNCHANGED <<pc, instance, found, lost>>
        /\ u \notin Reapable => status'[u] = status[u] /\ heartbeat'[u] = heartbeat[u]
        /\ u \in Reapable => status'[u] = "FAILED" /\ ~IsLeaving(u)
    BY <1>3 DEF Reap, Overtake
  <2>2. CASE u \notin Reapable
    BY <2>1, <2>2
  <2>3. CASE u \in Reapable
    <3>1. status[u] = "RUNNING" /\ Coalesce(u) >= 2
      BY <2>3 DEF Reapable
    <3>2. \A k \in Attempts : pc[u][k] \notin Live
      BY <2>1, <2>3, <3>1 DEF Coalesce, IsLeaving
    <3> QED BY <2>1, <2>3, <3>2
  <2> QED BY <2>2, <2>3
<1>4. ASSUME NEW i \in Instances, NEW t \in Turns, Create(i, t) PROVE Exclusive(u)'
  BY <1>4 DEF Create, Orderly
<1>5. ASSUME NEW i \in Instances, NEW t \in Turns, Recover(i, t) PROVE Exclusive(u)'
  <2>1. CASE RecoverSkip(i, t) BY <2>1 DEF RecoverSkip
  <2>2. CASE RecoverPoisoned(i, t)
    <3>1. CASE t # u BY <2>2, <3>1 DEF RecoverPoisoned
    <3>2. CASE t = u
      <4>1. ~IsLeaving(u) /\ Claimable(i, u) /\ u \in found[i]
        BY <2>2, <3>2 DEF RecoverPoisoned, Overtake
      <4>2. \A k \in Attempts : pc[u][k] \notin Live
        BY <4>1 DEF Claimable, IsLeaving
      <4> QED BY <2>2, <3>2, <4>2 DEF RecoverPoisoned
    <3> QED BY <3>1, <3>2
  <2>3. CASE RecoverClaim(i, t)
    <3>1. CASE t # u BY <2>3, <3>1 DEF RecoverClaim
    <3>2. CASE t = u
      <4>1. ~IsLeaving(u) /\ Claimable(i, u) /\ u \in found[i]
        BY <2>3, <3>2 DEF RecoverClaim, Overtake
      <4>2. \A k \in Attempts : pc[u][k] \notin Live
        BY <4>1 DEF Claimable, IsLeaving
      <4>3. status[u] = "RUNNING" /\ attempts[u] + 1 \in Attempts
        BY <2>3, <3>2, <4>1 DEF RecoverClaim, Claimable
      <4> QED BY <2>3, <3>2, <4>2, <4>3 DEF RecoverClaim
    <3> QED BY <3>1, <3>2
  <2> QED BY <1>5, <2>1, <2>2, <2>3 DEF Recover
<1>6. ASSUME NEW t \in Turns, Stop(t) PROVE Exclusive(u)'
  BY <1>6 DEF Stop
<1>7. ASSUME NEW t \in Turns, Beat(t) PROVE Exclusive(u)'
  BY <1>7 DEF Beat
<1>8. ASSUME NEW t \in Turns, Silence(t) PROVE Exclusive(u)'
  BY <1>8 DEF Silence, IsActive
<1>9. ASSUME NEW t \in Turns, NEW k \in Attempts, Executor(t, k) PROVE Exclusive(u)'
  <2> USE DEF Leave, Quit, Sealed
  <2>1. CASE ResumeRead(t, k) BY <2>1 DEF ResumeRead
  <2>2. CASE SetupFails(t, k) BY <2>2 DEF SetupFails
  <2>3. CASE Enter(t, k) BY <2>3 DEF Enter
  <2>4. CASE WorkOk(t, k) BY <2>4 DEF WorkOk
  <2>5. CASE WorkFailed(t, k) BY <2>5 DEF WorkFailed
  <2>6. CASE WorkPaused(t, k) BY <2>6 DEF WorkPaused
  <2>7. CASE WorkCancelled(t, k) BY <2>7 DEF WorkCancelled
  <2>8. CASE Teardown(t, k) BY <2>8 DEF Teardown
  <2>9. CASE Finish(t, k) BY <2>9 DEF Finish
  <2>10. CASE FinishPaused(t, k) BY <2>10 DEF FinishPaused
  <2>11. CASE ResumeGivesUp(t, k) BY <2>11 DEF ResumeGivesUp
  <2> QED BY <1>9, <2>1, <2>2, <2>3, <2>4, <2>5, <2>6, <2>7, <2>8, <2>9, <2>10, <2>11
          DEF Executor, Work
<1>10. CASE UNCHANGED vars BY <1>10 DEF vars
<1> QED BY <1>1, <1>2, <1>3, <1>4, <1>5, <1>6, <1>7, <1>8, <1>9, <1>10 DEF Next

\* The history variable overtaken is never reset.
LEMMA OvertakenStays ==
  ASSUME TypeOK, [Next]_vars, NEW u \in Turns, overtaken[u]
  PROVE  overtaken'[u]
<1> USE DEF TypeOK
<1>1. ASSUME NEW i \in Instances, Reap(i) PROVE overtaken'[u]
  BY <1>1 DEF Reap, Overtake
<1>2. ASSUME NEW i \in Instances, NEW t \in Turns, Recover(i, t) PROVE overtaken'[u]
  BY <1>2 DEF Recover, RecoverSkip, RecoverPoisoned, RecoverClaim, Overtake
<1>3. ASSUME UNCHANGED overtaken PROVE overtaken'[u]
  BY <1>3
<1> QED BY <1>1, <1>2, <1>3 DEF Next, vars, Process, Start, Ready, Shutdown, Exit,
      Crash, Tick, Create, Stop, Beat, Silence, Executor, Work, ResumeRead,
      ResumeGivesUp, SetupFails, Enter, Leave, WorkOk, WorkFailed, WorkPaused,
      WorkCancelled, Teardown, Finish, FinishPaused

\* A status that is not RUNNING and exists is changed by finish alone.
LEMMA StatusWriters ==
  ASSUME TypeOK, Next, NEW t \in Turns, status[t] \notin {"none", "RUNNING"},
         status'[t] # status[t]
  PROVE  \E k \in Attempts : Finish(t, k)
<1> USE DEF TypeOK
<1>1. ASSUME UNCHANGED status PROVE FALSE
  BY <1>1
<1>2. ASSUME NEW i \in Instances, Reap(i) PROVE FALSE
  BY <1>2 DEF Reap, Reapable
<1>3. ASSUME NEW i \in Instances, NEW u \in Turns, Recover(i, u) PROVE FALSE
  BY <1>3 DEF Recover, RecoverSkip, RecoverPoisoned, RecoverClaim, Claimable, rowVars
<1>4. ASSUME NEW i \in Instances, NEW u \in Turns, Create(i, u) PROVE FALSE
  BY <1>4 DEF Create
<1>5. ASSUME NEW u \in Turns, NEW k \in Attempts, Finish(u, k) PROVE u = t
  BY <1>5 DEF Finish
<1> QED BY <1>1, <1>2, <1>3, <1>4, <1>5 DEF Next, rowVars, Process, Start, Ready,
      Shutdown, Exit, Crash, Tick, Stop, Beat, Silence, Executor, Work, ResumeRead,
      ResumeGivesUp, SetupFails, Enter, Leave, WorkOk, WorkFailed, WorkPaused,
      WorkCancelled, Teardown, FinishPaused

\* The inductive invariant: types, orderly rows and executors, and at most
\* one live executor of every turn that was never overtaken.
THEOREM Invariance == Spec => []IInv
<1>1. Init => IInv
  BY DEF Init, IInv, TypeOK, Orderly, Exclusive, HasExecutor, Attempts, Terminal,
         Preparing, Active, Leaving, Live, Over, Null
<1>2. IInv /\ TypeOK' /\ [Next]_vars => IInv'
  <2> SUFFICES ASSUME IInv, TypeOK', [Next]_vars PROVE IInv'
    OBVIOUS
  <2>1. TypeOK /\ Orderly
    BY DEF IInv
  <2>2. Orderly'
    BY <2>1, OrderlyStep
  <2>3. ASSUME NEW t \in Turns PROVE overtaken'[t] \/ BeatLoss \/ Exclusive(t)'
    <3>1. CASE BeatLoss
      BY <3>1
    <3>2. CASE ~BeatLoss
      <4>1. overtaken[t] => overtaken'[t]
        BY <2>1, OvertakenStays
      <4>2. ~overtaken'[t] => Exclusive(t)'
        BY <2>1, <3>2, <4>1, ExclusiveStep DEF IInv
      <4> QED BY <4>2
    <3> QED BY <3>1, <3>2
  <2> QED BY <2>2, <2>3 DEF IInv
<1> QED BY <1>1, <1>2, TypeCorrect, PTL DEF Spec

\* A turn has two preparing or working executors only after it was overtaken.
THEOREM DuplicateCorrect == Spec => []DuplicateOnlyByOvertaking
<1>1. IInv => DuplicateOnlyByOvertaking
  BY DEF IInv, DuplicateOnlyByOvertaking, Exclusive, Live
<1> QED BY <1>1, Invariance, PTL

\* A turn whose executors all ended in order is visible to the sweep.
THEOREM PausedCorrect == Spec => []PausedIsVisible
<1>1. IInv => PausedIsVisible
  BY DEF IInv, PausedIsVisible, Exclusive
<1> QED BY <1>1, Invariance, PTL

\* A settled turn changes its status only after it was overtaken.
THEOREM SettledOnceCorrect == Spec => SettledOnce
<1>1. IInv /\ [Next]_vars =>
        [\A t \in Turns : (status[t] \in Terminal /\ status'[t] # status[t])
                              => overtaken[t] \/ BeatLoss]_vars
  <2> SUFFICES ASSUME IInv, Next, NEW t \in Turns, status[t] \in Terminal,
                      status'[t] # status[t], ~overtaken[t], ~BeatLoss
               PROVE  FALSE
    OBVIOUS
  <2>1. PICK k \in Attempts : Finish(t, k)
    BY StatusWriters DEF IInv, Terminal
  <2>2. Exclusive(t)
    BY DEF IInv
  <2>3. status[t] = "RUNNING"
    BY <2>1, <2>2 DEF Finish, Exclusive, Live, Leaving
  <2> QED BY <2>3 DEF Terminal
<1> QED BY <1>1, Invariance, PTL DEF Spec, SettledOnce

\* No step makes a settled turn RUNNING again.
THEOREM NeverRevivedCorrect == Spec => NeverRevived
<1>1. IInv /\ [Next]_vars =>
        [\A t \in Turns : status[t] \in Terminal => status'[t] \in Terminal]_vars
  <2> SUFFICES ASSUME IInv, Next, NEW t \in Turns, status[t] \in Terminal,
                      status'[t] # status[t]
               PROVE  status'[t] \in Terminal
    OBVIOUS
  <2>1. PICK k \in Attempts : Finish(t, k)
    BY StatusWriters DEF IInv, Terminal
  <2>2. ending[t][k] \in Terminal
    BY <2>1 DEF IInv, Orderly, Finish, Leaving
  <2> QED BY <2>1, <2>2 DEF Finish, IInv, TypeOK
<1> QED BY <1>1, Invariance, PTL DEF Spec, NeverRevived

-----------------------------------------------------------------------------
(* The loop of an executor.                                                *)

HIDE RecoveryAssumption

Checkpoint == [step : 1..MaxSteps, phase : Loop!Phases, messages : Seq(Loop!Message), block : Nat]

\* A conversation: who speaks in turn, who spoke last, the greatest reply in it,
\* and that the output of a reply is not in it.
Alternates(ms) == \A k \in 1..(Len(ms) - 1) : ms[k].role # ms[k + 1].role
EndsWith(ms, who) == ms # <<>> /\ ms[Len(ms)].role = who
Upto(ms, n) == \A k \in 1..Len(ms) : ms[k].of <= n
Unanswered(ms, r) == \A k \in 1..Len(ms) : ms[k] # Loop!User(r)

Good(ms, who, n) == Alternates(ms) /\ EndsWith(ms, who) /\ Upto(ms, n)

\* What every checkpoint holds, when n queries were sent.
Sound(c, n) ==
    /\ Good(c.messages, IF c.phase = "tool_exec" THEN "model" ELSE "user", n)
    /\ c.phase = "tool_exec" => c.block <= n /\ Unanswered(c.messages, c.block)

Asking == {"top", "querySaved", "sending", "ran", "doneSaved"}
Answered == {"replied", "execCached", "execSaved", "running"}

Places == {"idle", "top", "querySaved", "sending", "replied", "execCached", "execSaved",
           "running", "ran", "doneSaved", "stopped", "ok", "failed", "closed"}

Typed ==
    /\ loopPc \in Places /\ steps \in Nat /\ messages \in Seq(Loop!Message) /\ block \in Nat
    /\ loopStatus \in {"RUNNING", "DONE", "FAILED"}
    /\ rows \in Seq(Checkpoint) /\ saved \in Seq(Checkpoint) /\ Len(saved) <= 3
    /\ cache \in Checkpoint \cup {Loop!NoRow}
    /\ falls \in 0..MaxFalls /\ queries \in Nat /\ ran \in [Loop!Replies -> 0..(MaxFalls + 1)]
    /\ rows = <<>> <=> saved = <<>>
    /\ cache # Loop!NoRow => saved # <<>>
    /\ loopPc \in (Asking \cup Answered) \ {"top"} => saved # <<>>
    /\ loopPc \in (Asking \cup Answered) \ {"top", "querySaved"} => steps \in 1..MaxSteps
    /\ loopPc = "querySaved" => steps < MaxSteps

Sounds ==
    /\ \A k \in 1..Len(rows) : Sound(rows[k], queries)
    /\ \A k \in 1..Len(saved) : Sound(saved[k], queries)
    /\ cache # Loop!NoRow => Sound(cache, queries)
    /\ loopPc \in Asking => Good(messages, "user", queries)
    /\ loopPc = "sending" => Upto(messages, queries - 1)
    /\ loopPc \in Answered =>
          Good(messages, "model", queries) /\ block <= queries /\ Unanswered(messages, block)

RunsCounted ==
    /\ \A r \in Loop!Replies : ran[r] <= falls + 1
    /\ loopPc = "idle" => \A r \in Loop!Replies : ran[r] <= falls
    /\ \A r \in Loop!Replies : r > queries => ran[r] = 0
    /\ loopPc = "sending" /\ queries \in Loop!Replies => ran[queries] = 0
    /\ loopPc \in {"replied", "execCached", "execSaved"} /\ block \in Loop!Replies => ran[block] <= falls

\* The order in which one executor takes checkpoints.
Rank(c) ==
    3 * c.step + (IF c.phase = "llm_query" THEN 0 ELSE IF c.phase = "tool_exec" THEN 1 ELSE 2)
Ascends(s) == \A j, k \in 1..Len(s) : j < k => Rank(s[j]) < Rank(s[k])

Newest == saved[Len(saved)]
IsAt(n, p) == Newest.step = n /\ Newest.phase = p

\* What may be committed after c before Redis holds it.
Follows(c, d) ==
    \/ c.phase = "llm_query" /\ d.phase = "tool_exec" /\ d.step = c.step
    \/ c.phase = "llm_query" /\ d.phase = "llm_query" /\ d.step = c.step + 1
    \/ c.phase = "tool_exec" /\ d.phase = "tool_done" /\ d.step = c.step
    \/ c.phase = "tool_done" /\ d.phase = "llm_query" /\ d.step = c.step + 1

Lags ==
    \/ cache \in {Loop!NoRow, Newest}
    \/ Len(saved) >= 2 /\ cache = saved[Len(saved) - 1] /\ Follows(cache, Newest)
    \/ /\ Len(saved) = 3 /\ cache = saved[1] /\ cache.phase = "llm_query"
       /\ Newest.phase = "llm_query" /\ Newest.step = cache.step + 1

Placed ==
    /\ loopPc = "top" =>
          /\ Newest.step <= steps \/ IsAt(steps + 1, "llm_query")
          /\ cache # Loop!NoRow => cache.step = steps /\ cache.phase # "tool_exec"
    /\ loopPc = "querySaved" => Newest = Loop!Row(steps + 1, "llm_query", messages, 0)
    /\ loopPc \in {"sending", "replied"} => IsAt(steps, "llm_query") /\ cache \in {Loop!NoRow, Newest}
    /\ loopPc = "execCached" => Newest = Loop!Row(steps, "tool_exec", messages, block)
    /\ loopPc \in {"execSaved", "running", "ran"} =>
          /\ IsAt(steps, "tool_exec") \/ IsAt(steps, "tool_done")
          /\ cache # Loop!NoRow => cache.step = steps /\ cache.phase = "tool_exec"
    /\ loopPc = "doneSaved" => Newest = Loop!Row(steps, "tool_done", messages, 0)

\* When Redis answers: the newest checkpoint is the latest row, and Redis lags.
Ordered == saved # <<>> => Ascends(rows) /\ rows[Len(rows)] = Newest /\ Lags /\ Placed

LoopIInv == Typed /\ Sounds /\ RunsCounted /\ (~CacheFails => Ordered)

USE LoopAssumption

-----------------------------------------------------------------------------
\* A bounded set of naturals has a greatest element.
LEMMA Greatest ==
    ASSUME NEW S \in SUBSET Nat, S # {}, NEW m \in Nat, \A x \in S : x <= m
    PROVE  \E x \in S : \A y \in S : y <= x
<1> DEFINE T == {m - x : x \in S}
<1>1. T \subseteq Nat /\ T # {}
  <2>1. \A x \in S : m - x \in Nat
    OBVIOUS
  <2> QED BY <2>1
<1>2. PICK t \in T : \A u \in T : ~(<<u, t>> \in OpToRel(<, Nat))
  BY <1>1, WFMin, NatLessThanWellFounded
<1>3. PICK x \in S : t = m - x
  OBVIOUS
<1>4. \A y \in S : y <= x
  <2> SUFFICES ASSUME NEW y \in S, x < y PROVE FALSE
    OBVIOUS
  <2>1. m - y \in T /\ m - y \in Nat /\ t \in Nat /\ m - y < t
    BY <1>1, <1>3
  <2> QED BY <2>1, <1>2 DEF OpToRel
<1> QED BY <1>4

\* The row that latest finds.
LatestIndex(s) ==
    CHOOSE k \in 1..Len(s) : \A j \in 1..Len(s) :
        \/ s[j].step < s[k].step
        \/ s[j].step = s[k].step /\ j <= k

\* There is such a row: the key is the step, then the age.
LEMMA LatestExists ==
    ASSUME NEW s \in Seq(Checkpoint), s # <<>>
    PROVE  LatestIndex(s) \in 1..Len(s)
<1> DEFINE S == {s[k].step : k \in 1..Len(s)}
<1>1. S \in SUBSET Nat /\ S # {} /\ \A x \in S : x <= MaxSteps
  <2>1. \A k \in 1..Len(s) : s[k] \in Checkpoint
    OBVIOUS
  <2>2. \A k \in 1..Len(s) : s[k].step \in Nat /\ s[k].step <= MaxSteps
    BY <2>1 DEF Checkpoint
  <2>3. Len(s) \in 1..Len(s)
    OBVIOUS
  <2> QED BY <2>2, <2>3
<1>2. PICK m \in S : \A y \in S : y <= m
  BY <1>1, Greatest
<1> DEFINE T == {k \in 1..Len(s) : s[k].step = m}
<1>3. T \in SUBSET Nat /\ T # {} /\ \A k \in T : k <= Len(s)
  OBVIOUS
<1>. Len(s) \in Nat
  OBVIOUS
<1>4. PICK k \in T : \A j \in T : j <= k
  <2> HIDE DEF T
  <2> QED BY <1>3, Greatest
<1>5. \A j \in 1..Len(s) : s[j].step \in Nat /\ s[j].step <= m
  BY <1>1, <1>2
<1>6. \A j \in 1..Len(s) : s[j].step < s[k].step \/ (s[j].step = s[k].step /\ j <= k)
  BY <1>4, <1>5, <1>1
<1> QED BY <1>6 DEF LatestIndex

\* Rows that were committed in order: it is the last one.
LEMMA LatestOfAscending ==
    ASSUME NEW s \in Seq(Checkpoint), s # <<>>, Ascends(s)
    PROVE  LatestIndex(s) = Len(s)
<1>1. \A j \in 1..Len(s) : s[j].step \in Nat /\ Rank(s[j]) \in Nat /\ Rank(s[j]) >= 3 * s[j].step /\ Rank(s[j]) <= 3 * s[j].step + 2
  <2>1. \A j \in 1..Len(s) : s[j] \in Checkpoint
    OBVIOUS
  <2>2. \A c \in Checkpoint : c.step \in Nat
    BY DEF Checkpoint
  <2>3. \A c \in Checkpoint :
          Rank(c) \in Nat /\ Rank(c) >= 3 * c.step /\ Rank(c) <= 3 * c.step + 2
    BY <2>2 DEF Rank
  <2> QED BY <2>1, <2>2, <2>3
<1>2. \A j, k \in 1..Len(s) : j < k => s[j].step <= s[k].step
  <2> SUFFICES ASSUME NEW j \in 1..Len(s), NEW k \in 1..Len(s), j < k
               PROVE  s[j].step <= s[k].step
    OBVIOUS
  <2>1. Rank(s[j]) < Rank(s[k])
    BY DEF Ascends
  <2>2. /\ s[j].step \in Nat /\ Rank(s[j]) \in Nat /\ Rank(s[j]) >= 3 * s[j].step
        /\ s[k].step \in Nat /\ Rank(s[k]) \in Nat /\ Rank(s[k]) <= 3 * s[k].step + 2
    BY <1>1
  <2> QED BY <2>1, <2>2
<1>3. Len(s) \in 1..Len(s)
  OBVIOUS
<1>4. \A j \in 1..Len(s) : s[j].step < s[Len(s)].step \/ (s[j].step = s[Len(s)].step /\ j <= Len(s))
  <2> SUFFICES ASSUME NEW j \in 1..Len(s)
               PROVE  s[j].step < s[Len(s)].step \/ (s[j].step = s[Len(s)].step /\ j <= Len(s))
    OBVIOUS
  <2>1. s[j].step <= s[Len(s)].step
    <3>1. CASE j = Len(s) BY <3>1, <1>1
    <3>2. CASE j < Len(s) BY <3>2, <1>2, <1>3
    <3> QED BY <3>1, <3>2
  <2>2. s[j].step \in Nat /\ s[Len(s)].step \in Nat
    BY <1>1, <1>3
  <2> QED BY <2>1, <2>2
<1>5. LatestIndex(s) \in 1..Len(s)
      /\ \A j \in 1..Len(s) : \/ s[j].step < s[LatestIndex(s)].step
                              \/ s[j].step = s[LatestIndex(s)].step /\ j <= LatestIndex(s)
  BY <1>3, <1>4 DEF LatestIndex
<1>6. \/ s[Len(s)].step < s[LatestIndex(s)].step
      \/ Len(s) <= LatestIndex(s)
  BY <1>3, <1>5
<1>7. s[LatestIndex(s)].step <= s[Len(s)].step
  <2>1. s[LatestIndex(s)].step < s[Len(s)].step \/ s[LatestIndex(s)].step = s[Len(s)].step
    BY <1>4, <1>5
  <2>2. s[LatestIndex(s)].step \in Nat /\ s[Len(s)].step \in Nat
    BY <1>1, <1>3, <1>5
  <2> QED BY <2>1, <2>2
<1> QED BY <1>1, <1>3, <1>5, <1>6, <1>7, SMTT(30)

\* Latest in terms of LatestIndex.
LEMMA LatestRow == Loop!Latest = IF rows = <<>> THEN Loop!NoRow ELSE rows[LatestIndex(rows)]
  BY DEF Loop!Latest, LatestIndex

\* What load returns is a checkpoint that was stored.
LEMMA LoadIsStored ==
    ASSUME Typed, Loop!Load # Loop!NoRow
    PROVE  /\ Loop!Load \in Checkpoint /\ saved # <<>>
           /\ \/ cache # Loop!NoRow /\ Loop!Load = cache
              \/ cache = Loop!NoRow /\ \E k \in 1..Len(rows) : Loop!Load = rows[k]
<1>1. CASE cache # Loop!NoRow
  BY <1>1 DEF Loop!Load, Typed
<1>2. CASE cache = Loop!NoRow
  <2>1. Loop!Load = Loop!Latest /\ rows # <<>>
    BY <1>2 DEF Loop!Load, Loop!Latest
  <2>2. LatestIndex(rows) \in 1..Len(rows) /\ rows \in Seq(Checkpoint) /\ saved # <<>>
    BY <2>1, LatestExists DEF Typed
  <2>3. Loop!Load = rows[LatestIndex(rows)]
    BY <2>1, LatestRow
  <2> QED BY <1>2, <2>2, <2>3, ElementOfSeq
<1> QED BY <1>1, <1>2

\* ... and a sound one.
LEMMA LoadIsSound ==
    ASSUME Typed, Sounds, Loop!Load # Loop!NoRow
    PROVE  Sound(Loop!Load, queries)
  BY LoadIsStored DEF Sounds

-----------------------------------------------------------------------------
\* What a commit makes of the rows and of the history.
Next3(c) ==
    IF saved # <<>> /\ Loop!SameKey(c, Loop!Last(saved))
    THEN [saved EXCEPT ![Len(saved)] = c]
    ELSE IF Len(saved) < 3 THEN Append(saved, c)
    ELSE <<saved[2], saved[3], c>>

\* Rows after an upsert: those there were, and the new one.
LEMMA Upserted ==
    ASSUME NEW c \in Checkpoint, Typed
    PROVE  /\ Loop!Upsert(c) \in Seq(Checkpoint) /\ Loop!Upsert(c) # <<>>
           /\ \A k \in 1..Len(Loop!Upsert(c)) :
                 Loop!Upsert(c)[k] = c \/ \E j \in 1..Len(rows) : Loop!Upsert(c)[k] = rows[j]
<1>1. rows \in Seq(Checkpoint)
  BY DEF Typed
<1>2. CASE \E k \in 1..Len(rows) : rows[k].step = c.step /\ rows[k].phase = c.phase
  <2>1. Loop!Upsert(c) = [k \in 1..Len(rows) |->
            IF rows[k].step = c.step /\ rows[k].phase = c.phase THEN c ELSE rows[k]]
    BY <1>2 DEF Loop!Upsert
  <2>2. Loop!Upsert(c) \in Seq(Checkpoint) /\ Len(Loop!Upsert(c)) = Len(rows)
    BY <1>1, <2>1
  <2> QED BY <1>1, <1>2, <2>1, <2>2
<1>3. CASE ~\E k \in 1..Len(rows) : rows[k].step = c.step /\ rows[k].phase = c.phase
  <2>1. Loop!Upsert(c) = Append(rows, c)
    BY <1>3 DEF Loop!Upsert
  <2> QED BY <1>1, <2>1
<1> QED BY <1>2, <1>3

\* A row that is not before the last one takes its place or follows it.
LEMMA UpsertedLast ==
    ASSUME NEW c \in Checkpoint, Typed, Ascends(rows),
           rows = <<>> \/ Rank(rows[Len(rows)]) <= Rank(c)
    PROVE  Ascends(Loop!Upsert(c)) /\ Loop!Upsert(c)[Len(Loop!Upsert(c))] = c
<1> DEFINE n == Len(rows)
<1>1. rows \in Seq(Checkpoint) /\ n \in Nat
  BY DEF Typed
<1>2. \A k \in 1..n : rows[k] \in Checkpoint /\ Rank(rows[k]) \in Nat /\ Rank(rows[k]) <= Rank(c)
  <2>1. \A k \in 1..n : rows[k] \in Checkpoint /\ Rank(rows[k]) \in Nat
    <3>1. \A k \in 1..n : rows[k] \in Checkpoint
      BY <1>1
    <3>2. \A d \in Checkpoint : Rank(d) \in Nat
      BY DEF Checkpoint, Rank
    <3> QED BY <3>1, <3>2
  <2>2. Rank(c) \in Nat
    BY DEF Checkpoint, Rank
  <2> QED BY <1>1, <2>1, <2>2 DEF Ascends
<1>3. \A k \in 1..n : (rows[k].step = c.step /\ rows[k].phase = c.phase) <=> Rank(rows[k]) = Rank(c)
  <2> SUFFICES ASSUME NEW k \in 1..n
               PROVE (rows[k].step = c.step /\ rows[k].phase = c.phase) <=> Rank(rows[k]) = Rank(c)
    OBVIOUS
  <2>1. rows[k].step \in Nat /\ c.step \in Nat /\ rows[k].phase \in Loop!Phases /\ c.phase \in Loop!Phases
    BY <1>2 DEF Checkpoint
  <2>2. /\ rows[k].phase \in {"llm_query", "tool_exec", "tool_done"}
        /\ c.phase \in {"llm_query", "tool_exec", "tool_done"}
    BY <2>1 DEF Loop!Phases
  <2> DEFINE P(d) == IF d.phase = "llm_query" THEN 0 ELSE IF d.phase = "tool_exec" THEN 1 ELSE 2
  <2>3. Rank(rows[k]) = 3 * rows[k].step + P(rows[k]) /\ Rank(c) = 3 * c.step + P(c)
    BY DEF Rank
  <2>4. P(rows[k]) \in 0..2 /\ P(c) \in 0..2
    OBVIOUS
  <2>5. (rows[k].phase = c.phase) <=> (P(rows[k]) = P(c))
    BY <2>2
  <2> HIDE DEF P
  <2>6. (Rank(rows[k]) = Rank(c)) <=> (rows[k].step = c.step /\ P(rows[k]) = P(c))
    BY <2>1, <2>3, <2>4, SMTT(30)
  <2> QED BY <2>5, <2>6
<1>4. CASE \E k \in 1..n : rows[k].step = c.step /\ rows[k].phase = c.phase
  <2>1. PICK i \in 1..n : rows[i].step = c.step /\ rows[i].phase = c.phase
    BY <1>4
  <2>2. i = n
    <3>1. Rank(rows[i]) = Rank(c) /\ n \in 1..n /\ Rank(rows[n]) <= Rank(c)
      BY <2>1, <1>2, <1>3, <1>1
    <3> QED BY <3>1, <1>2, <1>1 DEF Ascends
  <2>3. Loop!Upsert(c) = [k \in 1..n |-> IF k = n THEN c ELSE rows[k]]
    <3>1. \A k \in 1..n : (rows[k].step = c.step /\ rows[k].phase = c.phase) <=> k = n
      BY <2>1, <2>2, <1>2, <1>3, <1>1 DEF Ascends
    <3> QED BY <3>1, <1>4 DEF Loop!Upsert
  <2>4. Len(Loop!Upsert(c)) = n /\ Loop!Upsert(c)[n] = c
    BY <2>3, <2>2, <1>1
  <2>5. Rank(rows[n]) = Rank(c)
    BY <2>1, <2>2, <1>3
  <2>6. \A k \in 1..n : Rank(Loop!Upsert(c)[k]) = Rank(rows[k])
    BY <2>3, <2>5
  <2> QED BY <2>4, <2>6 DEF Ascends
<1>5. CASE ~\E k \in 1..n : rows[k].step = c.step /\ rows[k].phase = c.phase
  <2>1. Loop!Upsert(c) = Append(rows, c) /\ Len(Loop!Upsert(c)) = n + 1
    BY <1>1, <1>5 DEF Loop!Upsert
  <2>2. \A k \in 1..n : Loop!Upsert(c)[k] = rows[k] /\ Rank(rows[k]) < Rank(c)
    <3>1. Rank(c) \in Nat
      BY DEF Checkpoint, Rank
    <3> QED BY <2>1, <1>1, <1>2, <1>3, <1>5, <3>1
  <2>3. Loop!Upsert(c)[n + 1] = c
    BY <2>1, <1>1
  <2> QED BY <2>1, <2>2, <2>3, <1>1 DEF Ascends
<1> QED BY <1>4, <1>5

\* What the history keeps of a commit.
LEMMA Kept3 ==
    ASSUME NEW c \in Checkpoint, Typed
    PROVE  /\ Next3(c) \in Seq(Checkpoint) /\ Next3(c) # <<>> /\ Len(Next3(c)) <= 3
           /\ Next3(c)[Len(Next3(c))] = c
           /\ \A k \in 1..Len(Next3(c)) :
                 Next3(c)[k] = c \/ \E j \in 1..Len(saved) : Next3(c)[k] = saved[j]
           /\ saved # <<>> /\ Loop!SameKey(c, Newest) =>
                 /\ Len(Next3(c)) = Len(saved)
                 /\ \A k \in 1..(Len(saved) - 1) : Next3(c)[k] = saved[k]
           /\ saved # <<>> /\ ~Loop!SameKey(c, Newest) =>
                 /\ Len(Next3(c)) = IF Len(saved) < 3 THEN Len(saved) + 1 ELSE 3
                 /\ Next3(c)[Len(Next3(c)) - 1] = Newest
                 /\ Len(saved) >= 2 => Next3(c)[Len(Next3(c)) - 2] = saved[Len(saved) - 1]
<1> DEFINE n == Len(saved)
<1> DEFINE w == Next3(c)
<1>1. saved \in Seq(Checkpoint) /\ n <= 3 /\ n \in Nat /\ (saved # <<>> <=> n # 0)
  BY DEF Typed, Loop!TypeOK
<1>2. CASE saved # <<>> /\ Loop!SameKey(c, Newest)
  <2>1. w = [saved EXCEPT ![n] = c]
    BY <1>2 DEF Next3, Newest, Loop!Last
  <2>2. n \in 1..n
    BY <1>1, <1>2
  <2>3. w \in Seq(Checkpoint) /\ Len(w) = n
        /\ \A k \in 1..n : w[k] = IF k = n THEN c ELSE saved[k]
    BY <1>1, <2>1, <2>2, ExceptSeq
  <2> HIDE DEF w
  <2>4. w # <<>> /\ w[n] = c
    BY <2>2, <2>3
  <2>5. \A k \in 1..(n - 1) : k \in 1..n /\ w[k] = saved[k]
    BY <1>1, <2>3
  <2> QED BY <1>1, <1>2, <2>3, <2>4, <2>5 DEF w
<1>3. CASE ~(saved # <<>> /\ Loop!SameKey(c, Newest)) /\ n < 3
  <2>1. w = Append(saved, c)
    BY <1>3 DEF Next3, Newest, Loop!Last
  <2>2. w \in Seq(Checkpoint) /\ Len(w) = n + 1 /\ w[n + 1] = c
        /\ \A k \in 1..n : w[k] = saved[k]
    BY <1>1, <2>1, AppendProperties
  <2> HIDE DEF w
  <2>3. \A k \in 1..Len(w) : w[k] = c \/ \E j \in 1..n : w[k] = saved[j]
    BY <1>1, <2>2
  <2>4. saved # <<>> => w[n] = Newest
    BY <1>1, <2>2 DEF Newest
  <2>5. n >= 2 => w[n - 1] = saved[n - 1]
    BY <1>1, <2>2
  <2> QED BY <1>1, <1>3, <2>2, <2>3, <2>4, <2>5 DEF w
<1>4. CASE ~(saved # <<>> /\ Loop!SameKey(c, Newest)) /\ n = 3
  <2>1. w = <<saved[2], saved[3], c>>
    BY <1>4 DEF Next3, Newest, Loop!Last
  <2>2. saved[2] \in Checkpoint /\ saved[3] \in Checkpoint
    <3>1. 2 \in 1..n /\ 3 \in 1..n
      BY <1>4
    <3> QED BY <1>1, <3>1, ElementOfSeq
  <2>3. w \in Seq(Checkpoint) /\ Len(w) = 3 /\ w[1] = saved[2] /\ w[2] = saved[3] /\ w[3] = c
    BY <2>1, <2>2
  <2> HIDE DEF w
  <2>4. \A k \in 1..3 : k = 1 \/ k = 2 \/ k = 3
    OBVIOUS
  <2>5. \A k \in 1..3 : w[k] = c \/ \E j \in 1..n : w[k] = saved[j]
    BY <2>3, <2>4, <1>4
  <2>6. w # <<>> /\ w[Len(w)] = c /\ w[Len(w) - 1] = Newest /\ w[Len(w) - 2] = saved[n - 1]
    BY <2>3, <1>4 DEF Newest
  <2> QED BY <1>1, <1>4, <2>3, <2>5, <2>6 DEF w
<1>5. n < 3 \/ n = 3
  <2>1. n \in Nat /\ n <= 3
    BY <1>1
  <2> HIDE DEF n
  <2> QED BY <2>1
<1> QED BY <1>2, <1>3, <1>4, <1>5, Zenon

-----------------------------------------------------------------------------
(* Conversations.                                                          *)

\* Messages have numbers.
LEMMA Numbered ==
    ASSUME NEW ms \in Seq(Loop!Message) PROVE \A k \in 1..Len(ms) : ms[k].of \in Int
<1>1. \A k \in 1..Len(ms) : ms[k] \in Loop!Message
  OBVIOUS
<1> QED BY <1>1 DEF Loop!Message

\* The prompt and the history: the user speaks first and last.
LEMMA PromptIsGood == Loop!Prompt \in Seq(Loop!Message) /\ Good(Loop!Prompt, "user", 0)
<1> DEFINE n == 2 * Past + 1
<1>1. n \in Nat /\ n >= 1
  OBVIOUS
<1>2. \A k \in 1..n : Loop!Prompt[k] \in Loop!Message /\ Loop!Prompt[k].of <= 0
  BY DEF Loop!Prompt, Loop!Message, Loop!User, Loop!Model
<1>3. Loop!Prompt = [k \in 1..n |-> Loop!Prompt[k]]
  BY DEF Loop!Prompt
<1> HIDE DEF n
<1>4. Loop!Prompt \in Seq(Loop!Message) /\ Len(Loop!Prompt) = n
  BY <1>1, <1>2, <1>3
<1>5. \A k \in 1..n : Loop!Prompt[k].role = IF k % 2 = 1 THEN "user" ELSE "model"
  <2>1. n % 2 = 1
    BY DEF n
  <2> QED BY <2>1 DEF Loop!Prompt, Loop!User, Loop!Model, n
<1>6. \A k \in 1..(n - 1) : k % 2 = 1 <=> (k + 1) % 2 # 1
  BY <1>1
<1>7. Alternates(Loop!Prompt)
  BY <1>1, <1>4, <1>5, <1>6 DEF Alternates
<1>8. EndsWith(Loop!Prompt, "user")
  <2>1. n % 2 = 1 /\ n \in 1..n
    BY <1>1 DEF n
  <2> QED BY <1>1, <1>4, <1>5, <2>1 DEF EndsWith
<1> QED BY <1>2, <1>4, <1>7, <1>8 DEF Good, Upto

\* A message of the other side keeps a conversation good.
LEMMA Said ==
    ASSUME NEW ms \in Seq(Loop!Message), NEW m \in Loop!Message, NEW n \in Nat,
           Alternates(ms), Upto(ms, n), m.of <= n,
           ms # <<>> => ms[Len(ms)].role # m.role
    PROVE  /\ Append(ms, m) \in Seq(Loop!Message) /\ Good(Append(ms, m), m.role, n)
           /\ \A r \in Nat : Unanswered(ms, r) /\ m # Loop!User(r) => Unanswered(Append(ms, m), r)
<1> DEFINE w == Append(ms, m)
<1>1. w \in Seq(Loop!Message) /\ Len(w) = Len(ms) + 1 /\ w[Len(ms) + 1] = m
      /\ \A k \in 1..Len(ms) : w[k] = ms[k]
  BY AppendProperties
<1>2. Len(ms) \in Nat /\ (ms # <<>> <=> Len(ms) # 0)
  OBVIOUS
<1> HIDE DEF w
<1>3. Alternates(w)
  <2> SUFFICES ASSUME NEW k \in 1..Len(ms) PROVE w[k].role # w[k + 1].role
    BY <1>1, <1>2 DEF Alternates
  <2>1. CASE k = Len(ms)
    BY <1>1, <1>2, <2>1
  <2>2. CASE k # Len(ms)
    <3>1. k \in 1..(Len(ms) - 1) /\ k + 1 \in 1..Len(ms)
      BY <1>2, <2>2
    <3> QED BY <1>1, <3>1 DEF Alternates
  <2> QED BY <2>1, <2>2
<1>4. EndsWith(w, m.role)
  BY <1>1, <1>2 DEF EndsWith
<1>5. \A k \in 1..Len(w) : k \in 1..Len(ms) \/ k = Len(ms) + 1
  BY <1>1, <1>2
<1>6. Upto(w, n)
  BY <1>1, <1>5 DEF Upto
<1>7. \A r \in Nat : Unanswered(ms, r) /\ m # Loop!User(r) => Unanswered(w, r)
  BY <1>1, <1>5 DEF Unanswered
<1> QED BY <1>1, <1>3, <1>4, <1>6, <1>7 DEF w, Good

\* _ask: after it the user spoke last.
LEMMA Asked ==
    ASSUME NEW ms \in Seq(Loop!Message), NEW n \in Nat, Alternates(ms), Upto(ms, n)
    PROVE  Loop!Ask(ms) \in Seq(Loop!Message) /\ Good(Loop!Ask(ms), "user", n)
<1>1. CASE ms # <<>> /\ Loop!Last(ms).role = "user"
  BY <1>1 DEF Loop!Ask, Good, EndsWith, Loop!Last
<1>2. CASE ~(ms # <<>> /\ Loop!Last(ms).role = "user")
  <2>1. Loop!Ask(ms) = Append(ms, Loop!User(0))
    BY <1>2 DEF Loop!Ask
  <2>2. Loop!User(0) \in Loop!Message /\ Loop!User(0).of = 0 /\ Loop!User(0).role = "user"
    BY DEF Loop!User, Loop!Message
  <2>3. ms # <<>> => ms[Len(ms)].role # "user"
    BY <1>2 DEF Loop!Last
  <2> QED BY <2>1, <2>2, <2>3, Said
<1> QED BY <1>1, <1>2

\* More queries do not make a checkpoint unsound.
LEMMA SoundLater ==
    ASSUME NEW c \in Checkpoint, NEW n \in Nat, NEW k \in Nat, n <= k, Sound(c, n)
    PROVE  Sound(c, k)
<1>1. c.messages \in Seq(Loop!Message) /\ c.block \in Nat
  BY DEF Checkpoint
<1>2. \A j \in 1..Len(c.messages) : c.messages[j].of \in Int
  <2>1. \A j \in 1..Len(c.messages) : c.messages[j] \in Loop!Message
    BY <1>1
  <2> QED BY <2>1 DEF Loop!Message
<1>3. Upto(c.messages, k)
  BY <1>2 DEF Upto, Sound, Good
<1> QED BY <1>1, <1>3 DEF Sound, Good

-----------------------------------------------------------------------------
(* What a commit and a clear leave.                                        *)

\* After a commit there is a checkpoint, and no other is new.
LEMMA Committed ==
    ASSUME NEW c \in Checkpoint, Typed, Loop!Commit(c)
    PROVE  /\ rows' \in Seq(Checkpoint) /\ rows' # <<>>
           /\ \A k \in 1..Len(rows') : rows'[k] = c \/ \E j \in 1..Len(rows) : rows'[k] = rows[j]
           /\ saved' \in Seq(Checkpoint) /\ saved' # <<>> /\ Len(saved') <= 3
           /\ \A k \in 1..Len(saved') : saved'[k] = c \/ \E j \in 1..Len(saved) : saved'[k] = saved[j]
<1>1. rows' = Loop!Upsert(c) /\ saved' = Next3(c)
  BY DEF Loop!Commit, Next3
<1>2. /\ rows' \in Seq(Checkpoint) /\ rows' # <<>>
      /\ \A k \in 1..Len(rows') : rows'[k] = c \/ \E j \in 1..Len(rows) : rows'[k] = rows[j]
  BY <1>1, Upserted
<1>3. /\ saved' \in Seq(Checkpoint) /\ saved' # <<>> /\ Len(saved') <= 3
      /\ \A k \in 1..Len(saved') : saved'[k] = c \/ \E j \in 1..Len(saved) : saved'[k] = saved[j]
  BY <1>1, Kept3
<1> QED BY <1>2, <1>3

\* A clear keeps the latest row.
LEMMA Cleared ==
    ASSUME Typed, Loop!Clear
    PROVE  /\ rows' \in Seq(Checkpoint) /\ (rows' = <<>> <=> rows = <<>>)
           /\ cache' = Loop!NoRow \/ (CacheFails /\ cache' = cache)
           /\ \A k \in 1..Len(rows') : \E j \in 1..Len(rows) : rows'[k] = rows[j]
           /\ rows # <<>> => rows' = <<rows[LatestIndex(rows)]>>
<1>1. cache' = Loop!NoRow \/ (CacheFails /\ cache' = cache)
  BY DEF Loop!Clear
<1>2. CASE rows = <<>>
  <2>1. rows' = <<>>
    BY <1>2 DEF Loop!Clear
  <2> QED BY <1>1, <1>2, <2>1
<1>3. CASE rows # <<>>
  <2>1. rows' = <<rows[LatestIndex(rows)]>>
    BY <1>3, LatestRow DEF Loop!Clear
  <2>2. LatestIndex(rows) \in 1..Len(rows) /\ rows[LatestIndex(rows)] \in Checkpoint
    BY <1>3, LatestExists, ElementOfSeq DEF Typed
  <2>3. rows' \in Seq(Checkpoint) /\ Len(rows') = 1 /\ rows'[1] = rows[LatestIndex(rows)]
    BY <2>1, <2>2
  <2>4. \A k \in 1..Len(rows') : k = 1
    BY <2>3
  <2>5. rows' # <<>>
    BY <2>3, SMTT(30)
  <2> QED BY <1>1, <1>3, <2>1, <2>2, <2>3, <2>4, <2>5
<1> QED BY <1>2, <1>3

\* Row makes checkpoints.
LEMMA RowsAreCheckpoints ==
    ASSUME NEW n \in 1..MaxSteps, NEW p \in Loop!Phases, NEW ms \in Seq(Loop!Message), NEW r \in Nat
    PROVE  Loop!Row(n, p, ms, r) \in Checkpoint
  BY DEF Loop!Row, Checkpoint

\* A checkpoint is a row, and never NoRow.
LEMMA CheckpointsAreRows == \A c \in Checkpoint : Loop!IsRow(c) /\ c # Loop!NoRow
  BY DEF Checkpoint, Loop!IsRow, Loop!NoRow, Loop!Phases

-----------------------------------------------------------------------------
\* The types of the proof give those of the model.
LEMMA TypedIsTypeOK == Typed => Loop!TypeOK
<1> SUFFICES ASSUME Typed PROVE Loop!TypeOK
  OBVIOUS
<1>1. \A k \in 1..Len(rows) : Loop!IsRow(rows[k])
  BY CheckpointsAreRows, ElementOfSeq DEF Typed
<1>2. cache = Loop!NoRow \/ Loop!IsRow(cache)
  BY CheckpointsAreRows DEF Typed
<1> QED BY <1>1, <1>2 DEF Typed, Loop!TypeOK, Places

\* One step keeps the types.
LEMMA TypedStep == Typed /\ RunsCounted /\ [Loop!Next]_(Loop!vars) => Typed'
<1> SUFFICES ASSUME Typed, RunsCounted, [Loop!Next]_(Loop!vars) PROVE Typed'
  OBVIOUS
<1> USE DEF Typed, Asking, Answered, Places
<1>1. Loop!User(0) \in Loop!Message /\ Loop!Model(queries) \in Loop!Message /\ Loop!User(block) \in Loop!Message
  BY DEF Loop!Message, Loop!User, Loop!Model
<1>2. \A m \in Loop!Message : Append(messages, m) \in Seq(Loop!Message)
  OBVIOUS
<1>3. \A ms \in Seq(Loop!Message) : Loop!Ask(ms) \in Seq(Loop!Message)
  BY <1>1 DEF Loop!Ask
<1>4. Loop!Prompt \in Seq(Loop!Message)
  BY PromptIsGood
<1>5. Loop!Load # Loop!NoRow => Loop!Load \in Checkpoint /\ saved # <<>>
  BY LoadIsStored
<1>6. Loop!Load \in Checkpoint => Loop!Load.step \in 1..MaxSteps /\ Loop!Load.messages \in Seq(Loop!Message) /\ Loop!Load.block \in Nat
  BY DEF Checkpoint
<1>7. saved # <<>> => Loop!Last(saved) \in Checkpoint
  BY DEF Loop!Last
<1>8. "llm_query" \in Loop!Phases /\ "tool_exec" \in Loop!Phases /\ "tool_done" \in Loop!Phases
  BY DEF Loop!Phases
<1>9. CASE Loop!NoCredential
  <2>1. messages' \in Seq(Loop!Message)
    BY <1>9, <1>4, <1>5, <1>6 DEF Loop!NoCredential
  <2>2. cache' \in Checkpoint \cup {Loop!NoRow} /\ (cache' # Loop!NoRow => saved # <<>>)
    BY <1>9, <1>5 DEF Loop!NoCredential
  <2> QED BY <1>9, <2>1, <2>2 DEF Loop!NoCredential
<1>10. CASE Loop!BeginAnew BY <1>10, <1>4 DEF Loop!BeginAnew, Loop!Going
<1>11. CASE Loop!Resume BY <1>11, <1>5, <1>6 DEF Loop!Resume, Loop!Going
<1>12. CASE Loop!ResumeBlock
  <2>1. Loop!Load # Loop!NoRow
    BY <1>12 DEF Loop!ResumeBlock, Loop!NoRow
  <2> QED BY <1>12, <1>5, <1>6, <2>1 DEF Loop!ResumeBlock, Loop!Going
<1>13. CASE Loop!SaveQuery
  <2>1. Loop!Row(steps + 1, "llm_query", messages, 0) \in Checkpoint
    BY <1>13, <1>8, RowsAreCheckpoints DEF Loop!SaveQuery
  <2>2. Loop!Commit(Loop!Row(steps + 1, "llm_query", messages, 0))
    BY <1>13 DEF Loop!SaveQuery
  <2>3. /\ rows' \in Seq(Checkpoint) /\ rows' # <<>>
        /\ saved' \in Seq(Checkpoint) /\ saved' # <<>> /\ Len(saved') <= 3
    BY <2>1, <2>2, Committed
  <2> QED BY <1>13, <2>3 DEF Loop!SaveQuery
<1>14. CASE Loop!SendQuery BY <1>14, <1>7 DEF Loop!SendQuery, Loop!CacheSaved
<1>15. CASE Loop!QueryRefused BY <1>15, <1>3 DEF Loop!QueryRefused
<1>16. CASE Loop!QueryFailed BY <1>16 DEF Loop!QueryFailed
<1>17. CASE Loop!ReplyUseless BY <1>17, <1>1, <1>2, <1>3 DEF Loop!ReplyUseless
<1>18. CASE Loop!ReplyWithCode BY <1>18, <1>1, <1>2 DEF Loop!ReplyWithCode
<1>19. CASE Loop!SaveExec
  <2>1. Loop!Row(steps, "tool_exec", messages, block) \in Checkpoint
    BY <1>19, <1>8, RowsAreCheckpoints DEF Loop!SaveExec
  <2>2. Loop!Commit(Loop!Row(steps, "tool_exec", messages, block))
    BY <1>19 DEF Loop!SaveExec
  <2>3. /\ rows' \in Seq(Checkpoint) /\ rows' # <<>>
        /\ saved' \in Seq(Checkpoint) /\ saved' # <<>> /\ Len(saved') <= 3
    BY <2>1, <2>2, Committed
  <2> QED BY <1>19, <2>3 DEF Loop!SaveExec
<1>20. CASE Loop!CacheExec BY <1>20, <1>7 DEF Loop!CacheExec, Loop!CacheSaved
<1>21. CASE Loop!RunBlock
  <2>1. block \in Loop!Replies => ran[block] <= falls
    BY <1>21 DEF Loop!RunBlock, RunsCounted
  <2>2. ran' \in [Loop!Replies -> 0..(MaxFalls + 1)]
    <3>1. block \in Loop!Replies => ran[block] + 1 \in 0..(MaxFalls + 1)
      BY <2>1
    <3>2. ran' = [ran EXCEPT ![block] = ran[block] + 1]
      BY <1>21 DEF Loop!RunBlock, Loop!Started
    <3> QED BY <3>1, <3>2
  <2> QED BY <1>21, <2>2 DEF Loop!RunBlock
<1>22. CASE Loop!NoSandbox BY <1>22, <1>1, <1>2 DEF Loop!NoSandbox
<1>23. CASE Loop!BlockStopped
  <2>1. rows' \in Seq(Checkpoint) /\ (rows' = <<>> <=> rows = <<>>) /\ cache' \in {Loop!NoRow, cache}
    BY <1>23, Cleared DEF Loop!BlockStopped
  <2> QED BY <1>23, <2>1 DEF Loop!BlockStopped
<1>24. CASE Loop!BlockEnded BY <1>24, <1>1, <1>2 DEF Loop!BlockEnded
<1>25. CASE Loop!SaveDone
  <2>1. Loop!Row(steps, "tool_done", messages, 0) \in Checkpoint
    BY <1>25, <1>8, RowsAreCheckpoints DEF Loop!SaveDone
  <2>2. Loop!Commit(Loop!Row(steps, "tool_done", messages, 0))
    BY <1>25 DEF Loop!SaveDone
  <2>3. /\ rows' \in Seq(Checkpoint) /\ rows' # <<>>
        /\ saved' \in Seq(Checkpoint) /\ saved' # <<>> /\ Len(saved') <= 3
    BY <2>1, <2>2, Committed
  <2> QED BY <1>25, <2>3 DEF Loop!SaveDone
<1>26. CASE Loop!CacheDone BY <1>26, <1>7 DEF Loop!CacheDone, Loop!CacheSaved
<1>27. CASE Loop!Ceiling BY <1>27 DEF Loop!Ceiling
<1>28. CASE Loop!Settle BY <1>28 DEF Loop!Settle
<1>29. CASE Loop!ClearSettled
  <2>1. rows' \in Seq(Checkpoint) /\ (rows' = <<>> <=> rows = <<>>) /\ cache' \in {Loop!NoRow, cache}
    BY <1>29, Cleared DEF Loop!ClearSettled
  <2> QED BY <1>29, <2>1 DEF Loop!ClearSettled
<1>30. CASE Loop!Evict BY <1>30 DEF Loop!Evict
<1>31. CASE Loop!Fall BY <1>31 DEF Loop!Fall
<1>32. CASE UNCHANGED Loop!vars BY <1>32 DEF Loop!vars
<1> QED BY <1>9, <1>10, <1>11, <1>12, <1>13, <1>14, <1>15, <1>16, <1>17, <1>18, <1>19, <1>20,
           <1>21, <1>22, <1>23, <1>24, <1>25, <1>26, <1>27, <1>28, <1>29, <1>30, <1>31, <1>32
        DEF Loop!Next, Loop!Step

-----------------------------------------------------------------------------
\* One step keeps the conversations sound.
LEMMA SoundsStep == Typed /\ Typed' /\ Sounds /\ [Loop!Next]_(Loop!vars) => Sounds'
<1> SUFFICES ASSUME Typed, Typed', Sounds, [Loop!Next]_(Loop!vars) PROVE Sounds'
  OBVIOUS
<1> DEFINE Kept == /\ \A k \in 1..Len(rows') : Sound(rows'[k], queries')
                   /\ \A k \in 1..Len(saved') : Sound(saved'[k], queries')
                   /\ cache' # Loop!NoRow => Sound(cache', queries')
<1> DEFINE Speaks == /\ loopPc' \in Asking => Good(messages', "user", queries')
                     /\ loopPc' = "sending" => Upto(messages', queries' - 1)
                     /\ loopPc' \in Answered =>
                          /\ Good(messages', "model", queries')
                          /\ block' <= queries' /\ Unanswered(messages', block')
<1> SUFFICES Kept /\ Speaks
  BY DEF Sounds
<1>1. ASSUME UNCHANGED <<rows, saved, queries>>, cache' \in {cache, Loop!NoRow} PROVE Kept
  BY <1>1 DEF Sounds
<1>2. ASSUME UNCHANGED <<rows, saved, queries>>, cache' = Loop!Load PROVE Kept
  BY <1>2, LoadIsSound DEF Sounds
<1>3. ASSUME UNCHANGED <<rows, saved, queries>>, saved # <<>>, Loop!CacheSaved PROVE Kept
  <2>1. Loop!Last(saved) = saved[Len(saved)] /\ Len(saved) \in 1..Len(saved)
    BY <1>3 DEF Typed, Loop!Last
  <2> QED BY <1>3, <2>1 DEF Loop!CacheSaved, Sounds
<1>4. ASSUME NEW c \in Checkpoint, Loop!Commit(c), Sound(c, queries), UNCHANGED <<queries, cache>>
      PROVE  Kept
  BY <1>4, Committed DEF Sounds
<1>5. ASSUME Loop!Clear, UNCHANGED <<saved, queries>> PROVE Kept
  BY <1>5, Cleared DEF Sounds
<1>6. Loop!Load # Loop!NoRow => Sound(Loop!Load, queries) /\ Loop!Load \in Checkpoint
  BY LoadIsSound, LoadIsStored
<1>7. Loop!Load # Loop!NoRow => Loop!Load.phase \in {"llm_query", "tool_exec", "tool_done"}
  BY <1>6 DEF Checkpoint, Loop!Phases
<1>8. messages \in Seq(Loop!Message) /\ queries \in Nat /\ block \in Nat
  BY DEF Typed
<1> USE DEF Asking, Answered
<1>9. CASE Loop!NoCredential
  <2>1. Kept
    BY <1>9, <1>2 DEF Loop!NoCredential
  <2> QED BY <1>9, <2>1 DEF Loop!NoCredential
<1>10. CASE Loop!BeginAnew
  <2>1. Good(Loop!Prompt, "user", queries)
    <3>1. \A k \in 1..Len(Loop!Prompt) : Loop!Prompt[k].of \in Int
      BY PromptIsGood, Numbered
    <3> QED BY <1>8, <3>1, PromptIsGood DEF Good, Upto
  <2>2. Kept
    BY <1>10, <1>1 DEF Loop!BeginAnew
  <2> QED BY <1>10, <2>1, <2>2 DEF Loop!BeginAnew
<1>11. CASE Loop!Resume
  <2>1. Kept
    BY <1>11, <1>2 DEF Loop!Resume
  <2>2. Good(Loop!Load.messages, "user", queries)
    BY <1>11, <1>6 DEF Loop!Resume, Sound
  <2> QED BY <1>11, <2>1, <2>2 DEF Loop!Resume
<1>12. CASE Loop!ResumeBlock
  <2>1. Kept
    BY <1>12, <1>2 DEF Loop!ResumeBlock
  <2>2. Loop!Load # Loop!NoRow /\ Loop!Load.phase = "tool_exec"
    BY <1>12 DEF Loop!ResumeBlock, Loop!NoRow
  <2>3. Good(Loop!Load.messages, "model", queries) /\ Loop!Load.block <= queries
        /\ Unanswered(Loop!Load.messages, Loop!Load.block)
    BY <2>2, <1>6 DEF Sound
  <2> QED BY <1>12, <2>1, <2>3 DEF Loop!ResumeBlock
<1>13. CASE Loop!SaveQuery
  <2> DEFINE c == Loop!Row(steps + 1, "llm_query", messages, 0)
  <2>1. c \in Checkpoint
    BY <1>13, RowsAreCheckpoints DEF Loop!SaveQuery, Typed, Loop!Phases
  <2>2. Sound(c, queries)
    BY <1>13 DEF Loop!SaveQuery, Sounds, Sound, Loop!Row
  <2>3. Loop!Commit(c) /\ UNCHANGED <<queries, cache, messages>> /\ loopPc' = "querySaved" /\ loopPc = "top"
    BY <1>13 DEF Loop!SaveQuery
  <2> HIDE DEF c
  <2>4. Kept
    BY <2>1, <2>2, <2>3, <1>4
  <2> QED BY <2>3, <2>4 DEF Sounds
<1>14. CASE Loop!SendQuery
  <2>1. queries' = queries + 1 /\ UNCHANGED <<rows, saved, messages>> /\ loopPc' = "sending"
        /\ loopPc = "querySaved" /\ saved # <<>>
    BY <1>14 DEF Loop!SendQuery, Typed
  <2>2. \A c \in Checkpoint : Sound(c, queries) => Sound(c, queries')
    BY <1>8, <2>1, SoundLater
  <2>3. cache' = cache \/ cache' = saved[Len(saved)]
    BY <1>14 DEF Loop!SendQuery, Loop!CacheSaved, Loop!Last
  <2>4. Len(saved) \in 1..Len(saved)
    BY <2>1 DEF Typed
  <2>5. /\ \A k \in 1..Len(rows) : rows[k] \in Checkpoint
        /\ \A k \in 1..Len(saved) : saved[k] \in Checkpoint
        /\ cache # Loop!NoRow => cache \in Checkpoint
    BY ElementOfSeq DEF Typed
  <2>6. Kept
    BY <2>1, <2>2, <2>3, <2>4, <2>5 DEF Sounds
  <2>7. Good(messages, "user", queries)
    BY <2>1 DEF Sounds
  <2>8. \A k \in 1..Len(messages) : messages[k].of \in Int
    BY <1>8, Numbered
  <2>9. Upto(messages, queries + 1) /\ Upto(messages, queries)
    BY <1>8, <2>7, <2>8 DEF Good, Upto
  <2>10. Good(messages', "user", queries') /\ Upto(messages', queries' - 1)
    <3>1. messages' = messages /\ queries' = queries + 1 /\ queries' - 1 = queries
      BY <1>8, <2>1
    <3>2. Good(messages, "user", queries + 1) /\ Upto(messages, queries)
      BY <2>7, <2>9 DEF Good
    <3> QED BY <3>1, <3>2, Zenon
  <2> QED BY <2>1, <2>6, <2>10
<1>15. CASE Loop!QueryRefused
  <2>1. Kept
    BY <1>15, <1>1 DEF Loop!QueryRefused
  <2>2. Good(Loop!Ask(messages), "user", queries)
    BY <1>15, <1>8, Asked DEF Loop!QueryRefused, Sounds, Good
  <2> QED BY <1>15, <2>1, <2>2 DEF Loop!QueryRefused
<1>16. CASE Loop!QueryFailed
  <2>1. Kept
    BY <1>16, <1>1 DEF Loop!QueryFailed
  <2> QED BY <1>16, <2>1 DEF Loop!QueryFailed
<1>17. ASSUME loopPc = "sending"
       PROVE  /\ Append(messages, Loop!Model(queries)) \in Seq(Loop!Message)
              /\ Good(Append(messages, Loop!Model(queries)), "model", queries)
              /\ Unanswered(Append(messages, Loop!Model(queries)), queries)
  <2>1. Good(messages, "user", queries) /\ Upto(messages, queries - 1)
    BY <1>17 DEF Sounds
  <2>2. Loop!Model(queries) \in Loop!Message /\ Loop!Model(queries).of = queries /\ Loop!Model(queries).role = "model"
        /\ Loop!Model(queries) # Loop!User(queries) /\ Loop!User(queries).of = queries
    BY <1>8 DEF Loop!Model, Loop!User, Loop!Message
  <2>3. Unanswered(messages, queries)
    <3> SUFFICES ASSUME NEW k \in 1..Len(messages) PROVE messages[k] # Loop!User(queries)
      BY DEF Unanswered
    <3>1. messages[k].of <= queries - 1 /\ messages[k].of \in Int
      BY <2>1, <1>8, Numbered DEF Upto
    <3> QED BY <3>1, <2>2, <1>8
  <2>4. messages # <<>> => messages[Len(messages)].role # "model"
    BY <2>1 DEF Good, EndsWith
  <2> QED BY <1>8, <2>1, <2>2, <2>3, <2>4, Said DEF Good
<1>18. CASE Loop!ReplyUseless
  <2>1. Kept
    BY <1>18, <1>1 DEF Loop!ReplyUseless
  <2>2. Good(Loop!Ask(messages), "user", queries)
    BY <1>18, <1>8, Asked DEF Loop!ReplyUseless, Sounds, Good
  <2>3. Good(Loop!Ask(Append(messages, Loop!Model(queries))), "user", queries)
    BY <1>17, <1>18, <1>8, Asked DEF Loop!ReplyUseless, Good
  <2> QED BY <1>18, <2>1, <2>2, <2>3 DEF Loop!ReplyUseless
<1>19. CASE Loop!ReplyWithCode
  <2>1. Kept
    BY <1>19, <1>1 DEF Loop!ReplyWithCode
  <2> QED BY <1>8, <1>17, <1>19, <2>1 DEF Loop!ReplyWithCode
<1>20. CASE Loop!SaveExec
  <2> DEFINE c == Loop!Row(steps, "tool_exec", messages, block)
  <2>1. c \in Checkpoint
    BY <1>20, RowsAreCheckpoints DEF Loop!SaveExec, Typed, Loop!Phases
  <2>2. Sound(c, queries)
    BY <1>20 DEF Loop!SaveExec, Sounds, Sound, Loop!Row
  <2>3. Loop!Commit(c) /\ UNCHANGED <<queries, cache, messages, block>> /\ loopPc' = "execCached"
        /\ loopPc = "replied"
    BY <1>20 DEF Loop!SaveExec
  <2> HIDE DEF c
  <2>4. Kept
    BY <2>1, <2>2, <2>3, <1>4
  <2> QED BY <2>3, <2>4 DEF Sounds
<1>21. CASE Loop!CacheExec
  <2>1. Kept
    BY <1>21, <1>3 DEF Loop!CacheExec, Typed
  <2> QED BY <1>21, <2>1 DEF Loop!CacheExec, Sounds
<1>22. CASE Loop!RunBlock
  <2>1. Kept
    BY <1>22, <1>1 DEF Loop!RunBlock
  <2> QED BY <1>22, <2>1 DEF Loop!RunBlock, Sounds
<1>23. ASSUME loopPc \in Answered
       PROVE  Good(Append(messages, Loop!User(block)), "user", queries)
  <2>1. Good(messages, "model", queries) /\ block <= queries
    BY <1>23 DEF Sounds
  <2>2. Loop!User(block) \in Loop!Message /\ Loop!User(block).of = block /\ Loop!User(block).role = "user"
    BY <1>8 DEF Loop!User, Loop!Message
  <2>3. messages # <<>> => messages[Len(messages)].role # "user"
    BY <2>1 DEF Good, EndsWith
  <2> QED BY <1>8, <2>1, <2>2, <2>3, Said DEF Good
<1>24. CASE Loop!NoSandbox
  <2>1. Kept
    BY <1>24, <1>1 DEF Loop!NoSandbox
  <2> QED BY <1>24, <1>23, <2>1 DEF Loop!NoSandbox
<1>25. CASE Loop!BlockStopped
  <2>1. Kept
    BY <1>25, <1>5 DEF Loop!BlockStopped
  <2> QED BY <1>25, <2>1 DEF Loop!BlockStopped
<1>26. CASE Loop!BlockEnded
  <2>1. Kept
    BY <1>26, <1>1 DEF Loop!BlockEnded
  <2> QED BY <1>26, <1>23, <2>1 DEF Loop!BlockEnded
<1>27. CASE Loop!SaveDone
  <2> DEFINE c == Loop!Row(steps, "tool_done", messages, 0)
  <2>1. c \in Checkpoint
    BY <1>27, RowsAreCheckpoints DEF Loop!SaveDone, Typed, Loop!Phases
  <2>2. Sound(c, queries)
    BY <1>27 DEF Loop!SaveDone, Sounds, Sound, Loop!Row
  <2>3. Loop!Commit(c) /\ UNCHANGED <<queries, cache, messages>> /\ loopPc' = "doneSaved" /\ loopPc = "ran"
    BY <1>27 DEF Loop!SaveDone
  <2> HIDE DEF c
  <2>4. Kept
    BY <2>1, <2>2, <2>3, <1>4
  <2> QED BY <2>3, <2>4 DEF Sounds
<1>28. CASE Loop!CacheDone
  <2>1. Kept
    BY <1>28, <1>3 DEF Loop!CacheDone, Typed
  <2> QED BY <1>28, <2>1 DEF Loop!CacheDone, Sounds
<1>29. CASE Loop!Ceiling
  <2>1. Kept
    BY <1>29, <1>1 DEF Loop!Ceiling
  <2> QED BY <1>29, <2>1 DEF Loop!Ceiling
<1>30. CASE Loop!Settle
  <2>1. Kept
    BY <1>30, <1>1 DEF Loop!Settle
  <2> QED BY <1>30, <2>1 DEF Loop!Settle
<1>31. CASE Loop!ClearSettled
  <2>1. Kept
    BY <1>31, <1>5 DEF Loop!ClearSettled
  <2> QED BY <1>31, <2>1 DEF Loop!ClearSettled
<1>32. CASE Loop!Evict
  <2>1. Kept
    BY <1>32, <1>1 DEF Loop!Evict
  <2> QED BY <1>32, <2>1 DEF Loop!Evict, Sounds
<1>33. CASE Loop!Fall
  <2>1. Kept
    BY <1>33, <1>1 DEF Loop!Fall
  <2> QED BY <1>33, <2>1 DEF Loop!Fall
<1>34. CASE UNCHANGED Loop!vars BY <1>34 DEF Loop!vars, Sounds
<1> QED BY <1>9, <1>10, <1>11, <1>12, <1>13, <1>14, <1>15, <1>16, <1>18, <1>19, <1>20,
           <1>21, <1>22, <1>24, <1>25, <1>26, <1>27, <1>28, <1>29, <1>30, <1>31, <1>32, <1>33, <1>34
        DEF Loop!Next, Loop!Step

-----------------------------------------------------------------------------
\* One step keeps the count of the runs of a block.
LEMMA CountStep == Typed /\ Sounds /\ RunsCounted /\ [Loop!Next]_(Loop!vars) => RunsCounted'
<1> SUFFICES ASSUME Typed, Sounds, RunsCounted, [Loop!Next]_(Loop!vars) PROVE RunsCounted'
  OBVIOUS
<1>1. /\ queries \in Nat /\ falls \in Nat /\ block \in Nat /\ Loop!Replies \in SUBSET Nat
      /\ \A r \in Loop!Replies : ran[r] \in Nat
  BY DEF Typed, Loop!Replies
<1>2. ASSUME UNCHANGED <<ran, falls, queries>>,
             loopPc' \notin {"idle", "sending", "replied", "execCached", "execSaved"}
      PROVE  RunsCounted'
  BY <1>2 DEF RunsCounted
<1>3. CASE Loop!NoCredential BY <1>2, <1>3 DEF Loop!NoCredential
<1>4. CASE Loop!BeginAnew BY <1>2, <1>4 DEF Loop!BeginAnew
<1>5. CASE Loop!Resume BY <1>2, <1>5 DEF Loop!Resume
<1>6. CASE Loop!ResumeBlock BY <1>6 DEF Loop!ResumeBlock, Loop!Going, RunsCounted
<1>7. CASE Loop!SaveQuery BY <1>2, <1>7 DEF Loop!SaveQuery
<1>8. CASE Loop!SendQuery BY <1>1, <1>8 DEF Loop!SendQuery, RunsCounted
<1>9. CASE Loop!QueryRefused BY <1>2, <1>9 DEF Loop!QueryRefused
<1>10. CASE Loop!QueryFailed BY <1>2, <1>10 DEF Loop!QueryFailed
<1>11. CASE Loop!ReplyUseless BY <1>2, <1>11 DEF Loop!ReplyUseless
<1>12. CASE Loop!ReplyWithCode BY <1>1, <1>12 DEF Loop!ReplyWithCode, RunsCounted
<1>13. CASE Loop!SaveExec BY <1>13 DEF Loop!SaveExec, RunsCounted
<1>14. CASE Loop!CacheExec BY <1>14 DEF Loop!CacheExec, RunsCounted
<1>15. CASE Loop!RunBlock
  <2>1. \A r \in Loop!Replies : ran'[r] = IF r = block THEN ran[r] + 1 ELSE ran[r]
    BY <1>15 DEF Loop!RunBlock, Loop!Started, Typed
  <2>2. block <= queries /\ (block \in Loop!Replies => ran[block] <= falls)
    BY <1>15 DEF Loop!RunBlock, RunsCounted, Sounds, Answered
  <2>3. loopPc' = "running" /\ UNCHANGED <<falls, queries>>
    BY <1>15 DEF Loop!RunBlock
  <2> QED BY <1>1, <2>1, <2>2, <2>3 DEF RunsCounted
<1>16. CASE Loop!NoSandbox BY <1>2, <1>16 DEF Loop!NoSandbox
<1>17. CASE Loop!BlockStopped BY <1>2, <1>17 DEF Loop!BlockStopped
<1>18. CASE Loop!BlockEnded BY <1>2, <1>18 DEF Loop!BlockEnded
<1>19. CASE Loop!SaveDone BY <1>2, <1>19 DEF Loop!SaveDone
<1>20. CASE Loop!CacheDone BY <1>2, <1>20 DEF Loop!CacheDone
<1>21. CASE Loop!Ceiling BY <1>2, <1>21 DEF Loop!Ceiling
<1>22. CASE Loop!Settle BY <1>2, <1>22 DEF Loop!Settle
<1>23. CASE Loop!ClearSettled BY <1>2, <1>23 DEF Loop!ClearSettled
<1>24. CASE Loop!Evict BY <1>24 DEF Loop!Evict, RunsCounted
<1>25. CASE Loop!Fall BY <1>1, <1>25 DEF Loop!Fall, RunsCounted
<1>26. CASE UNCHANGED Loop!vars BY <1>26 DEF Loop!vars, RunsCounted
<1> QED BY <1>3, <1>4, <1>5, <1>6, <1>7, <1>8, <1>9, <1>10, <1>11, <1>12, <1>13, <1>14, <1>15,
           <1>16, <1>17, <1>18, <1>19, <1>20, <1>21, <1>22, <1>23, <1>24, <1>25, <1>26
        DEF Loop!Next, Loop!Step

-----------------------------------------------------------------------------
(* The order of the checkpoints, when Redis answers.                       *)

\* What load returns is the newest checkpoint, or one it may follow.
LagsOf(c) ==
    \/ c = Newest
    \/ Len(saved) >= 2 /\ c = saved[Len(saved) - 1] /\ Follows(c, Newest)
    \/ /\ Len(saved) = 3 /\ c = saved[1] /\ c.phase = "llm_query"
       /\ Newest.phase = "llm_query" /\ Newest.step = c.step + 1

\* load: the newest checkpoint, or the one before that it followed.
LEMMA LoadLags ==
    ASSUME Typed, Ordered
    PROVE  /\ saved # <<>> => Loop!Load # Loop!NoRow /\ LagsOf(Loop!Load) /\ Loop!Latest = Newest
           /\ saved = <<>> => Loop!Load = Loop!NoRow /\ Loop!Latest = Loop!NoRow
<1>1. CASE saved = <<>>
  BY <1>1 DEF Typed, Loop!Load, Loop!Latest
<1>2. CASE saved # <<>>
  <2>1. rows # <<>> /\ rows \in Seq(Checkpoint) /\ Ascends(rows) /\ rows[Len(rows)] = Newest
    BY <1>2 DEF Typed, Ordered
  <2>2. Loop!Latest = Newest
    BY <2>1, LatestRow, LatestOfAscending
  <2>3. Newest \in Checkpoint
    BY <1>2 DEF Typed, Newest
  <2>4. CASE cache = Loop!NoRow
    BY <1>2, <2>2, <2>3, <2>4, CheckpointsAreRows DEF Loop!Load, LagsOf
  <2>5. CASE cache # Loop!NoRow
    BY <1>2, <2>2, <2>5 DEF Loop!Load, LagsOf, Ordered, Lags
  <2> QED BY <2>4, <2>5
<1> QED BY <1>1, <1>2

\* A commit of a checkpoint that is not before the newest one.
LEMMA CommitOrders ==
    ASSUME NEW c \in Checkpoint, Typed, Ordered, Loop!Commit(c),
           saved # <<>> => Rank(Newest) <= Rank(c)
    PROVE  /\ Ascends(rows') /\ rows'[Len(rows')] = c /\ Newest' = c /\ saved' # <<>>
           /\ saved # <<>> /\ Loop!SameKey(c, Newest) =>
                 /\ Len(saved') = Len(saved)
                 /\ \A k \in 1..(Len(saved) - 1) : saved'[k] = saved[k]
           /\ saved # <<>> /\ ~Loop!SameKey(c, Newest) =>
                 /\ Len(saved') = IF Len(saved) < 3 THEN Len(saved) + 1 ELSE 3
                 /\ saved'[Len(saved') - 1] = Newest
                 /\ Len(saved) >= 2 => saved'[Len(saved') - 2] = saved[Len(saved) - 1]
<1>1. rows' = Loop!Upsert(c) /\ saved' = Next3(c)
  BY DEF Loop!Commit, Next3
<1>2. CASE saved = <<>>
  <2>1. rows = <<>>
    BY <1>2 DEF Typed
  <2>2. Ascends(rows)
    BY <2>1 DEF Ascends
  <2> QED BY <1>1, <1>2, <2>1, <2>2, UpsertedLast, Kept3 DEF Newest
<1>3. CASE saved # <<>>
  <2>1. Ascends(rows) /\ Rank(rows[Len(rows)]) <= Rank(c)
    BY <1>3 DEF Ordered
  <2> QED BY <1>1, <1>3, <2>1, UpsertedLast, Kept3 DEF Newest
<1> QED BY <1>2, <1>3

\* One step keeps the order.
LEMMA OrderStep == ~CacheFails /\ Typed /\ Typed' /\ Ordered /\ [Loop!Next]_(Loop!vars) => Ordered'
<1> SUFFICES ASSUME ~CacheFails, Typed, Typed', Ordered, [Loop!Next]_(Loop!vars), saved' # <<>>
             PROVE  Ascends(rows)' /\ (rows[Len(rows)] = Newest)' /\ Lags' /\ Placed'
  BY DEF Ordered
<1>1. /\ steps \in Nat /\ saved \in Seq(Checkpoint) /\ Len(saved) \in Nat /\ Len(saved) <= 3
      /\ (saved # <<>> => Len(saved) >= 1 /\ Newest \in Checkpoint)
  BY DEF Typed, Newest
<1>2. \A c \in Checkpoint : c.step \in Nat /\ c.phase \in {"llm_query", "tool_exec", "tool_done"}
  BY DEF Checkpoint, Loop!Phases
<1>3. \A c \in Checkpoint : c # Loop!NoRow
  BY CheckpointsAreRows
<1>4. ASSUME UNCHANGED <<rows, saved>>, cache' \in {cache, Loop!NoRow}, Placed'
      PROVE  Ordered'
  BY <1>4 DEF Ordered, Lags, Newest
<1>5. ASSUME UNCHANGED <<rows, saved>>, cache' \in {Newest, Loop!NoRow}, Placed'
      PROVE  Ordered'
  BY <1>5 DEF Ordered, Lags, Newest
<1>6. ASSUME UNCHANGED <<rows, saved>>, cache' = Loop!Load, Placed'
      PROVE  Ordered'
  BY <1>6, LoadLags DEF Ordered, Lags, LagsOf, Newest
<1>7. ASSUME Loop!Clear, UNCHANGED saved, Placed'
      PROVE  Ordered'
  <2>1. rows # <<>> /\ rows \in Seq(Checkpoint) /\ saved # <<>>
        /\ Ascends(rows) /\ rows[Len(rows)] = Newest
    BY <1>7 DEF Typed, Ordered
  <2>2. rows' = <<Newest>> /\ cache' = Loop!NoRow
    BY <1>7, <2>1, Cleared, LatestOfAscending
  <2>3. Newest' = Newest
    BY <1>7 DEF Newest
  <2>4. Len(rows') = 1 /\ rows'[Len(rows')] = Newest'
    BY <2>2, <2>3
  <2>5. Ascends(rows)'
    BY <2>4 DEF Ascends
  <2> QED BY <1>7, <2>2, <2>4, <2>5 DEF Ordered, Lags
<1>8. ASSUME Loop!CacheSaved PROVE cache' = Newest
  BY <1>8 DEF Loop!CacheSaved, Newest, Loop!Last
<1> SUFFICES Ordered'
  BY DEF Ordered
<1>9. CASE Loop!NoCredential
  <2>1. Placed'
    BY <1>9 DEF Loop!NoCredential, Placed
  <2> QED BY <1>6, <1>9, <2>1 DEF Loop!NoCredential
<1>10. CASE Loop!BeginAnew
  <2> QED BY <1>10, LoadLags DEF Loop!BeginAnew
<1>11. CASE Loop!Resume
  <2>1. saved # <<>> /\ Loop!Load \in Checkpoint /\ Loop!Load.phase # "tool_exec" /\ LagsOf(Loop!Load)
    BY <1>11, LoadIsStored, LoadLags DEF Loop!Resume
  <2>2. \/ Newest.step <= Loop!Load.step
        \/ Newest.step = Loop!Load.step + 1 /\ Newest.phase = "llm_query"
    BY <1>1, <1>2, <2>1 DEF LagsOf, Follows
  <2>3. Placed'
    <3>1. steps' = Loop!Load.step /\ loopPc' = "top" /\ cache' = Loop!Load /\ Newest' = Newest
      BY <1>11 DEF Loop!Resume, Newest
    <3> QED BY <2>1, <2>2, <3>1 DEF Placed, IsAt
  <2> QED BY <1>6, <1>11, <2>3 DEF Loop!Resume
<1>12. CASE Loop!ResumeBlock
  <2>1. Loop!Load # Loop!NoRow /\ Loop!Load.phase = "tool_exec"
    BY <1>12 DEF Loop!ResumeBlock, Loop!NoRow
  <2>2. saved # <<>> /\ Loop!Load \in Checkpoint /\ LagsOf(Loop!Load)
    BY <2>1, LoadIsStored, LoadLags
  <2>3. Newest.step = Loop!Load.step /\ Newest.phase \in {"tool_exec", "tool_done"}
    BY <2>1, <2>2 DEF LagsOf, Follows
  <2>4. Placed'
    <3>1. steps' = Loop!Load.step /\ loopPc' = "execSaved" /\ cache' = Loop!Load /\ Newest' = Newest
      BY <1>12 DEF Loop!ResumeBlock, Newest
    <3> QED BY <2>1, <2>3, <3>1 DEF Placed, IsAt
  <2> QED BY <1>6, <1>12, <2>4 DEF Loop!ResumeBlock
<1>13. CASE Loop!SaveQuery
  <2> DEFINE c == Loop!Row(steps + 1, "llm_query", messages, 0)
  <2>1. c \in Checkpoint
    BY <1>13, RowsAreCheckpoints DEF Loop!SaveQuery, Typed, Loop!Phases
  <2>2. Loop!Commit(c) /\ UNCHANGED <<cache, steps, messages>> /\ loopPc' = "querySaved" /\ loopPc = "top"
    BY <1>13 DEF Loop!SaveQuery
  <2>3. c.step = steps + 1 /\ c.phase = "llm_query" /\ c = Loop!Row(steps + 1, "llm_query", messages, 0)
    BY DEF Loop!Row
  <2> HIDE DEF c
  <2>4. saved # <<>> => Newest.step <= steps \/ Loop!SameKey(c, Newest)
    BY <2>2, <2>3 DEF Ordered, Placed, IsAt, Loop!SameKey
  <2>5. saved # <<>> => Rank(Newest) <= Rank(c)
    BY <1>1, <1>2, <2>3, <2>4 DEF Rank, Loop!SameKey
  <2>6. Ascends(rows') /\ rows'[Len(rows')] = c /\ Newest' = c
    BY <2>1, <2>2, <2>5, CommitOrders
  <2>7. Placed'
    BY <2>2, <2>3, <2>6 DEF Placed
  <2>8. Lags'
    <3>1. CASE cache = Loop!NoRow
      BY <2>2, <3>1 DEF Lags
    <3>2. CASE cache # Loop!NoRow
      <4>1. saved # <<>> /\ cache \in Checkpoint /\ cache.step = steps /\ cache.phase # "tool_exec"
        BY <2>2, <3>2 DEF Typed, Ordered, Placed
      <4>2. CASE Loop!SameKey(c, Newest)
        <5>1. /\ Len(saved') = Len(saved)
              /\ \A k \in 1..(Len(saved) - 1) : saved'[k] = saved[k]
          BY <2>1, <2>2, <2>5, <4>1, <4>2, CommitOrders
        <5>2. Newest.step = steps + 1 /\ Newest.phase = "llm_query"
          BY <2>3, <4>2 DEF Loop!SameKey
        <5>3. cache # Newest
          BY <1>1, <4>1, <5>2
        <5>4. CASE Len(saved) >= 2 /\ cache = saved[Len(saved) - 1]
          <6>1. Len(saved) - 1 \in 1..(Len(saved) - 1)
            BY <1>1, <5>4
          <6>2. cache' = saved'[Len(saved') - 1] /\ Len(saved') >= 2
            BY <2>2, <5>1, <5>4, <6>1
          <6>3. Follows(cache', Newest')
            BY <1>2, <2>2, <2>3, <2>6, <4>1 DEF Follows
          <6> QED BY <6>2, <6>3 DEF Lags
        <5>5. CASE Len(saved) = 3 /\ cache = saved[1] /\ cache.phase = "llm_query"
          <6>1. 1 \in 1..(Len(saved) - 1)
            BY <5>5
          <6>2. cache' = saved'[1] /\ Len(saved') = 3
            BY <2>2, <5>1, <5>5, <6>1
          <6> QED BY <2>2, <2>3, <2>6, <4>1, <5>5, <6>2 DEF Lags
        <5> QED BY <3>2, <4>1, <5>3, <5>4, <5>5 DEF Ordered, Lags
      <4>3. CASE ~Loop!SameKey(c, Newest)
        <5>1. /\ Len(saved') = IF Len(saved) < 3 THEN Len(saved) + 1 ELSE 3
              /\ saved'[Len(saved') - 1] = Newest
              /\ Len(saved) >= 2 => saved'[Len(saved') - 2] = saved[Len(saved) - 1]
          BY <2>1, <2>2, <2>5, <4>1, <4>3, CommitOrders
        <5>2. Newest.step <= steps
          BY <2>4, <4>1, <4>3
        <5>3. CASE cache = Newest
          <6>1. Follows(cache', Newest')
            BY <1>2, <2>2, <2>3, <2>6, <4>1 DEF Follows
          <6>2. Len(saved') >= 2
            BY <1>1, <4>1, <5>1
          <6> QED BY <2>2, <5>1, <5>3, <6>1, <6>2 DEF Lags
        <5>4. CASE Len(saved) >= 2 /\ cache = saved[Len(saved) - 1] /\ Follows(cache, Newest)
          <6>1. cache.phase = "llm_query"
            BY <1>1, <1>2, <4>1, <5>2, <5>4 DEF Follows
          <6>2. Len(saved') = 3
            BY <1>1, <5>1, <5>4
          <6>3. saved'[1] = cache
            <7>1. saved'[Len(saved') - 2] = cache /\ Len(saved') - 2 = 1
              BY <5>1, <5>4, <6>2
            <7> QED BY <7>1
          <6> QED BY <2>2, <2>3, <2>6, <4>1, <6>1, <6>2, <6>3 DEF Lags
        <5>5. ~(Len(saved) = 3 /\ cache = saved[1] /\ cache.phase = "llm_query"
                /\ Newest.phase = "llm_query" /\ Newest.step = cache.step + 1)
          BY <1>1, <4>1, <5>2
        <5> QED BY <3>2, <4>1, <5>3, <5>4, <5>5 DEF Ordered, Lags
      <4> QED BY <4>2, <4>3
    <3> QED BY <3>1, <3>2
  <2> QED BY <2>6, <2>7, <2>8 DEF Ordered
<1>14. CASE Loop!SendQuery
  <2>1. saved # <<>> /\ Newest = Loop!Row(steps + 1, "llm_query", messages, 0)
    BY <1>14 DEF Loop!SendQuery, Typed, Ordered, Placed, Asking
  <2>2. Newest' = Newest /\ cache' = Newest /\ steps' = steps + 1 /\ loopPc' = "sending"
    BY <1>8, <1>14 DEF Loop!SendQuery, Newest
  <2>3. Placed'
    BY <2>1, <2>2 DEF Placed, IsAt, Loop!Row
  <2> QED BY <1>5, <1>14, <2>2, <2>3 DEF Loop!SendQuery
<1>15. ASSUME loopPc = "sending", UNCHANGED <<steps, rows, cache, saved>>, loopPc' = "top"
       PROVE  Ordered'
  <2>1. Newest.step = steps /\ Newest.phase = "llm_query" /\ cache \in {Loop!NoRow, Newest}
        /\ saved # <<>> /\ Newest' = Newest
    BY <1>15 DEF Typed, Ordered, Placed, IsAt, Asking, Newest
  <2>2. Placed'
    BY <1>1, <1>15, <2>1 DEF Placed, IsAt
  <2> QED BY <1>4, <1>15, <2>2
<1>16. CASE Loop!QueryRefused BY <1>15, <1>16 DEF Loop!QueryRefused
<1>17. CASE Loop!QueryFailed
  <2>1. Placed'
    BY <1>17 DEF Loop!QueryFailed, Placed
  <2> QED BY <1>4, <1>17, <2>1 DEF Loop!QueryFailed
<1>18. CASE Loop!ReplyUseless BY <1>15, <1>18 DEF Loop!ReplyUseless
<1>19. CASE Loop!ReplyWithCode
  <2>1. Placed'
    BY <1>19 DEF Loop!ReplyWithCode, Ordered, Placed, IsAt, Newest
  <2> QED BY <1>4, <1>19, <2>1 DEF Loop!ReplyWithCode
<1>20. CASE Loop!SaveExec
  <2> DEFINE c == Loop!Row(steps, "tool_exec", messages, block)
  <2>1. c \in Checkpoint
    BY <1>20, RowsAreCheckpoints DEF Loop!SaveExec, Typed, Loop!Phases, Answered
  <2>2. Loop!Commit(c) /\ UNCHANGED <<cache, steps, messages, block>> /\ loopPc' = "execCached"
        /\ loopPc = "replied"
    BY <1>20 DEF Loop!SaveExec
  <2>3. c.step = steps /\ c.phase = "tool_exec" /\ c = Loop!Row(steps, "tool_exec", messages, block)
    BY DEF Loop!Row
  <2> HIDE DEF c
  <2>4. saved # <<>> /\ Newest.step = steps /\ Newest.phase = "llm_query" /\ cache \in {Loop!NoRow, Newest}
    BY <2>2 DEF Typed, Ordered, Placed, IsAt, Answered
  <2>5. Rank(Newest) <= Rank(c) /\ ~Loop!SameKey(c, Newest)
    BY <1>1, <2>3, <2>4 DEF Rank, Loop!SameKey
  <2>6. Ascends(rows') /\ rows'[Len(rows')] = c /\ Newest' = c
        /\ Len(saved') = (IF Len(saved) < 3 THEN Len(saved) + 1 ELSE 3)
        /\ saved'[Len(saved') - 1] = Newest
    BY <2>1, <2>2, <2>4, <2>5, CommitOrders
  <2>7. Placed'
    BY <2>2, <2>3, <2>6 DEF Placed
  <2>8. Lags'
    <3>1. Follows(Newest, Newest') /\ Len(saved') >= 2
      BY <1>1, <2>3, <2>4, <2>6 DEF Follows
    <3> QED BY <2>2, <2>4, <2>6, <3>1 DEF Lags
  <2> QED BY <2>6, <2>7, <2>8 DEF Ordered
<1>21. CASE Loop!CacheExec
  <2>1. saved # <<>> /\ Newest = Loop!Row(steps, "tool_exec", messages, block)
    BY <1>21 DEF Loop!CacheExec, Typed, Ordered, Placed, Answered
  <2>2. Newest' = Newest /\ cache' = Newest /\ steps' = steps /\ loopPc' = "execSaved"
    BY <1>8, <1>21 DEF Loop!CacheExec, Newest
  <2>3. Placed'
    BY <2>1, <2>2 DEF Placed, IsAt, Loop!Row
  <2> QED BY <1>5, <1>21, <2>2, <2>3 DEF Loop!CacheExec
<1>22. CASE Loop!RunBlock
  <2>1. Placed'
    BY <1>22 DEF Loop!RunBlock, Ordered, Placed, IsAt, Newest
  <2> QED BY <1>4, <1>22, <2>1 DEF Loop!RunBlock
<1>23. CASE Loop!NoSandbox
  <2>1. Placed'
    BY <1>23 DEF Loop!NoSandbox, Ordered, Placed, IsAt, Newest
  <2> QED BY <1>4, <1>23, <2>1 DEF Loop!NoSandbox
<1>24. CASE Loop!BlockStopped
  <2>1. Placed'
    BY <1>24 DEF Loop!BlockStopped, Placed
  <2> QED BY <1>7, <1>24, <2>1 DEF Loop!BlockStopped
<1>25. CASE Loop!BlockEnded
  <2>1. Placed'
    BY <1>25 DEF Loop!BlockEnded, Ordered, Placed, IsAt, Newest
  <2> QED BY <1>4, <1>25, <2>1 DEF Loop!BlockEnded
<1>26. CASE Loop!SaveDone
  <2> DEFINE c == Loop!Row(steps, "tool_done", messages, 0)
  <2>1. c \in Checkpoint
    BY <1>26, RowsAreCheckpoints DEF Loop!SaveDone, Typed, Loop!Phases, Asking
  <2>2. Loop!Commit(c) /\ UNCHANGED <<cache, steps, messages>> /\ loopPc' = "doneSaved" /\ loopPc = "ran"
    BY <1>26 DEF Loop!SaveDone
  <2>3. c.step = steps /\ c.phase = "tool_done" /\ c = Loop!Row(steps, "tool_done", messages, 0)
    BY DEF Loop!Row
  <2> HIDE DEF c
  <2>4. /\ saved # <<>> /\ Newest.step = steps /\ Newest.phase \in {"tool_exec", "tool_done"}
        /\ cache # Loop!NoRow => cache.step = steps /\ cache.phase = "tool_exec"
    BY <2>2 DEF Typed, Ordered, Placed, IsAt, Asking
  <2>5. Rank(Newest) <= Rank(c)
    BY <1>1, <2>3, <2>4 DEF Rank
  <2>6. Ascends(rows') /\ rows'[Len(rows')] = c /\ Newest' = c
    BY <2>1, <2>2, <2>5, CommitOrders
  <2>7. Placed'
    BY <2>2, <2>3, <2>6 DEF Placed
  <2>8. Lags'
    <3>1. CASE cache = Loop!NoRow
      BY <2>2, <3>1 DEF Lags
    <3>2. CASE cache # Loop!NoRow
      <4>1. Follows(cache', Newest')
        BY <2>2, <2>3, <2>4, <2>6, <3>2 DEF Follows
      <4>2. CASE Newest.phase = "tool_exec"
        <5>1. ~Loop!SameKey(c, Newest)
          BY <2>3, <4>2 DEF Loop!SameKey
        <5>2. /\ Len(saved') = IF Len(saved) < 3 THEN Len(saved) + 1 ELSE 3
              /\ saved'[Len(saved') - 1] = Newest
          BY <2>1, <2>2, <2>4, <2>5, <5>1, CommitOrders
        <5>3. cache = Newest
          BY <2>4, <3>2, <4>2 DEF Ordered, Lags, Follows
        <5>4. Len(saved') >= 2
          BY <1>1, <2>4, <5>2
        <5> QED BY <2>2, <4>1, <5>2, <5>3, <5>4 DEF Lags
      <4>3. CASE Newest.phase = "tool_done"
        <5>1. Loop!SameKey(c, Newest)
          BY <2>3, <2>4, <4>3 DEF Loop!SameKey
        <5>2. /\ Len(saved') = Len(saved)
              /\ \A k \in 1..(Len(saved) - 1) : saved'[k] = saved[k]
          BY <2>1, <2>2, <2>4, <2>5, <5>1, CommitOrders
        <5>3. Len(saved) >= 2 /\ cache = saved[Len(saved) - 1]
          BY <2>4, <3>2, <4>3 DEF Ordered, Lags, Follows
        <5>4. Len(saved) - 1 \in 1..(Len(saved) - 1)
          BY <1>1, <5>3
        <5>5. cache' = saved'[Len(saved') - 1] /\ Len(saved') >= 2
          BY <2>2, <5>2, <5>3, <5>4
        <5> QED BY <4>1, <5>5 DEF Lags
      <4> QED BY <2>4, <4>2, <4>3
    <3> QED BY <3>1, <3>2
  <2> QED BY <2>6, <2>7, <2>8 DEF Ordered
<1>27. CASE Loop!CacheDone
  <2>1. saved # <<>> /\ Newest = Loop!Row(steps, "tool_done", messages, 0)
    BY <1>27 DEF Loop!CacheDone, Typed, Ordered, Placed, Asking
  <2>2. Newest' = Newest /\ cache' = Newest /\ steps' = steps /\ loopPc' = "top"
    BY <1>8, <1>27 DEF Loop!CacheDone, Newest
  <2>3. Placed'
    BY <1>1, <2>1, <2>2 DEF Placed, IsAt, Loop!Row
  <2> QED BY <1>5, <1>27, <2>2, <2>3 DEF Loop!CacheDone
<1>28. CASE Loop!Ceiling
  <2>1. Placed'
    BY <1>28 DEF Loop!Ceiling, Placed
  <2> QED BY <1>4, <1>28, <2>1 DEF Loop!Ceiling
<1>29. CASE Loop!Settle
  <2>1. Placed'
    BY <1>29 DEF Loop!Settle, Placed
  <2> QED BY <1>4, <1>29, <2>1 DEF Loop!Settle
<1>30. CASE Loop!ClearSettled
  <2>1. Placed'
    BY <1>30 DEF Loop!ClearSettled, Placed
  <2> QED BY <1>7, <1>30, <2>1 DEF Loop!ClearSettled
<1>31. CASE Loop!Evict
  <2>1. Placed'
    BY <1>31 DEF Loop!Evict, Ordered, Placed, IsAt, Newest
  <2> QED BY <1>4, <1>31, <2>1 DEF Loop!Evict
<1>32. CASE Loop!Fall
  <2>1. Placed'
    BY <1>32 DEF Loop!Fall, Placed
  <2> QED BY <1>4, <1>32, <2>1 DEF Loop!Fall
<1>33. CASE UNCHANGED Loop!vars
  <2>1. Placed'
    BY <1>33 DEF Loop!vars, Ordered, Placed, IsAt, Newest
  <2> QED BY <1>4, <1>33, <2>1 DEF Loop!vars
<1> QED BY <1>9, <1>10, <1>11, <1>12, <1>13, <1>14, <1>16, <1>17, <1>18, <1>19, <1>20,
           <1>21, <1>22, <1>23, <1>24, <1>25, <1>26, <1>27, <1>28, <1>29, <1>30, <1>31, <1>32, <1>33
        DEF Loop!Next, Loop!Step

-----------------------------------------------------------------------------
\* The invariant is inductive.
LEMMA LoopInit == Loop!Init => LoopIInv
<1> SUFFICES ASSUME Loop!Init PROVE LoopIInv
  OBVIOUS
<1> USE DEF Loop!Init
<1>1. Typed
  BY DEF Typed, Places, Asking, Answered
<1>2. Sounds
  BY DEF Sounds, Asking, Answered
<1>3. RunsCounted
  BY DEF RunsCounted
<1>4. Ordered
  BY DEF Ordered
<1> QED BY <1>1, <1>2, <1>3, <1>4 DEF LoopIInv

\* ... and every step keeps it.
LEMMA LoopStep == LoopIInv /\ [Loop!Next]_(Loop!vars) => LoopIInv'
  BY TypedStep, SoundsStep, CountStep, OrderStep DEF LoopIInv

\* What it says of load and of what is sent.
LEMMA LoopLags == LoopIInv => Loop!LoadLagsByTwo
<1> SUFFICES ASSUME LoopIInv, saved # <<>>, ~CacheFails
             PROVE  \/ Loop!Load = Loop!Last(saved)
                    \/ Len(saved) >= 2 /\ Loop!Load = Loop!Last(Loop!Front(saved))
                    \/ Loop!Load = Head(saved) /\ Loop!Load.phase = "llm_query" /\ Loop!Last(saved).phase = "llm_query"
  BY DEF Loop!LoadLagsByTwo
<1>1. LagsOf(Loop!Load)
  BY LoadLags DEF LoopIInv
<1>2. saved \in Seq(Checkpoint) /\ Loop!Last(saved) = Newest
  BY DEF LoopIInv, Typed, Loop!Last, Newest
<1>3. Len(saved) >= 2 => Loop!Last(Loop!Front(saved)) = saved[Len(saved) - 1]
  BY <1>2 DEF Loop!Last, Loop!Front
<1>4. Head(saved) = saved[1]
  BY <1>2
<1> QED BY <1>1, <1>2, <1>3, <1>4 DEF LagsOf

\* What is sent alternates.
LEMMA LoopAlternates == LoopIInv => Loop!SentIsAlternating
  BY DEF LoopIInv, Typed, Sounds, Loop!SentIsAlternating, Asking, Good, EndsWith, Alternates, Loop!Last

-----------------------------------------------------------------------------
\* Outputs are kept.
Holds(ms, r) == Loop!User(r) \in Loop!ToSet(ms)

\* A conversation that holds an output holds it when it grows.
LEMMA HoldsOn ==
    ASSUME NEW ms \in Seq(Loop!Message), NEW m \in Loop!Message, NEW r, Holds(ms, r)
    PROVE  Holds(Append(ms, m), r) /\ Holds(Loop!Ask(ms), r)
<1>1. \A x \in Loop!Message : Holds(Append(ms, x), r)
  <2> SUFFICES ASSUME NEW x \in Loop!Message PROVE Holds(Append(ms, x), r)
    OBVIOUS
  <2>1. PICK k \in DOMAIN ms : ms[k] = Loop!User(r)
    BY DEF Holds, Loop!ToSet
  <2>2. k \in DOMAIN Append(ms, x) /\ Append(ms, x)[k] = Loop!User(r)
    BY <2>1
  <2> QED BY <2>2 DEF Holds, Loop!ToSet
<1>2. Loop!User(0) \in Loop!Message
  BY DEF Loop!User, Loop!Message
<1> QED BY <1>1, <1>2 DEF Loop!Ask

\* What a step does to outputs and to the runs of a block.
LEMMA OutputsStep ==
    LoopIInv /\ LoopIInv' /\ [Loop!Next]_(Loop!vars) => Loop!KeepsOutputs /\ Loop!RepeatsInFlight
<1> SUFFICES ASSUME LoopIInv, LoopIInv', [Loop!Next]_(Loop!vars), ~CacheFails, NEW r \in Loop!Replies
             PROVE  (Loop!Known(r) => Loop!Known(r)') /\ (ran'[r] > ran[r] => ~Loop!Known(r))
  BY DEF Loop!KeepsOutputs, Loop!RepeatsInFlight
<1> USE DEF LoopIInv
<1>1. ASSUME Loop!Known(r) PROVE Loop!Known(r)'
  <2>1. saved # <<>> /\ Holds(Newest.messages, r)
    <3>1. Holds(Loop!Latest.messages, r)
      BY <1>1 DEF Loop!Known, Holds
    <3>2. ~Holds(<<>>, r)
      BY DEF Holds, Loop!ToSet
    <3> QED BY <3>1, <3>2, LoadLags DEF Loop!NoRow
  <2>2. /\ cache = Loop!NoRow \/ Holds(cache.messages, r)
        /\ loopPc = "idle" \/ Holds(messages, r)
    BY <1>1 DEF Loop!Known, Holds
  <2>3. Loop!Load # Loop!NoRow /\ Holds(Loop!Load.messages, r)
    <3>1. CASE cache # Loop!NoRow
      BY <2>1, <2>2, <3>1 DEF Loop!Load
    <3>2. CASE cache = Loop!NoRow
      BY <2>1, <3>2, LoadLags DEF Loop!Load
    <3> QED BY <3>1, <3>2
  <2>4. ASSUME saved' # <<>>, Holds(Newest'.messages, r),
               cache' = Loop!NoRow \/ Holds(cache'.messages, r),
               loopPc' = "idle" \/ Holds(messages', r)
        PROVE  Loop!Known(r)'
    <3>1. rows' \in Seq(Checkpoint) /\ rows' # <<>> /\ Ascends(rows') /\ rows'[Len(rows')] = Newest'
      BY <2>4 DEF Typed, Ordered
    <3>2. Loop!Latest' = rows'[LatestIndex(rows')]
      BY <3>1 DEF Loop!Latest, LatestIndex
    <3>3. Loop!Latest' = Newest'
      BY <3>1, <3>2, LatestOfAscending
    <3> QED BY <2>4, <3>3 DEF Loop!Known, Holds
  <2>5. messages \in Seq(Loop!Message) /\ Loop!Model(queries) \in Loop!Message /\ Loop!User(block) \in Loop!Message
    BY DEF Typed, Loop!Model, Loop!User, Loop!Message
  <2>6. saved' = saved => Newest' = Newest
    BY DEF Newest
  <2>7. ASSUME NEW c \in Checkpoint, Loop!Commit(c), c.messages = messages, loopPc # "idle",
               UNCHANGED <<cache, messages>>
        PROVE  Loop!Known(r)'
    <3>1. saved' = Next3(c)
      BY <2>7 DEF Loop!Commit, Next3
    <3>2. saved' # <<>> /\ Newest' = c
      BY <2>7, <3>1, Kept3 DEF Newest
    <3> QED BY <2>2, <2>4, <2>7, <3>2
  <2>8. Loop!CacheSaved => cache' = Newest
    BY DEF Loop!CacheSaved, Newest, Loop!Last
  <2>9. Loop!Clear => cache' = Loop!NoRow
    BY DEF Loop!Clear
  <2>10. CASE Loop!NoCredential BY <2>1, <2>3, <2>4, <2>6, <2>10 DEF Loop!NoCredential
  <2>11. CASE Loop!BeginAnew BY <2>3, <2>11 DEF Loop!BeginAnew
  <2>12. CASE Loop!Resume BY <2>1, <2>3, <2>4, <2>6, <2>12 DEF Loop!Resume
  <2>13. CASE Loop!ResumeBlock BY <2>1, <2>3, <2>4, <2>6, <2>13 DEF Loop!ResumeBlock
  <2>14. CASE Loop!SaveQuery
    <3>1. Loop!Row(steps + 1, "llm_query", messages, 0) \in Checkpoint
      BY <2>14, RowsAreCheckpoints DEF Loop!SaveQuery, Typed, Loop!Phases
    <3> QED BY <2>7, <2>14, <3>1 DEF Loop!SaveQuery, Loop!Row
  <2>15. CASE Loop!SendQuery BY <2>1, <2>2, <2>4, <2>6, <2>8, <2>15 DEF Loop!SendQuery
  <2>16. CASE Loop!QueryRefused BY <2>1, <2>2, <2>4, <2>5, <2>6, <2>16, HoldsOn DEF Loop!QueryRefused
  <2>17. CASE Loop!QueryFailed BY <2>1, <2>2, <2>4, <2>6, <2>17 DEF Loop!QueryFailed
  <2>18. CASE Loop!ReplyUseless
    <3>1. Holds(messages, r)
      BY <2>2, <2>18 DEF Loop!ReplyUseless
    <3>2. Append(messages, Loop!Model(queries)) \in Seq(Loop!Message)
      BY <2>5
    <3>3. Holds(messages', r)
      BY <2>5, <2>18, <3>1, <3>2, HoldsOn DEF Loop!ReplyUseless
    <3> QED BY <2>1, <2>2, <2>4, <2>6, <2>18, <3>3 DEF Loop!ReplyUseless
  <2>19. CASE Loop!ReplyWithCode BY <2>1, <2>2, <2>4, <2>5, <2>6, <2>19, HoldsOn DEF Loop!ReplyWithCode
  <2>20. CASE Loop!SaveExec
    <3>1. Loop!Row(steps, "tool_exec", messages, block) \in Checkpoint
      BY <2>20, RowsAreCheckpoints DEF Loop!SaveExec, Typed, Loop!Phases, Answered
    <3> QED BY <2>7, <2>20, <3>1 DEF Loop!SaveExec, Loop!Row
  <2>21. CASE Loop!CacheExec BY <2>1, <2>2, <2>4, <2>6, <2>8, <2>21 DEF Loop!CacheExec
  <2>22. CASE Loop!RunBlock BY <2>1, <2>2, <2>4, <2>6, <2>22 DEF Loop!RunBlock
  <2>23. CASE Loop!NoSandbox BY <2>1, <2>2, <2>4, <2>5, <2>6, <2>23, HoldsOn DEF Loop!NoSandbox
  <2>24. CASE Loop!BlockStopped BY <2>1, <2>2, <2>4, <2>6, <2>9, <2>24 DEF Loop!BlockStopped
  <2>25. CASE Loop!BlockEnded BY <2>1, <2>2, <2>4, <2>5, <2>6, <2>25, HoldsOn DEF Loop!BlockEnded
  <2>26. CASE Loop!SaveDone
    <3>1. Loop!Row(steps, "tool_done", messages, 0) \in Checkpoint
      BY <2>26, RowsAreCheckpoints DEF Loop!SaveDone, Typed, Loop!Phases, Asking
    <3> QED BY <2>7, <2>26, <3>1 DEF Loop!SaveDone, Loop!Row
  <2>27. CASE Loop!CacheDone BY <2>1, <2>2, <2>4, <2>6, <2>8, <2>27 DEF Loop!CacheDone
  <2>28. CASE Loop!Ceiling BY <2>1, <2>2, <2>4, <2>6, <2>28 DEF Loop!Ceiling
  <2>29. CASE Loop!Settle BY <2>1, <2>2, <2>4, <2>6, <2>29 DEF Loop!Settle
  <2>30. CASE Loop!ClearSettled BY <2>1, <2>2, <2>4, <2>6, <2>9, <2>30 DEF Loop!ClearSettled
  <2>31. CASE Loop!Evict BY <2>1, <2>2, <2>4, <2>6, <2>31 DEF Loop!Evict
  <2>32. CASE Loop!Fall BY <2>1, <2>2, <2>4, <2>6, <2>32 DEF Loop!Fall
  <2>33. CASE UNCHANGED Loop!vars BY <2>1, <2>2, <2>4, <2>6, <2>33 DEF Loop!vars
  <2> QED BY <2>10, <2>11, <2>12, <2>13, <2>14, <2>15, <2>16, <2>17, <2>18, <2>19, <2>20, <2>21,
             <2>22, <2>23, <2>24, <2>25, <2>26, <2>27, <2>28, <2>29, <2>30, <2>31, <2>32, <2>33
          DEF Loop!Next, Loop!Step
<1>2. ASSUME ran'[r] > ran[r] PROVE ~Loop!Known(r)
  <2>1. ran[r] \in Int
    BY DEF Typed
  <2>2. Loop!RunBlock
    <3> SUFFICES ASSUME ~Loop!RunBlock PROVE ran' = ran
      BY <1>2, <2>1
    <3>1. CASE Loop!NoCredential \/ Loop!BeginAnew \/ Loop!Resume \/ Loop!ResumeBlock \/ Loop!SaveQuery \/ Loop!SendQuery
      BY <3>1 DEF Loop!NoCredential, Loop!BeginAnew, Loop!Resume, Loop!ResumeBlock, Loop!SaveQuery, Loop!SendQuery
    <3>2. CASE Loop!QueryRefused \/ Loop!QueryFailed \/ Loop!ReplyUseless \/ Loop!ReplyWithCode \/ Loop!SaveExec
               \/ Loop!CacheExec
      BY <3>2 DEF Loop!QueryRefused, Loop!QueryFailed, Loop!ReplyUseless, Loop!ReplyWithCode, Loop!SaveExec, Loop!CacheExec
    <3>3. CASE Loop!NoSandbox \/ Loop!BlockStopped \/ Loop!BlockEnded \/ Loop!SaveDone \/ Loop!CacheDone \/ Loop!Ceiling
      BY <3>3 DEF Loop!NoSandbox, Loop!BlockStopped, Loop!BlockEnded, Loop!SaveDone, Loop!CacheDone, Loop!Ceiling
    <3>4. CASE Loop!Settle \/ Loop!ClearSettled \/ Loop!Evict \/ Loop!Fall \/ UNCHANGED Loop!vars
      BY <3>4 DEF Loop!Settle, Loop!ClearSettled, Loop!Evict, Loop!Fall, Loop!vars
    <3> QED BY <3>1, <3>2, <3>3, <3>4 DEF Loop!Next, Loop!Step
  <2>3. r = block
    BY <1>2, <2>1, <2>2 DEF Loop!RunBlock, Loop!Started, Typed
  <2>4. loopPc = "execSaved" /\ Unanswered(messages, r) /\ messages \in Seq(Loop!Message)
    BY <2>2, <2>3 DEF Loop!RunBlock, Sounds, Answered, Typed
  <2>5. Loop!User(r) \notin Loop!ToSet(messages)
    BY <2>4 DEF Unanswered, Loop!ToSet
  <2> QED BY <2>4, <2>5 DEF Loop!Known
<1> QED BY <1>1, <1>2

-----------------------------------------------------------------------------
(* The calls of the model.                                                 *)

ModelParts == [n : Nat, text : BOOLEAN]
ModelBits == [text : BOOLEAN, ns : Seq(Nat)]
ModelBodies == Seq(ModelBits)

\* A sequence by its elements, and those of a body.
LEMMA ModelSeq ==
    ASSUME NEW S, NEW N \in Nat, NEW f \in [1..N -> S]
    PROVE f \in Seq(S) /\ Len(f) = N
<1>1. f \in UNION {[1..n -> S] : n \in Nat}
  OBVIOUS
<1>2. f \in Seq(S)
  BY <1>1, SeqDef
<1>3. DOMAIN f = 1..Len(f) /\ DOMAIN f = 1..N /\ Len(f) \in Nat
  BY <1>2, LenProperties
<1>4. QED
  BY <1>2, <1>3

\* The elements of a body.
LEMMA ModelElements ==
    ASSUME NEW b \in ModelBodies
    PROVE /\ Len(b) \in Nat /\ b \in [1..Len(b) -> ModelBits]
          /\ \A i \in 1..Len(b) : b[i] \in ModelBits /\ b[i].ns \in Seq(Nat)
<1>1. Len(b) \in Nat /\ b \in [1..Len(b) -> ModelBits]
  BY LenProperties DEF ModelBodies
<1>2. QED
  BY <1>1 DEF ModelBits

\* A set of naturals that has the successor of what it has, from 0 on, has all to a bound.
LEMMA ModelGoes ==
    ASSUME NEW N \in Nat, NEW G, 0 \in G,
           \A i \in 0..(N - 1) : i \in G => i + 1 \in G
    PROVE \A i \in 0..N : i \in G
<1> DEFINE B == {i \in 0..N : i \notin G}
<1>1. SUFFICES ASSUME B # {} PROVE FALSE
  OBVIOUS
<1>2. B \subseteq Nat
  OBVIOUS
<1>3. PICK b \in B : \A u \in B : ~(<<u, b>> \in OpToRel(<, Nat))
  BY <1>1, <1>2, NatLessThanWellFounded, WFMin
<1>4. b # 0 /\ b \in 1..N
  OBVIOUS
<1>5. b - 1 \in 0..(N - 1) /\ b - 1 \in 0..N /\ (b - 1) + 1 = b /\ b - 1 < b
  BY <1>4
<1>6. b - 1 \notin B
  <2>1. b - 1 \in Nat /\ b \in Nat
    BY <1>4
  <2>2. <<b - 1, b>> \in OpToRel(<, Nat)
    BY <2>1, <1>5 DEF OpToRel
  <2>3. QED
    BY <2>2, <1>3
<1>7. QED
  BY <1>3, <1>5, <1>6

\* The parts are joined one after another.
LEMMA ModelMerging ==
    ASSUME NEW parts, Len(parts) \in Nat
    PROVE \E f : /\ Model!MergedParts(parts) = f[Len(parts)]
                 /\ f = [i \in 0..Len(parts) |->
                           IF i = 0 THEN <<>> ELSE Model!Joined(f[i - 1], parts[i])]
<1> DEFINE N == Len(parts)
           F(f, k) == [i \in 0..k |-> IF i = 0 THEN <<>> ELSE Model!Joined(f[i - 1], parts[i])]
           G == {k \in 0..N : \E f : f = F(f, k)}
<1>1. 0 \in G
  <2> DEFINE e == [i \in 0..0 |-> <<>>]
  <2>1. e = F(e, 0) /\ 0 \in 0..N
    OBVIOUS
  <2> HIDE DEF e
  <2>2. QED
    BY <2>1
<1>2. ASSUME NEW k \in 0..(N - 1), k \in G PROVE k + 1 \in G
  <2>1. PICK f : f = F(f, k)
    BY <1>2
  <2> DEFINE g == [i \in 0..(k + 1) |-> IF i = k + 1 THEN Model!Joined(f[k], parts[k + 1]) ELSE f[i]]
  <2>2. g = F(g, k + 1)
    <3>1. ASSUME NEW i \in 0..(k + 1)
          PROVE g[i] = IF i = 0 THEN <<>> ELSE Model!Joined(g[i - 1], parts[i])
      <4>1. CASE i = 0
        <5>1. 0 \in 0..k /\ g[0] = f[0]
          OBVIOUS
        <5>2. f[0] = <<>>
          BY <2>1, <5>1
        <5>3. QED
          BY <4>1, <5>1, <5>2
      <4>2. CASE i = k + 1
        <5>1. i - 1 = k /\ k \in 0..(k + 1) /\ k # k + 1 /\ g[k] = f[k]
          BY <4>2
        <5>2. QED
          BY <4>2, <5>1
      <4>3. CASE i # 0 /\ i # k + 1
        <5>1. i \in 1..k /\ i - 1 \in 0..(k + 1) /\ i - 1 # k + 1
          BY <4>3
        <5>2. g[i] = f[i] /\ g[i - 1] = f[i - 1]
          BY <5>1, <4>3
        <5>3. f[i] = Model!Joined(f[i - 1], parts[i])
          BY <2>1, <5>1
        <5>4. QED
          BY <4>3, <5>2, <5>3
      <4>4. QED
        BY <4>1, <4>2, <4>3
    <3>2. QED
      BY <3>1
  <2>3. k + 1 \in 0..N
    OBVIOUS
  <2> HIDE DEF g
  <2>4. QED
    BY <2>2, <2>3
<1> HIDE DEF G
<1>3. \A i \in 0..N : i \in G
  BY <1>1, <1>2, ModelGoes
<1>4. N \in G
  BY <1>3
<1>5. \E f : f = F(f, N)
  BY <1>4 DEF G
<1> DEFINE h == CHOOSE f : f = F(f, N)
<1>6. h = F(h, N)
  BY <1>5
<1>7. Model!MergedParts(parts) = h[N]
  BY DEF Model!MergedParts
<1> HIDE DEF h
<1>8. QED
  BY <1>6, <1>7

\* ... and flattened one after another.
LEMMA ModelFlat ==
    ASSUME NEW body, Len(body) \in Nat
    PROVE \E f : /\ Model!Flat(body) = f[Len(body)]
                 /\ f = [i \in 0..Len(body) |-> IF i = 0 THEN <<>> ELSE f[i - 1] \o body[i].ns]
<1> DEFINE N == Len(body)
           Glued(ns, i) == ns \o body[i].ns
           F(f, k) == [i \in 0..k |-> IF i = 0 THEN <<>> ELSE Glued(f[i - 1], i)]
           G == {k \in 0..N : \E f : f = F(f, k)}
<1> HIDE DEF Glued
<1>1. 0 \in G
  <2> DEFINE e == [i \in 0..0 |-> <<>>]
  <2>1. e = F(e, 0) /\ 0 \in 0..N
    OBVIOUS
  <2> HIDE DEF e
  <2>2. QED
    BY <2>1
<1>2. ASSUME NEW k \in 0..(N - 1), k \in G PROVE k + 1 \in G
  <2>1. PICK f : f = F(f, k)
    BY <1>2
  <2> DEFINE g == [i \in 0..(k + 1) |-> IF i = k + 1 THEN Glued(f[k], k + 1) ELSE f[i]]
  <2>2. g = F(g, k + 1)
    <3>1. ASSUME NEW i \in 0..(k + 1)
          PROVE g[i] = IF i = 0 THEN <<>> ELSE Glued(g[i - 1], i)
      <4>1. CASE i = 0
        <5>1. 0 \in 0..k /\ g[0] = f[0]
          OBVIOUS
        <5>2. f[0] = <<>>
          BY <2>1, <5>1
        <5>3. QED
          BY <4>1, <5>1, <5>2
      <4>2. CASE i = k + 1
        <5>1. i - 1 = k /\ k \in 0..(k + 1) /\ k # k + 1 /\ g[k] = f[k]
          BY <4>2
        <5>2. QED
          BY <4>2, <5>1
      <4>3. CASE i # 0 /\ i # k + 1
        <5>1. i \in 1..k /\ i - 1 \in 0..(k + 1) /\ i - 1 # k + 1
          BY <4>3
        <5>2. g[i] = f[i] /\ g[i - 1] = f[i - 1]
          BY <5>1, <4>3
        <5>3. f[i] = Glued(f[i - 1], i)
          BY <2>1, <5>1
        <5>4. QED
          BY <4>3, <5>2, <5>3
      <4>4. QED
        BY <4>1, <4>2, <4>3
    <3>2. QED
      BY <3>1
  <2>3. k + 1 \in 0..N
    OBVIOUS
  <2> HIDE DEF g
  <2>4. QED
    BY <2>2, <2>3
<1> HIDE DEF G
<1>3. \A i \in 0..N : i \in G
  BY <1>1, <1>2, ModelGoes
<1>4. N \in G
  BY <1>3
<1>5. \E f : f = F(f, N)
  BY <1>4 DEF G
<1> DEFINE h == CHOOSE f : f = F(f, N)
<1>6. h = F(h, N)
  BY <1>5
<1>7. Model!Flat(body) = h[N]
  BY DEF Model!Flat, Glued
<1> HIDE DEF h
<1>8. h = [i \in 0..N |-> IF i = 0 THEN <<>> ELSE h[i - 1] \o body[i].ns]
  BY Zenon, <1>6 DEF Glued
<1>9. QED
  BY <1>7, <1>8

\* Nothing is flat.
LEMMA ModelFlatNone == Model!Flat(<<>>) = <<>>
<1> DEFINE e == <<>>
<1>1. Len(e) = 0 /\ Len(e) \in Nat
  OBVIOUS
<1> HIDE DEF e
<1>2. PICK f : Model!Flat(e) = f[0] /\ f = [i \in 0..0 |-> IF i = 0 THEN <<>> ELSE f[i - 1] \o e[i].ns]
  <2>1. PICK f : /\ Model!Flat(e) = f[Len(e)]
                 /\ f = [i \in 0..Len(e) |-> IF i = 0 THEN <<>> ELSE f[i - 1] \o e[i].ns]
    BY Zenon, <1>1, ModelFlat
  <2>2. QED
    BY Zenon, <2>1, <1>1
<1>3. 0 \in 0..0
  OBVIOUS
<1>4. QED
  BY Zenon, <1>2, <1>3 DEF e

\* A body of one more part has what that part has after the rest.
LEMMA ModelFlatMore ==
    ASSUME NEW b \in ModelBodies, NEW c \in ModelBodies, Len(c) = Len(b) + 1,
           \A i \in 1..Len(b) : c[i] = b[i]
    PROVE Model!Flat(b) \in Seq(Nat) /\ Model!Flat(c) = Model!Flat(b) \o c[Len(c)].ns
<1>1. /\ Len(b) \in Nat /\ Len(c) \in Nat
      /\ \A i \in 1..Len(b) : b[i].ns \in Seq(Nat)
  BY ModelElements
<1>2. PICK f : /\ Model!Flat(b) = f[Len(b)]
               /\ f = [i \in 0..Len(b) |-> IF i = 0 THEN <<>> ELSE f[i - 1] \o b[i].ns]
  BY <1>1, ModelFlat
<1>3. PICK g : /\ Model!Flat(c) = g[Len(c)]
               /\ g = [i \in 0..Len(c) |-> IF i = 0 THEN <<>> ELSE g[i - 1] \o c[i].ns]
  BY <1>1, ModelFlat
<1> DEFINE S == {i \in 0..Len(b) : f[i] = g[i] /\ f[i] \in Seq(Nat)}
<1>4. f[0] = <<>> /\ g[0] = <<>>
  <2>1. 0 \in 0..Len(b) /\ 0 \in 0..Len(c)
    BY <1>1
  <2>2. QED
    BY Zenon, <2>1, <1>2, <1>3
<1>5. \A i \in 1..Len(b) : f[i] = f[i - 1] \o b[i].ns
  <2>1. \A i \in 1..Len(b) : i \in 0..Len(b) /\ i # 0
    OBVIOUS
  <2>2. QED
    BY Zenon, <2>1, <1>2
<1>6. \A i \in 1..Len(c) : g[i] = g[i - 1] \o c[i].ns
  <2>1. \A i \in 1..Len(c) : i \in 0..Len(c) /\ i # 0
    OBVIOUS
  <2>2. QED
    BY Zenon, <2>1, <1>3
<1>7. 0 \in S
  <2>1. <<>> \in Seq(Nat)
    OBVIOUS
  <2>2. 0 \in 0..Len(b) /\ f[0] = g[0] /\ f[0] \in Seq(Nat)
    BY <2>1, <1>1, <1>4
  <2>3. QED
    BY Zenon, <2>2
<1>8. ASSUME NEW i \in 0..(Len(b) - 1), i \in S PROVE i + 1 \in S
  <2>1. i + 1 \in 1..Len(b) /\ i + 1 \in 1..Len(c) /\ (i + 1) - 1 = i /\ i + 1 \in 0..Len(b)
    BY <1>1
  <2>2. f[i + 1] = f[i] \o b[i + 1].ns /\ g[i + 1] = g[i] \o c[i + 1].ns
    BY <2>1, <1>5, <1>6
  <2>3. c[i + 1] = b[i + 1] /\ b[i + 1].ns \in Seq(Nat)
    BY <2>1, <1>1
  <2>4. f[i] \o b[i + 1].ns \in Seq(Nat)
    BY <2>3, <1>8, ConcatProperties
  <2>5. QED
    BY <2>1, <2>2, <2>3, <2>4, <1>8
<1> HIDE DEF S
<1>9. \A i \in 0..Len(b) : i \in S
  BY <1>1, <1>7, <1>8, ModelGoes
<1>10. f[Len(b)] = g[Len(b)] /\ f[Len(b)] \in Seq(Nat)
  BY <1>1, <1>9 DEF S
<1>11. g[Len(c)] = g[Len(b)] \o c[Len(c)].ns
  <2>1. Len(c) \in 1..Len(c) /\ Len(c) - 1 = Len(b)
    BY <1>1
  <2>2. QED
    BY <2>1, <1>6
<1>12. QED
  BY <1>2, <1>3, <1>10, <1>11

\* A part that is joined comes after what was there.
LEMMA ModelJoined ==
    ASSUME NEW m \in ModelBodies, NEW part \in ModelParts
    PROVE /\ Model!Joined(m, part) \in ModelBodies
          /\ Model!Flat(m) \in Seq(Nat)
          /\ Model!Flat(Model!Joined(m, part)) = Append(Model!Flat(m), part.n)
<1> DEFINE L == Len(m)
           one == [text |-> part.text, ns |-> <<part.n>>]
<1>1. L \in Nat /\ part.n \in Nat /\ one.ns = <<part.n>>
      /\ one \in ModelBits
  BY ModelElements DEF ModelParts, ModelBits
<1>2. Append(m, one) \in ModelBodies /\ Len(Append(m, one)) = L + 1
      /\ Append(m, one)[L + 1] = one /\ \A i \in 1..L : Append(m, one)[i] = m[i]
  <2> HIDE DEF one
  <2>1. QED
    BY <1>1, AppendProperties DEF ModelBodies
<1>3. Model!Flat(m) \in Seq(Nat) /\ Model!Flat(Append(m, one)) = Model!Flat(m) \o <<part.n>>
  <2> HIDE DEF one
  <2>1. QED
    BY <1>1, <1>2, ModelFlatMore
<1>4. Model!Flat(m) \o <<part.n>> = Append(Model!Flat(m), part.n)
  BY <1>1, <1>3, AppendIsConcat
<1>5. CASE m # <<>> /\ m[Len(m)].text = part.text
  <2> DEFINE ns == Append(m[L].ns, part.n)
             j == [m EXCEPT ![L].ns = ns]
             b == [i \in 1..(L - 1) |-> m[i]]
  <2>1. L \in 1..L /\ L - 1 \in Nat
    <3>1. L # 0
      BY <1>5, EmptySeq DEF ModelBodies
    <3>2. QED
      BY <3>1, <1>1
  <2>2. m[L].ns \in Seq(Nat) /\ m[L] \in ModelBits
    BY <2>1, ModelElements
  <2>3. ns \in Seq(Nat)
    BY <2>2, <1>1, AppendProperties
  <2>4. m \in [1..L -> ModelBits]
    BY ModelElements
  <2> HIDE DEF ns
  <2>5. j \in [1..L -> ModelBits] /\ j[L].ns = ns
        /\ \A i \in 1..L : i # L => j[i] = m[i]
    <3>1. [m[L] EXCEPT !.ns = ns] \in ModelBits /\ [m[L] EXCEPT !.ns = ns].ns = ns
      BY <2>2, <2>3 DEF ModelBits
    <3>2. QED
      BY <3>1, <2>1, <2>4
  <2>6. j \in ModelBodies /\ Len(j) = L
    <3> HIDE DEF j
    <3>1. QED
      BY <2>5, <1>1, ModelSeq DEF ModelBodies
  <2>7. b \in ModelBodies /\ Len(b) = L - 1 /\ \A i \in 1..(L - 1) : b[i] = m[i]
    <3>1. b \in [1..(L - 1) -> ModelBits]
      BY <2>1, <2>4
    <3>2. \A i \in 1..(L - 1) : b[i] = m[i]
      OBVIOUS
    <3> HIDE DEF b
    <3>3. QED
      BY <3>1, <3>2, <2>1, ModelSeq DEF ModelBodies
  <2> HIDE DEF j, b
  <2>8. Model!Flat(b) \in Seq(Nat) /\ Model!Flat(m) = Model!Flat(b) \o m[L].ns
    BY <2>1, <2>7, <1>1, ModelFlatMore
  <2>9. Model!Flat(j) = Model!Flat(b) \o ns
    <3>1. \A i \in 1..(L - 1) : j[i] = b[i]
      BY <2>5, <2>7, <1>1
    <3>2. Len(j) = Len(b) + 1
      BY <2>6, <2>7, <1>1
    <3>3. Model!Flat(j) = Model!Flat(b) \o j[Len(j)].ns
      BY <3>1, <3>2, <2>6, <2>7, ModelFlatMore
    <3>4. QED
      BY <3>3, <2>5, <2>6
  <2>10. Model!Flat(b) \o ns = Append(Model!Flat(b) \o m[L].ns, part.n)
    <3>1. ns = m[L].ns \o <<part.n>>
      BY <2>2, <1>1, AppendIsConcat DEF ns
    <3>2. <<part.n>> \in Seq(Nat)
      BY <1>1
    <3>3. Model!Flat(b) \o (m[L].ns \o <<part.n>>) = (Model!Flat(b) \o m[L].ns) \o <<part.n>>
      <4> DEFINE x == Model!Flat(b)
                 y == m[L].ns
                 z == <<part.n>>
      <4>1. x \in Seq(Nat) /\ y \in Seq(Nat) /\ z \in Seq(Nat)
        BY <3>2, <2>2, <2>8
      <4> HIDE DEF x, y, z
      <4>2. (x \o y) \o z = x \o (y \o z)
        BY <4>1, ConcatAssociative
      <4>3. QED
        BY Zenon, <4>2 DEF x, y, z
    <3>4. Model!Flat(b) \o m[L].ns \in Seq(Nat)
      BY <2>2, <2>8, ConcatProperties
    <3>5. QED
      BY <3>1, <3>3, <3>4, <1>1, AppendIsConcat
  <2>11. Model!Joined(m, part) = j
    <3>1. Model!Joined(m, part) = [m EXCEPT ![Len(m)].ns = Append(@, part.n)]
      BY Zenon, <1>5 DEF Model!Joined
    <3>2. QED
      BY Zenon, <3>1 DEF j, ns
  <2>12. QED
    BY <1>3, <2>6, <2>8, <2>9, <2>10, <2>11
<1>6. CASE ~(m # <<>> /\ m[Len(m)].text = part.text)
  <2>1. Model!Joined(m, part) = Append(m, one)
    BY Zenon, <1>6 DEF Model!Joined
  <2> HIDE DEF one
  <2>2. QED
    BY <2>1, <1>2, <1>3, <1>4
<1>7. QED
  BY <1>5, <1>6

\* What is kept, joined, is what was kept.
LEMMA ModelWhole ==
    ASSUME NEW parts \in Seq(ModelParts)
    PROVE /\ Model!MergedParts(parts) \in ModelBodies
          /\ Model!Flat(Model!MergedParts(parts)) = [i \in DOMAIN parts |-> parts[i].n]
<1>1. Len(parts) \in Nat /\ DOMAIN parts = 1..Len(parts)
      /\ \A i \in 1..Len(parts) : parts[i] \in ModelParts /\ parts[i].n \in Nat
  <2>1. Len(parts) \in Nat /\ DOMAIN parts = 1..Len(parts)
    BY LenProperties
  <2>2. \A i \in 1..Len(parts) : parts[i] \in ModelParts
    BY ElementOfSeq
  <2>3. QED
    BY <2>1, <2>2 DEF ModelParts
<1>2. PICK h : /\ Model!MergedParts(parts) = h[Len(parts)]
               /\ h = [i \in 0..Len(parts) |-> IF i = 0 THEN <<>> ELSE Model!Joined(h[i - 1], parts[i])]
  BY <1>1, ModelMerging
<1> DEFINE S == {i \in 0..Len(parts) :
                   h[i] \in ModelBodies /\ Model!Flat(h[i]) = [j \in 1..i |-> parts[j].n]}
<1>3. h[0] = <<>>
  <2>1. 0 \in 0..Len(parts)
    BY <1>1
  <2>2. QED
    BY Zenon, <2>1, <1>2
<1>4. \A i \in 1..Len(parts) : h[i] = Model!Joined(h[i - 1], parts[i])
  <2>1. \A i \in 1..Len(parts) : i \in 0..Len(parts) /\ i # 0
    OBVIOUS
  <2>2. QED
    BY Zenon, <2>1, <1>2
<1>5. 0 \in S
  <2>1. <<>> = [j \in 1..0 |-> parts[j].n]
    OBVIOUS
  <2>2. <<>> \in ModelBodies
    BY DEF ModelBodies
  <2>3. QED
    BY <2>1, <2>2, <1>1, <1>3, ModelFlatNone
<1>6. ASSUME NEW i \in 0..(Len(parts) - 1), i \in S PROVE i + 1 \in S
  <2>1. i + 1 \in 1..Len(parts) /\ (i + 1) - 1 = i /\ i + 1 \in 0..Len(parts)
    BY <1>1
  <2>2. h[i + 1] = Model!Joined(h[i], parts[i + 1])
    BY <2>1, <1>4
  <2>3. h[i] \in ModelBodies /\ Model!Flat(h[i]) = [j \in 1..i |-> parts[j].n]
    BY <1>6
  <2>4. /\ h[i + 1] \in ModelBodies
        /\ Model!Flat(h[i + 1]) = Append(Model!Flat(h[i]), parts[i + 1].n)
    BY <2>1, <2>2, <2>3, <1>1, ModelJoined
  <2>5. Append([j \in 1..i |-> parts[j].n], parts[i + 1].n) = [j \in 1..(i + 1) |-> parts[j].n]
    <3> DEFINE q == [j \in 1..i |-> parts[j].n]
    <3>1. q \in Seq(Nat) /\ Len(q) = i /\ \A j \in 1..i : q[j] = parts[j].n
      <4>1. q \in [1..i -> Nat]
        BY <2>1, <1>1
      <4>2. \A j \in 1..i : q[j] = parts[j].n
        OBVIOUS
      <4> HIDE DEF q
      <4>3. q \in Seq(Nat)
        BY <4>1
      <4>4. QED
        BY <4>1, <4>2, <4>3, LenProperties
    <3> HIDE DEF q
    <3>2. parts[i + 1].n \in Nat
      BY <2>1, <1>1
    <3> DEFINE r == Append(q, parts[i + 1].n)
    <3>3. r \in Seq(Nat) /\ Len(r) = i + 1 /\ r[i + 1] = parts[i + 1].n
          /\ \A j \in 1..i : r[j] = q[j]
      BY <3>1, <3>2, AppendProperties
    <3>4. DOMAIN r = 1..(i + 1)
      BY <3>3, LenProperties
    <3>4a. r = [j \in 1..(i + 1) |-> r[j]]
      BY <3>3, <3>4
    <3>5. \A j \in 1..(i + 1) : r[j] = parts[j].n
      <4>1. \A j \in 1..(i + 1) : j \in 1..i \/ j = i + 1
        OBVIOUS
      <4> HIDE DEF r
      <4>2. QED
        BY <4>1, <3>1, <3>3
    <3> HIDE DEF r
    <3>6. r = [j \in 1..(i + 1) |-> parts[j].n]
      BY <3>4a, <3>5
    <3>7. QED
      BY Zenon, <3>6 DEF q, r
  <2>6. QED
    BY <2>1, <2>3, <2>4, <2>5
<1> HIDE DEF S
<1>7. \A i \in 0..Len(parts) : i \in S
  BY <1>1, <1>5, <1>6, ModelGoes
<1>8. Len(parts) \in S
  <2>1. Len(parts) \in 0..Len(parts)
    BY <1>1
  <2>2. QED
    BY <2>1, <1>7
<1>9. h[Len(parts)] \in ModelBodies /\ Model!Flat(h[Len(parts)]) = [j \in 1..Len(parts) |-> parts[j].n]
  BY <1>8 DEF S
<1>10. QED
  BY <1>1, <1>2, <1>9

Numbers(parts) == [i \in DOMAIN parts |-> parts[i].n]
ModelStops == {Model!None, "STOP", "SAFETY"}
Tryable == Sessions \cup {Model!NoSession}
ModelCalls ==
    [first : Tryable, session : Tryable, tried : SUBSET Tryable, attempt : 0..Retries,
     started : BOOLEAN, body : ModelBodies, ended : ModelStops, hollow : BOOLEAN]
ModelReplies == [parts : Seq(ModelParts), stop : ModelStops]

ModelRows ==
    /\ opal \in [Sessions -> [enabled : BOOLEAN, cooling : BOOLEAN]]
    /\ cached \subseteq Sessions

\* The one that is blamed is the one the loop goes on with, and a call began with it.
ModelTurn ==
    /\ run \in {"off", "ready", "call", "stream", "failed"} /\ modelSteps \in 0..ModelSteps
    /\ session \in Tryable /\ blamed \in Tryable /\ error \in Model!Errors \cup {Model!None}
    /\ run # "off" => blamed = session
ModelCall ==
    /\ call \in ModelCalls
    /\ run \in {"call", "stream", "failed"} => call.first = session

\* What is kept, what a stream has on its own, and what is shown.
ModelKept ==
    /\ reply \in ModelReplies /\ own \in Seq(ModelParts) /\ shown \in Seq(ModelParts)
    /\ count \in 0..MaxParts /\ Len(reply.parts) + Len(own) <= count
ModelShown ==
    /\ run # "stream" => own = <<>>
    /\ call.started => shown = reply.parts /\ own = <<>>
    /\ ~call.started => reply.parts = <<>> /\ (run = "stream" => shown = own)
ModelSaid == run = "call" => Model!Flat(call.body) = Numbers(reply.parts)

\* A reply that has a reason while its call goes on was finished without text.
ModelStopped ==
    /\ run \in {"call", "stream"} /\ reply.stop # Model!None => call.hollow
    /\ run = "ready" /\ reply.stop # Model!None => call.ended = reply.stop \/ call.hollow

ModelInv ==
    ModelRows /\ ModelTurn /\ ModelCall /\ ModelKept /\ ModelShown /\ ModelSaid /\ ModelStopped

\* What is not touched stays so.
LEMMA ModelFrames ==
    /\ UNCHANGED <<opal, cached>> /\ ModelRows => ModelRows'
    /\ UNCHANGED <<run, modelSteps, session, blamed, error>> /\ ModelTurn => ModelTurn'
    /\ UNCHANGED <<run, session, call>> /\ ModelCall => ModelCall'
    /\ UNCHANGED <<reply, own, shown, count>> /\ ModelKept => ModelKept'
    /\ UNCHANGED <<run, call, own, shown, reply>> /\ ModelShown => ModelShown'
    /\ UNCHANGED <<run, call, reply>> /\ ModelSaid => ModelSaid'
    /\ UNCHANGED <<run, call, reply>> /\ ModelStopped => ModelStopped'
<1>1. UNCHANGED <<opal, cached>> /\ ModelRows => ModelRows'
  BY Zenon DEF ModelRows
<1>2. UNCHANGED <<run, modelSteps, session, blamed, error>> /\ ModelTurn => ModelTurn'
  BY Zenon DEF ModelTurn
<1>3. UNCHANGED <<run, session, call>> /\ ModelCall => ModelCall'
  BY Zenon DEF ModelCall
<1>4. UNCHANGED <<reply, own, shown, count>> /\ ModelKept => ModelKept'
  BY Zenon DEF ModelKept
<1>5. UNCHANGED <<run, call, own, shown, reply>> /\ ModelShown => ModelShown'
  BY Zenon DEF ModelShown
<1>6. UNCHANGED <<run, call, reply>> /\ ModelSaid => ModelSaid'
  BY Zenon DEF ModelSaid
<1>7. UNCHANGED <<run, call, reply>> /\ ModelStopped => ModelStopped'
  BY Zenon DEF ModelStopped
<1>8. QED
  BY Zenon, <1>1, <1>2, <1>3, <1>4, <1>5, <1>6, <1>7

\* No call, and no reply.
LEMMA ModelNothing ==
    /\ Model!NoCall \in ModelCalls /\ Model!NoCall.started = FALSE /\ Model!NoCall.hollow = FALSE
    /\ Model!NoCall.body = <<>>
    /\ Model!NoReply \in ModelReplies /\ Model!NoReply.parts = <<>> /\ Model!NoReply.stop = Model!None
    /\ Model!Flat(<<>>) = Numbers(<<>>)
<1>1. <<>> \in ModelBodies /\ <<>> \in Seq(ModelParts)
  BY DEF ModelBodies
<1>2. {} \in SUBSET Tryable /\ Model!NoSession \in Tryable /\ 0 \in 0..Retries /\ Model!None \in ModelStops
      /\ FALSE \in BOOLEAN
  BY ModelAssumption DEF Tryable, ModelStops
<1>3. Model!NoCall \in ModelCalls
  BY <1>1, <1>2 DEF Model!NoCall, ModelCalls
<1>4. Model!NoReply \in ModelReplies /\ Model!NoReply.parts = <<>> /\ Model!NoReply.stop = Model!None
  BY <1>1, <1>2 DEF Model!NoReply, ModelReplies
<1>5. Model!NoCall.started = FALSE /\ Model!NoCall.hollow = FALSE /\ Model!NoCall.body = <<>>
  BY DEF Model!NoCall
<1>6. Numbers(<<>>) = <<>>
  BY DEF Numbers
<1>7. QED
  BY <1>3, <1>4, <1>5, <1>6, ModelFlatNone

\* No call at first.
LEMMA ModelBegins == Model!Init => ModelInv
<1> SUFFICES ASSUME Model!Init PROVE ModelInv
  OBVIOUS
<1>1. /\ opal = [s \in Sessions |-> [enabled |-> TRUE, cooling |-> FALSE]]
      /\ cached = {} /\ run = "off" /\ modelSteps = 0 /\ session = Model!NoSession /\ blamed = Model!NoSession
      /\ error = Model!None /\ call = Model!NoCall /\ reply = Model!NoReply /\ own = <<>> /\ count = 0
      /\ shown = <<>>
  BY DEF Model!Init
<1>2. ModelRows
  BY <1>1 DEF ModelRows
<1>3. ModelTurn
  BY <1>1, ModelAssumption DEF ModelTurn, Tryable
<1>4. ModelCall
  BY <1>1, ModelNothing DEF ModelCall
<1>5. ModelKept
  <2>1. <<>> \in Seq(ModelParts) /\ Len(<<>>) = 0
    OBVIOUS
  <2>2. reply \in ModelReplies /\ reply.parts = <<>>
    BY <1>1, ModelNothing
  <2>3. QED
    BY <2>1, <2>2, <1>1, ModelAssumption DEF ModelKept
<1>6. ModelShown
  BY <1>1, ModelNothing DEF ModelShown
<1>7. ModelSaid /\ ModelStopped
  BY <1>1 DEF ModelSaid, ModelStopped
<1>8. QED
  BY <1>2, <1>3, <1>4, <1>5, <1>6, <1>7 DEF ModelInv

\* A request of a call is over.
LEMMA ModelPasses ==
    ASSUME ModelInv, run \in {"call", "stream"},
           call' \in ModelCalls, call'.first = session, run' \in {"ready", "call", "failed"},
           ModelRows', session' \in Tryable, blamed' = session',
           run' # "ready" => session' = session, error' \in Model!Errors \cup {Model!None},
           UNCHANGED <<modelSteps, count, shown>>, own' = <<>>,
           reply' \in ModelReplies, Len(reply'.parts) <= count,
           call'.started => shown = reply'.parts, ~call'.started => reply'.parts = <<>>,
           run' = "call" => Model!Flat(call'.body) = Numbers(reply'.parts),
           reply'.stop # Model!None => \/ call'.hollow
                                       \/ run' = "failed"
                                       \/ run' = "ready" /\ call'.ended = reply'.stop
    PROVE ModelInv'
<1>0. ModelTurn /\ ModelKept
  BY DEF ModelInv
<1>1. ModelTurn'
  BY <1>0 DEF ModelTurn
<1>2. ModelCall'
  BY DEF ModelCall
<1>3. ModelKept'
  <2>1. Len(<<>>) = 0 /\ <<>> \in Seq(ModelParts)
    OBVIOUS
  <2>2. Len(reply'.parts) \in Nat
    <3>1. reply'.parts \in Seq(ModelParts)
      BY DEF ModelReplies
    <3>2. QED
      BY <3>1, LenProperties
  <2>3. Len(own') = 0 /\ own' \in Seq(ModelParts)
    BY <2>1
  <2>4. Len(reply'.parts) + Len(own') <= count'
    BY <2>2, <2>3, <1>0 DEF ModelKept
  <2>5. QED
    BY <2>3, <2>4, <1>0 DEF ModelKept
<1>4. ModelShown'
  BY DEF ModelShown
<1>5. ModelSaid'
  BY DEF ModelSaid
<1>6. ModelStopped'
  BY DEF ModelStopped
<1>7. QED
  BY <1>1, <1>2, <1>3, <1>4, <1>5, <1>6 DEF ModelInv

\* What the next request is sent with.
LEMMA ModelContinues ==
    ASSUME NEW c \in ModelCalls, NEW parts \in Seq(ModelParts)
    PROVE /\ Model!Continue(c, parts) \in ModelCalls
          /\ Model!Flat(Model!Continue(c, parts).body) = Numbers(parts)
          /\ Model!Continue(c, parts).first = c.first /\ Model!Continue(c, parts).started = c.started
          /\ Model!Continue(c, parts).hollow = c.hollow
<1>1. Model!MergedParts(parts) \in ModelBodies /\ Model!Flat(Model!MergedParts(parts)) = Numbers(parts)
  BY ModelWhole DEF Numbers
<1>2. Model!Continue(c, parts) = [c EXCEPT !.body = Model!MergedParts(parts)]
  BY DEF Model!Continue
<1> DEFINE b == Model!MergedParts(parts)
           k == Model!Continue(c, parts)
<1>3. b \in ModelBodies /\ k = [c EXCEPT !.body = b]
  BY <1>1, <1>2
<1> HIDE DEF b, k
<1>4. k \in ModelCalls /\ k.body = b /\ k.first = c.first /\ k.started = c.started /\ k.hollow = c.hollow
  BY <1>3 DEF ModelCalls
<1>5. QED
  BY <1>1, <1>4 DEF b, k

\* An error: another request, or send raises.
LEMMA ModelTries ==
    ASSUME ModelInv, run \in {"call", "stream"}, NEW c \in ModelCalls, NEW e \in Model!Errors,
           c.first = session, Model!Retry(c, e), UNCHANGED <<modelSteps, count, shown>>, own' = <<>>,
           reply' \in ModelReplies, Len(reply'.parts) <= count,
           c.started => shown = reply'.parts, ~c.started => reply'.parts = <<>>,
           reply'.stop # Model!None => c.hollow
    PROVE ModelInv'
<1>0. ModelRows /\ ModelTurn /\ ModelCall
  BY DEF ModelInv
<1>1. reply'.parts \in Seq(ModelParts)
  BY DEF ModelReplies
<1>2. CASE e \notin Model!Retryable \/ c.attempt = Retries
  <2>1. Model!Raise(e) /\ call' = c
    BY Zenon, <1>2 DEF Model!Retry
  <2>2. run' = (IF e \in Model!Blamed THEN "failed" ELSE "ready")
        /\ error' = (IF e \in Model!Blamed THEN e ELSE Model!None)
        /\ UNCHANGED <<opal, cached, session, blamed>>
    BY <2>1 DEF Model!Raise
  <2>3. run' \in {"ready", "call", "failed"} /\ run' # "call" /\ error' \in Model!Errors \cup {Model!None}
    BY <2>2
  <2>4. ModelRows'
    BY <2>2, <1>0, ModelFrames
  <2>5. blamed' = session' /\ session' = session /\ session' \in Tryable
    BY <2>2, <1>0 DEF ModelTurn
  <2>6. QED
    BY <2>1, <2>3, <2>4, <2>5, ModelPasses
<1>3. CASE ~(e \notin Model!Retryable \/ c.attempt = Retries)
  <2>1. PICK s \in Model!Picks(c.tried) :
          /\ call' = Model!Continue([c EXCEPT !.attempt = @ + 1,
                                        !.session = IF s = Model!NoSession THEN @ ELSE s,
                                        !.tried = @ \cup ({s} \ {Model!NoSession})], reply'.parts)
          /\ IF s = Model!NoSession THEN UNCHANGED cached ELSE Model!GetToken(s)
          /\ run' = "call"
          /\ UNCHANGED <<opal, session, blamed, error>>
    BY Zenon, <1>3 DEF Model!Retry
  <2>2. s \in Tryable /\ (s # Model!NoSession => s \in Sessions)
    BY DEF Model!Picks, Model!Usable, Tryable
  <2> DEFINE k == [c EXCEPT !.attempt = @ + 1, !.session = IF s = Model!NoSession THEN @ ELSE s,
                            !.tried = @ \cup ({s} \ {Model!NoSession})]
  <2>3. k \in ModelCalls /\ k.first = c.first /\ k.started = c.started /\ k.hollow = c.hollow
    <3>1. c.attempt + 1 \in 0..Retries
      BY <1>3, ModelAssumption DEF ModelCalls
    <3>2. QED
      BY <2>2, <3>1 DEF ModelCalls
  <2>4. call' = Model!Continue(k, reply'.parts)
    BY <2>1
  <2> HIDE DEF k
  <2>5. /\ call' \in ModelCalls /\ Model!Flat(call'.body) = Numbers(reply'.parts)
        /\ call'.first = c.first /\ call'.started = c.started /\ call'.hollow = c.hollow
    BY <2>3, <2>4, <1>1, ModelContinues
  <2>6. ModelRows'
    BY <2>1, <2>2, <1>0 DEF ModelRows, Model!GetToken
  <2>7. blamed' = session' /\ session' = session /\ session' \in Tryable /\ error' \in Model!Errors \cup {Model!None}
    BY <2>1, <1>0 DEF ModelTurn
  <2>8. QED
    BY <2>1, <2>5, <2>6, <2>7, ModelPasses
<1>4. QED
  BY <1>2, <1>3

\* The sessions are changed while the turn goes on.
LEMMA ModelSessions ==
    ASSUME ModelInv, ModelRows',
           UNCHANGED <<run, modelSteps, session, blamed, error, call, reply, own, count, shown>>
    PROVE ModelInv'
BY Zenon, ModelFrames DEF ModelInv

\* A row that is written is a row.
LEMMA ModelRowWritten ==
    ASSUME ModelRows, NEW s, NEW e \in Model!Errors
    PROVE /\ (Model!Succeeded(s) /\ UNCHANGED cached => ModelRows')
          /\ (Model!Failed(s, e) /\ cached' \subseteq Sessions => ModelRows')
<1>1. Model!Succeeded(s) /\ UNCHANGED cached => ModelRows'
  BY DEF Model!Succeeded, ModelRows
<1>2. Model!Failed(s, e) /\ cached' \subseteq Sessions => ModelRows'
  <2> SUFFICES ASSUME Model!Failed(s, e), cached' \subseteq Sessions PROVE ModelRows'
    OBVIOUS
  <2>1. PICK y \in BOOLEAN : y = (opal[s].enabled /\ e # "auth")
    OBVIOUS
  <2>2. PICK z \in BOOLEAN : z = (e = "limit")
    OBVIOUS
  <2>3. opal' = [opal EXCEPT ![s] = [enabled |-> y, cooling |-> z]]
    BY Zenon, <2>1, <2>2 DEF Model!Failed
  <2>4. QED
    BY <2>3 DEF ModelRows
<1>3. QED
  BY <1>1, <1>2

\* A turn begins, or its session is refused.
LEMMA ModelExecute == ASSUME ModelInv, NEW s \in Sessions, Model!Execute(s) PROVE ModelInv'
<1>0. ModelRows /\ ModelTurn /\ ModelKept /\ ModelShown
  BY DEF ModelInv
<1>1. /\ run = "off" /\ call' = Model!NoCall /\ reply' = Model!NoReply /\ count' = 0 /\ shown' = <<>>
      /\ error' = error /\ own' = own
      /\ \/ /\ Model!GetToken(s) /\ opal' = opal
            /\ run' = "ready" /\ modelSteps' = 0 /\ session' = s /\ blamed' = s
         \/ /\ Model!Failed(s, "auth")
            /\ UNCHANGED <<cached, run, modelSteps, session, blamed>>
  BY DEF Model!Execute
<1>2. ModelRows'
  <2>1. CASE Model!GetToken(s) /\ opal' = opal
    BY <2>1, <1>0 DEF Model!GetToken, ModelRows
  <2>2. CASE Model!Failed(s, "auth") /\ UNCHANGED cached
    <3>1. "auth" \in Model!Errors /\ cached' \subseteq Sessions
      BY <2>2, <1>0 DEF Model!Errors, ModelRows
    <3>2. QED
      BY <2>2, <3>1, <1>0, ModelRowWritten
  <2>3. QED
    BY <1>1, <2>1, <2>2
<1>3. ModelTurn' /\ run' \in {"off", "ready"}
  BY <1>0, <1>1, ModelAssumption DEF ModelTurn, Tryable
<1>4. ModelCall'
  BY <1>1, <1>3, ModelNothing DEF ModelCall
<1>5. own = <<>>
  BY <1>0, <1>1 DEF ModelShown
<1>6. ModelKept'
  <2>1. Len(<<>>) = 0 /\ <<>> \in Seq(ModelParts)
    OBVIOUS
  <2>2. reply' \in ModelReplies /\ reply'.parts = <<>>
    BY <1>1, ModelNothing
  <2>3. QED
    BY <2>1, <2>2, <1>1, <1>5, ModelAssumption DEF ModelKept
<1>7. ModelShown'
  BY <1>1, <1>3, <1>5, ModelNothing DEF ModelShown
<1>8. ModelSaid'
  BY <1>3 DEF ModelSaid
<1>9. ModelStopped'
  BY <1>1, <1>3, ModelNothing DEF ModelStopped
<1>10. QED
  BY <1>2, <1>3, <1>4, <1>6, <1>7, <1>8, <1>9 DEF ModelInv

\* A call begins.
LEMMA ModelSend == ASSUME ModelInv, Model!Send PROVE ModelInv'
<1>0. ModelRows /\ ModelTurn /\ ModelKept /\ ModelShown
  BY DEF ModelInv
<1> DEFINE k == [Model!NoCall EXCEPT !.first = session, !.session = session, !.tried = {session},
                               !.attempt = 1]
<1>1. /\ run = "ready" /\ modelSteps < ModelSteps /\ modelSteps' = modelSteps + 1 /\ run' = "call"
      /\ call' = k /\ reply' = Model!NoReply /\ count' = 0
      /\ UNCHANGED <<opal, cached, session, blamed, error, own, shown>>
  BY DEF Model!Send
<1>2. ModelRows'
  BY <1>0, <1>1, ModelFrames
<1>3. ModelTurn'
  BY <1>0, <1>1, ModelAssumption DEF ModelTurn
<1>4. k \in ModelCalls /\ k.first = session /\ k.started = FALSE /\ k.body = <<>>
  <2>1. session \in Tryable /\ 1 \in 0..Retries
    BY <1>0, ModelAssumption DEF ModelTurn
  <2>2. QED
    BY <2>1, ModelNothing DEF ModelCalls
<1> HIDE DEF k
<1>5. ModelCall'
  BY <1>1, <1>4 DEF ModelCall
<1>6. own = <<>>
  BY <1>0, <1>1 DEF ModelShown
<1>7. ModelKept'
  <2>1. Len(<<>>) = 0 /\ <<>> \in Seq(ModelParts)
    OBVIOUS
  <2>2. reply' \in ModelReplies /\ reply'.parts = <<>>
    BY <1>1, ModelNothing
  <2>3. QED
    BY <2>1, <2>2, <1>0, <1>1, <1>6, ModelAssumption DEF ModelKept
<1>8. ModelShown'
  BY <1>1, <1>4, <1>6, ModelNothing DEF ModelShown
<1>9. ModelSaid'
  BY <1>1, <1>4, ModelNothing DEF ModelSaid
<1>10. ModelStopped'
  BY <1>1, ModelNothing DEF ModelStopped
<1>11. QED
  BY <1>2, <1>3, <1>5, <1>7, <1>8, <1>9, <1>10 DEF ModelInv

\* The answer begins.
LEMMA ModelOnce == ASSUME ModelInv, Model!Once PROVE ModelInv'
<1>0. ModelRows /\ ModelTurn /\ ModelCall /\ ModelKept /\ ModelShown /\ ModelStopped
  BY DEF ModelInv
<1>1. /\ run = "call" /\ run' = "stream" /\ own' = <<>>
      /\ shown' = (IF call.started THEN shown ELSE <<>>)
      /\ UNCHANGED <<opal, cached, modelSteps, session, blamed, error, call, reply, count>>
  BY DEF Model!Once
<1>2. ModelRows'
  BY <1>0, <1>1, ModelFrames
<1>3. ModelTurn'
  BY <1>0, <1>1 DEF ModelTurn
<1>4. ModelCall'
  BY <1>0, <1>1 DEF ModelCall
<1>5. own = <<>>
  BY <1>0, <1>1 DEF ModelShown
<1>6. ModelKept'
  <2>1. <<>> \in Seq(ModelParts)
    OBVIOUS
  <2>2. shown' \in Seq(ModelParts)
    BY <2>1, <1>0, <1>1 DEF ModelKept
  <2>3. QED
    BY <2>2, <1>0, <1>1, <1>5 DEF ModelKept
<1>7. ModelShown'
  BY <1>0, <1>1 DEF ModelShown
<1>8. ModelSaid' /\ ModelStopped'
  BY <1>0, <1>1 DEF ModelSaid, ModelStopped
<1>9. QED
  BY <1>2, <1>3, <1>4, <1>6, <1>7, <1>8 DEF ModelInv

\* A part of an answer.
LEMMA ModelFeed == ASSUME ModelInv, NEW isText \in BOOLEAN, Model!Feed(isText) PROVE ModelInv'
<1>0. ModelRows /\ ModelTurn /\ ModelCall /\ ModelKept /\ ModelShown /\ ModelStopped
  BY DEF ModelInv
<1> DEFINE part == [n |-> count + 1, text |-> isText]
<1>1. /\ run = "stream" /\ count < MaxParts /\ count' = count + 1
      /\ shown' = Append(shown, part)
      /\ IF call.started
           THEN reply' = [reply EXCEPT !.parts = Append(@, part)] /\ UNCHANGED own
           ELSE own' = Append(own, part) /\ UNCHANGED reply
      /\ UNCHANGED <<opal, cached, run, modelSteps, session, blamed, error, call>>
  BY DEF Model!Feed
<1>2. part \in ModelParts
  BY <1>0, ModelAssumption DEF ModelKept, ModelParts
<1> HIDE DEF part
<1>3. ModelRows' /\ ModelTurn' /\ ModelCall'
  BY <1>0, <1>1, ModelFrames
<1>4. /\ reply.parts \in Seq(ModelParts) /\ reply.stop \in ModelStops
      /\ reply = [parts |-> reply.parts, stop |-> reply.stop]
      /\ count \in Nat /\ Len(reply.parts) \in Nat /\ Len(own) \in Nat
      /\ own \in Seq(ModelParts) /\ shown \in Seq(ModelParts)
      /\ Len(reply.parts) + Len(own) <= count
  <2>1. reply \in ModelReplies /\ own \in Seq(ModelParts)
    BY <1>0 DEF ModelKept
  <2>2. reply.parts \in Seq(ModelParts)
    BY <2>1 DEF ModelReplies
  <2>3. Len(reply.parts) \in Nat /\ Len(own) \in Nat
    BY <2>1, <2>2, LenProperties
  <2>4. QED
    BY <2>1, <2>2, <2>3, <1>0, ModelAssumption DEF ModelKept, ModelReplies
<1>5. shown' \in Seq(ModelParts)
  BY <1>1, <1>2, <1>4, AppendProperties
<1>6. count' \in 0..MaxParts
  BY <1>0, <1>1, ModelAssumption DEF ModelKept
<1>7. CASE call.started
  <2>1. reply' = [reply EXCEPT !.parts = Append(@, part)] /\ own' = own
    BY <1>1, <1>7
  <2>2. Append(reply.parts, part) \in Seq(ModelParts)
        /\ Len(Append(reply.parts, part)) = Len(reply.parts) + 1
    BY <1>2, <1>4, AppendProperties
  <2> DEFINE ps == Append(reply.parts, part)
  <2>3. reply' = [parts |-> ps, stop |-> reply.stop] /\ ps \in Seq(ModelParts)
        /\ Len(ps) = Len(reply.parts) + 1
    BY <2>1, <2>2, <1>4
  <2> HIDE DEF ps
  <2>4. reply' \in ModelReplies /\ reply'.parts = ps /\ reply'.stop = reply.stop
    BY <2>3, <1>4 DEF ModelReplies
  <2>5. ModelKept'
    BY <2>1, <2>3, <2>4, <1>1, <1>4, <1>5, <1>6 DEF ModelKept
  <2>6. shown' = reply'.parts /\ own' = <<>>
    <3>1. shown = reply.parts /\ own = <<>>
      BY <1>0, <1>7 DEF ModelShown
    <3>2. QED
      BY <3>1, <2>1, <2>4, <1>1 DEF ps
  <2>7. ModelShown'
    BY <2>6, <1>1, <1>7 DEF ModelShown
  <2>8. ModelSaid' /\ ModelStopped'
    BY <2>4, <1>0, <1>1 DEF ModelSaid, ModelStopped
  <2>9. QED
    BY <1>3, <2>5, <2>7, <2>8 DEF ModelInv
<1>8. CASE ~call.started
  <2>1. own' = Append(own, part) /\ reply' = reply
    BY <1>1, <1>8
  <2>2. Append(own, part) \in Seq(ModelParts) /\ Len(Append(own, part)) = Len(own) + 1
    BY <1>2, <1>4, AppendProperties
  <2>3. ModelKept'
    <3>1. reply' \in ModelReplies
      BY <2>1, <1>0 DEF ModelKept
    <3>2. QED
      BY <3>1, <2>1, <2>2, <1>1, <1>4, <1>5, <1>6 DEF ModelKept
  <2>4. reply.parts = <<>> /\ shown = own
    BY <1>0, <1>1, <1>8 DEF ModelShown
  <2>5. ModelShown'
    BY <2>1, <2>4, <1>1, <1>8 DEF ModelShown
  <2>6. ModelSaid' /\ ModelStopped'
    BY <2>1, <1>0, <1>1 DEF ModelSaid, ModelStopped
  <2>7. QED
    BY <1>3, <2>3, <2>5, <2>6 DEF ModelInv
<1>9. QED
  BY <1>7, <1>8

\* The answer is an error, or breaks off.
LEMMA ModelErrs ==
    ASSUME ModelInv, NEW e \in Model!Errors, Model!Refused(e) \/ Model!Broken(e)
    PROVE ModelInv'
<1>0. ModelTurn /\ ModelCall /\ ModelKept /\ ModelShown /\ ModelStopped
  BY DEF ModelInv
<1>1. /\ run \in {"call", "stream"} /\ reply' = reply /\ UNCHANGED <<modelSteps, count, shown>>
      /\ Model!Retry(call, e) /\ (own' = <<>> \/ (run = "call" /\ own' = own))
  BY DEF Model!Refused, Model!Broken
<1>2. own' = <<>>
  BY <1>0, <1>1 DEF ModelShown
<1>3. call \in ModelCalls /\ call.first = session
  BY <1>0, <1>1 DEF ModelCall
<1>4. reply' \in ModelReplies /\ Len(reply'.parts) <= count
  <2>1. reply \in ModelReplies /\ own \in Seq(ModelParts) /\ Len(reply.parts) + Len(own) <= count
        /\ count \in Int
    BY <1>0, ModelAssumption DEF ModelKept
  <2>2. reply.parts \in Seq(ModelParts)
    BY <2>1 DEF ModelReplies
  <2>3. Len(reply.parts) \in Nat /\ Len(own) \in Nat
    BY <2>1, <2>2, LenProperties
  <2>4. QED
    BY <1>1, <2>1, <2>3
<1>5. /\ call.started => shown = reply'.parts
      /\ ~call.started => reply'.parts = <<>>
      /\ reply'.stop # Model!None => call.hollow
  BY <1>0, <1>1 DEF ModelShown, ModelStopped
<1>6. QED
  BY <1>1, <1>2, <1>3, <1>4, <1>5, ModelTries

\* A stream is over.
LEMMA ModelFinish ==
    ASSUME ModelInv, NEW reason \in {Model!None, "STOP", "SAFETY"}, Model!Finish(reason)
    PROVE ModelInv'
<1>0. ModelRows /\ ModelTurn /\ ModelCall /\ ModelKept /\ ModelShown /\ ModelStopped
  BY DEF ModelInv
<1>1. PICK stop : stop = IF reason = Model!None THEN reply.stop ELSE reason
  OBVIOUS
<1>2. PICK held : held = Model!Kept
  OBVIOUS
<1>3. PICK c : c = [call EXCEPT !.started = TRUE, !.ended = reason,
                                !.hollow = @ \/ (stop = "STOP" /\ ~Model!HasText(held))]
  OBVIOUS
<1>4. /\ run = "stream" /\ reply' = [parts |-> held, stop |-> stop] /\ own' = <<>>
      /\ UNCHANGED <<modelSteps, count, shown>>
      /\ CASE stop = "SAFETY" \/ (stop = "STOP" /\ Model!HasText(held)) -> Model!Return /\ call' = c
           [] stop = "STOP" /\ ~Model!HasText(held) -> Model!Retry(c, "limit")
           [] stop = Model!None /\ c.attempt < Retries ->
                /\ call' = Model!Continue([c EXCEPT !.attempt = @ + 1], held)
                /\ run' = "call"
                /\ UNCHANGED <<opal, cached, session, blamed, error>>
           [] OTHER -> call' = c /\ IF held # <<>> THEN Model!Return ELSE Model!Raise("bad")
  BY Zenon, <1>1, <1>2, <1>3 DEF Model!Finish
<1>5. /\ reply.parts \in Seq(ModelParts) /\ own \in Seq(ModelParts) /\ reply.stop \in ModelStops
      /\ Len(reply.parts) + Len(own) <= count
  BY <1>0 DEF ModelKept, ModelReplies
<1>6. held \in Seq(ModelParts) /\ Len(held) <= count
  BY <1>2, <1>5, ConcatProperties DEF Model!Kept
<1>7. stop \in ModelStops /\ reply' \in ModelReplies /\ reply'.parts = held /\ reply'.stop = stop
  <2>1. stop \in ModelStops
    BY <1>1, <1>5 DEF ModelStops
  <2>2. QED
    BY <2>1, <1>4, <1>6 DEF ModelReplies
<1>8. shown = held
  <2>1. CASE call.started
    <3>1. shown = reply.parts /\ own = <<>>
      BY <2>1, <1>0 DEF ModelShown
    <3>2. QED
      BY <3>1, <1>2, <1>5, ConcatEmptySeq DEF Model!Kept
  <2>2. CASE ~call.started
    <3>1. shown = own /\ reply.parts = <<>>
      BY <2>2, <1>0, <1>4 DEF ModelShown
    <3>2. QED
      BY <3>1, <1>2, <1>5, ConcatEmptySeq DEF Model!Kept
  <2>3. QED
    BY <2>1, <2>2
<1>9. /\ c \in ModelCalls /\ c.first = call.first /\ c.started = TRUE /\ c.ended = reason
      /\ (call.hollow => c.hollow) /\ (stop = "STOP" /\ ~Model!HasText(held) => c.hollow)
      /\ c.attempt = call.attempt /\ c.session \in Tryable
  <2>1. call \in ModelCalls /\ reason \in ModelStops
    BY <1>0 DEF ModelCall, ModelStops
  <2>2. PICK hollow \in BOOLEAN : hollow = (call.hollow \/ (stop = "STOP" /\ ~Model!HasText(held)))
    OBVIOUS
  <2>3. c = [call EXCEPT !.started = TRUE, !.ended = reason, !.hollow = hollow]
    BY Zenon, <1>3, <2>2
  <2>4. /\ c \in ModelCalls /\ c.first = call.first /\ c.started = TRUE /\ c.ended = reason
        /\ c.hollow = hollow /\ c.attempt = call.attempt /\ c.session \in Tryable
    BY <2>1, <2>3 DEF ModelCalls
  <2>5. QED
    BY Zenon, <2>2, <2>4
<1>10. call.first = session /\ session \in Tryable /\ blamed = session
  BY <1>0, <1>4 DEF ModelCall, ModelTurn
<1>11. reply.stop # Model!None => c.hollow
  BY <1>0, <1>4, <1>9 DEF ModelStopped
<1>12. stop # Model!None => c.hollow \/ c.ended = stop
  BY <1>1, <1>9, <1>11
<1>13. ASSUME call' = c, Model!Return PROVE ModelInv'
  <2>1. run' = "ready" /\ session' = call.session /\ blamed' = call.session
        /\ UNCHANGED <<opal, cached, error>>
    BY <1>13 DEF Model!Return
  <2>2. call.session \in Tryable
    BY <1>0 DEF ModelCall, ModelCalls
  <2>3. ModelRows' /\ error' \in Model!Errors \cup {Model!None}
    BY <2>1, <1>0, ModelFrames DEF ModelTurn
  <2>4. run' \in {"ready", "call", "failed"} /\ run' # "call" /\ session' \in Tryable
        /\ blamed' = session' /\ call'.first = session
    BY <2>1, <2>2, <1>9, <1>10, <1>13
  <2>5. QED
    BY <2>1, <2>3, <2>4, <1>4, <1>6, <1>7, <1>8, <1>9, <1>12, <1>13, ModelPasses
<1>14. CASE stop = "SAFETY" \/ (stop = "STOP" /\ Model!HasText(held))
  <2>1. Model!Return /\ call' = c
    <3>1. ~(stop = "STOP" /\ ~Model!HasText(held)) /\ stop # Model!None
      BY <1>14 DEF Model!None
    <3>2. QED
      BY Zenon, <3>1, <1>4, <1>14
  <2>2. QED
    BY <2>1, <1>13
<1>15. CASE stop = "STOP" /\ ~Model!HasText(held)
  <2>1. Model!Retry(c, "limit")
    <3>1. stop # "SAFETY" /\ stop # Model!None
      BY <1>15 DEF Model!None
    <3>2. QED
      BY Zenon, <3>1, <1>4, <1>15
  <2>2. "limit" \in Model!Errors /\ c.hollow /\ c.first = session
    BY <1>9, <1>10, <1>15 DEF Model!Errors
  <2>3. QED
    BY <2>1, <2>2, <1>4, <1>6, <1>7, <1>8, <1>9, ModelTries
<1>16. CASE stop = Model!None
  <2>0. stop # "SAFETY" /\ stop # "STOP"
    BY <1>16 DEF Model!None
  <2>1. CASE c.attempt < Retries
    <3>1. /\ call' = Model!Continue([c EXCEPT !.attempt = @ + 1], held)
          /\ run' = "call"
          /\ UNCHANGED <<opal, cached, session, blamed, error>>
      BY Zenon, <2>0, <2>1, <1>4, <1>16
    <3> DEFINE k == [c EXCEPT !.attempt = @ + 1]
    <3>2. k \in ModelCalls /\ k.first = c.first /\ k.started = TRUE
      BY <2>1, <1>9, ModelAssumption DEF ModelCalls
    <3>3. call' = Model!Continue(k, held)
      BY <3>1
    <3> HIDE DEF k
    <3>4. /\ call' \in ModelCalls /\ Model!Flat(call'.body) = Numbers(held)
          /\ call'.first = session /\ call'.started = TRUE
      BY <3>2, <3>3, <1>6, <1>9, <1>10, ModelContinues
    <3>5. ModelRows' /\ session' = session /\ session' \in Tryable /\ blamed' = session'
          /\ error' \in Model!Errors \cup {Model!None}
      BY <3>1, <1>0, <1>10, ModelFrames DEF ModelTurn
    <3>6. QED
      BY <3>1, <3>4, <3>5, <1>4, <1>6, <1>7, <1>8, <1>16, ModelPasses
  <2>2. CASE ~(c.attempt < Retries)
    <3>1. call' = c /\ IF held # <<>> THEN Model!Return ELSE Model!Raise("bad")
      BY Zenon, <2>0, <2>2, <1>4
    <3>2. CASE held # <<>>
      BY <3>1, <3>2, <1>13
    <3>3. CASE held = <<>>
      <4>1. Model!Raise("bad") /\ "bad" \notin Model!Blamed
        BY <3>1, <3>3 DEF Model!Blamed
      <4>2. run' = "ready" /\ error' = Model!None /\ UNCHANGED <<opal, cached, session, blamed>>
        BY <4>1 DEF Model!Raise
      <4>3. ModelRows' /\ session' \in Tryable /\ blamed' = session' /\ error' \in Model!Errors \cup {Model!None}
        BY <4>2, <1>0, <1>10, ModelFrames
      <4>4. run' \in {"ready", "call", "failed"} /\ run' # "call" /\ call'.first = session
        BY <4>2, <3>1, <1>9, <1>10
      <4>5. QED
        BY <4>2, <4>3, <4>4, <3>1, <1>4, <1>6, <1>7, <1>8, <1>9, <1>16, ModelPasses
    <3>4. QED
      BY <3>2, <3>3
  <2>3. QED
    BY <2>1, <2>2
<1>17. QED
  BY <1>7, <1>14, <1>15, <1>16 DEF ModelStops

\* The turn ends.
LEMMA ModelEnds == ASSUME ModelInv, Model!Done \/ Model!Punish PROVE ModelInv'
<1>0. ModelRows /\ ModelTurn /\ ModelCall /\ ModelKept /\ ModelShown
  BY DEF ModelInv
<1>1. /\ run \in {"ready", "failed"} /\ run' = "off"
      /\ UNCHANGED <<modelSteps, session, blamed, call, reply, own, count, shown>>
      /\ \/ UNCHANGED <<cached, error>> /\ (Model!Succeeded(blamed) \/ UNCHANGED opal)
         \/ /\ error' = Model!None /\ run = "failed" /\ cached' = cached \ {blamed}
            /\ Model!Failed(blamed, error)
  BY DEF Model!Done, Model!Punish
<1>2. error' \in Model!Errors \cup {Model!None}
  BY <1>0, <1>1 DEF ModelTurn
<1>3. ModelRows'
  <2>1. CASE UNCHANGED <<cached, error>> /\ (Model!Succeeded(blamed) \/ UNCHANGED opal)
    <3>1. "auth" \in Model!Errors
      BY DEF Model!Errors
    <3>2. QED
      BY <2>1, <3>1, <1>0, ModelRowWritten, ModelFrames
  <2>2. CASE cached' = cached \ {blamed} /\ Model!Failed(blamed, error)
    BY <2>2, <1>0 DEF Model!Failed, ModelRows
  <2>3. QED
    BY <1>1, <2>1, <2>2
<1>4. ModelTurn'
  BY <1>0, <1>1, <1>2 DEF ModelTurn
<1>5. ModelCall' /\ ModelShown' /\ ModelSaid' /\ ModelStopped'
  <2>1. ModelCall'
    BY <1>0, <1>1 DEF ModelCall
  <2>2. ModelShown'
    BY <1>0, <1>1 DEF ModelShown
  <2>3. QED
    BY <2>1, <2>2, <1>1 DEF ModelSaid, ModelStopped
<1>6. ModelKept'
  BY <1>0, <1>1, ModelFrames
<1>7. QED
  BY <1>3, <1>4, <1>5, <1>6 DEF ModelInv

\* What others do with the sessions.
LEMMA ModelOthers ==
    ASSUME ModelInv, NEW s \in Sessions,
           Model!Cooled(s) \/ Model!Expire(s) \/ \E enabled \in BOOLEAN : Model!Administer(s, enabled)
    PROVE ModelInv'
<1>0. ModelRows
  BY DEF ModelInv
<1>1. ModelRows'
  <2>1. CASE Model!Cooled(s)
    BY <2>1, <1>0 DEF ModelRows, Model!Cooled
  <2>2. CASE Model!Expire(s)
    BY <2>2, <1>0 DEF ModelRows, Model!Expire
  <2>3. ASSUME NEW enabled \in BOOLEAN, Model!Administer(s, enabled) PROVE ModelRows'
    BY <2>3, <1>0 DEF ModelRows, Model!Administer
  <2>4. QED
    BY <2>1, <2>2, <2>3
<1>2. UNCHANGED <<run, modelSteps, session, blamed, error, call, reply, own, count, shown>>
  BY DEF Model!Cooled, Model!Expire, Model!Administer
<1>3. QED
  BY <1>1, <1>2, ModelSessions

\* Every step keeps it.
LEMMA ModelKeeps == ModelInv /\ [Model!Next]_(Model!vars) => ModelInv'
<1> SUFFICES ASSUME ModelInv, [Model!Next]_(Model!vars) PROVE ModelInv'
  OBVIOUS
<1>1. CASE UNCHANGED Model!vars
  <2>1. ModelRows /\ UNCHANGED <<opal, cached>>
        /\ UNCHANGED <<run, modelSteps, session, blamed, error, call, reply, own, count, shown>>
    BY <1>1 DEF ModelInv, Model!vars
  <2>2. QED
    BY <2>1, ModelFrames, ModelSessions
<1>2. CASE Model!Next
  <2>1. ASSUME NEW s \in Sessions,
               Model!Execute(s) \/ Model!Cooled(s) \/ Model!Expire(s) \/ \E enabled \in BOOLEAN : Model!Administer(s, enabled)
        PROVE ModelInv'
    BY <2>1, ModelExecute, ModelOthers
  <2>2. CASE Model!Send \/ Model!Once \/ Model!Done \/ Model!Punish
    BY <2>2, ModelSend, ModelOnce, ModelEnds
  <2>3. CASE \E isText \in BOOLEAN : Model!Feed(isText)
    BY <2>3, ModelFeed
  <2>4. CASE \E e \in Model!Errors : Model!Refused(e) \/ Model!Broken(e)
    BY <2>4, ModelErrs
  <2>5. CASE \E reason \in {Model!None, "STOP", "SAFETY"} : Model!Finish(reason)
    BY <2>5, ModelFinish
  <2>6. QED
    BY <1>2, <2>1, <2>2, <2>3, <2>4, <2>5 DEF Model!Next
<1>3. QED
  BY <1>1, <1>2

\* What it says of the replies.
LEMMA ModelTruth == ASSUME ModelInv PROVE Model!TypeOK /\ Model!RepliesAreWhole
<1>0. ModelRows /\ ModelTurn /\ ModelCall /\ ModelKept /\ ModelShown /\ ModelSaid /\ ModelStopped
  BY DEF ModelInv
<1>1. Model!TypeOK
  <2>1. /\ reply.parts \in Seq(ModelParts) /\ own \in Seq(ModelParts)
        /\ Len(reply.parts) + Len(own) <= count /\ count \in 0..MaxParts
    BY <1>0 DEF ModelKept, ModelReplies
  <2>2. Len(Model!Kept) <= MaxParts
    <3>1. Len(Model!Kept) = Len(reply.parts) + Len(own) /\ Len(reply.parts) \in Nat /\ Len(own) \in Nat
      BY <2>1, ConcatProperties, LenProperties DEF Model!Kept
    <3>2. QED
      BY <2>1, <3>1, ModelAssumption
  <2>3. call.first \in Tryable /\ call.session \in Tryable /\ call.attempt \in 0..Retries
    BY <1>0 DEF ModelCall, ModelCalls
  <2>4. QED
    BY <2>1, <2>2, <2>3, <1>0 DEF Model!TypeOK, ModelRows, ModelTurn, Tryable
<1>2. Model!RepliesAreWhole
  BY <1>0 DEF Model!RepliesAreWhole, ModelShown, ModelSaid, ModelStopped, Numbers
<1>3. QED
  BY <1>1, <1>2

\* ... and who is disabled.
LEMMA ModelExplains == ModelInv /\ [Model!Next]_(Model!vars) => Model!BlamesAUsedOne
<1> SUFFICES ASSUME ModelInv, [Model!Next]_(Model!vars), NEW s \in Sessions,
                    run = "failed", run' = "off", opal[s].enabled, ~opal'[s].enabled
             PROVE s \in {call.session, call.first}
  BY DEF Model!BlamesAUsedOne
<1>1. Model!Punish
  BY DEF Model!Next, Model!vars, Model!Execute, Model!Cooled, Model!Expire, Model!Administer, Model!Send, Model!Once, Model!Done, Model!Feed, Model!Refused, Model!Broken, Model!Finish
<1>2. Model!Failed(blamed, error)
  BY <1>1 DEF Model!Punish
<1>3. s = blamed
  BY <1>2 DEF Model!Failed, ModelInv, ModelRows
<1>4. blamed = call.first
  BY DEF ModelInv, ModelTurn, ModelCall
<1>5. QED
  BY <1>3, <1>4

-----------------------------------------------------------------------------
(* Long inputs.                                                            *)

Pending(i, c) == open[i] = c \/ c \in prompts[i]

LongTypes ==
    /\ Long!TypeOK
    /\ kept \in [Long!Collections -> Seq(1..MaxTexts)]
    /\ \A i \in Instances : open[i] <= begun /\ prompts[i] \subseteq 1..begun
    /\ \A c \in Long!Collections : Len(kept[c]) <= texts

\* A collection is at one instance at most, a message in one collection, and one
\* that was used is in none that can still be used.
LongPlaced ==
    /\ \A i, j \in Instances, c \in Long!Collections : Pending(i, c) /\ Pending(j, c) => i = j
    /\ \A i \in Instances : open[i] \notin prompts[i]
    /\ \A c \in Long!Collections : c > begun => kept[c] = <<>>
    /\ \A c, d \in Long!Collections : Long!Messages(c) \cap Long!Messages(d) # {} => c = d
    /\ \A m \in 1..MaxTexts : m > texts => used[m] = 0
    /\ \A i \in Instances, c \in Long!Collections, m \in 1..MaxTexts :
          Pending(i, c) /\ m \in Long!Messages(c) => used[m] = 0

\* Where commands did not cross, an expiry is that of the collection that is open,
\* and there is one.
Timed ==
    /\ \A c \in Long!Collections : timer[c] = Len(kept[c])
    /\ \A t \in timers : t.at \in Instances /\ t.of \in Long!Collections
    /\ \A i \in Instances \ crossed :
         /\ \A c, d \in prompts[i] : c = d
         /\ prompts[i] # {} => open[i] = 0
         /\ \A t \in timers : t.at = i => open[i] # 0 /\ t.of = open[i] /\ t.after = timer[open[i]]
         /\ \A t, u \in timers : t.at = i /\ u.at = i => t = u

LongInv == LongTypes /\ Long!UsedOnce /\ LongPlaced /\ Timed

\* Nothing is collected at first.
LEMMA LongBegins == Long!Init => LongInv
<1> SUFFICES ASSUME Long!Init PROVE LongInv
  OBVIOUS
<1> USE LongAssumption
<1>1. \A c \in Long!Collections : kept[c] = <<>> /\ Len(kept[c]) = 0 /\ Long!Messages(c) = {}
  BY DEF Long!Init, Long!Messages
<1>2. kept \in [Long!Collections -> Seq(1..MaxTexts)] /\ open \in [Instances -> 0..MaxBegun]
      /\ timer \in [Long!Collections -> 0..MaxTexts] /\ used \in [1..MaxTexts -> Nat]
      /\ prompts \in [Instances -> SUBSET Long!Collections]
  BY DEF Long!Init
<1>3. LongTypes
  BY <1>1, <1>2 DEF Long!Init, LongTypes, Long!TypeOK
<1>4. Long!UsedOnce /\ LongPlaced /\ Timed
  BY <1>1 DEF Long!Init, Long!UsedOnce, LongPlaced, Timed, Pending, Long!Collections
<1>5. QED
  BY <1>3, <1>4 DEF LongInv

\* The expiries there can be.
AllTimers == Long!Timers(TRUE) \cup Long!Timers(FALSE)

\* What the fields of an expiry are.
LEMMA TimerParts ==
    ASSUME NEW i, NEW c, NEW n, NEW over
    PROVE /\ Long!Timer(i, c, n, over).at = i /\ Long!Timer(i, c, n, over).of = c
          /\ Long!Timer(i, c, n, over).after = n /\ Long!Timer(i, c, n, over).over = over
BY DEF Long!Timer

\* ... and of one that slept long enough.
LEMMA TimerOver ==
    ASSUME NEW i, NEW c, NEW n, NEW over
    PROVE [Long!Timer(i, c, n, over) EXCEPT !.over = TRUE] = Long!Timer(i, c, n, TRUE)
<1> DEFINE f == [Long!Timer(i, c, n, over) EXCEPT !.over = TRUE]
           g == Long!Timer(i, c, n, TRUE)
<1>1. DOMAIN f = {"at", "of", "after", "over"} /\ DOMAIN g = {"at", "of", "after", "over"}
  BY DEF Long!Timer
<1>2. f.at = g.at /\ f.of = g.of /\ f.after = g.after /\ f.over = g.over
  BY DEF Long!Timer
<1>3. QED
  BY <1>1, <1>2 DEF Long!Timer

\* Expiries, one by one.
LEMMA TimersIn ==
    ASSUME NEW over, NEW t
    PROVE t \in Long!Timers(over) <=> \E i \in Instances, c \in Long!Collections, n \in 0..MaxTexts : t = Long!Timer(i, c, n, over)
BY DEF Long!Timers

\* All expiries are records of their type.
LEMMA TimersAre ==
    ASSUME NEW t \in AllTimers
    PROVE /\ t.at \in Instances /\ t.of \in Long!Collections /\ t.after \in 0..MaxTexts /\ t.over \in BOOLEAN
          /\ t = Long!Timer(t.at, t.of, t.after, t.over)
          /\ [t EXCEPT !.over = TRUE] = Long!Timer(t.at, t.of, t.after, TRUE)
          /\ [t EXCEPT !.over = TRUE] \in AllTimers
<1>1. PICK over \in BOOLEAN : t \in Long!Timers(over)
  BY Zenon DEF AllTimers
<1>2. PICK i \in Instances, c \in Long!Collections, n \in 0..MaxTexts : t = Long!Timer(i, c, n, over)
  BY <1>1, TimersIn
<1>3. t.at = i /\ t.of = c /\ t.after = n /\ t.over = over
  BY <1>2, TimerParts
<1>4. [t EXCEPT !.over = TRUE] = Long!Timer(i, c, n, TRUE)
  BY <1>2, TimerOver, Zenon
<1>5. \A o : Long!Timer(i, c, n, o) \in Long!Timers(o)
  BY TimersIn
<1>6. [t EXCEPT !.over = TRUE] \in AllTimers
  BY <1>4, <1>5, Zenon DEF AllTimers
<1>7. QED
  BY <1>2, <1>3, <1>4, <1>6, Zenon

\* One that is set is one of them.
LEMMA TimersMade ==
    ASSUME NEW i \in Instances, NEW c \in Long!Collections, NEW n \in 0..MaxTexts
    PROVE Long!Timer(i, c, n, FALSE) \in AllTimers
<1>1. \A o : Long!Timer(i, c, n, o) \in Long!Timers(o)
  BY TimersIn
<1>2. QED
  BY <1>1, Zenon DEF AllTimers

\* What a step may use, if it closes the collection of i, or has none there.
LEMMA LongCloses ==
    ASSUME LongInv, NEW i \in Instances, Long!Close(i),
           used' \in [1..MaxTexts -> Nat],
           \A m \in 1..MaxTexts : used'[m] # used[m] => m \in Long!Messages(open[i]) /\ used'[m] = 1
    PROVE LongInv'
<1> DEFINE c == open[i]
<1>1. /\ c # 0 /\ c \in Long!Collections /\ c \in 1..begun /\ open' = [open EXCEPT ![i] = 0] /\ timers' = timers \ Long!Own(i, c)
      /\ UNCHANGED <<begun, kept, system, prompts, timer, texts, crossed>>
  BY DEF Long!Close, LongInv, LongTypes, Long!TypeOK, Long!Collections
<1>2. \A d \in Long!Collections : Long!Messages(d)' = Long!Messages(d)
  BY <1>1 DEF Long!Messages
<1>3. /\ open \in [Instances -> 0..MaxBegun] /\ open' \in [Instances -> 0..MaxBegun]
      /\ \A j \in Instances : open'[j] = IF j = i THEN 0 ELSE open[j]
  BY <1>1, LongAssumption DEF LongInv, LongTypes, Long!TypeOK
<1>4. LongTypes'
  <2>1. \A j \in Instances : open'[j] <= begun
    <3>1. begun \in Nat /\ \A j \in Instances : open[j] <= begun
      BY LongAssumption DEF LongInv, LongTypes, Long!TypeOK
    <3>2. QED
      BY <1>3, <3>1
  <2>2. Long!TypeOK'
    <3>1. timers' \subseteq Long!Timers(TRUE) \cup Long!Timers(FALSE)
      BY <1>1 DEF LongInv, LongTypes, Long!TypeOK
    <3>2. \A d \in Long!Collections : Long!Messages(d)' \subseteq 1..texts
      BY <1>2 DEF LongInv, LongTypes, Long!TypeOK
    <3>3. /\ begun \in 0..MaxBegun /\ system \subseteq Long!Collections /\ texts \in 0..MaxTexts
          /\ prompts \in [Instances -> SUBSET Long!Collections] /\ timer \in [Long!Collections -> 0..MaxTexts]
          /\ crossed \subseteq Instances
      BY DEF LongInv, LongTypes, Long!TypeOK
    <3>4. QED
      BY <1>1, <1>3, <3>1, <3>2, <3>3 DEF Long!TypeOK
  <2>3. QED
    BY <1>1, <2>1, <2>2 DEF LongInv, LongTypes
<1>5. Long!UsedOnce'
  BY DEF LongInv, Long!UsedOnce
<1>6. \A j \in Instances, d \in Long!Collections : Pending(j, d)' => Pending(j, d) /\ d # c
  BY <1>1, <1>3 DEF Pending, LongInv, LongPlaced, Long!Collections
<1>7. LongPlaced'
  <2>1. \A m \in 1..MaxTexts : m > texts => used'[m] = 0
    BY <1>1 DEF LongInv, LongPlaced, LongTypes, Long!TypeOK
  <2>2. \A j \in Instances, d \in Long!Collections, m \in 1..MaxTexts :
            Pending(j, d)' /\ m \in Long!Messages(d) => used'[m] = 0
    BY <1>1, <1>6 DEF LongInv, LongPlaced
  <2>3. \A j \in Instances : open'[j] \notin prompts[j]
    <3>1. \A j \in Instances : prompts[j] \subseteq 1..begun
      BY DEF LongInv, LongTypes
    <3>2. QED
      BY <1>3, <3>1 DEF LongInv, LongPlaced
  <2>4. QED
    BY <1>1, <1>2, <1>6, <2>1, <2>2, <2>3 DEF LongInv, LongPlaced
<1>8. Timed'
  <2>1. ASSUME NEW j \in Instances \ crossed
        PROVE /\ \A t \in timers' : t.at = j => open'[j] # 0 /\ t.of = open'[j] /\ t.after = timer[open'[j]]
              /\ \A t, u \in timers' : t.at = j /\ u.at = j => t = u
              /\ prompts[j] # {} => open'[j] = 0
    <3>1. CASE j # i
      BY <1>1, <1>3, <2>1, <3>1 DEF LongInv, Timed
    <3>2. CASE j = i
      <4>1. \A t \in timers : t.at = i => t \in Long!Own(i, c)
        <5>1. ASSUME NEW t \in timers, t.at = i PROVE t \in Long!Own(i, c)
          <6>1. t.of = c /\ t.after = timer[c] /\ t \in AllTimers
            BY <2>1, <3>2, <5>1 DEF LongInv, Timed, LongTypes, Long!TypeOK, AllTimers
          <6>2. QED
            BY <1>1, <5>1, <6>1, TimersAre DEF Long!Own
        <5>2. QED
          BY <5>1
      <4>2. QED
        BY <1>1, <1>3, <3>2, <4>1
    <3>3. QED
      BY <3>1, <3>2
  <2>2. QED
    BY <1>1, <2>1 DEF LongInv, Timed
<1>9. QED
  BY <1>4, <1>5, <1>7, <1>8 DEF LongInv

\* Every step keeps it.
LEMMA LongKeeps ==
    ASSUME LongInv, Long!Next
    PROVE LongInv'
<1> USE LongAssumption
<1>a. begun \in 0..MaxBegun /\ texts \in 0..MaxTexts
  BY DEF LongInv, LongTypes, Long!TypeOK
<1>b. open \in [Instances -> 0..MaxBegun] /\ prompts \in [Instances -> SUBSET Long!Collections]
  BY DEF LongInv, LongTypes, Long!TypeOK
<1>c. kept \in [Long!Collections -> Seq(1..MaxTexts)]
  BY DEF LongInv, LongTypes
<1>d. timer \in [Long!Collections -> 0..MaxTexts]
  BY DEF LongInv, LongTypes, Long!TypeOK
<1>e. used \in [1..MaxTexts -> Nat]
  BY DEF LongInv, LongTypes, Long!TypeOK
<1>f. timers \subseteq AllTimers /\ crossed \subseteq Instances /\ system \subseteq Long!Collections
  BY DEF LongInv, LongTypes, Long!TypeOK, AllTimers
<1>g. \A i \in Instances : open[i] \in 0..begun /\ prompts[i] \subseteq 1..begun /\ prompts[i] \subseteq Long!Collections
  BY <1>a, <1>b DEF LongInv, LongTypes
<1>h. \A c \in Long!Collections : Long!Messages(c) \subseteq 1..texts /\ Len(kept[c]) <= texts /\ Len(kept[c]) \in Nat /\ timer[c] \in 0..MaxTexts
  BY <1>c, <1>d DEF LongInv, LongTypes, Long!TypeOK
<1>1. ASSUME NEW i \in Instances, NEW b \in BOOLEAN, NEW f \in BOOLEAN, Long!Command(i, b, f)
      PROVE LongInv'
  <2> PICK c : c = begun + 1
    OBVIOUS
  <2>1. /\ begun < MaxBegun /\ begun' = c /\ c \in Long!Collections /\ open' = [open EXCEPT ![i] = 0]
        /\ timers' = timers \ Long!Own(i, open[i]) /\ prompts' = [prompts EXCEPT ![i] = @ \cup {c}]
        /\ crossed' = (IF prompts[i] # {} THEN crossed \cup {i} ELSE crossed)
        /\ system' \subseteq Long!Collections /\ used' = used
    <3>1. begun < MaxBegun /\ begun' = c /\ c \in Long!Collections
      BY <1>a, <1>1 DEF Long!Command, Long!Collections
    <3>2. system' \subseteq Long!Collections
      BY <1>f, <1>1, <3>1 DEF Long!Command
    <3>3. QED
      BY <1>1, <3>1, <3>2 DEF Long!Command
  <2>2. \/ texts < MaxTexts /\ texts' = texts + 1 /\ kept' = [kept EXCEPT ![c] = <<texts'>>]
        \/ UNCHANGED <<texts, kept>>
    BY <1>1, <2>1 DEF Long!Command
  <2>3. timer' = [timer EXCEPT ![c] = Len(kept'[c])]
    BY <1>1, <2>1 DEF Long!Command
  <2>4. /\ \A j \in Instances : open'[j] = IF j = i THEN 0 ELSE open[j]
        /\ \A j \in Instances : prompts'[j] = IF j = i THEN prompts[j] \cup {c} ELSE prompts[j]
        /\ open' \in [Instances -> 0..MaxBegun] /\ prompts' \in [Instances -> SUBSET Long!Collections]
    <3>1. /\ \A j \in Instances : open'[j] = IF j = i THEN 0 ELSE open[j]
          /\ open' \in [Instances -> 0..MaxBegun]
      BY <1>b, <2>1
    <3>2. \A j \in Instances : prompts'[j] = IF j = i THEN prompts[j] \cup {c} ELSE prompts[j]
      BY <1>b, <2>1
    <3>3. prompts' \in [Instances -> SUBSET Long!Collections]
      BY <1>b, <2>1
    <3>4. QED
      BY <3>1, <3>2, <3>3
  <2>5. kept[c] = <<>> /\ Long!Messages(c) = {} /\ \A j \in Instances : ~Pending(j, c)
    <3>1. kept[c] = <<>>
      BY <1>a, <1>g, <2>1 DEF LongInv, LongPlaced
    <3>2. \A j \in Instances : ~Pending(j, c)
      BY <1>a, <1>g, <2>1 DEF Pending
    <3>3. QED
      BY <3>1, <3>2 DEF Long!Messages
  <2>6. /\ kept' \in [Long!Collections -> Seq(1..MaxTexts)] /\ texts' \in 0..MaxTexts /\ texts <= texts'
        /\ \A d \in Long!Collections : d # c => kept'[d] = kept[d]
        /\ \A m \in Long!Messages(c)' : m = texts + 1 /\ m <= texts'
        /\ Len(kept'[c]) \in 0..MaxTexts /\ Len(kept'[c]) <= texts'
    <3>1. CASE texts < MaxTexts /\ texts' = texts + 1 /\ kept' = [kept EXCEPT ![c] = <<texts'>>]
      <4>1. texts' \in 1..MaxTexts /\ <<texts'>> \in Seq(1..MaxTexts) /\ Len(<<texts'>>) = 1 /\ kept'[c] = <<texts'>>
        BY <1>a, <1>c, <2>1, <3>1
      <4>2. \A m \in Long!Messages(c)' : m = texts'
        <5>1. \A k \in 1..Len(kept'[c]) : kept'[c][k] = texts'
          BY <4>1
        <5>2. QED
          BY <5>1 DEF Long!Messages
      <4>3. kept' \in [Long!Collections -> Seq(1..MaxTexts)] /\ \A d \in Long!Collections : d # c => kept'[d] = kept[d]
        BY <1>c, <2>1, <3>1, <4>1
      <4>4. QED
        BY <1>a, <3>1, <4>1, <4>2, <4>3
    <3>2. CASE UNCHANGED <<texts, kept>>
      <4>1. Long!Messages(c)' = {} /\ Len(kept[c]) = 0
        BY <2>5, <3>2 DEF Long!Messages
      <4>2. QED
        BY <1>a, <1>c, <3>2, <4>1
    <3>3. QED
      BY <2>2, <3>1, <3>2
  <2>7. \A d \in Long!Collections : d # c => Long!Messages(d)' = Long!Messages(d)
    BY <2>6 DEF Long!Messages
  <2>8. timer' \in [Long!Collections -> 0..MaxTexts] /\ timer'[c] = Len(kept'[c])
        /\ \A d \in Long!Collections : d # c => timer'[d] = timer[d]
    BY <1>d, <2>1, <2>3, <2>6
  <2>9. LongTypes'
    <3>1. \A d \in Long!Collections : Long!Messages(d)' \subseteq 1..texts'
      <4>1. \A m \in 1..texts : m \in 1..texts'
        BY <1>a, <2>6
      <4>2. \A m \in Long!Messages(c)' : m \in 1..texts'
        BY <1>a, <2>6
      <4>3. QED
        BY <1>h, <2>7, <4>1, <4>2
    <3>2. timers' \subseteq AllTimers /\ crossed' \subseteq Instances
      BY <1>f, <2>1
    <3>3. \A j \in Instances : open'[j] <= begun' /\ prompts'[j] \subseteq 1..begun'
      BY <1>a, <1>g, <2>1, <2>4
    <3>4. begun' \in 0..MaxBegun
      BY <1>a, <1>g, <2>1
    <3>5. \A d \in Long!Collections : Len(kept'[d]) <= texts'
      <4>1. \A d \in Long!Collections : d # c => Len(kept'[d]) = Len(kept[d])
        BY <2>6
      <4>2. \A d \in Long!Collections : Len(kept[d]) <= texts'
        BY <1>a, <1>h, <2>6
      <4>3. QED
        BY <2>6, <4>1, <4>2
    <3>6. QED
      BY <1>e, <2>1, <2>4, <2>6, <2>8, <3>1, <3>2, <3>3, <3>4, <3>5 DEF LongTypes, Long!TypeOK, AllTimers
  <2>10. Long!UsedOnce'
    BY <2>1 DEF LongInv, Long!UsedOnce
  <2>11. \A j \in Instances, d \in Long!Collections : Pending(j, d)' => Pending(j, d) \/ (j = i /\ d = c)
    BY <1>a, <1>g, <2>4 DEF Pending, Long!Collections
  <2>12. LongPlaced'
    <3>1. \A j, k \in Instances, d \in Long!Collections : Pending(j, d)' /\ Pending(k, d)' => j = k
      BY <2>5, <2>11 DEF LongInv, LongPlaced
    <3>2. \A j \in Instances : open'[j] \notin prompts'[j]
      BY <1>a, <1>g, <2>1, <2>4 DEF LongInv, LongPlaced
    <3>3. \A d \in Long!Collections : d > begun' => kept'[d] = <<>>
      <4>1. ASSUME NEW d \in Long!Collections, d > begun' PROVE kept'[d] = <<>>
        <5>1. d # c /\ d > begun
          BY <1>a, <2>1, <4>1 DEF Long!Collections
        <5>2. QED
          BY <2>6, <5>1 DEF LongInv, LongPlaced
      <4>2. QED
        BY <4>1
    <3>4. \A d, e \in Long!Collections : Long!Messages(d)' \cap Long!Messages(e)' # {} => d = e
      <4>1. \A d \in Long!Collections : d # c => Long!Messages(c)' \cap Long!Messages(d) = {}
        BY <1>a, <1>h, <2>6
      <4>2. QED
        BY <2>7, <4>1 DEF LongInv, LongPlaced
    <3>5. \A m \in 1..MaxTexts : m > texts' => used'[m] = 0
      BY <1>a, <1>g, <2>1, <2>6 DEF LongInv, LongPlaced
    <3>6. \A j \in Instances, d \in Long!Collections, m \in 1..MaxTexts :
              Pending(j, d)' /\ m \in Long!Messages(d)' => used'[m] = 0
      <4>1. ASSUME NEW j \in Instances, NEW d \in Long!Collections, NEW m \in 1..MaxTexts, Pending(j, d)', m \in Long!Messages(d)'
            PROVE used[m] = 0
        <5>1. CASE d = c
          <6>1. m > texts
            BY <1>a, <2>6, <4>1, <5>1
          <6>2. QED
            BY <6>1 DEF LongInv, LongPlaced
        <5>2. CASE d # c
          BY <2>7, <2>11, <4>1, <5>2 DEF LongInv, LongPlaced
        <5>3. QED
          BY <5>1, <5>2
      <4>2. QED
        BY <2>1, <4>1
    <3>7. QED
      BY <3>1, <3>2, <3>3, <3>4, <3>5, <3>6 DEF LongPlaced
  <2>13. Timed'
    <3>1. \A d \in Long!Collections : timer'[d] = Len(kept'[d])
      BY <2>6, <2>8 DEF LongInv, Timed
    <3>2. ASSUME NEW j \in Instances \ crossed'
          PROVE /\ \A d, e \in prompts'[j] : d = e
                /\ prompts'[j] # {} => open'[j] = 0
                /\ \A t \in timers' : t.at = j => open'[j] # 0 /\ t.of = open'[j] /\ t.after = timer'[open'[j]]
                /\ \A t, u \in timers' : t.at = j /\ u.at = j => t = u
      <4>0. j \in Instances \ crossed
        BY <2>1, <3>2
      <4>1. CASE j # i
        <5>1. open'[j] = open[j] /\ prompts'[j] = prompts[j]
          BY <2>4, <4>1
        <5>2. open[j] # c
          BY <1>a, <1>g
        <5>3. open[j] # 0 => open[j] \in Long!Collections /\ timer'[open[j]] = timer[open[j]]
          BY <1>a, <1>g, <2>8, <5>2 DEF Long!Collections
        <5>4. QED
          BY <2>1, <4>0, <5>1, <5>3 DEF LongInv, Timed
      <4>2. CASE j = i
        <5>1. prompts[i] = {}
          BY <2>1, <3>2, <4>2
        <5>2. \A t \in timers : t.at = i => t \in Long!Own(i, open[i])
          <6>1. ASSUME NEW t \in timers, t.at = i PROVE t \in Long!Own(i, open[i])
            <7>1. open[i] # 0 /\ t.of = open[i] /\ t.after = timer[open[i]] /\ t \in AllTimers
              BY <1>f, <4>0, <4>2, <6>1 DEF LongInv, Timed
            <7>2. QED
              BY <6>1, <7>1, TimersAre DEF Long!Own
          <6>2. QED
            BY <6>1
        <5>3. QED
          BY <2>1, <2>4, <4>2, <5>1, <5>2
      <4>3. QED
        BY <4>1, <4>2
    <3>3. QED
      BY <2>1, <3>1, <3>2 DEF LongInv, Timed
  <2>14. QED
    BY <2>9, <2>10, <2>12, <2>13 DEF LongInv
<1>2. ASSUME NEW i \in Instances, NEW c \in Long!Collections, Long!Prompted(i, c)
      PROVE LongInv'
  <2>1. /\ c \in prompts[i] /\ prompts' = [prompts EXCEPT ![i] = @ \ {c}] /\ open' = [open EXCEPT ![i] = c]
        /\ timers' = timers \cup {Long!Timer(i, c, timer[c], FALSE)}
        /\ UNCHANGED <<begun, kept, system, timer, texts, used, crossed>>
    BY <1>2 DEF Long!Prompted
  <2>2. /\ \A j \in Instances : open'[j] = IF j = i THEN c ELSE open[j]
        /\ \A j \in Instances : prompts'[j] = IF j = i THEN prompts[j] \ {c} ELSE prompts[j]
        /\ open' \in [Instances -> 0..MaxBegun] /\ prompts' \in [Instances -> SUBSET Long!Collections]
    <3>1. /\ \A j \in Instances : open'[j] = IF j = i THEN c ELSE open[j]
          /\ open' \in [Instances -> 0..MaxBegun]
      BY <1>b, <2>1 DEF Long!Collections
    <3>2. \A j \in Instances : prompts'[j] = IF j = i THEN prompts[j] \ {c} ELSE prompts[j]
      BY <1>b, <2>1
    <3>3. prompts' \in [Instances -> SUBSET Long!Collections]
      BY <1>b, <2>1
    <3>4. QED
      BY <3>1, <3>2, <3>3
  <2>3. \A d \in Long!Collections : Long!Messages(d)' = Long!Messages(d)
    BY <2>1 DEF Long!Messages
  <2>4. Long!Timer(i, c, timer[c], FALSE) \in AllTimers /\ timers' \subseteq AllTimers
    BY <1>f, <1>h, <2>1, TimersMade
  <2>5. LongTypes'
    <3>1. \A j \in Instances : open'[j] <= begun' /\ prompts'[j] \subseteq 1..begun'
      BY <1>a, <1>g, <2>1, <2>2
    <3>2. QED
      <4>1. Long!TypeOK'
        BY <1>a, <1>d, <1>e, <1>f, <1>h, <2>1, <2>2, <2>3, <2>4 DEF Long!TypeOK, AllTimers
      <4>2. QED
        BY <1>c, <1>h, <2>1, <3>1, <4>1 DEF LongTypes
  <2>6. Long!UsedOnce'
    BY <2>1 DEF LongInv, Long!UsedOnce
  <2>7. \A j \in Instances, d \in Long!Collections : Pending(j, d)' => Pending(j, d)
    BY <1>a, <1>g, <2>1, <2>2 DEF Pending
  <2>8. LongPlaced'
    <3>1. \A j \in Instances : open'[j] \notin prompts'[j]
      BY <1>a, <1>g, <2>1, <2>2 DEF LongInv, LongPlaced, Pending
    <3>2. QED
      BY <2>1, <2>3, <2>7, <3>1 DEF LongInv, LongPlaced
  <2>9. Timed'
    <3>1. ASSUME NEW j \in Instances \ crossed
          PROVE /\ \A d, e \in prompts'[j] : d = e
                /\ prompts'[j] # {} => open'[j] = 0
                /\ \A t \in timers' : t.at = j => open'[j] # 0 /\ t.of = open'[j] /\ t.after = timer'[open'[j]]
                /\ \A t, u \in timers' : t.at = j /\ u.at = j => t = u
      <4>1. CASE j # i
        <5>1. Long!Timer(i, c, timer[c], FALSE).at = i
          BY DEF Long!Timer
        <5>2. open'[j] = open[j] /\ prompts'[j] = prompts[j] /\ \A t \in timers' : t.at = j => t \in timers
          BY <2>1, <2>2, <4>1, <5>1
        <5>3. QED
          <6>1. /\ \A d, e \in prompts[j] : d = e
                /\ prompts[j] # {} => open[j] = 0
                /\ \A t \in timers : t.at = j => open[j] # 0 /\ t.of = open[j] /\ t.after = timer[open[j]]
                /\ \A t, u \in timers : t.at = j /\ u.at = j => t = u
            BY <3>1 DEF LongInv, Timed
          <6>2. timer' = timer
            BY <2>1
          <6>3. QED
            BY <5>2, <6>1, <6>2
      <4>2. CASE j = i
        <5>1. \A t \in timers : t.at # i
          BY <2>1, <3>1, <4>2 DEF LongInv, Timed
        <5>2. \A d \in prompts[i] : d = c
          BY <2>1, <3>1, <4>2 DEF LongInv, Timed
        <5>3. c # 0
          BY DEF Long!Collections
        <5>4. QED
          <6> DEFINE u == Long!Timer(i, c, timer[c], FALSE)
          <6>1. u.at = i /\ u.of = c /\ u.after = timer[c]
            BY DEF Long!Timer
          <6> HIDE DEF u
          <6>2. \A t \in timers' : t.at = i => t = u
            BY <2>1, <5>1 DEF u
          <6>3. QED
            <7>1. open'[j] = c /\ prompts'[j] = {} /\ timer' = timer
              BY <2>1, <2>2, <4>2, <5>2
            <7>2. QED
              BY <4>2, <5>3, <6>1, <6>2, <7>1
      <4>3. QED
        BY <4>1, <4>2
    <3>2. \A t \in timers' : t.at \in Instances /\ t.of \in Long!Collections
      BY <2>4, TimersAre
    <3>3. QED
      BY <2>1, <3>1, <3>2 DEF LongInv, Timed
  <2>10. QED
    BY <2>5, <2>6, <2>8, <2>9 DEF LongInv
<1>3. ASSUME NEW i \in Instances, Long!Text(i)
      PROVE LongInv'
  <2> PICK c, m, n : c = open[i] /\ m = texts + 1 /\ n = Len(kept[c]) + 1
    OBVIOUS
  <2>1. texts < MaxTexts /\ texts' = m /\ UNCHANGED <<begun, open, system, prompts, crossed>>
    BY <1>3 DEF Long!Text
  <2>2. m \in 1..MaxTexts /\ m > texts /\ used[m] = 0 /\ \A d \in Long!Collections : m \notin Long!Messages(d)
    BY <1>a, <1>h, <2>1 DEF LongInv, LongPlaced
  <2>3. CASE c = 0
    <3>1. used' = [k \in 1..MaxTexts |-> used[k] + (IF k \in {texts'} THEN 1 ELSE 0)] /\ UNCHANGED <<kept, timer, timers>>
      BY <1>3, <2>3 DEF Long!Text, Long!Use
    <3>2. \A k \in 1..MaxTexts : used'[k] = IF k = m THEN 1 ELSE used[k]
      BY <1>e, <2>1, <2>2, <3>1
    <3>3. \A d \in Long!Collections : Long!Messages(d)' = Long!Messages(d)
      BY <3>1 DEF Long!Messages
    <3>4. LongTypes'
      <4>1. used' \in [1..MaxTexts -> Nat]
        BY <1>e, <3>1, <3>2
      <4>2. \A d \in Long!Collections : Long!Messages(d)' \subseteq 1..texts'
        BY <1>a, <1>h, <2>1, <3>3
      <4>3. QED
        <5>1. \A d \in Long!Collections : Len(kept[d]) <= texts'
          BY <1>a, <1>h, <2>1
        <5>2. QED
          <6>1. Long!TypeOK'
            <7>1. texts' \in 0..MaxTexts
              BY <1>a, <2>1
            <7>2. QED
              BY <1>a, <1>b, <1>d, <1>f, <2>1, <3>1, <4>1, <4>2, <7>1 DEF Long!TypeOK, AllTimers
          <6>2. QED
            BY <1>c, <1>g, <2>1, <3>1, <5>1, <6>1 DEF LongTypes
    <3>5. Long!UsedOnce'
      BY <3>2 DEF LongInv, Long!UsedOnce
    <3>6. LongPlaced'
      <4>1. \A j \in Instances, d \in Long!Collections : Pending(j, d)' <=> Pending(j, d)
        BY <2>1 DEF Pending
      <4>2. \A k \in 1..MaxTexts : k > texts' => used'[k] = 0
        BY <1>a, <1>g, <2>1, <3>2 DEF LongInv, LongPlaced
      <4>3. \A j \in Instances, d \in Long!Collections, k \in 1..MaxTexts :
                Pending(j, d)' /\ k \in Long!Messages(d)' => used'[k] = 0
        BY <2>2, <3>2, <3>3, <4>1 DEF LongInv, LongPlaced
      <4>4. QED
        BY <2>1, <3>1, <3>3, <4>1, <4>2, <4>3 DEF LongInv, LongPlaced
    <3>7. Timed'
      BY <2>1, <3>1 DEF LongInv, Timed
    <3>8. QED
      BY <3>4, <3>5, <3>6, <3>7 DEF LongInv
  <2>4. CASE c # 0
    <3>1. /\ kept' = [kept EXCEPT ![c] = Append(@, m)] /\ timer' = [timer EXCEPT ![c] = n]
          /\ timers' = (timers \ Long!Own(i, c)) \cup {Long!Timer(i, c, n, FALSE)} /\ used' = used
      BY <1>3, <2>1, <2>4 DEF Long!Text
    <3>2. c \in Long!Collections /\ c \in 1..begun
      BY <1>a, <1>g, <2>4 DEF Long!Collections
    <3>3. /\ kept' \in [Long!Collections -> Seq(1..MaxTexts)] /\ kept'[c] = Append(kept[c], m)
          /\ \A d \in Long!Collections : d # c => kept'[d] = kept[d]
          /\ kept[c] \in Seq(1..MaxTexts) /\ Append(kept[c], m) \in Seq(1..MaxTexts)
      <4>1. kept[c] \in Seq(1..MaxTexts) /\ m \in 1..MaxTexts
        BY <1>c, <2>2, <3>2
      <4>2. Append(kept[c], m) \in Seq(1..MaxTexts)
        BY <4>1
      <4>3. QED
        BY <1>c, <3>1, <3>2, <4>1, <4>2
    <3>4. Len(kept'[c]) = n /\ \A d \in Long!Collections : d # c => Long!Messages(d)' = Long!Messages(d)
      <4>1. Len(kept'[c]) = n
        BY <3>3
      <4>2. \A d \in Long!Collections : d # c => Long!Messages(d)' = Long!Messages(d)
        BY <3>3 DEF Long!Messages
      <4>3. QED
        BY <4>1, <4>2
    <3>5. Long!Messages(c)' \subseteq Long!Messages(c) \cup {m}
      <4>1. ASSUME NEW k \in 1..Len(kept'[c]) PROVE kept'[c][k] \in Long!Messages(c) \cup {m}
        BY <3>3, <4>1 DEF Long!Messages
      <4>2. \A k \in 1..Len(kept'[c]) : kept'[c][k] \in Long!Messages(c) \cup {m}
        BY <4>1
      <4>3. QED
        BY <4>2 DEF Long!Messages
    <3>6. n \in 0..MaxTexts /\ n <= texts'
      BY <1>a, <1>h, <2>1, <3>2
    <3>7. Long!Timer(i, c, n, FALSE) \in AllTimers /\ timers' \subseteq AllTimers
      BY <1>f, <3>1, <3>2, <3>6, TimersMade
    <3>8. timer' \in [Long!Collections -> 0..MaxTexts] /\ timer'[c] = n /\ \A d \in Long!Collections : d # c => timer'[d] = timer[d]
      BY <1>d, <3>1, <3>2, <3>6
    <3>9. LongTypes'
      <4>1. \A d \in Long!Collections : Long!Messages(d)' \subseteq 1..texts' /\ Len(kept'[d]) <= texts'
        <5>1. \A d \in Long!Collections : d # c => Long!Messages(d)' \subseteq 1..texts' /\ Len(kept'[d]) <= texts'
          <6>1. \A d \in Long!Collections : Long!Messages(d) \subseteq 1..texts' /\ Len(kept[d]) <= texts'
            BY <1>a, <1>h, <2>1
          <6>2. \A d \in Long!Collections : d # c => kept'[d] = kept[d]
            BY <3>3
          <6>3. QED
            BY <3>4, <6>1, <6>2
        <5>2. Long!Messages(c)' \subseteq 1..texts' /\ Len(kept'[c]) <= texts'
          BY <1>a, <1>h, <2>1, <3>2, <3>4, <3>5, <3>6
        <5>3. QED
          BY <5>1, <5>2
      <4>2. QED
        <5>1. Long!TypeOK'
          <6>1. texts' \in 0..MaxTexts
            BY <1>a, <2>1
          <6>2. begun' \in 0..MaxBegun /\ open' \in [Instances -> 0..MaxBegun] /\ system' \subseteq Long!Collections
                /\ prompts' \in [Instances -> SUBSET Long!Collections] /\ crossed' \subseteq Instances
                /\ used' \in [1..MaxTexts -> Nat]
            BY <1>a, <1>b, <1>e, <1>f, <2>1, <3>1
          <6>3. QED
            BY <3>7, <3>8, <4>1, <6>1, <6>2 DEF Long!TypeOK, AllTimers
        <5>2. QED
          BY <1>g, <2>1, <3>3, <4>1, <5>1 DEF LongTypes
    <3>10. Long!UsedOnce'
      BY <3>1 DEF LongInv, Long!UsedOnce
    <3>11. LongPlaced'
      <4>1. \A j \in Instances, d \in Long!Collections : Pending(j, d)' <=> Pending(j, d)
        BY <2>1 DEF Pending
      <4>2. \A d \in Long!Collections : d > begun' => kept'[d] = <<>>
        <5>1. \A d \in Long!Collections : d > begun => kept[d] = <<>>
          BY DEF LongInv, LongPlaced
        <5>2. \A d \in Long!Collections : d > begun => d # c
          BY <1>a, <3>2 DEF Long!Collections
        <5>3. QED
          BY <2>1, <3>3, <5>1, <5>2
      <4>3. \A d, e \in Long!Collections : Long!Messages(d)' \cap Long!Messages(e)' # {} => d = e
        <5>1. \A d \in Long!Collections : d # c => (Long!Messages(c)' \cap Long!Messages(d)' # {} => Long!Messages(c) \cap Long!Messages(d) # {})
          BY <2>2, <3>4, <3>5
        <5>2. QED
          BY <3>2, <3>4, <5>1 DEF LongInv, LongPlaced
      <4>4. \A k \in 1..MaxTexts : k > texts' => used'[k] = 0
        BY <1>a, <1>g, <2>1, <3>1 DEF LongInv, LongPlaced
      <4>5. \A j \in Instances, d \in Long!Collections, k \in 1..MaxTexts :
                Pending(j, d)' /\ k \in Long!Messages(d)' => used'[k] = 0
        <5>1. ASSUME NEW j \in Instances, NEW d \in Long!Collections, NEW k \in 1..MaxTexts, Pending(j, d)', k \in Long!Messages(d)'
              PROVE used[k] = 0
          <6>1. k \in Long!Messages(d) \/ k = m
            BY <3>4, <3>5, <5>1
          <6>2. QED
            BY <2>2, <4>1, <5>1, <6>1 DEF LongInv, LongPlaced
        <5>2. QED
          BY <3>1, <5>1
      <4>6. QED
        BY <2>1, <4>1, <4>2, <4>3, <4>4, <4>5 DEF LongInv, LongPlaced
    <3>12. Timed'
      <4>1. \A d \in Long!Collections : timer'[d] = Len(kept'[d])
        BY <3>3, <3>4, <3>8 DEF LongInv, Timed
      <4>2. \A t \in timers' : t.at \in Instances /\ t.of \in Long!Collections
        BY <3>7, TimersAre
      <4>3. ASSUME NEW j \in Instances \ crossed
            PROVE /\ \A t \in timers' : t.at = j => open[j] # 0 /\ t.of = open[j] /\ t.after = timer'[open[j]]
                  /\ \A t, u \in timers' : t.at = j /\ u.at = j => t = u
        <5>1. CASE j # i
          <6>1. open[j] # c
            BY <3>2, <5>1 DEF LongInv, LongPlaced, Pending
          <6>2. open[j] # 0 => open[j] \in Long!Collections /\ timer'[open[j]] = timer[open[j]]
            BY <1>a, <1>b, <3>8, <6>1 DEF Long!Collections
          <6>3. \A t \in timers' : t.at = j => t \in timers
            <7>1. Long!Timer(i, c, n, FALSE).at = i
              BY DEF Long!Timer
            <7>2. QED
              BY <3>1, <5>1, <7>1
          <6>4. QED
            BY <4>3, <6>2, <6>3 DEF LongInv, Timed
        <5>2. CASE j = i
          <6>1. ASSUME NEW t \in timers, t.at = i PROVE t \in Long!Own(i, c)
            <7>1. t.of = c /\ t.after = timer[c] /\ t \in AllTimers
              BY <1>f, <4>3, <5>2, <6>1 DEF LongInv, Timed
            <7>2. QED
              BY <2>4, <6>1, <7>1, TimersAre DEF Long!Own
          <6>2. \A t \in timers' : t.at = i => t = Long!Timer(i, c, n, FALSE)
            BY <3>1, <6>1
          <6>3. QED
            <7> DEFINE u == Long!Timer(i, c, n, FALSE)
            <7>1. u.at = i /\ u.of = c /\ u.after = n
              BY DEF Long!Timer
            <7> HIDE DEF u
            <7>2. \A t \in timers' : t.at = i => t = u
              BY <6>2 DEF u
            <7>3. QED
              BY <2>4, <3>8, <5>2, <7>1, <7>2
        <5>3. QED
          BY <5>1, <5>2
      <4>4. QED
        BY <2>1, <4>1, <4>2, <4>3 DEF LongInv, Timed
    <3>13. QED
      BY <3>9, <3>10, <3>11, <3>12 DEF LongInv
  <2>5. QED
    BY <2>3, <2>4
<1>4. ASSUME NEW i \in Instances, Long!Send(i)
      PROVE LongInv'
  <2>1. Long!Close(i) /\ open[i] \in Long!Collections /\ open[i] # 0
    BY <1>a, <1>g, <1>4 DEF Long!Send, Long!Close, Long!Collections
  <2>2. \A m \in 1..MaxTexts : m \in Long!Messages(open[i]) => used[m] = 0
    BY <2>1 DEF LongInv, LongPlaced, Pending
  <2>3. CASE Long!Use(Long!Messages(open[i]))
    <3> DEFINE ms == Long!Messages(open[i])
    <3>1. used' = [m \in 1..MaxTexts |-> used[m] + (IF m \in ms THEN 1 ELSE 0)]
      BY <2>3 DEF Long!Use
    <3>2. \A m \in 1..MaxTexts : m \in ms => used[m] = 0
      BY <2>2
    <3> HIDE DEF ms
    <3>3. used' \in [1..MaxTexts -> Nat]
      BY <1>e, <3>1
    <3>4. \A m \in 1..MaxTexts : used'[m] # used[m] => m \in ms /\ used'[m] = 1
      BY <1>e, <3>1, <3>2
    <3>5. QED
      BY <2>1, <3>3, <3>4, LongCloses DEF ms
  <2>4. CASE UNCHANGED used
    BY <1>e, <2>1, <2>4, LongCloses
  <2>5. QED
    BY <1>4, <2>3, <2>4 DEF Long!Send
<1>5. ASSUME NEW i \in Instances, Long!Reset(i)
      PROVE LongInv'
  BY <1>e, <1>5, LongCloses DEF Long!Reset
<1>6. ASSUME NEW t \in timers, Long!Sleep(t)
      PROVE LongInv'
  <2> DEFINE u == [t EXCEPT !.over = TRUE]
  <2>1. timers' = (timers \ {t}) \cup {u}
        /\ UNCHANGED <<begun, open, kept, system, prompts, timer, texts, used, crossed>>
    BY <1>6 DEF Long!Sleep
  <2>2. t \in AllTimers /\ t.at \in Instances /\ t.of \in Long!Collections
    BY <1>f, TimersAre
  <2>3. u \in AllTimers /\ u.at = t.at /\ u.of = t.of /\ u.after = t.after
    <3>1. u = Long!Timer(t.at, t.of, t.after, TRUE) /\ u \in AllTimers
      BY <2>2, TimersAre
    <3> DEFINE v == Long!Timer(t.at, t.of, t.after, TRUE)
    <3>2. v.at = t.at /\ v.of = t.of /\ v.after = t.after
      BY DEF Long!Timer
    <3>3. QED
      BY <3>1, <3>2, Zenon
  <2> HIDE DEF u
  <2>4. LongTypes'
    <3>1. timers' \subseteq AllTimers /\ \A d \in Long!Collections : Long!Messages(d)' = Long!Messages(d)
      BY <1>f, <2>1, <2>3 DEF Long!Messages
    <3>2. QED
      BY <2>1, <3>1 DEF LongInv, LongTypes, Long!TypeOK, AllTimers
  <2>5. Long!UsedOnce' /\ LongPlaced'
    <3>1. \A d \in Long!Collections : Long!Messages(d)' = Long!Messages(d) /\ \A j \in Instances : Pending(j, d)' <=> Pending(j, d)
      BY <2>1 DEF Long!Messages, Pending
    <3>2. QED
      BY <2>1, <3>1 DEF LongInv, Long!UsedOnce, LongPlaced
  <2>6. Timed'
    BY <2>1, <2>2, <2>3 DEF LongInv, Timed
  <2>7. QED
    BY <2>4, <2>5, <2>6 DEF LongInv
<1>7. ASSUME NEW t \in timers, Long!Expire(t)
      PROVE LongInv'
  <2>1. open' = [open EXCEPT ![t.at] = 0] /\ timers' = timers \ {t}
        /\ UNCHANGED <<begun, kept, system, prompts, timer, texts, used, crossed>>
    BY <1>7 DEF Long!Expire
  <2>2. t.at \in Instances
    BY <1>f, TimersAre
  <2>3. open' \in [Instances -> 0..MaxBegun] /\ \A j \in Instances : open'[j] = IF j = t.at THEN 0 ELSE open[j]
    BY <1>b, <2>1, <2>2
  <2>4. \A d \in Long!Collections : Long!Messages(d)' = Long!Messages(d)
    BY <2>1 DEF Long!Messages
  <2>5. LongTypes'
    <3>1. \A j \in Instances : open'[j] <= begun
      BY <1>a, <1>g, <2>3
    <3>2. QED
      BY <1>a, <1>b, <1>c, <1>d, <1>e, <1>f, <1>g, <1>h, <2>1, <2>3, <2>4, <3>1 DEF LongTypes, Long!TypeOK, AllTimers
  <2>6. Long!UsedOnce'
    BY <2>1 DEF LongInv, Long!UsedOnce
  <2>7. \A j \in Instances, d \in Long!Collections : Pending(j, d)' => Pending(j, d)
    BY <2>1, <2>3 DEF Pending, Long!Collections
  <2>8. LongPlaced'
    <3>1. \A j \in Instances : open'[j] \notin prompts'[j]
      BY <1>a, <1>g, <2>1, <2>3 DEF LongInv, LongPlaced, Long!Collections
    <3>2. QED
      BY <2>1, <2>4, <2>7, <3>1 DEF LongInv, LongPlaced
  <2>9. Timed'
    BY <2>1, <2>2, <2>3 DEF LongInv, Timed
  <2>10. QED
    BY <2>5, <2>6, <2>8, <2>9 DEF LongInv
<1>8. ASSUME NEW i \in Instances, Long!Crash(i)
      PROVE LongInv'
  <2>1. /\ open' = [open EXCEPT ![i] = 0] /\ prompts' = [prompts EXCEPT ![i] = {}]
        /\ timers' = {t \in timers : t.at # i} /\ crossed' = crossed \ {i}
        /\ UNCHANGED <<begun, kept, system, timer, texts, used>>
    BY <1>8 DEF Long!Crash
  <2>2. /\ \A j \in Instances : open'[j] = IF j = i THEN 0 ELSE open[j]
        /\ \A j \in Instances : prompts'[j] = IF j = i THEN {} ELSE prompts[j]
        /\ open' \in [Instances -> 0..MaxBegun] /\ prompts' \in [Instances -> SUBSET Long!Collections]
    <3>1. /\ \A j \in Instances : open'[j] = IF j = i THEN 0 ELSE open[j]
          /\ open' \in [Instances -> 0..MaxBegun]
      BY <1>b, <2>1
    <3>2. \A j \in Instances : prompts'[j] = IF j = i THEN {} ELSE prompts[j]
      BY <1>b, <2>1
    <3>3. prompts' \in [Instances -> SUBSET Long!Collections]
      BY <1>b, <2>1
    <3>4. QED
      BY <3>1, <3>2, <3>3
  <2>3. \A d \in Long!Collections : Long!Messages(d)' = Long!Messages(d)
    BY <2>1 DEF Long!Messages
  <2>4. LongTypes'
    <3>1. \A j \in Instances : open'[j] <= begun' /\ prompts'[j] \subseteq 1..begun'
      BY <1>a, <1>g, <2>1, <2>2
    <3>2. QED
      BY <1>a, <1>c, <1>d, <1>e, <1>f, <1>h, <2>1, <2>2, <2>3, <3>1 DEF LongTypes, Long!TypeOK, AllTimers
  <2>5. Long!UsedOnce'
    BY <2>1 DEF LongInv, Long!UsedOnce
  <2>6. \A j \in Instances, d \in Long!Collections : Pending(j, d)' => Pending(j, d)
    BY <2>1, <2>2 DEF Pending, Long!Collections
  <2>7. LongPlaced'
    <3>1. \A j \in Instances : open'[j] \notin prompts'[j]
      BY <1>a, <1>g, <2>1, <2>2 DEF LongInv, LongPlaced, Long!Collections
    <3>2. QED
      BY <2>1, <2>3, <2>6, <3>1 DEF LongInv, LongPlaced
  <2>8. Timed'
    BY <2>1, <2>2 DEF LongInv, Timed
  <2>9. QED
    BY <2>4, <2>5, <2>7, <2>8 DEF LongInv
<1>9. QED
  BY <1>1, <1>2, <1>3, <1>4, <1>5, <1>6, <1>7, <1>8 DEF Long!Next

\* What it says of the messages.
LEMMA LongTruth ==
    ASSUME LongInv
    PROVE Long!TypeOK /\ Long!UsedOnce
BY DEF LongInv, LongTypes

\* What it says of the expiry of a collection.
LEMMA LongExplains ==
    ASSUME LongInv
    PROVE Long!ExpiresInTime
<1> SUFFICES ASSUME NEW t \in timers, Long!Expire(t), open[t.at] # 0, t.at \notin crossed
             PROVE t.of = open[t.at] /\ t.after = Len(kept[open[t.at]])
  BY DEF Long!ExpiresInTime
<1>1. t.at \in Instances \ crossed /\ t.of = open[t.at] /\ t.after = timer[open[t.at]]
  BY DEF LongInv, Timed
<1>2. open[t.at] \in Long!Collections
  BY <1>1 DEF LongInv, Timed
<1>3. QED
  BY <1>1, <1>2 DEF LongInv, Timed

-----------------------------------------------------------------------------
(* Pipes.                                                                  *)

LineOver == {"done", "gone"}

\* Where a pipe is says which of its lines have a turn.
Lined(p) ==
    /\ \A i \in 2..Lines : row[p][i] # "none" => row[p][i - 1] \in LineOver
    /\ pipe[p].at \in {"none", "born"} => \A i \in 1..Lines : row[p][i] = "none"
    /\ pipe[p].at = "born" => pipe[p].line = 1
    /\ pipe[p].at = "route" =>
         /\ \A i \in pipe[p].line..Lines : row[p][i] = "none"
         /\ pipe[p].line > 1 => row[p][pipe[p].line - 1] \in LineOver
    /\ pipe[p].at \in {"run", "check"} =>
         /\ \A i \in (pipe[p].line + 1)..Lines : row[p][i] = "none"
         /\ Pipes!Row(p) # "none"

\* A pipe that goes on, was stopped and has taken that is at a turn that is not done.
Stopped(p) ==
    Pipes!Live(p) /\ pipe[p].told /\ ~pipe[p].cancel /\ ~pipe[p].swallowed =>
        pipe[p].at = "check" /\ Pipes!Row(p) # "done"

PipesInv ==
    /\ Pipes!TypeOK
    /\ Pipes!LiveIsEntered
    /\ \A p \in Pipes!Pipes : Lined(p) /\ Stopped(p)

\* No pipe and no turn at first.
LEMMA PipesBegins == Pipes!Init => PipesInv
<1> SUFFICES ASSUME Pipes!Init PROVE PipesInv
  OBVIOUS
<1>1. 1 \in 1..Lines /\ 0 \in 0..MaxPipes
  BY PipesAssumption
<1>2. Pipes!TypeOK
  BY <1>1 DEF Pipes!Init, Pipes!TypeOK, Pipes!Task
<1>3. \A p \in Pipes!Pipes : pipe[p].at = "none" /\ \A i \in 1..Lines : row[p][i] = "none"
  BY DEF Pipes!Init, Pipes!Task
<1>4. QED
  BY <1>2, <1>3 DEF PipesInv, Pipes!LiveIsEntered, Pipes!Live, Lined, Stopped

\* The record of a pipe.
Tasks == [at : {"none", "born", "route", "run", "check", "ended"}, line : 1..Lines,
          cancel : BOOLEAN, told : BOOLEAN, usurped : BOOLEAN, swallowed : BOOLEAN]

\* What commands do to the task of a pipe.
LEMMA CancelledTask ==
    ASSUME Pipes!TypeOK, NEW p \in Pipes!Pipes
    PROVE /\ Pipes!Cancelled(p) \in Tasks
          /\ Pipes!Cancelled(p).at = pipe[p].at /\ Pipes!Cancelled(p).line = pipe[p].line
          /\ Pipes!Cancelled(p).usurped = pipe[p].usurped /\ Pipes!Cancelled(p).swallowed = pipe[p].swallowed
          /\ (p = entry /\ Pipes!Live(p)) => Pipes!Cancelled(p).cancel /\ Pipes!Cancelled(p).told
          /\ ~(p = entry /\ Pipes!Live(p)) => Pipes!Cancelled(p) = pipe[p]
BY DEF Pipes!TypeOK, Pipes!Cancelled, Tasks

\* A new task, or one that is over.
LEMMA TaskType ==
    ASSUME NEW at \in {"none", "born", "ended"}
    PROVE Pipes!Task(at) \in Tasks /\ Pipes!Task(at).at = at /\ Pipes!Task(at).line = 1
          /\ Pipes!Task(at).told = FALSE /\ Pipes!Task(at).cancel = FALSE
BY PipesAssumption DEF Pipes!Task, Tasks

\* The turns of a pipe.
Turned == [1..Lines -> {"none", "running", "done", "failed", "cancelled", "gone"}]

\* A step of a pipe that touches no other's task and turns.
LEMMA PipeAlone ==
    ASSUME PipesInv, NEW p \in Pipes!Pipes, NEW t \in Tasks, NEW r \in Turned,
           pipe' = [pipe EXCEPT ![p] = t], row' = [row EXCEPT ![p] = r], entry' = entry,
           t.at \notin {"none", "ended"} =>
               Pipes!Live(p) /\ (pipe[p].told => t.told) /\ (pipe[p].usurped => t.usurped),
           Lined(p)', Stopped(p)'
    PROVE PipesInv'
<1> USE DEF PipesInv
<1>1. pipe \in [Pipes!Pipes -> Tasks] /\ row \in [Pipes!Pipes -> Turned] /\ entry \in 0..MaxPipes
  BY DEF Pipes!TypeOK, Tasks, Turned
<1>2. pipe' \in [Pipes!Pipes -> Tasks] /\ row' \in [Pipes!Pipes -> Turned]
      /\ pipe'[p] = t /\ row'[p] = r
      /\ \A q \in Pipes!Pipes : q # p => pipe'[q] = pipe[q] /\ row'[q] = row[q]
  BY <1>1
<1>3. Pipes!TypeOK'
  BY <1>1, <1>2 DEF Pipes!TypeOK, Tasks, Turned
<1>4. Pipes!LiveIsEntered'
  BY <1>2 DEF Pipes!LiveIsEntered, Pipes!Live
<1>5. ASSUME NEW q \in Pipes!Pipes PROVE Lined(q)' /\ Stopped(q)'
  <2>1. CASE q = p
    BY <2>1
  <2>2. CASE q # p
    BY <1>2, <2>2 DEF Lined, Stopped, Pipes!Live, Pipes!Row
  <2>3. QED
    BY <2>1, <2>2
<1>6. QED
  BY <1>3, <1>4, <1>5

\* The end of a pipe: its turns stay, but for one that was about to be made.
LEMMA PipeEnds ==
    ASSUME PipesInv, NEW p \in Pipes!Pipes, Pipes!Ends(p), NEW r \in Turned, row' = [row EXCEPT ![p] = r],
           \A i \in 2..Lines : r[i] # "none" => r[i - 1] \in LineOver
    PROVE PipesInv'
<1> USE DEF PipesInv
<1>1. pipe \in [Pipes!Pipes -> Tasks] /\ row \in [Pipes!Pipes -> Turned] /\ entry \in 0..MaxPipes
  BY DEF Pipes!TypeOK, Tasks, Turned
<1>2. /\ row' \in [Pipes!Pipes -> Turned] /\ row'[p] = r
      /\ \A q \in Pipes!Pipes : q # p => row'[q] = row[q]
  BY <1>1
<1>3. entry' = 0 /\ pipe' = [q \in Pipes!Pipes |->
           IF q = p THEN Pipes!Task("ended")
           ELSE IF q = entry THEN [pipe[q] EXCEPT !.usurped = TRUE] ELSE pipe[q]]
  BY DEF Pipes!Ends
<1>4. Pipes!Task("ended") \in Tasks /\ Pipes!Task("ended").at = "ended"
  BY TaskType
<1>5. ASSUME NEW q \in Pipes!Pipes, q # p
      PROVE /\ pipe'[q] \in Tasks /\ pipe'[q].at = pipe[q].at /\ pipe'[q].line = pipe[q].line
            /\ pipe'[q].told = pipe[q].told /\ pipe'[q].cancel = pipe[q].cancel
            /\ pipe'[q].swallowed = pipe[q].swallowed
            /\ (pipe[q].usurped \/ q = entry) => pipe'[q].usurped
  BY <1>1, <1>3, <1>5 DEF Tasks
<1>6. pipe'[p].at = "ended" /\ pipe' \in [Pipes!Pipes -> Tasks]
  BY <1>3, <1>4, <1>5
<1>7. Pipes!TypeOK'
  BY <1>2, <1>3, <1>6, PipesAssumption DEF Pipes!TypeOK, Tasks, Turned
<1>8. Pipes!LiveIsEntered'
  BY <1>5, <1>6 DEF Pipes!LiveIsEntered, Pipes!Live
<1>9. ASSUME NEW q \in Pipes!Pipes PROVE Lined(q)' /\ Stopped(q)'
  <2>1. CASE q = p
    BY <1>2, <1>6, <2>1 DEF Lined, Stopped, Pipes!Live
  <2>2. CASE q # p
    BY <1>2, <1>5, <2>2 DEF Lined, Stopped, Pipes!Live, Pipes!Row
  <2>3. QED
    BY <2>1, <2>2
<1>10. QED
  BY <1>7, <1>8, <1>9

\* Commands and the task of a pipe keep it.
LEMMA PipesKeep ==
    ASSUME PipesInv, Pipes!Next
    PROVE PipesInv'
<1>1. pipe \in [Pipes!Pipes -> Tasks] /\ row \in [Pipes!Pipes -> Turned] /\ entry \in 0..MaxPipes /\ Pipes!TypeOK
  BY DEF PipesInv, Pipes!TypeOK, Tasks, Turned
<1>0. Lines \in Nat \ {0} /\ MaxPipes \in Nat
  BY PipesAssumption
<1>2. \A p \in Pipes!Pipes : pipe[p].line \in 1..Lines /\ Pipes!Row(p) \in {"none", "running", "done", "failed", "cancelled", "gone"}
      /\ pipe[p].line \in Nat
  BY <1>0, <1>1 DEF Tasks, Turned, Pipes!Row
<1>3. CASE Pipes!Stop
  <2>1. entry' = 0 /\ row' = row /\ pipe' = [q \in Pipes!Pipes |-> Pipes!Cancelled(q)]
    BY <1>3 DEF Pipes!Stop
  <2>2. ASSUME NEW q \in Pipes!Pipes
        PROVE /\ pipe'[q] \in Tasks /\ pipe'[q].at = pipe[q].at /\ pipe'[q].line = pipe[q].line
              /\ pipe'[q].usurped = pipe[q].usurped
              /\ Lined(q)' /\ Stopped(q)'
              /\ Pipes!Live(q)' /\ ~pipe'[q].told => pipe'[q].usurped
    <3>1. pipe'[q] = Pipes!Cancelled(q)
      BY <2>1
    <3>2. CASE q = entry /\ Pipes!Live(q)
      BY <1>1, <2>1, <3>1, <3>2, CancelledTask DEF PipesInv, Lined, Stopped, Pipes!Live, Pipes!Row
    <3>3. CASE ~(q = entry /\ Pipes!Live(q))
      BY <1>1, <2>1, <3>1, <3>3, CancelledTask DEF PipesInv, Lined, Stopped, Pipes!Live, Pipes!Row, Pipes!LiveIsEntered
    <3>4. QED
      BY <3>2, <3>3
  <2>3. Pipes!TypeOK'
    BY <1>0, <1>1, <2>1, <2>2 DEF Pipes!TypeOK, Tasks
  <2>4. QED
    BY <2>2, <2>3 DEF PipesInv, Pipes!LiveIsEntered
<1>4. CASE Pipes!Wipe
  <2>1. /\ entry' = 0
        /\ pipe' = [q \in Pipes!Pipes |->
               IF pipe[q].at = "run" THEN [pipe[q] EXCEPT !.cancel = TRUE, !.told = TRUE] ELSE Pipes!Cancelled(q)]
        /\ row' = [q \in Pipes!Pipes |-> [i \in 1..Lines |-> IF row[q][i] = "none" THEN "none" ELSE "gone"]]
    BY <1>4 DEF Pipes!Wipe
  <2>2. ASSUME NEW q \in Pipes!Pipes
        PROVE /\ pipe'[q] \in Tasks /\ row'[q] \in Turned
              /\ Lined(q)' /\ Stopped(q)'
              /\ Pipes!Live(q)' /\ ~pipe'[q].told => pipe'[q].usurped
    <3>0. row'[q] \in Turned /\ \A i \in 1..Lines : row'[q][i] = IF row[q][i] = "none" THEN "none" ELSE "gone"
      BY <2>1 DEF Turned
    <3>1. pipe'[q] \in Tasks /\ pipe'[q].at = pipe[q].at /\ pipe'[q].line = pipe[q].line
          /\ (pipe[q].at = "run" \/ (q = entry /\ Pipes!Live(q)) => pipe'[q].cancel /\ pipe'[q].told)
          /\ (~(pipe[q].at = "run" \/ (q = entry /\ Pipes!Live(q))) => pipe'[q] = pipe[q])
      <4>1. CASE pipe[q].at = "run"
        BY <1>1, <2>1, <4>1 DEF Tasks
      <4>2. CASE pipe[q].at # "run"
        BY <1>1, <2>1, <4>2, CancelledTask
      <4>3. QED
        BY <4>1, <4>2
    <3>2. Lined(q)
      BY DEF PipesInv
    <3>3. \A i \in 1..Lines : row[q][i] = "none" <=> row'[q][i] = "none"
      BY <3>0
    <3>4. \A i \in 2..Lines : i - 1 \in 1..Lines /\ i \in 1..Lines
      BY <1>0
    <3>5. Lined(q)'
      <4>1. \A i \in 2..Lines : row'[q][i] # "none" => row'[q][i - 1] \in LineOver
        BY <3>0, <3>2, <3>4 DEF Lined, LineOver
      <4>2. CASE pipe[q].at = "route"
        <5>1. pipe[q].line > 1 => pipe[q].line - 1 \in 1..Lines
          BY <1>0, <1>2
        <5>2. \A i \in pipe[q].line..Lines : i \in 1..Lines
          BY <1>0, <1>2
        <5>3. QED
          BY <3>0, <3>1, <3>2, <4>1, <4>2, <5>1, <5>2 DEF Lined, LineOver
      <4>3. CASE pipe[q].at \in {"run", "check"}
        <5>1. \A i \in (pipe[q].line + 1)..Lines : i \in 1..Lines
          BY <1>0, <1>2
        <5>2. QED
          BY <1>2, <3>0, <3>1, <3>2, <4>1, <4>3, <5>1 DEF Lined, LineOver, Pipes!Row
      <4>4. CASE pipe[q].at \notin {"route", "run", "check"}
        BY <3>0, <3>1, <3>2, <4>1, <4>4 DEF Lined
      <4>5. QED
        BY <4>2, <4>3, <4>4
    <3>6. Stopped(q)'
      BY <1>2, <3>0, <3>1 DEF PipesInv, Stopped, Pipes!Live, Pipes!Row
    <3>7. Pipes!Live(q)' /\ ~pipe'[q].told => pipe'[q].usurped
      BY <3>1 DEF PipesInv, Pipes!LiveIsEntered, Pipes!Live
    <3>8. QED
      BY <3>0, <3>1, <3>5, <3>6, <3>7
  <2>3. Pipes!TypeOK'
    <3>1. pipe' \in [Pipes!Pipes -> Tasks]
      BY <2>1, <2>2
    <3>2. row' \in [Pipes!Pipes -> Turned]
      <4>1. \A q \in Pipes!Pipes : row'[q] \in Turned
        BY <2>2
      <4>2. QED
        BY <2>1, <4>1
    <3>3. entry' \in 0..MaxPipes
      <4>1. entry' = 0
        BY <2>1
      <4>2. QED
        BY <1>0, <4>1
    <3>4. QED
      BY <3>1, <3>2, <3>3 DEF Pipes!TypeOK, Tasks, Turned
  <2>4. QED
    BY <2>2, <2>3 DEF PipesInv, Pipes!LiveIsEntered
<1>5. ASSUME NEW p \in Pipes!Pipes, Pipes!Command(p)
      PROVE PipesInv'
  <2>1. pipe[p].at = "none" /\ entry' = p /\ row' = row
        /\ pipe' = [q \in Pipes!Pipes |-> IF q = p THEN Pipes!Task("born") ELSE Pipes!Cancelled(q)]
    BY <1>5 DEF Pipes!Command
  <2>2. pipe'[p] = Pipes!Task("born") /\ Pipes!Task("born") \in Tasks /\ Pipes!Task("born").at = "born"
        /\ Pipes!Task("born").line = 1 /\ Pipes!Task("born").told = FALSE
    BY <2>1, TaskType
  <2>3. Lined(p)' /\ Stopped(p)'
    BY <2>1, <2>2 DEF PipesInv, Lined, Stopped
  <2>4. ASSUME NEW q \in Pipes!Pipes, q # p
        PROVE /\ pipe'[q] \in Tasks /\ pipe'[q].at = pipe[q].at
              /\ Lined(q)' /\ Stopped(q)'
              /\ Pipes!Live(q)' /\ ~pipe'[q].told => pipe'[q].usurped
    <3>1. pipe'[q] = Pipes!Cancelled(q)
      BY <2>1, <2>4
    <3>2. CASE q = entry /\ Pipes!Live(q)
      BY <1>1, <2>1, <3>1, <3>2, CancelledTask DEF PipesInv, Lined, Stopped, Pipes!Live, Pipes!Row
    <3>3. CASE ~(q = entry /\ Pipes!Live(q))
      BY <1>1, <2>1, <3>1, <3>3, CancelledTask DEF PipesInv, Lined, Stopped, Pipes!Live, Pipes!Row, Pipes!LiveIsEntered
    <3>4. QED
      BY <3>2, <3>3
  <2>5. Pipes!TypeOK'
    <3>1. \A q \in Pipes!Pipes : pipe'[q] \in Tasks
      BY <2>2, <2>4
    <3>2. pipe' \in [Pipes!Pipes -> Tasks] /\ entry' \in 0..MaxPipes
      BY <2>1, <3>1, PipesAssumption DEF Pipes!Pipes
    <3>3. QED
      BY <1>1, <2>1, <3>2 DEF Pipes!TypeOK, Tasks
  <2>6. QED
    BY <2>1, <2>3, <2>4, <2>5 DEF PipesInv, Pipes!LiveIsEntered
<1>6. ASSUME NEW p \in Pipes!Pipes, Pipes!StopTurn(p)
      PROVE PipesInv'
  <2> DEFINE t == [pipe[p] EXCEPT !.cancel = TRUE, !.told = TRUE]
  <2>1. pipe[p].at = "run" /\ pipe' = [pipe EXCEPT ![p] = t] /\ entry' = entry /\ row' = [row EXCEPT ![p] = row[p]]
    BY <1>1, <1>6 DEF Pipes!StopTurn
  <2>2. t \in Tasks /\ t.at = "run" /\ t.cancel /\ t.told /\ t.line = pipe[p].line /\ t.usurped = pipe[p].usurped
    BY <1>1, <2>1 DEF Tasks
  <2>3. Lined(p)' /\ Stopped(p)'
    BY <1>1, <2>1, <2>2 DEF PipesInv, Lined, Stopped, Pipes!Row
  <2>4. QED
    BY <1>1, <2>1, <2>2, <2>3, PipeAlone DEF Pipes!Live
<1>7. ASSUME NEW p \in Pipes!Pipes, Pipes!Start(p)
      PROVE PipesInv'
  <2> DEFINE t == IF pipe[p].cancel THEN Pipes!Task("ended") ELSE [pipe[p] EXCEPT !.at = "route"]
  <2>1. pipe[p].at = "born" /\ pipe' = [pipe EXCEPT ![p] = t] /\ entry' = entry /\ row' = [row EXCEPT ![p] = row[p]]
    BY <1>1, <1>7 DEF Pipes!Start
  <2>2. t \in Tasks /\ (t.at # "ended" =>
            /\ t.at = "route" /\ t.told = pipe[p].told /\ t.usurped = pipe[p].usurped
            /\ t.line = pipe[p].line /\ t.cancel = pipe[p].cancel /\ t.swallowed = pipe[p].swallowed)
    BY <1>1, <2>1, TaskType DEF Tasks
  <2>3. Lined(p)' /\ Stopped(p)'
    BY <1>1, <2>1, <2>2 DEF PipesInv, Lined, Stopped, Pipes!Row, Pipes!Live
  <2>4. QED
    BY <1>1, <2>1, <2>2, <2>3, PipeAlone DEF Pipes!Live
<1>8. ASSUME NEW p \in Pipes!Pipes, Pipes!Route(p)
      PROVE PipesInv'
  <2> DEFINE t == [pipe[p] EXCEPT !.at = "run"]
             r == [row[p] EXCEPT ![pipe[p].line] = "running"]
  <2>1. pipe[p].at = "route" /\ ~pipe[p].cancel /\ pipe' = [pipe EXCEPT ![p] = t] /\ entry' = entry
        /\ row' = [row EXCEPT ![p] = r]
    BY <1>1, <1>8 DEF Pipes!Route, Pipes!RowIs
  <2>2. t \in Tasks /\ t.at = "run" /\ t.told = pipe[p].told /\ t.usurped = pipe[p].usurped
        /\ t.line = pipe[p].line /\ t.cancel = pipe[p].cancel /\ t.swallowed = pipe[p].swallowed
    BY <1>1, <2>1 DEF Tasks
  <2>3. r \in Turned /\ r[t.line] = "running" /\ \A i \in 1..Lines : i # t.line => r[i] = row[p][i]
    BY <1>1, <1>2, <2>2 DEF Turned
  <2>4. pipe'[p] = t /\ row'[p] = r
    BY <1>1, <2>1
  <2>5. Lined(p)
    BY DEF PipesInv
  <2>6. \A i \in t.line..Lines : row[p][i] = "none"
    BY <2>1, <2>2, <2>5 DEF Lined
  <2>7. Lined(p)'
    <3>1. \A i \in 2..Lines : r[i] # "none" => r[i - 1] \in LineOver
      <4>1. ASSUME NEW i \in 2..Lines, r[i] # "none" PROVE r[i - 1] \in LineOver
        <5>1. i \in 1..Lines /\ i - 1 \in 1..Lines
          BY <1>0
        <5>2. i <= t.line
          BY <1>0, <1>2, <2>2, <2>3, <2>6, <4>1, <5>1
        <5>3. CASE i = t.line
          BY <1>2, <2>1, <2>2, <2>3, <2>5, <5>1, <5>3 DEF Lined
        <5>4. CASE i < t.line
          BY <1>2, <2>2, <2>3, <2>5, <4>1, <5>1, <5>4 DEF Lined
        <5>5. QED
          BY <1>2, <2>2, <5>2, <5>3, <5>4
      <4>2. QED
        BY <4>1
    <3>2. \A i \in (t.line + 1)..Lines : r[i] = "none"
      BY <1>0, <1>2, <2>2, <2>3, <2>6
    <3>3. QED
      BY <2>2, <2>3, <2>4, <3>1, <3>2 DEF Lined, Pipes!Row
  <2>8. Stopped(p)'
    BY <2>1, <2>2, <2>4 DEF PipesInv, Stopped, Pipes!Live
  <2>9. QED
    BY <2>1, <2>2, <2>3, <2>7, <2>8, PipeAlone DEF Pipes!Live
<1>9. ASSUME NEW p \in Pipes!Pipes, NEW end \in {"done", "failed", "cancelled", "running", "gone"},
             pipe[p].at = "run", entry' = entry, NEW c \in BOOLEAN, NEW w \in BOOLEAN,
             row' = [row EXCEPT ![p][pipe[p].line] = end],
             pipe' = [pipe EXCEPT ![p] = [pipe[p] EXCEPT !.at = "check", !.cancel = c, !.swallowed = w]],
             pipe[p].swallowed => w, ~c /\ ~w /\ pipe[p].told => end # "done"
      PROVE PipesInv'
  <2> DEFINE t == [pipe[p] EXCEPT !.at = "check", !.cancel = c, !.swallowed = w]
             r == [row[p] EXCEPT ![pipe[p].line] = end]
  <2>1. pipe' = [pipe EXCEPT ![p] = t] /\ row' = [row EXCEPT ![p] = r]
    BY <1>1, <1>9
  <2>2. t \in Tasks /\ t.at = "check" /\ t.told = pipe[p].told /\ t.usurped = pipe[p].usurped
        /\ t.line = pipe[p].line /\ t.cancel = c /\ t.swallowed = w
    BY <1>1 DEF Tasks
  <2>3. r \in Turned /\ r[t.line] = end /\ \A i \in 1..Lines : i # t.line => r[i] = row[p][i]
    BY <1>1, <1>2, <2>2 DEF Turned
  <2>4. pipe'[p] = t /\ row'[p] = r
    BY <1>1, <2>1
  <2>5. Lined(p)
    BY DEF PipesInv
  <2>6. \A i \in (t.line + 1)..Lines : row[p][i] = "none"
    BY <1>9, <2>2, <2>5 DEF Lined
  <2>7. Lined(p)'
    <3>1. \A i \in 2..Lines : r[i] # "none" => r[i - 1] \in LineOver
      <4>1. ASSUME NEW i \in 2..Lines, r[i] # "none" PROVE r[i - 1] \in LineOver
        <5>1. i \in 1..Lines /\ i - 1 \in 1..Lines
          BY <1>0
        <5>2. i <= t.line
          BY <1>0, <1>2, <2>2, <2>3, <2>6, <4>1, <5>1
        <5>3. row[p][i] # "none"
          BY <1>9, <2>2, <2>3, <2>5, <4>1, <5>1 DEF Lined, Pipes!Row
        <5>4. r[i - 1] = row[p][i - 1]
          BY <1>2, <2>2, <2>3, <5>1, <5>2
        <5>5. QED
          BY <2>5, <5>3, <5>4 DEF Lined
      <4>2. QED
        BY <4>1
    <3>2. \A i \in (t.line + 1)..Lines : r[i] = "none"
      BY <1>0, <1>2, <2>2, <2>3, <2>6
    <3>3. QED
      BY <2>2, <2>3, <2>4, <3>1, <3>2 DEF Lined, Pipes!Row
  <2>8. Stopped(p)'
    BY <1>9, <2>2, <2>3, <2>4 DEF Stopped, Pipes!Row
  <2>9. QED
    <3>1. Pipes!Live(p) /\ (pipe[p].told => t.told) /\ (pipe[p].usurped => t.usurped)
      BY <1>9, <2>2 DEF Pipes!Live
    <3> HIDE DEF t, r
    <3>2. QED
      BY <1>9, <2>1, <2>2, <2>3, <2>7, <2>8, <3>1, PipeAlone
<1>10. ASSUME NEW p \in Pipes!Pipes, Pipes!RunEnds(p)
      PROVE PipesInv'
  <2>1. PICK end \in {"done", "failed"} : Pipes!RowIs(p, IF Pipes!Row(p) = "gone" THEN "gone" ELSE end)
    BY <1>10 DEF Pipes!RunEnds
  <2>2. pipe[p].at = "run" /\ ~pipe[p].cancel /\ entry' = entry /\ pipe' = [pipe EXCEPT ![p].at = "check"]
    BY <1>10 DEF Pipes!RunEnds
  <2>3. pipe[p].cancel \in BOOLEAN /\ pipe[p].swallowed \in BOOLEAN
        /\ pipe[p] = [pipe[p] EXCEPT !.cancel = @, !.swallowed = @]
    BY <1>1 DEF Tasks
  <2>4. pipe' = [pipe EXCEPT ![p] = [pipe[p] EXCEPT !.at = "check", !.cancel = pipe[p].cancel, !.swallowed = pipe[p].swallowed]]
    BY <1>1, <2>2 DEF Tasks
  <2>5. pipe[p].told => pipe[p].swallowed
    BY <2>2 DEF PipesInv, Stopped, Pipes!Live
  <2>6. QED
    BY <1>9, <2>1, <2>2, <2>3, <2>4, <2>5 DEF Pipes!RowIs
<1>11. ASSUME NEW p \in Pipes!Pipes, Pipes!RunIsStopped(p)
      PROVE PipesInv'
  <2>1. PICK end \in {"cancelled", "running"} : Pipes!RowIs(p, IF Pipes!Row(p) = "gone" THEN "gone" ELSE end)
    BY <1>11 DEF Pipes!RunIsStopped
  <2>2. pipe[p].at = "run" /\ entry' = entry /\ pipe' = [pipe EXCEPT ![p].at = "check", ![p].cancel = FALSE]
    BY <1>11 DEF Pipes!RunIsStopped
  <2>3. pipe[p].swallowed \in BOOLEAN
    BY <1>1 DEF Tasks
  <2>4. pipe' = [pipe EXCEPT ![p] = [pipe[p] EXCEPT !.at = "check", !.cancel = FALSE, !.swallowed = pipe[p].swallowed]]
    BY <1>1, <2>2 DEF Tasks
  <2>5. QED
    BY <1>9, <2>1, <2>2, <2>3, <2>4 DEF Pipes!RowIs
<1>12. ASSUME NEW p \in Pipes!Pipes, Pipes!RunSwallows(p)
      PROVE PipesInv'
  <2>1. Pipes!RowIs(p, IF Pipes!Row(p) = "gone" THEN "gone" ELSE "done")
    BY <1>12 DEF Pipes!RunSwallows
  <2>2. pipe[p].at = "run" /\ entry' = entry
        /\ pipe' = [pipe EXCEPT ![p].at = "check", ![p].cancel = FALSE, ![p].swallowed = TRUE]
    BY <1>12 DEF Pipes!RunSwallows
  <2>3. pipe' = [pipe EXCEPT ![p] = [pipe[p] EXCEPT !.at = "check", !.cancel = FALSE, !.swallowed = TRUE]]
    BY <1>1, <2>2 DEF Tasks
  <2>4. QED
    BY <1>9, <2>1, <2>2, <2>3 DEF Pipes!RowIs
<1>13. ASSUME NEW p \in Pipes!Pipes, Pipes!Interrupted(p)
      PROVE PipesInv'
  <2>1. PICK end : /\ Pipes!RowIs(p, end) /\ (end = Pipes!Row(p) \/ (pipe[p].at = "route" /\ end = "running"))
    BY <1>13 DEF Pipes!Interrupted
  <2> DEFINE r == [row[p] EXCEPT ![pipe[p].line] = end]
  <2>2. r \in Turned /\ r[pipe[p].line] = end /\ \A i \in 1..Lines : i # pipe[p].line => r[i] = row[p][i]
    BY <1>1, <1>2, <2>1 DEF Turned
  <2>3. row' = [row EXCEPT ![p] = r]
    BY <1>1, <2>1 DEF Pipes!RowIs
  <2>4. Lined(p) /\ Pipes!Ends(p)
    BY <1>13 DEF PipesInv, Pipes!Interrupted
  <2>5. ASSUME NEW i \in 2..Lines, r[i] # "none" PROVE r[i - 1] \in LineOver
    <3>1. i \in 1..Lines /\ i - 1 \in 1..Lines
      BY <1>0
    <3>2. CASE end = Pipes!Row(p)
      BY <1>1, <1>2, <2>2, <2>4, <2>5, <3>1, <3>2 DEF Lined, Pipes!Row
    <3>3. CASE pipe[p].at = "route" /\ end = "running"
      <4>1. i <= pipe[p].line
        BY <1>0, <1>2, <2>2, <2>4, <2>5, <3>1, <3>3 DEF Lined
      <4>2. CASE i = pipe[p].line
        BY <1>2, <2>2, <2>4, <3>1, <3>3, <4>2 DEF Lined
      <4>3. CASE i < pipe[p].line
        BY <1>2, <2>2, <2>4, <2>5, <3>1, <4>3 DEF Lined
      <4>4. QED
        BY <1>2, <4>1, <4>2, <4>3
    <3>4. QED
      BY <2>1, <3>2, <3>3
  <2>6. QED
    BY <2>2, <2>3, <2>4, <2>5, PipeEnds
<1>14. ASSUME NEW p \in Pipes!Pipes, Pipes!Check(p)
      PROVE PipesInv'
  <2>1. pipe[p].at = "check" /\ ~pipe[p].cancel /\ row' = row
    BY <1>14 DEF Pipes!Check
  <2>2. CASE Pipes!GoesOn(p) /\ pipe[p].line < Lines
    <3> DEFINE t == [pipe[p] EXCEPT !.at = "route", !.line = @ + 1]
    <3>1. pipe' = [pipe EXCEPT ![p] = t] /\ entry' = entry /\ row' = [row EXCEPT ![p] = row[p]] /\ Pipes!Row(p) = "done"
      BY <1>1, <1>14, <2>1, <2>2 DEF Pipes!Check, Pipes!GoesOn
    <3>2. t \in Tasks /\ t.at = "route" /\ t.told = pipe[p].told /\ t.usurped = pipe[p].usurped
          /\ t.line = pipe[p].line + 1 /\ t.cancel = pipe[p].cancel /\ t.swallowed = pipe[p].swallowed
      <4>1. pipe[p] \in Tasks /\ pipe[p].line + 1 \in 1..Lines
        BY <1>0, <1>1, <1>2, <2>2
      <4>2. QED
        BY <4>1 DEF Tasks
    <3>3. Lined(p)'
      BY <1>1, <1>2, <2>1, <3>1, <3>2 DEF PipesInv, Lined, Pipes!Row, LineOver
    <3>4. Stopped(p)'
      BY <1>1, <2>1, <3>1, <3>2 DEF PipesInv, Stopped, Pipes!Live
    <3>5. QED
      BY <1>1, <2>1, <3>1, <3>2, <3>3, <3>4, PipeAlone DEF Pipes!Live
  <2>3. CASE ~(Pipes!GoesOn(p) /\ pipe[p].line < Lines)
    <3>1. Pipes!Ends(p) /\ row' = [row EXCEPT ![p] = row[p]]
      BY <1>1, <1>14, <2>1, <2>3 DEF Pipes!Check
    <3>2. \A i \in 2..Lines : row[p][i] # "none" => row[p][i - 1] \in LineOver
      BY DEF PipesInv, Lined
    <3>3. QED
      BY <1>1, <3>1, <3>2, PipeEnds
  <2>4. QED
    BY <2>2, <2>3
<1>15. QED
  BY <1>3, <1>4, <1>5, <1>6, <1>7, <1>8, <1>10, <1>11, <1>12, <1>13, <1>14 DEF Pipes!Next

\* What it says of the pipes and of their steps.
LEMMA PipesTruth == PipesInv => Pipes!TypeOK /\ Pipes!LiveIsEntered /\ Pipes!LinesFollow
BY DEF PipesInv, Lined, Pipes!LinesFollow, LineOver

\* A pipe that was stopped starts no turn, unless its answer was taken.
LEMMA PipesExplain ==
    ASSUME PipesInv, Pipes!Next \/ UNCHANGED Pipes!vars
    PROVE Pipes!StoppedStartsNone
<1> SUFFICES ASSUME NEW p \in Pipes!Pipes, pipe[p].at = "route", pipe'[p].at = "run"
             PROVE ~pipe[p].told \/ pipe[p].swallowed
  BY DEF Pipes!StoppedStartsNone
<1>1. pipe \in [Pipes!Pipes -> Tasks] /\ Pipes!TypeOK
  BY DEF PipesInv, Pipes!TypeOK, Tasks
<1>2. ~pipe[p].cancel
  <2>1. ASSUME pipe'[p].at = pipe[p].at PROVE FALSE
    BY <2>1
  <2>2. \A q \in Pipes!Pipes : pipe' = [pipe EXCEPT ![q] = pipe'[q]] /\ q # p => FALSE
    BY <1>1
  <2>3. \A q \in Pipes!Pipes : Pipes!Cancelled(q).at = pipe[q].at
    BY <1>1, CancelledTask
  <2>4. ~Pipes!Stop
    BY <2>3 DEF Pipes!Stop
  <2>5. ~Pipes!Wipe
    BY <1>1, <2>3 DEF Pipes!Wipe, Tasks
  <2>6. ASSUME NEW q \in Pipes!Pipes
        PROVE ~Pipes!Command(q) /\ ~Pipes!StopTurn(q) /\ ~Pipes!Start(q) /\ ~Pipes!RunEnds(q) /\ ~Pipes!RunIsStopped(q) /\ ~Pipes!RunSwallows(q)
              /\ ~Pipes!Ends(q)
    <3>1. ~Pipes!Command(q)
      BY <2>3 DEF Pipes!Command
    <3>2. ~Pipes!StopTurn(q)
      BY <1>1 DEF Pipes!StopTurn, Tasks
    <3>3. ~Pipes!Start(q)
      BY <1>1 DEF Pipes!Start, Tasks
    <3>4. ~Pipes!RunEnds(q) /\ ~Pipes!RunIsStopped(q) /\ ~Pipes!RunSwallows(q)
      BY <1>1 DEF Pipes!RunEnds, Pipes!RunIsStopped, Pipes!RunSwallows, Tasks
    <3>5. ~Pipes!Ends(q)
      BY <1>1, TaskType DEF Pipes!Ends, Tasks
    <3>6. QED
      BY <3>1, <3>2, <3>3, <3>4, <3>5
  <2>7. ASSUME NEW q \in Pipes!Pipes PROVE ~Pipes!Interrupted(q) /\ ~Pipes!Check(q)
    BY <1>1, <2>6 DEF Pipes!Interrupted, Pipes!Check, Tasks
  <2>8. PICK q \in Pipes!Pipes : Pipes!Route(q)
    BY <2>4, <2>5, <2>6, <2>7 DEF Pipes!Next, Pipes!vars
  <2>9. QED
    BY <1>1, <2>8 DEF Pipes!Route, Tasks
<1>3. QED
  BY <1>2 DEF PipesInv, Stopped, Pipes!Live

-----------------------------------------------------------------------------
(* The components of MCTurns together: each moves while it is on.          *)

TurnsIInv ==
    /\ on = "loop" => LoopIInv
    /\ on = "model" => ModelInv
    /\ on = "long" => LongInv
    /\ on = "pipe" => PipesInv

\* A step of the whole is one of the component that is on.
LEMMA TurnsGoOn == [TurnsNext]_allVars =>
    /\ on' = on
    /\ on = "loop" => [Loop!Next]_(Loop!vars)
    /\ on = "model" => [Model!Next]_(Model!vars)
    /\ on = "long" => [Long!Next]_(Long!vars)
    /\ on = "pipe" => [Pipes!Next]_(Pipes!vars)
<1> SUFFICES ASSUME [TurnsNext]_allVars
             PROVE  /\ on' = on
                    /\ on = "loop" => [Loop!Next]_(Loop!vars)
                    /\ on = "model" => [Model!Next]_(Model!vars)
                    /\ on = "long" => [Long!Next]_(Long!vars)
                    /\ on = "pipe" => [Pipes!Next]_(Pipes!vars)
  OBVIOUS
<1>1. CASE TurnsNext
  BY <1>1 DEF TurnsNext
<1>2. CASE UNCHANGED allVars
  <2>1. on' = on /\ UNCHANGED <<loopVars, modelVars, longVars, pipesVars>>
    BY <1>2 DEF allVars
  <2>2. /\ UNCHANGED Loop!vars /\ UNCHANGED Model!vars
        /\ UNCHANGED Long!vars /\ UNCHANGED Pipes!vars
    BY <2>1 DEF loopVars, modelVars, longVars, pipesVars, Loop!vars, Model!vars, Long!vars,
                Pipes!vars
  <2> QED BY <2>1, <2>2
<1> QED BY <1>1, <1>2

\* Inputs that stay as they are keep what is true of them.
LEMMA LongStays == LongInv /\ UNCHANGED Long!vars => LongInv'
<1> SUFFICES ASSUME LongInv, UNCHANGED Long!vars PROVE LongInv'
  OBVIOUS
<1>1. UNCHANGED <<begun, open, kept, system, prompts, timers, timer, texts, used, crossed>>
  BY DEF Long!vars
<1>2. \A c \in Long!Collections : Long!Messages(c)' = Long!Messages(c)
  BY <1>1 DEF Long!Messages
<1>3. LongTypes'
  BY <1>1, <1>2 DEF LongInv, LongTypes, Long!TypeOK, Long!Timers, Long!Timer
<1>4. Long!UsedOnce'
  BY <1>1 DEF LongInv, Long!UsedOnce
<1>5. LongPlaced'
  BY <1>1, <1>2 DEF LongInv, LongPlaced, Pending
<1>6. Timed'
  BY <1>1 DEF LongInv, Timed
<1> QED BY <1>3, <1>4, <1>5, <1>6 DEF LongInv

\* So do pipes.
LEMMA PipesStay == PipesInv /\ UNCHANGED Pipes!vars => PipesInv'
  BY DEF Pipes!vars, PipesInv, Pipes!TypeOK, Pipes!Pipes, Stopped, Pipes!Row, Pipes!Live,
         Pipes!LiveIsEntered, Lined, LineOver

\* The invariant holds at the start.
LEMMA TurnsBegin == TurnsInit => TurnsIInv
<1>1. TurnsInit => /\ Loop!Init
                   /\ on = "model" => Model!Init
                   /\ on = "long" => Long!Init
                   /\ on = "pipe" => Pipes!Init
  BY DEF TurnsInit
<1> QED BY <1>1, LoopInit, ModelBegins, LongBegins, PipesBegins DEF TurnsIInv

\* Every step keeps it.
LEMMA TurnsKeep == TurnsIInv /\ [TurnsNext]_allVars => TurnsIInv'
<1> SUFFICES ASSUME TurnsIInv, [TurnsNext]_allVars PROVE TurnsIInv'
  OBVIOUS
<1>1. ASSUME on = "loop" PROVE LoopIInv'
  BY <1>1, TurnsGoOn, LoopStep DEF TurnsIInv
<1>2. ASSUME on = "model" PROVE ModelInv'
  BY <1>2, TurnsGoOn, ModelKeeps DEF TurnsIInv
<1>3. ASSUME on = "long" PROVE LongInv'
  BY <1>3, TurnsGoOn, LongKeeps, LongStays DEF TurnsIInv
<1>4. ASSUME on = "pipe" PROVE PipesInv'
  BY <1>4, TurnsGoOn, PipesKeep, PipesStay DEF TurnsIInv
<1> QED BY <1>1, <1>2, <1>3, <1>4, TurnsGoOn DEF TurnsIInv

\* A checkpoint that is loaded lags by two at most, and what the model is sent
\* alternates: loop.run after any number of resumes.
THEOREM CheckpointsCorrect == TurnsSpec => []CheckpointsAreTrue
<1>1. TurnsIInv => CheckpointsAreTrue
  BY TypedIsTypeOK, LoopLags, LoopAlternates DEF TurnsIInv, LoopIInv, CheckpointsAreTrue
<1> QED BY <1>1, TurnsBegin, TurnsKeep, PTL DEF TurnsSpec

\* A reply that took several streams of the model is whole, whichever sessions gave
\* them: opal's client and its continuation.
THEOREM RepliesCorrect == TurnsSpec => []RepliesAreTrue
<1>1. TurnsIInv => RepliesAreTrue
  BY ModelTruth DEF TurnsIInv, RepliesAreTrue
<1> QED BY <1>1, TurnsBegin, TurnsKeep, PTL DEF TurnsSpec

\* A message of a long input is used once; a pipe that is alive is entered, and its
\* lines follow one another: the handlers of long input and of /pipe.
THEOREM InputsCorrect == TurnsSpec => []InputsAreTrue
<1>1. TurnsIInv => InputsAreTrue
  <2>1. LongInv => Long!TypeOK /\ Long!UsedOnce
    BY LongTruth
  <2> QED BY <2>1, PipesTruth DEF TurnsIInv, InputsAreTrue
<1> QED BY <1>1, TurnsBegin, TurnsKeep, PTL DEF TurnsSpec

\* Outputs that are known stay known, and a block is started again only while its
\* output is not: checkpoints.save, load and clear, and blocks.Runner.  A session is
\* disabled by its own refusal only, a collection expires in its time, and a pipe
\* that was stopped starts no turn.
THEOREM StepsCorrect == TurnsSpec => StepsAreExplained
<1>1. TurnsIInv /\ TurnsIInv' /\ [TurnsNext]_allVars
        => [/\ on = "loop" => Loop!KeepsOutputs /\ Loop!RepeatsInFlight
            /\ on = "model" => Model!BlamesAUsedOne
            /\ on = "long" => Long!ExpiresInTime
            /\ on = "pipe" => Pipes!StoppedStartsNone]_allVars
  <2> SUFFICES ASSUME TurnsIInv, TurnsIInv', [TurnsNext]_allVars
               PROVE  /\ on = "loop" => Loop!KeepsOutputs /\ Loop!RepeatsInFlight
                      /\ on = "model" => Model!BlamesAUsedOne
                      /\ on = "long" => Long!ExpiresInTime
                      /\ on = "pipe" => Pipes!StoppedStartsNone
    OBVIOUS
  <2>1. ASSUME on = "loop" PROVE Loop!KeepsOutputs /\ Loop!RepeatsInFlight
    BY <2>1, TurnsGoOn, OutputsStep DEF TurnsIInv
  <2>2. ASSUME on = "model" PROVE Model!BlamesAUsedOne
    BY <2>2, TurnsGoOn, ModelExplains DEF TurnsIInv
  <2>3. ASSUME on = "long" PROVE Long!ExpiresInTime
    BY <2>3, TurnsGoOn, LongExplains DEF TurnsIInv
  <2>4. ASSUME on = "pipe" PROVE Pipes!StoppedStartsNone
    BY <2>4, TurnsGoOn, PipesExplain DEF TurnsIInv
  <2> QED BY <2>1, <2>2, <2>3, <2>4
<1> QED BY <1>1, TurnsBegin, TurnsKeep, PTL DEF TurnsSpec, StepsAreExplained
=============================================================================
